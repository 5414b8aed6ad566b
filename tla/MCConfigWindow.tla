--------------------------- MODULE MCConfigWindow ---------------------------
(* Two windows, an item of two values, and three of the four layers: BBR   *)
(* is a layer like FLASH. A receiver as it was made, and one whose item    *)
(* was changed in RAM only after its default had been stored.              *)
EXTENDS ConfigWindow

MCPollLayers == <<"DEFAULT", "RAM", "FLASH">>
MCStoreLayers == {{}, {"FLASH"}, {"RAM", "FLASH"}}
MCConfigs == {[DEFAULT |-> 0, RAM |-> 0, FLASH |-> NoValue],
              [DEFAULT |-> 0, RAM |-> 1, FLASH |-> 0]}
=============================================================================
