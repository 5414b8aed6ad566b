--------------------------- MODULE MCRxGetConfig ---------------------------
(* Layers that end within a page, or at its end, have no data, or too much. *)
EXTENDS RxGetConfig

MCConfig == [l \in Layers |->
    CASE l = "RAM"     -> <<"r1", "r2", "r3">>
      [] l = "BBR"     -> <<>>
      [] l = "FLASH"   -> <<"f1", "f2">>
      [] l = "DEFAULT" -> <<"d1", "d2", "d3", "d4", "d5", "d6">>]

MCCalls == <<"RAM", "BBR", "FLASH", "DEFAULT">>
MCNakCalls == <<"BBR", "FLASH">>
=============================================================================
