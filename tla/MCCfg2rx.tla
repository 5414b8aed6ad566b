------------------------------ MODULE MCCfg2rx ------------------------------
(* Two items that the receiver has and one that it has not, of two values. *)
EXTENDS Cfg2rx

MCKnown == {"a", "b"}
MCDefault == [k \in MCKnown |-> 0]
MCLayerArgs == {{"RAM"}, {"FLASH"}, {"BBR", "FLASH"}}
=============================================================================
