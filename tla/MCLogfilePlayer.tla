-------------------------- MODULE MCLogfilePlayer --------------------------
(* A logfile of a few messages, for TLC.                                   *)
EXTENDS LogfilePlayer

MCMaxCommands == [n \in 1 .. MaxOpens |-> IF n = 1 THEN 3 ELSE 2]
MCNameSets == {1 .. NumMsgs, {NumMsgs}}
=============================================================================
