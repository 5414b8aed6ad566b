----------------------------- MODULE BoundedLog -----------------------------
(***************************************************************************)
(* What the database of epochs promises: a log that keeps the newest Size  *)
(* entries in their order, and that can be emptied.                        *)
(***************************************************************************)
EXTENDS Naturals, Sequences

CONSTANTS Size, Raw

VARIABLE log

Init == log = <<>>

(* A new entry comes last, and takes the place of the oldest if need be    *)
Add ==
    /\ log' # <<>>
    /\ LET new == log'[Len(log')] IN
        /\ new \in Raw
        /\ log' = Append(IF Len(log) < Size THEN log ELSE Tail(log), new)

Empty == log' = <<>>

Next == Empty \/ Add

Spec == Init /\ [][Next]_log
=============================================================================
