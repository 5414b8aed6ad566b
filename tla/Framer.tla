------------------------------- MODULE Framer -------------------------------
(***************************************************************************)
(* What the message parser promises: it cuts the stream of accepted bytes  *)
(* into messages from left to right. A message is delivered at the first   *)
(* position where one is recognised, and a byte is skipped only when no    *)
(* message starts there. How the stream was chunked, and how the skipped   *)
(* bytes are reported as garbage, is left open.                            *)
(***************************************************************************)
EXTENDS Integers, Sequences

CONSTANT Recognise(_)   \* bytes -> [type, size], size as in Recognisers

VARIABLES
    input,      \* all the bytes accepted so far
    pos,        \* how many of them have been decided upon
    msgs        \* the messages delivered: [type, at, data]

vars == <<input, pos, msgs>>

From(i) == SubSeq(input, i + 1, Len(input))

Init == input = <<>> /\ pos = 0 /\ msgs = {}

Accept ==
    /\ Len(input') > Len(input)
    /\ SubSeq(input', 1, Len(input)) = input
    /\ UNCHANGED <<pos, msgs>>

Skip(n) ==
    /\ \A i \in pos .. n - 1 : Recognise(From(i)).size = 0
    /\ pos' = n
    /\ UNCHANGED <<input, msgs>>

Deliver ==
    /\ pos < Len(input)
    /\ LET r == Recognise(From(pos))
       IN  /\ r.size > 0
           /\ msgs' = msgs \cup {[type |-> r.type, at |-> pos,
                                  data |-> SubSeq(From(pos), 1, r.size)]}
           /\ pos' = pos + r.size
    /\ UNCHANGED input

Next ==
    \/ Accept
    \/ \E n \in pos + 1 .. Len(input) : Skip(n)
    \/ Deliver

Spec == Init /\ [][Next]_vars
=============================================================================
