--------------------------- MODULE MCRxSetConfig ---------------------------
(* Two transactions and a single message that set the same keys, a list    *)
(* that is too long, and an empty one.                                     *)
EXTENDS RxSetConfig

MCKeys == {"a", "b", "c", "d", "e"}
MCCalls == << <<"a", "b", "c">>, <<"c", "b", "d", "a">>, <<"b">>,
              <<"a", "b", "c", "d", "e">>, <<>> >>
=============================================================================
