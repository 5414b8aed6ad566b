------------------------------ MODULE MCTelnet ------------------------------
(* Servers that agree, refuse, change their mind and say too much, and then
   send suboptions of all kinds and data.                                  *)
EXTENDS Telnet

MCOptions == {"WILL", "DO"} \X {"BINARY", "COM_PORT"}

Agreed == << Says("DO", "BINARY"), Says("DO", "COM_PORT"), Says("WILL", "BINARY"), Says("WILL", "COM_PORT") >>
Extra == {Says(c, o) : c \in {"WILL", "WONT", "DO", "DONT"}, o \in {"BINARY", "COM_PORT"}}
            \cup {Says("WILL", "ECHO"), Command("NOP"), Datum("x"), Suboption(<<"COM_PORT", "x", "x">>)}
Answers == {InsertAt(Agreed, i, e) : i \in 1..4, e \in Extra} \cup {Append(Agreed, e) : e \in Extra}

Suboptions == {Suboption(args) : args \in UNION {[1..n -> {"x", "IAC", "SE"}] : n \in 0..4}}
After == <<Datum("x"), Datum("IAC"), Datum("SE")>>

MCStreams == {a \o After : a \in Answers} \cup {Agreed \o <<s>> \o After : s \in Suboptions}
MCBlindStreams == {Agreed \o <<Suboption(<<"COM_PORT", "x">>)>> \o After}

MCWrites == [1..3 -> {"x", "IAC"}]
=============================================================================
