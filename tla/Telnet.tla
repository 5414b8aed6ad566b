------------------------------- MODULE Telnet -------------------------------
(***************************************************************************)
(* ff_port.c: a port on a telnet server with RFC 2217 options. Opening it  *)
(* negotiates the options. Afterwards data and inband signalling come mixed*)
(* in one stream of bytes, which TCP cuts anywhere, and data to be sent is *)
(* escaped. All calls come from one thread.                                *)
(***************************************************************************)
EXTENDS Integers, FiniteSets, Sequences, SequencesExt

CONSTANTS
    Options,        \* what is negotiated: pairs of a command and an option
    InbandSize,     \* sizeof(PORT_t.tnInband), 12
    PacketSize,     \* TCPIP_MAX_PACKET_SIZE, 256
    ReadSize,       \* bytes that a call of recv() may return
    Streams,        \* what servers send, sequences of items
    Writes          \* what is written, sequences of bytes

Bytes == {"IAC", "SE", "NOP", "SB", "WILL", "WONT", "DO", "DONT", "BINARY", "COM_PORT", "ECHO", "x"}

ASSUME TelnetAssumption ==
    /\ Options \subseteq {"WILL", "WONT", "DO", "DONT"} \X Bytes
    /\ InbandSize \in Nat /\ InbandSize >= 3
    /\ PacketSize \in Nat /\ PacketSize >= 2
    /\ ReadSize \in Nat \ {0}
    /\ Writes \subseteq Seq(Bytes)

VARIABLES
    items,          \* what the server sends
    phase,          \* of the connection
    inRead,         \* whether a read is being processed
    taken, nIn,     \* bytes processed, and those of this read still to process
    tnState,        \* of _telnetProcessInband()
    inband,         \* PORT_t.tnInband up to nTnInband,
    overflow,       \* which is -1 or -2 when it was too much
    agree,          \* on which options we do
    out,            \* data found in the bytes of this read
    got, start,     \* history: data returned, and how many bytes were taken before
    data,           \* what is still to be written,
    buf, sendNow,   \* and what is collected for a packet
    wire, writing   \* history of a write: the packets sent, and all of the data

readVars == <<inRead, taken, nIn, tnState, inband, overflow, agree, out, got, start>>
writeVars == <<data, buf, sendNow, wire, writing>>
telnetVars == <<items, phase, readVars, writeVars>>
-----------------------------------------------------------------------------
(* The server. Within a suboption it escapes IAC, too.                     *)
EscapeByte(b) == IF b = "IAC" THEN <<"IAC", "IAC">> ELSE <<b>>
Escape(s) == FlattenSeq([i \in 1..Len(s) |-> EscapeByte(s[i])])

Datum(b) == [bytes |-> EscapeByte(b), data |-> <<b>>, args |-> <<>>]
Command(c) == [bytes |-> <<"IAC", c>>, data |-> <<>>, args |-> <<>>]
Says(c, o) == [bytes |-> <<"IAC", c, o>>, data |-> <<>>, args |-> <<>>]
Suboption(args) ==
    [bytes |-> <<"IAC", "SB">> \o Escape(args) \o <<"IAC", "SE">>, data |-> <<>>, args |-> args]

(* What a server may send outside of suboptions, and what it sends at all   *)
Verbs == {"WILL", "WONT", "DO", "DONT"}
IsItem(item) ==
    \/ \E b \in Bytes : item = Datum(b)
    \/ \E c \in Bytes \ (Verbs \cup {"IAC", "SB"}) : item = Command(c)
    \/ \E c \in Verbs, o \in Bytes : item = Says(c, o)
    \/ item.args \in Seq(Bytes) /\ item = Suboption(item.args)

ASSUME ServerAssumption ==
    \A s \in Streams : s \in Seq(Range(s)) /\ \A i \in 1..Len(s) : IsItem(s[i])

Stream == FlattenSeq([i \in 1..Len(items) |-> items[i].bytes])
-----------------------------------------------------------------------------
TelnetInit ==
    /\ items \in Streams
    /\ phase = "closed"
    /\ inRead = FALSE /\ taken = 0 /\ nIn = 0
    /\ tnState = "NORMAL" /\ inband = <<>> /\ overflow = 0
    /\ agree = [o \in Options |-> FALSE]
    /\ out = <<>> /\ got = <<>> /\ start = 0
    /\ data = <<>> /\ buf = <<>> /\ sendNow = FALSE /\ wire = <<>> /\ writing = <<>>

(* Connected, and our offer sent                                           *)
Open ==
    /\ phase = "closed" /\ taken = 0
    /\ phase' = "negotiating"
    /\ UNCHANGED <<items, readVars, writeVars>>

Idle == ~inRead /\ data = <<>> /\ buf = <<>>

(* A read of some of the bytes that arrived, cut anywhere                  *)
Read ==
    /\ phase \in {"negotiating", "open"} /\ Idle
    /\ inRead' = TRUE
    /\ nIn' \in 1..ReadSize /\ taken + nIn' <= Len(Stream)
    /\ out' = <<>>
    /\ wire' = <<>> /\ writing' = <<>>
    /\ UNCHANGED <<items, phase, taken, tnState, inband, overflow, agree, got, start, data, buf, sendNow>>
-----------------------------------------------------------------------------
(* _telnetProcessInband(), for the next byte b                             *)
Normal(b) ==
    /\ tnState = "NORMAL"
    /\ tnState' = IF b = "IAC" THEN "IAC" ELSE "NORMAL"
    /\ out' = IF b = "IAC" THEN out ELSE Append(out, b)
    /\ UNCHANGED <<inband, overflow, agree>>

(* The byte after an IAC tells what follows                                *)
AfterIac(b) ==
    /\ tnState = "IAC"
    /\ tnState' = CASE b \in {"WILL", "WONT", "DO", "DONT"} -> "COMMAND"
                    [] b = "SB" -> "SUBOPTION"
                    [] OTHER -> "NORMAL"
    /\ out' = IF b = "IAC" THEN Append(out, b) ELSE out
    /\ inband' = IF tnState' = "NORMAL" THEN inband ELSE <<b>>
    /\ overflow' = IF tnState' = "NORMAL" THEN overflow ELSE 0
    /\ UNCHANGED agree

(* They say... we say...                                                   *)
Agreeing == {<<"WILL", "DO">>, <<"WONT", "DONT">>, <<"DO", "WILL">>, <<"DONT", "WONT">>}
Refusing == {<<"WILL", "DONT">>, <<"WONT", "DO">>, <<"DO", "WONT">>, <<"DONT", "WILL">>}

(* Fault: a refusal does not take back what was agreed before              *)
NegotiatedFault(they, option) ==
    [o \in Options |-> agree[o] \/ (o[2] = option /\ <<they, o[1]>> \in Agreeing)]

Negotiated(they, option) ==
    [o \in Options |->
        IF o[2] = option /\ <<they, o[1]>> \in Agreeing \cup Refusing
        THEN <<they, o[1]>> \in Agreeing ELSE agree[o]]

(* Options are only passed by _portOpenTelnet()                            *)
OptionCode(b) ==
    /\ tnState = "COMMAND"
    /\ inband' = Append(inband, b)
    /\ agree' = IF phase = "negotiating" THEN Negotiated(inband[1], b) ELSE agree
    /\ tnState' = "NORMAL"
    /\ UNCHANGED <<out, overflow>>

SecondIac(b) == b = "IAC" /\ overflow = 0 /\ inband # <<>> /\ Last(inband) = "IAC"
TooMuch == overflow = 0 /\ Len(inband) = InbandSize

(* Fault: a suboption that is too long is not skipped                      *)
SkipFault(b) ==
    /\ tnState = "SUBOPTION" /\ (TooMuch \/ overflow < 0)
    /\ tnState' = "NORMAL" /\ overflow' = 0 /\ inband' = <<>>
    /\ UNCHANGED <<out, agree>>

(* The overflow case: wait for IAC SE                                      *)
Skip(b) ==
    /\ tnState = "SUBOPTION" /\ (TooMuch \/ overflow < 0) /\ ~SecondIac(b)
    /\ tnState' = IF overflow = -2 /\ b = "SE" THEN "NORMAL" ELSE "SUBOPTION"
    /\ overflow' = IF b = "IAC" \/ (overflow = -2 /\ b = "SE") THEN -2 ELSE -1
    /\ inband' = <<>>
    /\ UNCHANGED <<out, agree>>

(* Collect it, until the sequence is complete; then IAC SE is cut off      *)
Collect(b) ==
    /\ tnState = "SUBOPTION" /\ ~TooMuch /\ overflow = 0 /\ ~SecondIac(b)
    /\ IF Last(inband) = "IAC" /\ b = "SE"
       THEN tnState' = "NORMAL" /\ inband' = Front(inband)
       ELSE tnState' = tnState /\ inband' = Append(inband, b)
    /\ UNCHANGED <<overflow, out, agree>>

IgnoreSecond(b) ==
    /\ tnState = "SUBOPTION" /\ SecondIac(b)
    /\ UNCHANGED <<tnState, inband, overflow, out, agree>>

Process ==
    /\ inRead /\ nIn > 0
    /\ nIn' = nIn - 1 /\ taken' = taken + 1
    /\ LET b == Stream[taken + 1] IN
        Normal(b) \/ AfterIac(b) \/ OptionCode(b) \/ Skip(b) \/ Collect(b) \/ IgnoreSecond(b)
    /\ UNCHANGED <<items, phase, inRead, got, start, writeVars>>
-----------------------------------------------------------------------------
(* _portOpenTelnet() throws away what data it found, goes on as long as it
   is not happy, and then configures the server's port, or fails           *)
Happy == \A o \in Options : agree[o]

NegotiationRead ==
    /\ phase = "negotiating" /\ inRead /\ nIn = 0
    /\ inRead' = FALSE
    /\ phase' \in IF Happy THEN {"open", "closed"} ELSE {"negotiating"}
    /\ start' = IF phase' = "open" THEN taken ELSE start
    /\ UNCHANGED <<items, taken, nIn, tnState, inband, overflow, agree, out, got, writeVars>>

(* _portReadTelnet() returns the data                                      *)
ReadReturns ==
    /\ phase = "open" /\ inRead /\ nIn = 0
    /\ inRead' = FALSE
    /\ got' = got \o out
    /\ UNCHANGED <<items, phase, taken, nIn, tnState, inband, overflow, agree, out, start, writeVars>>

(* The negotiation times out, the connection breaks, or is closed          *)
Close ==
    /\ phase \in {"negotiating", "open"} /\ Idle
    /\ phase' = "closed"
    /\ UNCHANGED <<items, readVars, writeVars>>
-----------------------------------------------------------------------------
(* _portWriteTelnet()                                                      *)
Write ==
    /\ phase = "open" /\ Idle
    /\ data' \in Writes
    /\ writing' = data' /\ wire' = <<>>
    /\ UNCHANGED <<items, phase, readVars, buf, sendNow>>

SendDue == Len(buf) >= PacketSize \/ sendNow \/ (data = <<>> /\ buf # <<>>)

(* Fault: IAC is escaped with one byte of space left                       *)
FillFault ==
    /\ data # <<>> /\ ~SendDue
    /\ data' = Tail(data) /\ buf' = buf \o EscapeByte(Head(data)) /\ sendNow' = FALSE
    /\ UNCHANGED <<items, phase, readVars, wire, writing>>

(* The next byte goes into the packet, unless it is IAC and only one byte
   is left                                                                 *)
Fill ==
    /\ data # <<>> /\ ~SendDue
    /\ IF Head(data) = "IAC" /\ Len(buf) >= PacketSize - 1
       THEN sendNow' = TRUE /\ UNCHANGED <<data, buf>>
       ELSE /\ data' = Tail(data) /\ buf' = buf \o EscapeByte(Head(data))
            /\ sendNow' = FALSE
    /\ UNCHANGED <<items, phase, readVars, wire, writing>>

Send ==
    /\ SendDue
    /\ wire' = Append(wire, buf)
    /\ buf' = <<>> /\ sendNow' = FALSE
    /\ UNCHANGED <<items, phase, readVars, data, writing>>

(* The write returns false, and the rest is not sent                       *)
SendFails ==
    /\ SendDue
    /\ data' = <<>> /\ buf' = <<>> /\ sendNow' = FALSE
    /\ writing' = <<>> /\ wire' = <<>>
    /\ UNCHANGED <<items, phase, readVars>>

TelnetNext ==
    \/ Open \/ Read \/ Process \/ NegotiationRead \/ ReadReturns \/ Close
    \/ Write \/ Fill \/ Send \/ SendFails

TelnetSpec == TelnetInit /\ [][TelnetNext]_telnetVars
-----------------------------------------------------------------------------
(* The type of the state, and the bound of tnInband                        *)
TelnetTypeOK ==
    /\ phase \in {"closed", "negotiating", "open"}
    /\ inRead \in BOOLEAN /\ taken \in Nat /\ nIn \in 0..ReadSize
    /\ tnState \in {"NORMAL", "IAC", "COMMAND", "SUBOPTION"}
    /\ taken + nIn <= Len(Stream) /\ start \in Nat
    /\ inband \in Seq(Bytes) /\ Len(inband) <= InbandSize
    /\ overflow \in {0, -1, -2}
    /\ agree \in [Options -> BOOLEAN]
    /\ out \in Seq(Bytes) /\ got \in Seq(Bytes)
    /\ data \in Seq(Bytes) /\ writing \in Seq(Bytes)
    /\ buf \in Seq(Bytes) /\ Len(buf) <= PacketSize /\ sendNow \in BOOLEAN
    /\ wire \in Seq(Seq(Bytes))

(* What the server means by the first n bytes: the data of the items that
   are complete                                                            *)
EndOf(i) == Len(FlattenSeq([k \in 1..i |-> items[k].bytes]))
Complete(n) == Cardinality({i \in 1..Len(items) : EndOf(i) <= n})
Meant(n) == FlattenSeq([i \in 1..Complete(n) |-> items[i].data])

(* Two kinds of suboptions have an end that the code does not see or sees
   too early: when the buffer is full as SE comes, and when IAC, SE are in
   the suboption as (escaped) data. Escaped IACs in a row are kept as one. *)
IsIac(args, i) == i \in DOMAIN args /\ args[i] = "IAC"
StoredOf(args) == Cardinality({i \in DOMAIN args : ~(IsIac(args, i) /\ IsIac(args, i - 1))})
Blind(item) ==
    LET args == item.args
    IN  /\ args # <<>>
        /\ \/ 1 + StoredOf(args) + (IF IsIac(args, Len(args)) THEN 0 ELSE 1) = InbandSize
           \/ \E i \in DOMAIN args : args[i] = "SE" /\ IsIac(args, i - 1)
Followed == \A i \in 1..Len(items) : Blind(items[i]) => taken <= EndOf(i - 1)

(* What is returned is the data, all of it and no signalling, from where
   the negotiation ended, however TCP cuts the stream: within an escape, a
   command, or a suboption of any length. Except after a blind suboption.  *)
DataDelivered ==
    phase = "open" /\ ~inRead /\ Followed => Meant(start) \o got = Meant(taken)

(* The port is only opened if the server's last word on every option that
   we offered or asked for is the one we need.                             *)
Concerns(item, o) ==
    \E they \in {"WILL", "WONT", "DO", "DONT"} :
        item.bytes = <<"IAC", they, o[2]>> /\ <<they, o[1]>> \in Agreeing \cup Refusing
OpenMeansAgreed ==
    phase = "open" /\ Followed =>
        \A o \in Options : \E i \in 1..Complete(start) :
            /\ Concerns(items[i], o) /\ <<items[i].bytes[2], o[1]>> \in Agreeing
            /\ \A k \in i + 1..Complete(start) : ~Concerns(items[k], o)

(* What is written is escaped exactly, also where a packet ends: no packet
   is empty, too long or ends within an escaped IAC.                       *)
Put == SubSeq(writing, 1, Len(writing) - Len(data))
WireExact ==
    /\ FlattenSeq(wire) \o buf = Escape(Put)
    /\ \A p \in {wire[i] : i \in DOMAIN wire} \cup {buf} :
        /\ Len(p) <= PacketSize
        /\ \E k \in 1..Len(Put) + 1, l \in 0..Len(Put) : p = Escape(SubSeq(Put, k, l))

(* ff_port.c: "Overflow case: wait for IAC SE sequence that marks the end
   of the suboption data". After a suboption, data is data again.          *)
SuboptionsEnd == phase = "open" /\ ~inRead => Meant(start) \o got = Meant(taken)
=============================================================================
