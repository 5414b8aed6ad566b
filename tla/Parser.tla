------------------------------- MODULE Parser -------------------------------
(***************************************************************************)
(* ff_parser.c: a PARSER_t, and the byte stream its caller feeds into it.  *)
(* The caller adds the bytes of a port or file in the chunks it happens to *)
(* read and may call parserProcess() any number of times in between.       *)
(***************************************************************************)
EXTENDS Recognisers

CONSTANTS
    PARSER_BUF_SIZE, PARSER_MAX_GARB_SIZE, PARSER_MAX_ANY_SIZE,
    Streams,    \* the byte streams that may arrive
    Chunks      \* the sizes of the pieces in which the caller reads

ASSUME ParserAssumption ==
    /\ Streams \subseteq Seq(Byte)
    /\ Chunks \subseteq Nat \ {0}
    /\ PARSER_MAX_ANY_SIZE \in Nat
    /\ PARSER_MAX_ANY_SIZE >= 12
    /\ PARSER_MAX_ANY_SIZE >= PARSER_MAX_UBX_SIZE
    /\ PARSER_MAX_ANY_SIZE >= PARSER_MAX_NMEA_SIZE + 5
    /\ PARSER_MAX_ANY_SIZE >= PARSER_MAX_RTCM3_SIZE + RTCM3_FRAME_SIZE
    /\ PARSER_MAX_ANY_SIZE >= PARSER_MAX_NOVATEL_SIZE
    /\ PARSER_MAX_GARB_SIZE \in 1 .. PARSER_MAX_ANY_SIZE
    /\ PARSER_BUF_SIZE \in Nat
    /\ PARSER_BUF_SIZE >= 2 * PARSER_MAX_ANY_SIZE   \* comment in ff_parser.h

(* What the limits admit at most: 12 bytes are what a NovAtel header may   *)
(* have the parser wait for. PARSER_MAX_ANY_SIZE may be larger, and is     *)
(* (four times as large): no message gets there.                           *)
LargestMessage ==
    LET limits == {12, PARSER_MAX_UBX_SIZE, PARSER_MAX_NMEA_SIZE + 5,
                   PARSER_MAX_RTCM3_SIZE + RTCM3_FRAME_SIZE, PARSER_MAX_NOVATEL_SIZE}
    IN  CHOOSE n \in limits : \A m \in limits : n >= m

VARIABLES
    buf,    \* PARSER_t.buf[0 .. offs + size - 1]
    offs,   \* PARSER_t.offs: so many bytes at the start of buf are garbage
    msg,    \* PARSER_t.msg
    tot,    \* PARSER_t.tot
    idle,   \* parserProcess() returned false, and nothing was added since
    out,    \* history: the messages parserProcess() returned
    input,  \* history: the bytes parserAdd() accepted
    wire    \* the bytes still to arrive at the caller

state == <<buf, offs, msg, tot>>
vars == <<buf, offs, msg, tot, idle, out, input, wire>>

Types == MsgTypes \cup {"GARBAGE"}

(* parserInit()                                                            *)
Init ==
    /\ buf = <<>> /\ offs = 0 /\ msg = 0 /\ tot = 0
    /\ idle = FALSE
    /\ out = {} /\ input = <<>>
    /\ wire \in Streams
-----------------------------------------------------------------------------
Arrive(n) == wire' = SubSeq(wire, n + 1, Len(wire))

(* Fault: the boundary case is refused                                     *)
FitsFault(n) == Len(buf) + n < PARSER_BUF_SIZE

Fits(n) == Len(buf) + n <= PARSER_BUF_SIZE

(* parserAdd() of the next n bytes that the caller has read                *)
Add(n) ==
    /\ Fits(n)
    /\ buf' = buf \o SubSeq(wire, 1, n)
    /\ input' = input \o SubSeq(wire, 1, n)
    /\ idle' = FALSE
    /\ Arrive(n)
    /\ UNCHANGED <<offs, msg, tot, out>>

(* parserAdd() returns false: no caller keeps the bytes, they are lost     *)
AddOverflow(n) ==
    /\ ~Fits(n)
    /\ Arrive(n)
    /\ UNCHANGED <<state, idle, out, input>>
-----------------------------------------------------------------------------
VerdictAt(k) == Recognise(SubSeq(buf, k + 1, Len(buf))).size

(* Fault: garbage is collected without a limit                             *)
GarbageBinFullFault(k) == FALSE

GarbageBinFull(k) == k > offs /\ k >= PARSER_MAX_GARB_SIZE

(* No message starts at byte k: it is garbage and the scan goes on          *)
IsJunk(k) == k < Len(buf) /\ ~GarbageBinFull(k) /\ VerdictAt(k) = 0

(* A message may start at byte k, and more bytes are needed to tell         *)
IsUndecided(k) == k < Len(buf) /\ ~GarbageBinFull(k) /\ VerdictAt(k) < 0

(* The while loop of parserProcess() moves offs up to k, and no further     *)
Scan(k) == ~IsJunk(k) /\ \A j \in offs .. k - 1 : IsJunk(j)

(* Fault: what is behind the message is dropped                             *)
EmitFault(type, n) ==
    /\ out' = out \cup {[type |-> type, seq |-> msg + 1, at |-> tot,
                         data |-> SubSeq(buf, 1, n)]}
    /\ buf' = <<>> /\ offs' = 0
    /\ msg' = msg + 1 /\ tot' = tot + n
    /\ idle' = FALSE
    /\ UNCHANGED <<input, wire>>

(* _emitGarbage() and _emitMessage()                                        *)
Emit(type, n) ==
    /\ out' = out \cup {[type |-> type, seq |-> msg + 1, at |-> tot,
                         data |-> SubSeq(buf, 1, n)]}
    /\ buf' = SubSeq(buf, n + 1, Len(buf))
    /\ offs' = 0
    /\ msg' = msg + 1
    /\ tot' = tot + n
    /\ idle' = FALSE
    /\ UNCHANGED <<input, wire>>

EmitGarbage(k) ==
    /\ Scan(k) /\ k > 0
    /\ ~IsUndecided(k)
    /\ Emit("GARBAGE", k)

(* Fault: a message behind garbage is returned at once                      *)
EmitMessageFault ==
    \E k \in offs .. Len(buf) :
        /\ Scan(k) /\ k < Len(buf) /\ VerdictAt(k) > 0
        /\ Emit(Recognise(SubSeq(buf, k + 1, Len(buf))).type, VerdictAt(k))

EmitMessage ==
    /\ Scan(0) /\ offs = 0 /\ buf # <<>>
    /\ VerdictAt(0) > 0
    /\ Emit(Recognise(buf).type, VerdictAt(0))

(* Fault: true is returned, without a message, when more data is needed     *)
NoMessageFault(k) ==
    /\ Scan(k)
    /\ IsUndecided(k) \/ buf = <<>>
    /\ offs' = k /\ idle' = FALSE
    /\ UNCHANGED <<buf, msg, tot, out, input, wire>>

(* parserProcess() returns false: the buffer is empty, or needs more data  *)
NoMessage(k) ==
    /\ Scan(k)
    /\ IsUndecided(k) \/ buf = <<>>
    /\ offs' = k
    /\ idle' = TRUE
    /\ UNCHANGED <<buf, msg, tot, out, input, wire>>

(* One call of parserProcess()                                             *)
Process ==
    \/ EmitMessage
    \/ \E k \in offs .. Len(buf) : EmitGarbage(k) \/ NoMessage(k)

Next ==
    \/ \E n \in Chunks : n <= Len(wire) /\ (Add(n) \/ AddOverflow(n))
    \/ Process

Spec == Init /\ [][Next]_vars

(* The callers keep calling parserProcess()                                *)
FairSpec == Spec /\ WF_vars(Process)
-----------------------------------------------------------------------------
From(i) == SubSeq(input, i + 1, Len(input))
Sent(m) == [type |-> m.type, at |-> m.at, data |-> m.data]

(* Type invariant. The buffer never outgrows PARSER_t.buf.                 *)
TypeOK ==
    /\ buf \in Seq(Byte) /\ Len(buf) <= PARSER_BUF_SIZE
    /\ offs \in 0 .. Len(buf)
    /\ msg \in Nat /\ tot \in Nat
    /\ idle \in BOOLEAN
    /\ input \in Seq(Byte) /\ wire \in Seq(Byte)
    /\ \A m \in out : m \in [type : Types, seq : Nat, at : Nat, data : Seq(Byte)]

(* Every message, and every lump of garbage, fits PARSER_t.tmp, which      *)
(* _emitGarbage() and _emitMessage() copy it to without a check, and none  *)
(* is empty (each call that returns a message makes progress).             *)
TmpFits == \A m \in out : Len(m.data) \in 1 .. PARSER_MAX_ANY_SIZE

(* When parserProcess() has returned false, what it keeps back is less     *)
(* than a garbage bin and less than one message of the largest size.       *)
Backlog == idle => offs < PARSER_MAX_GARB_SIZE /\ Len(buf) - offs < LargestMessage

(* The question of the FIXME on PARSER_BUF_SIZE: a caller that drains the  *)
(* parser before it adds more, in chunks that leave room for one garbage   *)
(* bin and one largest message, never sees parserAdd() fail. With the      *)
(* limits of ff_parser.h (4096, and 4102 for RTCM3) that is every chunk of *)
(* up to 24572 bytes, so also the PARSER_MAX_ANY_SIZE (16384) bytes that   *)
(* the log file player reads at a time.                                    *)
NoOverflowWhenDrained ==
    idle => \A n \in Chunks :
        n + PARSER_MAX_GARB_SIZE + LargestMessage - 2 <= PARSER_BUF_SIZE => Fits(n)

(* No byte that parserAdd() accepted is lost, repeated or reordered: the   *)
(* messages returned, by sequence number, tile the accepted input without  *)
(* gap or overlap up to PARSER_t.tot, and the buffer holds the rest.       *)
Conservation ==
    /\ tot <= Len(input) /\ buf = SubSeq(input, tot + 1, Len(input))
    /\ \A m \in out : m.data = SubSeq(input, m.at + 1, m.at + Len(m.data))
    /\ \A m \in out : /\ m.seq \in 1 .. msg
                      /\ m.seq = 1 => m.at = 0
                      /\ m.at + Len(m.data) <= tot
                      /\ m.seq = msg => m.at + Len(m.data) = tot
    /\ \A i \in 1 .. msg : \E m \in out : m.seq = i
    /\ \A m1, m2 \in out :
          /\ m1.seq = m2.seq => m1 = m2
          /\ m2.seq = m1.seq + 1 => m2.at = m1.at + Len(m1.data)
    /\ msg = 0 => tot = 0

(* What the parser decided when it had seen only part of the stream is     *)
(* what it would decide knowing all of the stream: chunking and the moment *)
(* of the calls change neither the messages found nor the bytes skipped.   *)
FramingFinal ==
    /\ \A m \in out :
          IF m.type = "GARBAGE"
          THEN \A i \in m.at .. m.at + Len(m.data) - 1 : Recognise(From(i)).size = 0
          ELSE Recognise(From(m.at)) = [type |-> m.type, size |-> Len(m.data)]
    /\ \A i \in tot .. tot + offs - 1 : Recognise(From(i)).size = 0

(* The parser implements the framer: garbage is what the framer skips.     *)
Messages == {Sent(m) : m \in {m \in out : m.type # "GARBAGE"}}
F == INSTANCE Framer WITH pos <- tot + offs, msgs <- Messages
ImplementsFramer == F!Spec

(* A caller that keeps calling parserProcess() gets to the point where it  *)
(* returns false: the loops of rxPollUbx(), the input threads and cfgtool  *)
(* that drain the parser do not spin.                                      *)
DrainTerminates == []<>idle
=============================================================================
