----------------------------- MODULE Recognisers -----------------------------
(***************************************************************************)
(* The four message recognisers of ff_parser.c. Each one looks at the     *)
(* bytes b (at least one) at the start of the parser's buffer and returns *)
(*    0   this is definitely not one of my messages,                      *)
(*   -1   I cannot say yet, more bytes are needed,                        *)
(*   n>0  one of my messages, n bytes long, is at the start of b.         *)
(*                                                                         *)
(* A recogniser's early returns are gathered in "rejected": each of its   *)
(* disjuncts says how many bytes it needs to see before it may reject.    *)
(* The checksums are parameters: all that matters here is that each is a  *)
(* function of the bytes it covers.                                       *)
(***************************************************************************)
EXTENDS Integers, Sequences, FiniteSets

CONSTANTS
    PARSER_MAX_UBX_SIZE, PARSER_MAX_NMEA_SIZE,        \* limits of ff_parser.h
    PARSER_MAX_RTCM3_SIZE, PARSER_MAX_NOVATEL_SIZE,
    UbxChecksum(_), NmeaChecksum(_),  \* covered bytes -> the bytes sent
    Crc24(_), Crc32(_)

ASSUME RecogniserAssumption ==
    /\ PARSER_MAX_UBX_SIZE \in Nat
    /\ PARSER_MAX_NMEA_SIZE \in Nat
    /\ PARSER_MAX_RTCM3_SIZE \in Nat
    /\ PARSER_MAX_NOVATEL_SIZE \in Nat

Byte == 0 .. 255

(* ff_ubx.h, ff_nmea.h, ff_rtcm3.h, ff_novatel.h                          *)
UBX_SYNC_1 == 181
UBX_SYNC_2 == 98
UBX_HEAD_SIZE == 6
UBX_FRAME_SIZE == 8
NMEA_PREAMBLE == 36
RTCM3_PREAMBLE == 211
RTCM3_HEAD_SIZE == 3
RTCM3_FRAME_SIZE == 6
NOVATEL_SYNC_1 == 170
NOVATEL_SYNC_2 == 68
NOVATEL_SYNC_3_LONG == 18
NOVATEL_SYNC_3_SHORT == 19

CR == 13
LF == 10
STAR == 42
-----------------------------------------------------------------------------
UbxPayloadSize(b) == b[5] + 256 * b[6]

(* Fault: a lone first sync byte is rejected                                *)
UbxRejectedFault(b) ==
    \/ b[1] # UBX_SYNC_1
    \/ Len(b) < 2 \/ b[2] # UBX_SYNC_2
    \/ Len(b) >= UBX_HEAD_SIZE
       /\ UbxPayloadSize(b) > PARSER_MAX_UBX_SIZE - UBX_FRAME_SIZE

UbxRejected(b) ==
    \/ b[1] # UBX_SYNC_1
    \/ Len(b) >= 2 /\ b[2] # UBX_SYNC_2
    \/ Len(b) >= UBX_HEAD_SIZE
       /\ UbxPayloadSize(b) > PARSER_MAX_UBX_SIZE - UBX_FRAME_SIZE

IsUbxMessage(b) ==
    LET n == UbxPayloadSize(b) + UBX_FRAME_SIZE
    IN  IF UbxRejected(b) THEN 0
        ELSE IF Len(b) < UBX_HEAD_SIZE \/ Len(b) < n THEN -1
        ELSE IF SubSeq(b, n - 1, n) = UbxChecksum(SubSeq(b, 3, n - 2)) THEN n
        ELSE 0
-----------------------------------------------------------------------------
(* Printable, and not one of the reserved $ \ ! ~ nor the end marker *     *)
NmeaText == (32 .. 125) \ {33, 36, STAR, 92}

IsText(b, n) == \A i \in 2 .. n : b[i] \in NmeaText

(* Where the scan for the end of the sentence stops: at most one position *)
NmeaStops(b) == {t \in 2 .. Len(b) : IsText(b, t - 1) /\ b[t] \notin NmeaText}

NmeaRejected(b) ==
    \/ b[1] # NMEA_PREAMBLE
    \/ Len(b) > PARSER_MAX_NMEA_SIZE /\ IsText(b, PARSER_MAX_NMEA_SIZE + 1)
    \/ \E t \in NmeaStops(b) : b[t] \notin {CR, LF, STAR}

IsNmeaMessage(b) ==
    IF NmeaRejected(b) THEN 0
    ELSE IF \A t \in NmeaStops(b) : Len(b) < t + 4 THEN -1
    ELSE LET t == CHOOSE t \in NmeaStops(b) : TRUE
         IN  IF /\ b[t] = STAR /\ b[t + 3] = CR /\ b[t + 4] = LF
                /\ SubSeq(b, t + 1, t + 2) = NmeaChecksum(SubSeq(b, 2, t - 1))
             THEN t + 4 ELSE 0
-----------------------------------------------------------------------------
Rtcm3PayloadSize(b) == (256 * b[2] + b[3]) % 1024

Rtcm3Rejected(b) ==
    \/ b[1] # RTCM3_PREAMBLE
    \/ Len(b) >= RTCM3_HEAD_SIZE /\ Rtcm3PayloadSize(b) > PARSER_MAX_RTCM3_SIZE

IsRtcm3Message(b) ==
    LET n == Rtcm3PayloadSize(b) + RTCM3_FRAME_SIZE
    IN  IF Rtcm3Rejected(b) THEN 0
        ELSE IF Len(b) < RTCM3_HEAD_SIZE \/ Len(b) < n THEN -1
        ELSE IF SubSeq(b, n - 2, n) = Crc24(SubSeq(b, 1, n - 3)) THEN n
        ELSE 0
-----------------------------------------------------------------------------
NovatelSize(b) ==
    IF b[3] = NOVATEL_SYNC_3_LONG THEN b[4] + (b[9] + 256 * b[10]) + 4
                                  ELSE 12 + b[4] + 4

NovatelRejected(b) ==
    \/ b[1] # NOVATEL_SYNC_1
    \/ Len(b) >= 3 /\ \/ b[2] # NOVATEL_SYNC_2
                      \/ b[3] \notin {NOVATEL_SYNC_3_LONG, NOVATEL_SYNC_3_SHORT}
    \/ Len(b) >= 12 /\ NovatelSize(b) > PARSER_MAX_NOVATEL_SIZE

IsNovatelMessage(b) ==
    LET n == NovatelSize(b)
    IN  IF NovatelRejected(b) THEN 0
        ELSE IF Len(b) < 12 \/ Len(b) < n THEN -1
        ELSE IF SubSeq(b, n - 3, n) = Crc32(SubSeq(b, 1, n - 4)) THEN n
        ELSE 0
-----------------------------------------------------------------------------
(* kParserFuncs and the loop over it: the first recogniser that does not   *)
(* say no decides.                                                         *)
MsgTypes == {"UBX", "NMEA", "RTCM3", "NOVATEL"}

Recognise(b) ==
    IF IsUbxMessage(b) # 0 THEN [type |-> "UBX", size |-> IsUbxMessage(b)]
    ELSE IF IsNmeaMessage(b) # 0 THEN [type |-> "NMEA", size |-> IsNmeaMessage(b)]
    ELSE IF IsRtcm3Message(b) # 0 THEN [type |-> "RTCM3", size |-> IsRtcm3Message(b)]
    ELSE [type |-> IF IsNovatelMessage(b) # 0 THEN "NOVATEL" ELSE "GARBAGE",
          size |-> IsNovatelMessage(b)]
=============================================================================
