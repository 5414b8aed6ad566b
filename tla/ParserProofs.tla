---------------------------- MODULE ParserProofs ----------------------------
(***************************************************************************)
(* The safety properties of module Parser, for every stream, every way to  *)
(* chunk it, every checksum and all limits that ParserAssumption allows.   *)
(***************************************************************************)
EXTENDS Parser, WellFoundedInduction, SequenceTheorems, TLAPS

(***************************************************************************)
(* What the parser relies on in the recognisers of ff_parser.c: the range  *)
(* of the verdicts, and that a verdict other than "need more data" is      *)
(* final.                                                                  *)
(***************************************************************************)
(* The first n bytes of b                                                  *)
Prefix(b, n) == SubSeq(b, 1, n)

(* A sub-sequence of a byte sequence is a byte sequence.                   *)
LEMMA SubSeqFacts ==
    ASSUME NEW S, NEW b \in Seq(S), NEW m \in 1 .. Len(b) + 1, NEW n \in m - 1 .. Len(b)
    PROVE  /\ SubSeq(b, m, n) \in Seq(S)
           /\ Len(SubSeq(b, m, n)) = n - m + 1
           /\ \A i \in 1 .. n - m + 1 : SubSeq(b, m, n)[i] = b[m + i - 1]
  OBVIOUS

(* The prefix of a byte sequence: its length and its bytes.                *)
LEMMA PrefixFacts ==
    ASSUME NEW b \in Seq(Byte), NEW n \in 1 .. Len(b)
    PROVE  /\ Prefix(b, n) \in Seq(Byte)
           /\ Len(Prefix(b, n)) = n
           /\ \A i \in 1 .. n : Prefix(b, n)[i] = b[i]
  BY DEF Prefix

(* Cutting a piece out of a prefix or out of the whole is the same.        *)
LEMMA PieceOfPrefix ==
    ASSUME NEW b \in Seq(Byte), NEW n \in 1 .. Len(b),
           NEW i \in 1 .. n, NEW j \in i - 1 .. n
    PROVE  SubSeq(Prefix(b, n), i, j) = SubSeq(b, i, j)
  BY DEF Prefix

(* Bytes are small numbers.                                                *)
LEMMA ByteIsNat == \A x \in Byte : x \in Nat /\ x <= 255
  BY DEF Byte

(* The length field of a UBX header is a number.                           *)
LEMMA UbxPayloadSizeIsNat ==
    ASSUME NEW b \in Seq(Byte), Len(b) >= UBX_HEAD_SIZE
    PROVE  UbxPayloadSize(b) \in Nat
  <1>1. b[5] \in Byte /\ b[6] \in Byte
    BY DEF UBX_HEAD_SIZE
  <1> QED BY <1>1, ByteIsNat DEF UbxPayloadSize

(* The verdicts of the UBX recogniser.                                     *)
LEMMA UbxRange ==
    ASSUME NEW b \in Seq(Byte), Len(b) >= 1
    PROVE  /\ IsUbxMessage(b) \in -1 .. Len(b)
           /\ IsUbxMessage(b) # 0 => b[1] = UBX_SYNC_1
           /\ IsUbxMessage(b) = -1 => Len(b) < UBX_HEAD_SIZE \/ Len(b) < PARSER_MAX_UBX_SIZE
           /\ IsUbxMessage(b) <= 0 \/ IsUbxMessage(b) \in 1 .. PARSER_MAX_UBX_SIZE
  <1> DEFINE size == UbxPayloadSize(b) + UBX_FRAME_SIZE
  <1>1. Len(b) >= UBX_HEAD_SIZE =>
            UbxPayloadSize(b) \in Nat /\ size \in Nat /\ size >= 8
    BY UbxPayloadSizeIsNat DEF UBX_FRAME_SIZE
  <1>2. CASE UbxRejected(b)
    BY <1>2 DEF IsUbxMessage
  <1>3. CASE ~UbxRejected(b) /\ (Len(b) < UBX_HEAD_SIZE \/ Len(b) < size)
    <2>1. IsUbxMessage(b) = -1
      BY <1>3 DEF IsUbxMessage
    <2>2. Len(b) < UBX_HEAD_SIZE \/ Len(b) < PARSER_MAX_UBX_SIZE
      BY <1>1, <1>3, RecogniserAssumption DEF UbxRejected, UBX_FRAME_SIZE, UBX_HEAD_SIZE
    <2> QED BY <1>3, <2>1, <2>2 DEF UbxRejected
  <1>4. CASE ~UbxRejected(b) /\ ~(Len(b) < UBX_HEAD_SIZE \/ Len(b) < size)
    <2>1. size \in 8 .. Len(b) /\ size <= PARSER_MAX_UBX_SIZE
      BY <1>1, <1>4, RecogniserAssumption
         DEF UbxRejected, UBX_FRAME_SIZE, UBX_HEAD_SIZE
    <2>2. IsUbxMessage(b) \in {0, size}
      BY <1>4 DEF IsUbxMessage
    <2> QED BY <1>4, <2>1, <2>2, RecogniserAssumption DEF UbxRejected
  <1> QED BY <1>2, <1>3, <1>4

(* A UBX verdict on a prefix is the verdict on the whole.                  *)
LEMMA UbxStable ==
    ASSUME NEW b \in Seq(Byte), NEW n \in 1 .. Len(b), IsUbxMessage(Prefix(b, n)) # -1
    PROVE  IsUbxMessage(b) = IsUbxMessage(Prefix(b, n))
  <1> DEFINE p == Prefix(b, n)
  <1>1. p \in Seq(Byte) /\ Len(p) = n /\ \A i \in 1 .. n : p[i] = b[i]
    BY PrefixFacts
  <1>2. CASE UbxRejected(p)
    <2>1. UbxRejected(b)
      BY <1>1, <1>2 DEF UbxRejected, UbxPayloadSize, UBX_HEAD_SIZE
    <2> QED BY <1>2, <2>1 DEF IsUbxMessage
  <1>3. CASE ~UbxRejected(p)
    <2> DEFINE size == UbxPayloadSize(b) + UBX_FRAME_SIZE
    <2>1. n >= UBX_HEAD_SIZE /\ n >= UbxPayloadSize(p) + UBX_FRAME_SIZE
      BY <1>1, <1>3, UbxPayloadSizeIsNat DEF IsUbxMessage, UBX_HEAD_SIZE, UBX_FRAME_SIZE
    <2>2. UbxPayloadSize(p) = UbxPayloadSize(b)
      BY <1>1, <2>1 DEF UbxPayloadSize, UBX_HEAD_SIZE
    <2>3. size \in 8 .. n
      BY <1>1, <2>1, <2>2, UbxPayloadSizeIsNat DEF UBX_FRAME_SIZE
    <2>4. ~UbxRejected(b)
      BY <1>1, <1>3, <2>1, <2>2 DEF UbxRejected, UBX_HEAD_SIZE
    <2>5. /\ SubSeq(p, size - 1, size) = SubSeq(b, size - 1, size)
          /\ SubSeq(p, 3, size - 2) = SubSeq(b, 3, size - 2)
      <3>1. /\ size - 1 \in 1 .. n /\ size \in (size - 1) - 1 .. n
            /\ 3 \in 1 .. n /\ size - 2 \in 3 - 1 .. n
        BY <2>3
      <3> HIDE DEF size
      <3> QED BY <3>1, PieceOfPrefix
    <2>6. Len(b) >= n /\ ~(Len(b) < UBX_HEAD_SIZE \/ Len(b) < size)
                      /\ ~(Len(p) < UBX_HEAD_SIZE \/ Len(p) < size)
      BY <1>1, <2>1, <2>2, <2>3 DEF UBX_HEAD_SIZE
    <2> QED BY <1>3, <2>2, <2>4, <2>5, <2>6 DEF IsUbxMessage
  <1> QED BY <1>2, <1>3
-----------------------------------------------------------------------------
(* A non-empty set of natural numbers has a least element.                 *)
LEMMA LeastElement ==
    ASSUME NEW T \in SUBSET Nat, T # {}
    PROVE  \E x \in T : \A y \in T : x <= y
  <1> DEFINE R == {ss \in Nat \X Nat : ss[1] < ss[2]}
  <1>1. IsWellFoundedOn(R, Nat)
    BY NatLessThanWellFounded DEF OpToRel
  <1> HIDE DEF R
  <1>2. PICK x \in T : \A y \in T : <<y, x>> \notin R
    BY <1>1, WFMin
  <1>3. \A y \in T : ~(y < x)
    BY <1>2 DEF R
  <1> QED BY <1>3

(* The scan of _isNmeaMessage() stops at one position at most.             *)
LEMMA NmeaStopUnique ==
    ASSUME NEW b \in Seq(Byte), NEW t \in NmeaStops(b), NEW u \in NmeaStops(b)
    PROVE  t = u
  <1>1. ~(t < u) /\ ~(u < t)
    BY DEF NmeaStops, IsText
  <1> QED BY <1>1 DEF NmeaStops

(* The scan stops unless all of the bytes up to n are text.                *)
LEMMA NmeaStopExists ==
    ASSUME NEW b \in Seq(Byte), NEW n \in 1 .. Len(b), ~IsText(b, n)
    PROVE  \E t \in NmeaStops(b) : t <= n
  <1> DEFINE T == {i \in 2 .. n : b[i] \notin NmeaText}
  <1>1. T \in SUBSET Nat /\ T # {}
    BY DEF IsText
  <1>2. PICK t \in T : \A y \in T : t <= y
    BY <1>1, LeastElement
  <1>3. \A i \in 2 .. t - 1 : b[i] \in NmeaText
    BY <1>2
  <1> QED BY <1>2, <1>3 DEF NmeaStops, IsText

(* The verdicts of the NMEA recogniser.                                    *)
LEMMA NmeaRange ==
    ASSUME NEW b \in Seq(Byte), Len(b) >= 1
    PROVE  /\ IsNmeaMessage(b) \in -1 .. Len(b)
           /\ IsNmeaMessage(b) # 0 => b[1] = NMEA_PREAMBLE
           /\ IsNmeaMessage(b) = -1 => Len(b) < PARSER_MAX_NMEA_SIZE + 5
           /\ IsNmeaMessage(b) <= 0 \/ IsNmeaMessage(b) \in 1 .. PARSER_MAX_NMEA_SIZE + 5
  <1> DEFINE M == PARSER_MAX_NMEA_SIZE
  <1>m. M \in Nat
    BY RecogniserAssumption
  <1>1. CASE NmeaRejected(b)
    BY <1>1, <1>m DEF IsNmeaMessage
  <1>2. CASE ~NmeaRejected(b)
    <2>1. b[1] = NMEA_PREAMBLE
      BY <1>2 DEF NmeaRejected
    <2>2. ASSUME NEW t \in NmeaStops(b) PROVE t \in 2 .. Len(b) /\ t <= M + 1
      <3>1. CASE Len(b) <= M
        BY <3>1, <1>m DEF NmeaStops
      <3>2. CASE ~IsText(b, M + 1)
        BY <3>2, <1>m DEF NmeaStops, IsText
      <3> QED BY <3>1, <3>2, <1>2, <1>m DEF NmeaRejected
    <2>3. NmeaStops(b) = {} => Len(b) <= M
      <3>1. SUFFICES ASSUME Len(b) > M, NmeaStops(b) = {} PROVE FALSE
        BY <1>m
      <3>2. ~IsText(b, M + 1) /\ M + 1 \in 1 .. Len(b)
        BY <3>1, <1>2, <1>m DEF NmeaRejected
      <3> QED BY <3>1, <3>2, NmeaStopExists
    <2>4. CASE \A t \in NmeaStops(b) : Len(b) < t + 4
      <3>1. IsNmeaMessage(b) = -1
        BY <1>2, <2>4 DEF IsNmeaMessage
      <3>2. Len(b) < M + 5
        <4>1. CASE NmeaStops(b) = {}
          BY <4>1, <2>3, <1>m
        <4>2. CASE NmeaStops(b) # {}
          BY <4>2, <2>2, <2>4, <1>m
        <4> QED BY <4>1, <4>2
      <3> QED BY <3>1, <3>2, <2>1
    <2>5. CASE ~\A t \in NmeaStops(b) : Len(b) < t + 4
      <3> DEFINE t == CHOOSE t \in NmeaStops(b) : TRUE
      <3>1. PICK u \in NmeaStops(b) : ~(Len(b) < u + 4)
        BY <2>5
      <3>2. t \in NmeaStops(b) /\ t = u
        BY <3>1, NmeaStopUnique
      <3>a. u \in 2 .. Len(b) /\ u <= M + 1
        BY <2>2
      <3> HIDE DEF t
      <3>3. t + 4 \in 1 .. Len(b) /\ t + 4 <= M + 5
        BY <3>1, <3>2, <3>a, <1>m
      <3>4. IsNmeaMessage(b) \in {0, t + 4}
        BY <1>2, <2>5 DEF IsNmeaMessage, t
      <3> QED BY <2>1, <3>3, <3>4, <1>m
    <2> QED BY <2>4, <2>5
  <1> QED BY <1>1, <1>2

(* An NMEA verdict on a prefix is the verdict on the whole.                *)
LEMMA NmeaStable ==
    ASSUME NEW b \in Seq(Byte), NEW n \in 1 .. Len(b), IsNmeaMessage(Prefix(b, n)) # -1
    PROVE  IsNmeaMessage(b) = IsNmeaMessage(Prefix(b, n))
  <1> DEFINE p == Prefix(b, n)
  <1>1. p \in Seq(Byte) /\ Len(p) = n /\ \A i \in 1 .. n : p[i] = b[i]
    BY PrefixFacts
  <1>m. PARSER_MAX_NMEA_SIZE \in Nat
    BY RecogniserAssumption
  <1>2. \A k \in 1 .. n : IsText(p, k) <=> IsText(b, k)
    BY <1>1 DEF IsText
  <1>3. \A t \in NmeaStops(p) : t \in NmeaStops(b)
    BY <1>1, <1>2 DEF NmeaStops
  <1>4. CASE NmeaRejected(p)
    <2>1. NmeaRejected(b)
      <3>1. CASE p[1] # NMEA_PREAMBLE
        BY <3>1, <1>1 DEF NmeaRejected
      <3>2. CASE n > PARSER_MAX_NMEA_SIZE /\ IsText(p, PARSER_MAX_NMEA_SIZE + 1)
        BY <3>2, <1>2, <1>m DEF NmeaRejected
      <3>3. CASE \E t \in NmeaStops(p) : p[t] \notin {CR, LF, STAR}
        <4>1. PICK t \in NmeaStops(p) : p[t] \notin {CR, LF, STAR}
          BY <3>3
        <4>2. t \in NmeaStops(b) /\ p[t] = b[t]
          BY <1>1, <1>3 DEF NmeaStops
        <4> QED BY <4>1, <4>2 DEF NmeaRejected
      <3> QED BY <3>1, <3>2, <3>3, <1>4, <1>1 DEF NmeaRejected
    <2> QED BY <1>4, <2>1 DEF IsNmeaMessage
  <1>5. CASE ~NmeaRejected(p)
    <2>1. PICK t \in NmeaStops(p) : ~(n < t + 4)
      BY <1>1, <1>5 DEF IsNmeaMessage
    <2>2. t \in NmeaStops(b) /\ t \in 2 .. n - 4 /\ p[t] = b[t]
      BY <1>1, <1>3, <2>1 DEF NmeaStops
    <2>3. /\ t = CHOOSE u \in NmeaStops(p) : TRUE
          /\ t = CHOOSE u \in NmeaStops(b) : TRUE
      BY <1>1, <2>1, <2>2, NmeaStopUnique
    <2>4. ~NmeaRejected(b)
      <3>1. b[1] = NMEA_PREAMBLE
        BY <1>1, <1>5 DEF NmeaRejected
      <3>2. ~(Len(b) > PARSER_MAX_NMEA_SIZE /\ IsText(b, PARSER_MAX_NMEA_SIZE + 1))
        <4>1. CASE n > PARSER_MAX_NMEA_SIZE
          BY <4>1, <1>1, <1>2, <1>5, <1>m DEF NmeaRejected
        <4>2. CASE n <= PARSER_MAX_NMEA_SIZE
          <5>1. b[t] \notin NmeaText /\ t \in 2 .. PARSER_MAX_NMEA_SIZE + 1
            BY <4>2, <2>2, <1>m DEF NmeaStops
          <5> QED BY <5>1 DEF IsText
        <4> QED BY <4>1, <4>2, <1>m
      <3>3. b[t] \in {CR, LF, STAR}
        BY <1>1, <1>5, <2>1, <2>2 DEF NmeaRejected
      <3>4. \A u \in NmeaStops(b) : u = t
        BY <2>2, NmeaStopUnique
      <3> QED BY <3>1, <3>2, <3>3, <3>4 DEF NmeaRejected
    <2>5. /\ SubSeq(p, t + 1, t + 2) = SubSeq(b, t + 1, t + 2)
          /\ SubSeq(p, 2, t - 1) = SubSeq(b, 2, t - 1)
          /\ p[t + 3] = b[t + 3] /\ p[t + 4] = b[t + 4]
      <3>1. /\ t + 1 \in 1 .. n /\ t + 2 \in (t + 1) - 1 .. n
            /\ 2 \in 1 .. n /\ t - 1 \in 2 - 1 .. n
            /\ t + 3 \in 1 .. n /\ t + 4 \in 1 .. n
        BY <2>2
      <3> QED BY <3>1, <1>1, PieceOfPrefix
    <2>6. /\ ~\A u \in NmeaStops(p) : Len(p) < u + 4
          /\ ~\A u \in NmeaStops(b) : Len(b) < u + 4
      BY <1>1, <2>1, <2>2
    <2> HIDE DEF p
    <2>7. IsNmeaMessage(p) = IsNmeaMessage(b)
      BY <1>5, <2>2, <2>3, <2>4, <2>5, <2>6 DEF IsNmeaMessage
    <2> QED BY <2>7 DEF p
  <1> QED BY <1>4, <1>5
-----------------------------------------------------------------------------
(* The length field of an RTCM3 header is a number of ten bits.            *)
LEMMA Rtcm3PayloadSizeIsNat ==
    ASSUME NEW b \in Seq(Byte), Len(b) >= RTCM3_HEAD_SIZE
    PROVE  Rtcm3PayloadSize(b) \in Nat
  <1>1. b[2] \in Byte /\ b[3] \in Byte
    BY DEF RTCM3_HEAD_SIZE
  <1> QED BY <1>1, ByteIsNat DEF Rtcm3PayloadSize

(* The verdicts of the RTCM3 recogniser.                                   *)
LEMMA Rtcm3Range ==
    ASSUME NEW b \in Seq(Byte), Len(b) >= 1
    PROVE  /\ IsRtcm3Message(b) \in -1 .. Len(b)
           /\ IsRtcm3Message(b) # 0 => b[1] = RTCM3_PREAMBLE
           /\ IsRtcm3Message(b) = -1 => Len(b) < PARSER_MAX_RTCM3_SIZE + RTCM3_FRAME_SIZE
           /\ \/ IsRtcm3Message(b) <= 0
              \/ IsRtcm3Message(b) \in 1 .. PARSER_MAX_RTCM3_SIZE + RTCM3_FRAME_SIZE
  <1> DEFINE size == Rtcm3PayloadSize(b) + RTCM3_FRAME_SIZE
  <1>1. Len(b) >= RTCM3_HEAD_SIZE =>
            Rtcm3PayloadSize(b) \in Nat /\ size \in Nat /\ size >= 6
    BY Rtcm3PayloadSizeIsNat DEF RTCM3_FRAME_SIZE
  <1>2. CASE Rtcm3Rejected(b)
    BY <1>2 DEF IsRtcm3Message
  <1>3. CASE ~Rtcm3Rejected(b) /\ (Len(b) < RTCM3_HEAD_SIZE \/ Len(b) < size)
    <2>1. IsRtcm3Message(b) = -1
      BY <1>3 DEF IsRtcm3Message
    <2>2. Len(b) < PARSER_MAX_RTCM3_SIZE + RTCM3_FRAME_SIZE
      BY <1>1, <1>3, RecogniserAssumption DEF Rtcm3Rejected, RTCM3_FRAME_SIZE, RTCM3_HEAD_SIZE
    <2> QED BY <1>3, <2>1, <2>2 DEF Rtcm3Rejected
  <1>4. CASE ~Rtcm3Rejected(b) /\ ~(Len(b) < RTCM3_HEAD_SIZE \/ Len(b) < size)
    <2>1. size \in 6 .. Len(b) /\ size <= PARSER_MAX_RTCM3_SIZE + RTCM3_FRAME_SIZE
      BY <1>1, <1>4, RecogniserAssumption
         DEF Rtcm3Rejected, RTCM3_FRAME_SIZE, RTCM3_HEAD_SIZE
    <2>2. IsRtcm3Message(b) \in {0, size}
      BY <1>4 DEF IsRtcm3Message
    <2> QED BY <1>4, <2>1, <2>2, RecogniserAssumption DEF Rtcm3Rejected, RTCM3_FRAME_SIZE
  <1> QED BY <1>2, <1>3, <1>4

(* An RTCM3 verdict on a prefix is the verdict on the whole.               *)
LEMMA Rtcm3Stable ==
    ASSUME NEW b \in Seq(Byte), NEW n \in 1 .. Len(b), IsRtcm3Message(Prefix(b, n)) # -1
    PROVE  IsRtcm3Message(b) = IsRtcm3Message(Prefix(b, n))
  <1> DEFINE p == Prefix(b, n)
  <1>1. p \in Seq(Byte) /\ Len(p) = n /\ \A i \in 1 .. n : p[i] = b[i]
    BY PrefixFacts
  <1>2. CASE Rtcm3Rejected(p)
    <2>1. Rtcm3Rejected(b)
      BY <1>1, <1>2 DEF Rtcm3Rejected, Rtcm3PayloadSize, RTCM3_HEAD_SIZE
    <2> QED BY <1>2, <2>1 DEF IsRtcm3Message
  <1>3. CASE ~Rtcm3Rejected(p)
    <2> DEFINE size == Rtcm3PayloadSize(b) + RTCM3_FRAME_SIZE
    <2>1. n >= RTCM3_HEAD_SIZE /\ n >= Rtcm3PayloadSize(p) + RTCM3_FRAME_SIZE
      BY <1>1, <1>3, Rtcm3PayloadSizeIsNat DEF IsRtcm3Message, RTCM3_HEAD_SIZE, RTCM3_FRAME_SIZE
    <2>2. Rtcm3PayloadSize(p) = Rtcm3PayloadSize(b)
      BY <1>1, <2>1 DEF Rtcm3PayloadSize, RTCM3_HEAD_SIZE
    <2>3. size \in 6 .. n
      BY <1>1, <2>1, <2>2, Rtcm3PayloadSizeIsNat DEF RTCM3_FRAME_SIZE
    <2>4. ~Rtcm3Rejected(b)
      BY <1>1, <1>3, <2>1, <2>2 DEF Rtcm3Rejected, RTCM3_HEAD_SIZE
    <2>5. /\ SubSeq(p, size - 2, size) = SubSeq(b, size - 2, size)
          /\ SubSeq(p, 1, size - 3) = SubSeq(b, 1, size - 3)
      <3>1. /\ size - 2 \in 1 .. n /\ size \in (size - 2) - 1 .. n
            /\ 1 \in 1 .. n /\ size - 3 \in 1 - 1 .. n
        BY <2>3
      <3> HIDE DEF size
      <3> QED BY <3>1, PieceOfPrefix
    <2>6. Len(b) >= n /\ ~(Len(b) < RTCM3_HEAD_SIZE \/ Len(b) < size)
                      /\ ~(Len(p) < RTCM3_HEAD_SIZE \/ Len(p) < size)
      BY <1>1, <2>1, <2>2, <2>3 DEF RTCM3_HEAD_SIZE
    <2> QED BY <1>3, <2>2, <2>4, <2>5, <2>6 DEF IsRtcm3Message
  <1> QED BY <1>2, <1>3
-----------------------------------------------------------------------------
(* The length computed from a NovAtel header is a number, but not always   *)
(* one that covers the header.                                             *)
LEMMA NovatelSizeIsNat ==
    ASSUME NEW b \in Seq(Byte), Len(b) >= 12
    PROVE  NovatelSize(b) \in Nat /\ NovatelSize(b) >= 4
  <1>1. b[4] \in Byte /\ b[9] \in Byte /\ b[10] \in Byte
    OBVIOUS
  <1>2. b[4] \in Nat /\ b[9] \in Nat /\ b[10] \in Nat
    BY <1>1, ByteIsNat
  <1>3. CASE b[3] = NOVATEL_SYNC_3_LONG
    <2>1. NovatelSize(b) = b[4] + (b[9] + 256 * b[10]) + 4
      BY <1>3 DEF NovatelSize
    <2> QED BY <1>2, <2>1
  <1>4. CASE b[3] # NOVATEL_SYNC_3_LONG
    <2>1. NovatelSize(b) = 12 + b[4] + 4
      BY <1>4 DEF NovatelSize
    <2> QED BY <1>2, <2>1
  <1> QED BY <1>3, <1>4

(* The verdicts of the NovAtel recogniser.                                 *)
LEMMA NovatelRange ==
    ASSUME NEW b \in Seq(Byte), Len(b) >= 1
    PROVE  /\ IsNovatelMessage(b) \in -1 .. Len(b)
           /\ IsNovatelMessage(b) # 0 => b[1] = NOVATEL_SYNC_1
           /\ IsNovatelMessage(b) = -1 => Len(b) < 12 \/ Len(b) < PARSER_MAX_NOVATEL_SIZE
           /\ IsNovatelMessage(b) <= 0 \/ IsNovatelMessage(b) \in 1 .. PARSER_MAX_NOVATEL_SIZE
  <1> DEFINE size == NovatelSize(b)
  <1>1. Len(b) >= 12 => size \in Nat /\ size >= 4
    BY NovatelSizeIsNat
  <1> HIDE DEF size
  <1>2. CASE NovatelRejected(b)
    BY <1>2 DEF IsNovatelMessage
  <1>3. CASE ~NovatelRejected(b) /\ (Len(b) < 12 \/ Len(b) < size)
    <2>1. IsNovatelMessage(b) = -1
      BY <1>3 DEF IsNovatelMessage, size
    <2>2. Len(b) < 12 \/ Len(b) < PARSER_MAX_NOVATEL_SIZE
      BY <1>1, <1>3, RecogniserAssumption DEF NovatelRejected, size
    <2> QED BY <1>3, <2>1, <2>2 DEF NovatelRejected
  <1>4. CASE ~NovatelRejected(b) /\ ~(Len(b) < 12 \/ Len(b) < size)
    <2>1. size \in 4 .. Len(b) /\ size <= PARSER_MAX_NOVATEL_SIZE
      BY <1>1, <1>4, RecogniserAssumption DEF NovatelRejected, size
    <2>2. IsNovatelMessage(b) \in {0, size}
      BY <1>4 DEF IsNovatelMessage, size
    <2> QED BY <1>4, <2>1, <2>2, RecogniserAssumption DEF NovatelRejected
  <1> QED BY <1>2, <1>3, <1>4

(* A NovAtel verdict on a prefix is the verdict on the whole.              *)
LEMMA NovatelStable ==
    ASSUME NEW b \in Seq(Byte), NEW n \in 1 .. Len(b), IsNovatelMessage(Prefix(b, n)) # -1
    PROVE  IsNovatelMessage(b) = IsNovatelMessage(Prefix(b, n))
  <1> DEFINE p == Prefix(b, n)
  <1>1. p \in Seq(Byte) /\ Len(p) = n /\ \A i \in 1 .. n : p[i] = b[i]
    BY PrefixFacts
  <1>2. CASE NovatelRejected(p)
    <2>1. NovatelRejected(b)
      BY <1>1, <1>2 DEF NovatelRejected, NovatelSize
    <2> QED BY <1>2, <2>1 DEF IsNovatelMessage
  <1>3. CASE ~NovatelRejected(p)
    <2> DEFINE size == NovatelSize(b)
    <2>1. n >= 12 /\ n >= NovatelSize(p)
      <3>1. ~(Len(p) < 12) /\ ~(Len(p) < NovatelSize(p))
        BY <1>3 DEF IsNovatelMessage
      <3> QED BY <3>1, <1>1, NovatelSizeIsNat
    <2>2. NovatelSize(p) = NovatelSize(b)
      BY <1>1, <2>1 DEF NovatelSize
    <2>3. size \in 4 .. n
      BY <1>1, <2>1, <2>2, NovatelSizeIsNat
    <2>4. ~NovatelRejected(b)
      BY <1>1, <1>3, <2>1, <2>2 DEF NovatelRejected
    <2>5. /\ SubSeq(p, size - 3, size) = SubSeq(b, size - 3, size)
          /\ SubSeq(p, 1, size - 4) = SubSeq(b, 1, size - 4)
      <3>1. /\ size - 3 \in 1 .. n /\ size \in (size - 3) - 1 .. n
            /\ 1 \in 1 .. n /\ size - 4 \in 1 - 1 .. n
        BY <2>3
      <3> HIDE DEF size
      <3> QED BY <3>1, PieceOfPrefix
    <2>6. Len(b) >= n /\ ~(Len(b) < 12 \/ Len(b) < size) /\ ~(Len(p) < 12 \/ Len(p) < size)
      BY <1>1, <2>1, <2>2, <2>3
    <2> QED BY <1>3, <2>2, <2>4, <2>5, <2>6 DEF IsNovatelMessage
  <1> QED BY <1>2, <1>3
-----------------------------------------------------------------------------
(* No message of any protocol, and no wait for one, is larger than this.   *)
IsMaxMsgSize(n) ==
    /\ n \in Nat /\ n >= 12
    /\ n >= PARSER_MAX_UBX_SIZE
    /\ n >= PARSER_MAX_NMEA_SIZE + 5
    /\ n >= PARSER_MAX_RTCM3_SIZE + RTCM3_FRAME_SIZE
    /\ n >= PARSER_MAX_NOVATEL_SIZE

(* The verdict of the loop over kParserFuncs: a message is never longer    *)
(* than the data, nor than the largest message; and what is waited for is  *)
(* shorter than the largest message.                                       *)
THEOREM RecogniseRange ==
    ASSUME NEW b \in Seq(Byte), Len(b) >= 1, NEW max, IsMaxMsgSize(max)
    PROVE  /\ Recognise(b).size \in -1 .. Len(b)
           /\ Recognise(b).size = -1 => Len(b) < max
           /\ Recognise(b).size > 0 => Recognise(b).size \in 1 .. max
           /\ Recognise(b).size # 0 => Recognise(b).type \in MsgTypes
           /\ Recognise(b) = [type |-> Recognise(b).type, size |-> Recognise(b).size]
  <1>1. CASE IsUbxMessage(b) # 0
    BY <1>1, UbxRange, RecogniserAssumption
       DEF Recognise, MsgTypes, IsMaxMsgSize, UBX_HEAD_SIZE
  <1>2. CASE IsUbxMessage(b) = 0 /\ IsNmeaMessage(b) # 0
    BY <1>2, NmeaRange, RecogniserAssumption DEF Recognise, MsgTypes, IsMaxMsgSize
  <1>3. CASE IsUbxMessage(b) = 0 /\ IsNmeaMessage(b) = 0 /\ IsRtcm3Message(b) # 0
    BY <1>3, Rtcm3Range, RecogniserAssumption
       DEF Recognise, MsgTypes, IsMaxMsgSize, RTCM3_FRAME_SIZE
  <1>4. CASE IsUbxMessage(b) = 0 /\ IsNmeaMessage(b) = 0 /\ IsRtcm3Message(b) = 0
    BY <1>4, NovatelRange, RecogniserAssumption DEF Recognise, MsgTypes, IsMaxMsgSize
  <1> QED BY <1>1, <1>2, <1>3, <1>4

(* A decision taken on the bytes seen so far is the decision that would be *)
(* taken with any more bytes behind them.                                  *)
THEOREM RecogniseStable ==
    ASSUME NEW b \in Seq(Byte), NEW n \in 1 .. Len(b), Recognise(Prefix(b, n)).size # -1
    PROVE  Recognise(b) = Recognise(Prefix(b, n))
  <1> DEFINE p == Prefix(b, n)
  <1>1. p \in Seq(Byte) /\ Len(p) = n /\ p[1] = b[1] /\ Len(b) >= 1
    BY PrefixFacts
  <1>2. CASE IsUbxMessage(p) # 0
    BY <1>2, UbxStable DEF Recognise
  <1>3. CASE IsUbxMessage(p) = 0 /\ IsNmeaMessage(p) # 0
    BY <1>3, UbxStable, NmeaStable DEF Recognise
  <1>4. CASE IsUbxMessage(p) = 0 /\ IsNmeaMessage(p) = 0 /\ IsRtcm3Message(p) # 0
    BY <1>4, UbxStable, NmeaStable, Rtcm3Stable DEF Recognise
  <1>5. CASE IsUbxMessage(p) = 0 /\ IsNmeaMessage(p) = 0 /\ IsRtcm3Message(p) = 0
    BY <1>5, UbxStable, NmeaStable, Rtcm3Stable, NovatelStable DEF Recognise
  <1> QED BY <1>2, <1>3, <1>4, <1>5

(***************************************************************************)
(* Pieces of a byte stream.                                                *)
(***************************************************************************)
(* The bytes from a up to c of a stream.                                   *)
LEMMA Piece ==
    ASSUME NEW s \in Seq(Byte), NEW a \in 0 .. Len(s), NEW c \in a .. Len(s)
    PROVE  /\ SubSeq(s, a + 1, c) \in Seq(Byte)
           /\ Len(SubSeq(s, a + 1, c)) = c - a
           /\ \A i \in 1 .. c - a : SubSeq(s, a + 1, c)[i] = s[a + i]
  OBVIOUS

(* A piece of the rest of a stream is a piece of the stream.               *)
LEMMA PieceOfRest ==
    ASSUME NEW s \in Seq(Byte), NEW a \in 0 .. Len(s),
           NEW i \in 0 .. Len(s) - a, NEW j \in i .. Len(s) - a
    PROVE  SubSeq(SubSeq(s, a + 1, Len(s)), i + 1, j) = SubSeq(s, a + i + 1, a + j)
  OBVIOUS

(* ... in particular the piece at its front.                               *)
LEMMA FrontOfRest ==
    ASSUME NEW s \in Seq(Byte), NEW a \in 0 .. Len(s), NEW j \in 0 .. Len(s) - a
    PROVE  SubSeq(SubSeq(s, a + 1, Len(s)), 1, j) = SubSeq(s, a + 1, a + j)
  OBVIOUS

(* More bytes at the end leave the pieces in front alone.                  *)
LEMMA PieceOfLonger ==
    ASSUME NEW s \in Seq(Byte), NEW t \in Seq(Byte),
           NEW a \in 0 .. Len(s), NEW c \in a .. Len(s)
    PROVE  SubSeq(s \o t, a + 1, c) = SubSeq(s, a + 1, c)
  OBVIOUS

(* ... and extend the rest.                                                *)
LEMMA RestOfLonger ==
    ASSUME NEW s \in Seq(Byte), NEW t \in Seq(Byte), NEW a \in 0 .. Len(s)
    PROVE  SubSeq(s \o t, a + 1, Len(s \o t)) = SubSeq(s, a + 1, Len(s)) \o t
  <1> DEFINE l == SubSeq(s \o t, a + 1, Len(s \o t))
             r == SubSeq(s, a + 1, Len(s)) \o t
  <1>1. l \in Seq(Byte) /\ r \in Seq(Byte)
    OBVIOUS
  <1>2. Len(l) = Len(s) + Len(t) - a /\ Len(r) = Len(s) + Len(t) - a
    OBVIOUS
  <1>3. ASSUME NEW i \in 1 .. Len(l) PROVE l[i] = r[i]
    <2>1. l[i] = (s \o t)[a + i]
      BY <1>2
    <2>2. CASE i <= Len(s) - a
      BY <2>1, <2>2
    <2>3. CASE i > Len(s) - a
      BY <2>1, <2>3, <1>2
    <2> QED BY <2>2, <2>3
  <1> HIDE DEF l, r
  <1>4. l = r
    BY <1>1, <1>2, <1>3, SeqEqual
  <1> QED BY <1>4 DEF l, r
-----------------------------------------------------------------------------
(* The inductive invariant: the properties to prove, and that the garbage  *)
(* bin is never full between two calls of parserProcess().                 *)
BinNotFull == offs < PARSER_MAX_GARB_SIZE

IInv == TypeOK /\ TmpFits /\ BinNotFull /\ Backlog /\ Conservation /\ FramingFinal

(* The largest message fits PARSER_t.tmp.                                  *)
LEMMA AnyIsMax == IsMaxMsgSize(PARSER_MAX_ANY_SIZE)
  BY ParserAssumption, RecogniserAssumption DEF IsMaxMsgSize

(* LargestMessage is the largest of the limits.                            *)
LEMMA LargestIsMax == IsMaxMsgSize(LargestMessage)
  <1> DEFINE limits == {12, PARSER_MAX_UBX_SIZE, PARSER_MAX_NMEA_SIZE + 5,
                        PARSER_MAX_RTCM3_SIZE + RTCM3_FRAME_SIZE, PARSER_MAX_NOVATEL_SIZE}
  <1>1. limits \subseteq Nat
    BY RecogniserAssumption DEF RTCM3_FRAME_SIZE
  <1>2. \E n \in limits : \A m \in limits : n >= m
    BY RecogniserAssumption DEF RTCM3_FRAME_SIZE
  <1>3. LargestMessage = CHOOSE n \in limits : \A m \in limits : n >= m
    BY Zenon DEF LargestMessage
  <1>4. LargestMessage \in limits /\ \A m \in limits : LargestMessage >= m
    <2> HIDE DEF limits
    <2> QED BY <1>2, <1>3
  <1> QED BY <1>1, <1>4 DEF IsMaxMsgSize

(* parserInit() establishes it.                                            *)
LEMMA InitInv == Init => IInv
  <1> SUFFICES ASSUME Init PROVE IInv
    OBVIOUS
  <1>1. TypeOK
    <2>1. wire \in Seq(Byte) /\ PARSER_BUF_SIZE \in Nat
      BY ParserAssumption DEF Init
    <2>2. buf \in Seq(Byte) /\ Len(buf) = 0 /\ input \in Seq(Byte) /\ offs = 0
      BY DEF Init
    <2>3. \A m \in out : m \in [type : Types, seq : Nat, at : Nat, data : Seq(Byte)]
      BY DEF Init
    <2>4. msg = 0 /\ tot = 0 /\ idle \in BOOLEAN
      BY DEF Init
    <2> QED BY <2>1, <2>2, <2>3, <2>4 DEF TypeOK
  <1>2. TmpFits /\ BinNotFull /\ Backlog
    BY ParserAssumption DEF Init, TmpFits, BinNotFull, Backlog
  <1>3. Conservation
    BY DEF Init, Conservation
  <1>4. FramingFinal
    <2>1. out = {} /\ tot = 0 /\ offs = 0
      BY DEF Init
    <2> QED BY <2>1 DEF FramingFinal
  <1> QED BY <1>1, <1>2, <1>3, <1>4 DEF IInv
-----------------------------------------------------------------------------
(* What is in the buffer from byte k on is what follows byte tot + k of    *)
(* the input.                                                              *)
LEMMA BufIsRest ==
    ASSUME IInv, NEW k \in 0 .. Len(buf)
    PROVE  /\ tot + k \in 0 .. Len(input)
           /\ Len(buf) = Len(input) - tot
           /\ SubSeq(buf, k + 1, Len(buf)) = From(tot + k)
           /\ SubSeq(buf, 1, k) = SubSeq(input, tot + 1, tot + k)
           /\ VerdictAt(k) = Recognise(From(tot + k)).size
  <1>1. /\ input \in Seq(Byte) /\ tot \in 0 .. Len(input)
        /\ buf = SubSeq(input, tot + 1, Len(input))
    BY DEF IInv, TypeOK, Conservation
  <1>2. Len(buf) = Len(input) - tot
    BY <1>1, Piece
  <1>3. k \in 0 .. Len(input) - tot /\ Len(input) - tot \in k .. Len(input) - tot
    BY <1>1, <1>2
  <1>4. SubSeq(buf, k + 1, Len(buf)) = SubSeq(input, tot + k + 1, tot + (Len(input) - tot))
    BY <1>1, <1>2, <1>3, PieceOfRest
  <1>5. SubSeq(buf, 1, k) = SubSeq(input, tot + 1, tot + k)
    BY <1>1, <1>3, FrontOfRest
  <1>6. tot + (Len(input) - tot) = Len(input)
    BY <1>1
  <1>7. SubSeq(buf, k + 1, Len(buf)) = From(tot + k)
    BY <1>4, <1>6 DEF From
  <1>8. tot + k \in 0 .. Len(input)
    BY <1>1, <1>2
  <1>9. VerdictAt(k) = Recognise(From(tot + k)).size
    BY <1>7 DEF VerdictAt
  <1> QED BY <1>2, <1>5, <1>7, <1>8, <1>9

(* The range of a verdict on what is in the buffer.                        *)
LEMMA VerdictRange ==
    ASSUME IInv, NEW k \in 0 .. Len(buf), k < Len(buf)
    PROVE  /\ VerdictAt(k) \in -1 .. Len(buf) - k
           /\ VerdictAt(k) = -1 => Len(buf) - k < LargestMessage
           /\ VerdictAt(k) > 0 => VerdictAt(k) \in 1 .. PARSER_MAX_ANY_SIZE
  <1> DEFINE r == SubSeq(buf, k + 1, Len(buf))
  <1>1. r \in Seq(Byte) /\ Len(r) = Len(buf) - k /\ Len(r) >= 1
    <2>1. buf \in Seq(Byte) /\ Len(buf) \in k .. Len(buf)
      BY DEF IInv, TypeOK
    <2> QED BY <2>1, Piece
  <1> HIDE DEF r
  <1>2. /\ Recognise(r).size \in -1 .. Len(r)
        /\ Recognise(r).size = -1 => Len(r) < LargestMessage
        /\ Recognise(r).size > 0 => Recognise(r).size \in 1 .. PARSER_MAX_ANY_SIZE
    BY <1>1, AnyIsMax, LargestIsMax, RecogniseRange
  <1>3. VerdictAt(k) = Recognise(r).size
    BY DEF VerdictAt, r
  <1> QED BY <1>1, <1>2, <1>3

(* What the loop of parserProcess() moved to garbage is garbage, and no    *)
(* more than one bin full of it.                                           *)
LEMMA ScanFacts ==
    ASSUME IInv, NEW k \in offs .. Len(buf), Scan(k)
    PROVE  /\ k <= PARSER_MAX_GARB_SIZE
           /\ ~GarbageBinFull(k) => k < PARSER_MAX_GARB_SIZE
           /\ \A i \in tot .. tot + k - 1 : Recognise(From(i)).size = 0
  <1>1. /\ offs \in Nat /\ tot \in Nat /\ Len(buf) \in Nat /\ k \in Nat /\ offs <= k
        /\ offs < PARSER_MAX_GARB_SIZE /\ PARSER_MAX_GARB_SIZE \in Nat
    BY ParserAssumption DEF IInv, TypeOK, BinNotFull
  <1>2. k <= PARSER_MAX_GARB_SIZE
    <2>1. SUFFICES ASSUME k > PARSER_MAX_GARB_SIZE PROVE FALSE
      BY <1>1
    <2>2. k - 1 \in offs .. k - 1 /\ k - 1 > offs /\ k - 1 >= PARSER_MAX_GARB_SIZE
      BY <1>1, <2>1
    <2>3. IsJunk(k - 1)
      BY <2>2 DEF Scan
    <2> QED BY <2>2, <2>3 DEF IsJunk, GarbageBinFull
  <1>3. ~GarbageBinFull(k) => k < PARSER_MAX_GARB_SIZE
    BY <1>1 DEF GarbageBinFull
  <1>4. ASSUME NEW i \in tot .. tot + k - 1 PROVE Recognise(From(i)).size = 0
    <2>1. CASE i < tot + offs
      <3>1. i \in tot .. tot + offs - 1
        BY <1>1, <2>1
      <3> QED BY <3>1 DEF IInv, FramingFinal
    <2>2. CASE i >= tot + offs
      <3>1. i - tot \in offs .. k - 1 /\ i - tot \in 0 .. Len(buf) /\ tot + (i - tot) = i
        BY <1>1, <2>2
      <3>2. VerdictAt(i - tot) = 0
        BY <3>1 DEF Scan, IsJunk
      <3>3. VerdictAt(i - tot) = Recognise(From(tot + (i - tot))).size
        BY <3>1, BufIsRest
      <3> QED BY <3>1, <3>2, <3>3
    <2> QED BY <1>1, <2>1, <2>2
  <1> QED BY <1>2, <1>3, <1>4
-----------------------------------------------------------------------------
(* parserAdd() preserves the invariant: a verdict on a part of the stream  *)
(* is not changed by the bytes added behind it.                            *)
LEMMA AddInv ==
    ASSUME IInv, NEW n \in Chunks, n <= Len(wire), Add(n)
    PROVE  IInv'
  <1> DEFINE chunk == SubSeq(wire, 1, n)
  <1>0. TypeOK /\ TmpFits /\ BinNotFull /\ Conservation /\ FramingFinal
    BY DEF IInv
  <1>1. chunk \in Seq(Byte) /\ Len(chunk) = n /\ SubSeq(wire, n + 1, Len(wire)) \in Seq(Byte)
    BY <1>0, ParserAssumption DEF TypeOK
  <1>2. buf' = buf \o chunk /\ input' = input \o chunk /\ idle' = FALSE
        /\ wire' = SubSeq(wire, n + 1, Len(wire))
        /\ UNCHANGED <<offs, msg, tot, out>> /\ Len(buf) + n <= PARSER_BUF_SIZE
    BY DEF Add, Arrive, Fits
  <1> HIDE DEF chunk
  <1>3. buf \in Seq(Byte) /\ input \in Seq(Byte) /\ tot \in 0 .. Len(input) /\ offs \in 0 .. Len(buf)
    BY <1>0 DEF TypeOK, Conservation
  <1>4. /\ buf' \in Seq(Byte) /\ Len(buf') = Len(buf) + n
        /\ input' \in Seq(Byte) /\ Len(input') = Len(input) + n
    BY <1>1, <1>2, <1>3, ConcatProperties
  <1>n. n \in Nat
    BY ParserAssumption
  <1>5. TypeOK'
    <2>1. offs' \in 0 .. Len(buf') /\ Len(buf') <= PARSER_BUF_SIZE
      BY <1>2, <1>3, <1>4, <1>n
    <2> QED BY <1>0, <1>1, <1>2, <1>4, <2>1 DEF TypeOK
  <1>6. TmpFits' /\ BinNotFull' /\ Backlog'
    BY <1>0, <1>2 DEF TmpFits, BinNotFull, Backlog
  <1>7. Conservation'
    <2>1. tot' <= Len(input') /\ buf' = SubSeq(input', tot' + 1, Len(input'))
      <3>1. SubSeq(input \o chunk, tot + 1, Len(input \o chunk)) = SubSeq(input, tot + 1, Len(input)) \o chunk
        BY <1>1, <1>3, RestOfLonger
      <3>2. buf = SubSeq(input, tot + 1, Len(input))
        BY <1>0 DEF Conservation
      <3>3. buf' = SubSeq(input', tot' + 1, Len(input'))
        BY <3>1, <3>2, <1>2
      <3> QED BY <3>3, <1>2, <1>3, <1>4, <1>n
    <2>2. ASSUME NEW m \in out PROVE m.data = SubSeq(input', m.at + 1, m.at + Len(m.data))
      <3>1. m.at \in Nat /\ m.data \in Seq(Byte) /\ m.at + Len(m.data) <= tot
        BY <1>0 DEF TypeOK, Conservation
      <3>2. m.at \in 0 .. Len(input) /\ m.at + Len(m.data) \in m.at .. Len(input)
        BY <3>1, <1>3
      <3>3. SubSeq(input \o chunk, m.at + 1, m.at + Len(m.data)) = SubSeq(input, m.at + 1, m.at + Len(m.data))
        BY <3>2, <1>1, <1>3, PieceOfLonger
      <3> QED BY <3>3, <1>0, <1>2 DEF Conservation
    <2> QED BY <1>0, <1>2, <2>1, <2>2 DEF Conservation
  <1>8. FramingFinal'
    <2>1. ASSUME NEW i \in 0 .. Len(input), i < Len(input), Recognise(From(i)).size # -1
          PROVE  Recognise(From(i)') = Recognise(From(i))
      <3>1. /\ From(i)' \in Seq(Byte) /\ Len(From(i)') = Len(input) + n - i
            /\ Len(input) - i \in 1 .. Len(From(i)')
        <4>1. i \in 0 .. Len(input') /\ Len(input') \in i .. Len(input')
          BY <1>4, <1>n
        <4>2. /\ SubSeq(input', i + 1, Len(input')) \in Seq(Byte)
              /\ Len(SubSeq(input', i + 1, Len(input'))) = Len(input') - i
          BY <4>1, <1>4, Piece
        <4> QED BY <2>1, <4>2, <1>4, <1>n DEF From
      <3>2. Prefix(From(i)', Len(input) - i) = From(i)
        <4>1. /\ i \in 0 .. Len(input') /\ Len(input) - i \in 0 .. Len(input') - i
              /\ i + (Len(input) - i) = Len(input)
          BY <1>4, <1>n
        <4>2. SubSeq(SubSeq(input', i + 1, Len(input')), 1, Len(input) - i)
                = SubSeq(input', i + 1, i + (Len(input) - i))
          BY <4>1, <1>4, FrontOfRest
        <4>3. SubSeq(input \o chunk, i + 1, Len(input)) = SubSeq(input, i + 1, Len(input))
          BY <1>1, <1>3, PieceOfLonger
        <4> QED BY <4>1, <4>2, <4>3, <1>2 DEF Prefix, From
      <3> QED BY <2>1, <3>1, <3>2, RecogniseStable
    <2>2. ASSUME NEW m \in out
          PROVE  IF m.type = "GARBAGE"
                 THEN \A i \in m.at .. m.at + Len(m.data) - 1 : Recognise(From(i)').size = 0
                 ELSE Recognise(From(m.at)') = [type |-> m.type, size |-> Len(m.data)]
      <3>1. /\ m.at \in Nat /\ Len(m.data) \in Nat /\ m.at + Len(m.data) <= tot
            /\ Len(m.data) >= 1
        BY <1>0 DEF TypeOK, Conservation, TmpFits
      <3>2. CASE m.type = "GARBAGE"
        <4>1. ASSUME NEW i \in m.at .. m.at + Len(m.data) - 1 PROVE Recognise(From(i)').size = 0
          <5>1. i \in 0 .. Len(input) /\ i < Len(input)
            BY <3>1, <1>3
          <5>2. Recognise(From(i)).size = 0
            BY <1>0, <3>2 DEF FramingFinal
          <5> QED BY <5>1, <5>2, <2>1
        <4> QED BY <3>2, <4>1
      <3>3. CASE m.type # "GARBAGE"
        <4>1. m.at \in 0 .. Len(input) /\ m.at < Len(input)
          BY <3>1, <1>3
        <4>2. Recognise(From(m.at)) = [type |-> m.type, size |-> Len(m.data)]
          BY <1>0, <3>3 DEF FramingFinal
        <4>3. Recognise(From(m.at)).size # -1
          BY <4>2, <3>1
        <4> QED BY <3>3, <4>1, <4>2, <4>3, <2>1
      <3> QED BY <3>2, <3>3
    <2>3. ASSUME NEW i \in tot .. tot + offs - 1 PROVE Recognise(From(i)').size = 0
      <3>1. Len(buf) = Len(input) - tot
        <4>1. Len(buf) \in Nat /\ 0 \in 0 .. Len(buf)
          BY <1>3
        <4> QED BY <4>1, BufIsRest
      <3>2. i \in 0 .. Len(input) /\ i < Len(input)
        BY <3>1, <1>3
      <3>3. Recognise(From(i)).size = 0
        BY <1>0 DEF FramingFinal
      <3> QED BY <3>2, <3>3, <2>1
    <2> QED BY <1>2, <2>2, <2>3 DEF FramingFinal, From
  <1> QED BY <1>5, <1>6, <1>7, <1>8 DEF IInv

(* A parserAdd() that fails changes nothing.                               *)
LEMMA OverflowInv ==
    ASSUME IInv, NEW n \in Chunks, n <= Len(wire), AddOverflow(n)
    PROVE  IInv'
  <1>1. wire' \in Seq(Byte)
    BY ParserAssumption DEF IInv, TypeOK, AddOverflow, Arrive
  <1>2. UNCHANGED <<buf, offs, msg, tot, idle, out, input>>
    BY DEF AddOverflow, state
  <1> QED BY <1>1, <1>2
      DEF IInv, TypeOK, TmpFits, BinNotFull, Backlog, Conservation, FramingFinal, Fits, From
-----------------------------------------------------------------------------
(* _emitGarbage() and _emitMessage() preserve the invariant when what they *)
(* cut off the buffer is right: garbage all of it, or the message there.   *)
LEMMA EmitInv ==
    ASSUME IInv, NEW type \in Types, NEW n \in 1 .. Len(buf), n <= PARSER_MAX_ANY_SIZE,
           IF type = "GARBAGE"
           THEN \A i \in tot .. tot + n - 1 : Recognise(From(i)).size = 0
           ELSE Recognise(From(tot)) = [type |-> type, size |-> n],
           Emit(type, n)
    PROVE  IInv'
  <1> DEFINE new == [type |-> type, seq |-> msg + 1, at |-> tot, data |-> SubSeq(buf, 1, n)]
  <1>0. TypeOK /\ TmpFits /\ Conservation /\ FramingFinal
    BY DEF IInv
  <1>1. /\ out' = out \cup {new}
        /\ buf' = SubSeq(buf, n + 1, Len(buf))
        /\ offs' = 0 /\ msg' = msg + 1 /\ tot' = tot + n /\ idle' = FALSE
        /\ input' = input /\ wire' = wire
    BY DEF Emit
  <1>2. /\ buf \in Seq(Byte) /\ input \in Seq(Byte) /\ tot \in Nat /\ msg \in Nat
        /\ n \in 0 .. Len(buf) /\ n \in Nat /\ Len(buf) <= PARSER_BUF_SIZE
    BY <1>0 DEF TypeOK
  <1>3. /\ tot + n \in 0 .. Len(input)
        /\ SubSeq(buf, n + 1, Len(buf)) = From(tot + n)
        /\ SubSeq(buf, 1, n) = SubSeq(input, tot + 1, tot + n)
    BY <1>2, BufIsRest
  <1>4. SubSeq(buf, 1, n) \in Seq(Byte) /\ Len(SubSeq(buf, 1, n)) = n
    BY <1>2
  <1>5. /\ SubSeq(buf, n + 1, Len(buf)) \in Seq(Byte)
        /\ Len(SubSeq(buf, n + 1, Len(buf))) = Len(buf) - n
    BY <1>2
  <1>6. /\ new.type = type /\ new.seq = msg + 1 /\ new.at = tot
        /\ new.data \in Seq(Byte) /\ Len(new.data) = n
        /\ new.data = SubSeq(input, tot + 1, tot + n)
        /\ new \in [type : Types, seq : Nat, at : Nat, data : Seq(Byte)]
    <2>1. msg + 1 \in Nat
      BY <1>2
    <2>2. new \in [type : Types, seq : Nat, at : Nat, data : Seq(Byte)]
      BY <1>2, <1>4, <2>1
    <2> QED BY <1>3, <1>4, <2>2
  <1> HIDE DEF new
  <1>7. TypeOK'
    <2>1. PARSER_BUF_SIZE \in Nat
      BY ParserAssumption
    <2>2. buf' \in Seq(Byte) /\ Len(buf') <= PARSER_BUF_SIZE /\ offs' \in 0 .. Len(buf')
      BY <1>1, <1>2, <1>5, <2>1
    <2>3. msg' \in Nat /\ tot' \in Nat
      BY <1>1, <1>2
    <2>4. idle' \in BOOLEAN
      BY <1>1
    <2>5. \A m \in out' : m \in [type : Types, seq : Nat, at : Nat, data : Seq(Byte)]
      BY <1>0, <1>1, <1>6 DEF TypeOK
    <2> QED BY <1>0, <1>1, <2>2, <2>3, <2>4, <2>5 DEF TypeOK
  <1>8. TmpFits'
    BY <1>0, <1>1, <1>2, <1>6, ParserAssumption DEF TmpFits
  <1>9. BinNotFull' /\ Backlog'
    BY <1>1, ParserAssumption DEF BinNotFull, Backlog
  <1>10. Conservation'
    <2>0. \A m \in out : /\ m.seq \in 1 .. msg /\ m.at \in Nat /\ Len(m.data) \in Nat
                         /\ m.at + Len(m.data) <= tot
                         /\ m.seq = 1 => m.at = 0
                         /\ m.seq = msg => m.at + Len(m.data) = tot
      BY <1>0 DEF TypeOK, Conservation
    <2>1. tot' <= Len(input') /\ buf' = SubSeq(input', tot' + 1, Len(input'))
      BY <1>1, <1>3 DEF From
    <2>2. \A m \in out' : m.data = SubSeq(input', m.at + 1, m.at + Len(m.data))
      BY <1>0, <1>1, <1>6 DEF Conservation
    <2>3. ASSUME NEW m \in out'
          PROVE  /\ m.seq \in 1 .. msg'
                 /\ m.seq = 1 => m.at = 0
                 /\ m.at + Len(m.data) <= tot'
                 /\ m.seq = msg' => m.at + Len(m.data) = tot'
      <3>1. CASE m \in out
        BY <3>1, <2>0, <1>1, <1>2
      <3>2. CASE m = new
        <4>1. msg = 0 => tot = 0
          BY <1>0 DEF Conservation
        <4> QED BY <3>2, <4>1, <1>1, <1>2, <1>6
      <3> QED BY <3>1, <3>2, <1>1
    <2>4. \A i \in 1 .. msg' : \E m \in out' : m.seq = i
      <3>1. ASSUME NEW i \in 1 .. msg' PROVE \E m \in out' : m.seq = i
        <4>1. CASE i \in 1 .. msg
          BY <4>1, <1>0, <1>1 DEF Conservation
        <4>2. CASE i = msg + 1
          BY <4>2, <1>1, <1>6
        <4> QED BY <4>1, <4>2, <1>1, <1>2
      <3> QED BY <3>1
    <2>5. ASSUME NEW m1 \in out', NEW m2 \in out'
          PROVE  /\ m1.seq = m2.seq => m1 = m2
                 /\ m2.seq = m1.seq + 1 => m2.at = m1.at + Len(m1.data)
      <3>1. CASE m1 \in out /\ m2 \in out
        BY <3>1, <1>0 DEF Conservation
      <3>2. CASE m1 \in out /\ m2 = new
        BY <3>2, <2>0, <1>2, <1>6
      <3>3. CASE m1 = new /\ m2 \in out
        BY <3>3, <2>0, <1>2, <1>6
      <3>4. CASE m1 = new /\ m2 = new
        BY <3>4, <1>2, <1>6
      <3> QED BY <3>1, <3>2, <3>3, <3>4, <1>1
    <2>6. msg' # 0
      BY <1>1, <1>2
    <2> QED BY <2>1, <2>2, <2>3, <2>4, <2>5, <2>6 DEF Conservation
  <1>11. FramingFinal'
    <2>1. \A i : From(i)' = From(i)
      BY <1>1 DEF From
    <2>2. ASSUME NEW m \in out'
          PROVE  IF m.type = "GARBAGE"
                 THEN \A i \in m.at .. m.at + Len(m.data) - 1 : Recognise(From(i)).size = 0
                 ELSE Recognise(From(m.at)) = [type |-> m.type, size |-> Len(m.data)]
      <3>1. CASE m \in out
        BY <3>1, <1>0 DEF FramingFinal
      <3>2. CASE m = new
        BY <3>2, <1>6
      <3> QED BY <3>1, <3>2, <1>1
    <2>3. \A i \in tot' .. tot' + offs' - 1 : Recognise(From(i)).size = 0
      BY <1>1, <1>2
    <2> QED BY <2>1, <2>2, <2>3 DEF FramingFinal
  <1> QED BY <1>7, <1>8, <1>9, <1>10, <1>11 DEF IInv

(* The garbage cut off at the end of the scan is right.                    *)
LEMMA GarbageInv ==
    ASSUME IInv, NEW k \in offs .. Len(buf), EmitGarbage(k)
    PROVE  IInv'
  <1>1. Scan(k) /\ k > 0 /\ Emit("GARBAGE", k)
    BY DEF EmitGarbage
  <1>2. k \in 1 .. Len(buf) /\ "GARBAGE" \in Types
    BY <1>1 DEF IInv, TypeOK, Types
  <1>3. k <= PARSER_MAX_ANY_SIZE
    BY <1>1, ScanFacts, ParserAssumption
  <1>4. \A i \in tot .. tot + k - 1 : Recognise(From(i)).size = 0
    BY <1>1, ScanFacts
  <1> QED BY <1>1, <1>2, <1>3, <1>4, EmitInv

(* A message is at the front of the buffer when one is emitted.            *)
LEMMA MessageAtFront ==
    ASSUME IInv, EmitMessage
    PROVE  /\ offs = 0 /\ VerdictAt(0) \in 1 .. Len(buf)
           /\ VerdictAt(0) <= PARSER_MAX_ANY_SIZE
           /\ buf = From(tot)
           /\ Recognise(buf).type \in MsgTypes
           /\ Recognise(From(tot)) = [type |-> Recognise(buf).type, size |-> VerdictAt(0)]
           /\ Emit(Recognise(buf).type, VerdictAt(0))
  <1>1. /\ offs = 0 /\ buf # <<>> /\ VerdictAt(0) > 0
        /\ Emit(Recognise(buf).type, VerdictAt(0))
    BY DEF EmitMessage
  <1>2. buf \in Seq(Byte) /\ Len(buf) >= 1 /\ 0 \in 0 .. Len(buf) /\ 0 < Len(buf)
        /\ tot \in Nat
    BY <1>1 DEF IInv, TypeOK
  <1>3. VerdictAt(0) \in 1 .. Len(buf) /\ VerdictAt(0) <= PARSER_MAX_ANY_SIZE
    BY <1>1, <1>2, VerdictRange, ParserAssumption
  <1>4. SubSeq(buf, 1, Len(buf)) = buf /\ 0 + 1 = 1 /\ tot + 0 = tot
    BY <1>2
  <1>5. buf = From(tot) /\ VerdictAt(0) = Recognise(buf).size
    BY <1>2, <1>4, BufIsRest DEF VerdictAt
  <1>6. /\ Recognise(buf).size # 0 => Recognise(buf).type \in MsgTypes
        /\ Recognise(buf) = [type |-> Recognise(buf).type, size |-> Recognise(buf).size]
    BY <1>2, AnyIsMax, RecogniseRange
  <1>7. Recognise(buf).size # 0
    BY <1>1, <1>5
  <1> QED BY <1>1, <1>3, <1>5, <1>6, <1>7

(* The message cut off the buffer is right.                                *)
LEMMA MessageInv ==
    ASSUME IInv, EmitMessage
    PROVE  IInv'
  <1>1. Recognise(buf).type \in Types /\ Recognise(buf).type # "GARBAGE"
    BY MessageAtFront DEF Types, MsgTypes
  <1> QED BY <1>1, MessageAtFront, EmitInv

(* When parserProcess() returns false it keeps less than one message.      *)
LEMMA NoMessageInv ==
    ASSUME IInv, NEW k \in offs .. Len(buf), NoMessage(k)
    PROVE  IInv'
  <1>1. /\ Scan(k)
        /\ IsUndecided(k) \/ buf = <<>>
        /\ offs' = k /\ idle' = TRUE
        /\ UNCHANGED <<buf, msg, tot, out, input, wire>>
    BY DEF NoMessage
  <1>2. /\ offs \in Nat /\ k \in Nat /\ k \in 0 .. Len(buf) /\ Len(buf) \in Nat
        /\ buf \in Seq(Byte)
    BY DEF IInv, TypeOK
  <1>3. k < PARSER_MAX_GARB_SIZE /\ Len(buf) - k < LargestMessage
    <2>1. CASE buf = <<>>
      BY <1>2, <2>1, ParserAssumption, LargestIsMax DEF IsMaxMsgSize
    <2>2. CASE IsUndecided(k)
      <3>1. k < Len(buf) /\ ~GarbageBinFull(k) /\ VerdictAt(k) < 0
        BY <2>2 DEF IsUndecided
      <3>2. VerdictAt(k) = -1
        BY <1>2, <3>1, VerdictRange
      <3> QED BY <1>1, <1>2, <3>1, <3>2, VerdictRange, ScanFacts
    <2> QED BY <1>1, <2>1, <2>2
  <1>4. TypeOK'
    <2>1. idle' \in BOOLEAN
      BY <1>1
    <2>2. offs' \in 0 .. Len(buf')
      BY <1>1, <1>2
    <2> QED BY <1>1, <2>1, <2>2 DEF IInv, TypeOK
  <1>5. TmpFits' /\ Conservation'
    BY <1>1 DEF IInv, TmpFits, Conservation
  <1>6. BinNotFull' /\ Backlog'
    BY <1>1, <1>3 DEF BinNotFull, Backlog
  <1>7. FramingFinal'
    <2>1. \A i : From(i)' = From(i)
      BY <1>1 DEF From
    <2>2. \A i \in tot .. tot + k - 1 : Recognise(From(i)).size = 0
      BY <1>1, ScanFacts
    <2>3. \A i \in tot' .. tot' + offs' - 1 : Recognise(From(i)').size = 0
      BY <1>1, <2>1, <2>2
    <2>4. \A m \in out' :
              IF m.type = "GARBAGE"
              THEN \A i \in m.at .. m.at + Len(m.data) - 1 : Recognise(From(i)').size = 0
              ELSE Recognise(From(m.at)') = [type |-> m.type, size |-> Len(m.data)]
      BY <1>1, <2>1 DEF IInv, FramingFinal
    <2> QED BY <2>3, <2>4 DEF FramingFinal, From
  <1> QED BY <1>4, <1>5, <1>6, <1>7 DEF IInv

(* Every step preserves the invariant.                                     *)
LEMMA NextInv == IInv /\ [Next]_vars => IInv'
  <1> SUFFICES ASSUME IInv, [Next]_vars PROVE IInv'
    OBVIOUS
  <1>1. CASE \E n \in Chunks : n <= Len(wire) /\ (Add(n) \/ AddOverflow(n))
    BY <1>1, AddInv, OverflowInv
  <1>2. CASE EmitMessage
    BY <1>2, MessageInv
  <1>3. CASE \E k \in offs .. Len(buf) : EmitGarbage(k) \/ NoMessage(k)
    BY <1>3, GarbageInv, NoMessageInv
  <1>4. CASE UNCHANGED vars
    BY <1>4 DEF vars, IInv, TypeOK, TmpFits, BinNotFull, Backlog, Conservation, FramingFinal, From
  <1> QED BY <1>1, <1>2, <1>3, <1>4 DEF Next, Process

(* The inductive invariant holds in every behaviour.                       *)
THEOREM Invariance == Spec => []IInv
  BY InitInv, NextInv, PTL DEF Spec
-----------------------------------------------------------------------------
(* Type correctness of the parser.                                         *)
THEOREM TypeCorrect == Spec => []TypeOK
  <1>1. IInv => TypeOK
    BY DEF IInv
  <1> QED BY <1>1, Invariance, PTL

(* _emitGarbage() and _emitMessage() never write beyond PARSER_t.tmp.      *)
THEOREM TmpNeverOverrun == Spec => []TmpFits
  <1>1. IInv => TmpFits
    BY DEF IInv
  <1> QED BY <1>1, Invariance, PTL

(* parserProcess() returns false only with a bounded backlog.              *)
THEOREM BacklogBounded == Spec => []Backlog
  <1>1. IInv => Backlog
    BY DEF IInv
  <1> QED BY <1>1, Invariance, PTL

(* The FIXME of ff_parser.h: the buffer is large enough for callers that   *)
(* drain the parser before they add a chunk that leaves room for a garbage *)
(* bin and a largest message.                                              *)
THEOREM BufferLargeEnough == Spec => []NoOverflowWhenDrained
  <1>1. IInv => NoOverflowWhenDrained
    <2> SUFFICES ASSUME IInv, idle, NEW n \in Chunks,
                        n + PARSER_MAX_GARB_SIZE + LargestMessage - 2 <= PARSER_BUF_SIZE
                 PROVE  Fits(n)
      BY DEF NoOverflowWhenDrained
    <2>1. /\ Len(buf) \in Nat /\ offs \in Nat /\ n \in Nat
          /\ offs < PARSER_MAX_GARB_SIZE /\ Len(buf) - offs < LargestMessage
      BY ParserAssumption DEF IInv, TypeOK, Backlog
    <2>2. LargestMessage \in Nat
      BY LargestIsMax DEF IsMaxMsgSize
    <2> QED BY <2>1, <2>2, ParserAssumption DEF Fits
  <1> QED BY <1>1, Invariance, PTL

(* No accepted byte is lost, repeated or reordered.                        *)
THEOREM BytesConserved == Spec => []Conservation
  <1>1. IInv => Conservation
    BY DEF IInv
  <1> QED BY <1>1, Invariance, PTL

(* The messages found do not depend on how the stream was chunked.         *)
THEOREM FramingIndependentOfChunks == Spec => []FramingFinal
  <1>1. IInv => FramingFinal
    BY DEF IInv
  <1> QED BY <1>1, Invariance, PTL
-----------------------------------------------------------------------------
(***************************************************************************)
(* The parser implements the framer.                                       *)
(***************************************************************************)
(* parserInit() is an initial state of the framer.                         *)
LEMMA InitRefines == Init => F!Init
  <1> SUFFICES ASSUME Init PROVE F!Init
    OBVIOUS
  <1>1. input = <<>> /\ tot + offs = 0 /\ out = {}
    BY DEF Init
  <1>2. Messages = {}
    BY <1>1 DEF Messages
  <1> QED BY <1>1, <1>2 DEF F!Init

(* parserAdd() is the acceptance of bytes by the framer.                   *)
LEMMA AddRefines ==
    ASSUME IInv, NEW n \in Chunks, n <= Len(wire), Add(n)
    PROVE  F!Accept
  <1> DEFINE chunk == SubSeq(wire, 1, n)
  <1>1. /\ input \in Seq(Byte) /\ chunk \in Seq(Byte) /\ Len(chunk) = n /\ n \in Nat /\ n > 0
    BY ParserAssumption DEF IInv, TypeOK
  <1>2. input' = input \o chunk /\ out' = out /\ tot' = tot /\ offs' = offs
    BY DEF Add
  <1> HIDE DEF chunk
  <1>3. Len(input') > Len(input)
    BY <1>1, <1>2, ConcatProperties
  <1>4. SubSeq(input', 1, Len(input)) = input
    <2>1. 0 \in 0 .. Len(input) /\ Len(input) \in 0 .. Len(input) /\ 0 + 1 = 1
      BY <1>1
    <2>2. SubSeq(input \o chunk, 1, Len(input)) = SubSeq(input, 1, Len(input))
      BY <1>1, <2>1, PieceOfLonger
    <2> QED BY <2>2, <1>1, <1>2, SubSeqFull
  <1>5. Messages' = Messages
    BY <1>2 DEF Messages
  <1> QED BY <1>2, <1>3, <1>4, <1>5 DEF F!Accept

(* Garbage reported, and a false from parserProcess(), is at most a skip:  *)
(* nothing when the bytes had been decided upon before.                    *)
LEMMA ScanRefines ==
    ASSUME IInv, NEW k \in offs .. Len(buf), Scan(k),
           tot' + offs' = tot + k, input' = input, Messages' = Messages
    PROVE  [F!Next]_F!vars
  <1>1. /\ offs \in Nat /\ k \in Nat /\ tot \in Nat /\ Len(buf) \in Nat /\ k \in 0 .. Len(buf)
        /\ offs <= k
    BY DEF IInv, TypeOK
  <1>2. CASE k = offs
    BY <1>2 DEF F!vars
  <1>3. CASE k > offs
    <2>1. tot + k \in (tot + offs) + 1 .. Len(input)
      <3>1. tot + k \in 0 .. Len(input)
        BY <1>1, BufIsRest
      <3> QED BY <3>1, <1>1, <1>3
    <2>2. \A i \in tot + offs .. (tot + k) - 1 : Recognise(F!From(i)).size = 0
      <3>1. \A i \in tot .. tot + k - 1 : Recognise(From(i)).size = 0
        BY ScanFacts
      <3> QED BY <3>1, <1>1 DEF From, F!From
    <2>3. F!Skip(tot + k)
      BY <2>2 DEF F!Skip
    <2> QED BY <2>1, <2>3 DEF F!Next
  <1> QED BY <1>1, <1>2, <1>3

(* A message returned is a message delivered.                              *)
LEMMA MessageRefines ==
    ASSUME IInv, EmitMessage
    PROVE  F!Deliver
  <1> DEFINE n == VerdictAt(0)
             type == Recognise(buf).type
             new == [type |-> type, seq |-> msg + 1, at |-> tot, data |-> SubSeq(buf, 1, n)]
             sent == [type |-> type, at |-> tot, data |-> SubSeq(buf, 1, n)]
  <1>1. /\ offs = 0 /\ n \in 1 .. Len(buf) /\ buf = From(tot) /\ type \in MsgTypes
        /\ Recognise(From(tot)) = [type |-> type, size |-> n]
        /\ Emit(type, n)
    BY MessageAtFront
  <1>2. /\ out' = out \cup {new} /\ offs' = 0 /\ tot' = tot + n /\ input' = input
    BY <1>1 DEF Emit
  <1>3. tot \in Nat /\ Len(buf) \in Nat /\ n \in Nat /\ n > 0 /\ Len(buf) = Len(input) - tot
        /\ Len(input) \in Nat
    <2>1. tot \in Nat /\ Len(buf) \in Nat /\ 0 \in 0 .. Len(buf) /\ Len(input) \in Nat
      BY DEF IInv, TypeOK
    <2> QED BY <2>1, <1>1, BufIsRest
  <1>4. Messages' = Messages \cup {sent}
    <2>1. new.type # "GARBAGE" /\ Sent(new) = sent
      BY <1>1 DEF MsgTypes, Sent
    <2> HIDE DEF new, sent
    <2> QED BY <2>1, <1>2 DEF Messages, Sent
  <1>5. tot + offs = tot /\ tot' + offs' = tot + n
    BY <1>1, <1>2, <1>3
  <1>6. F!From(tot + offs) = buf
    BY <1>1, <1>5 DEF F!From, From
  <1> HIDE DEF n, type, new
  <1>7. /\ Recognise(F!From(tot + offs)).type = type
        /\ Recognise(F!From(tot + offs)).size = n
    BY <1>1, <1>6
  <1>8. tot + offs < Len(input)
    BY <1>1, <1>3, <1>5
  <1>9. /\ Recognise(F!From(tot + offs)).size > 0
        /\ Messages' = Messages \cup
              {[type |-> Recognise(F!From(tot + offs)).type, at |-> tot + offs,
                data |-> SubSeq(F!From(tot + offs), 1, Recognise(F!From(tot + offs)).size)]}
        /\ (tot + offs)' = tot + offs + Recognise(F!From(tot + offs)).size
    BY <1>3, <1>4, <1>5, <1>6, <1>7
  <1> QED BY <1>2, <1>8, <1>9 DEF F!Deliver

(* Every step of the parser is a step of the framer, or none.              *)
LEMMA NextRefines == IInv /\ [Next]_vars => [F!Next]_F!vars
  <1> SUFFICES ASSUME IInv, [Next]_vars PROVE [F!Next]_F!vars
    OBVIOUS
  <1>1. ASSUME NEW n \in Chunks, n <= Len(wire), Add(n) PROVE F!Next
    BY <1>1, AddRefines DEF F!Next
  <1>2. ASSUME NEW n \in Chunks, AddOverflow(n) PROVE UNCHANGED F!vars
    BY <1>2 DEF AddOverflow, state, F!vars, Messages
  <1>3. CASE EmitMessage
    BY <1>3, MessageRefines DEF F!Next
  <1>4. ASSUME NEW k \in offs .. Len(buf), EmitGarbage(k) PROVE [F!Next]_F!vars
    <2> DEFINE new == [type |-> "GARBAGE", seq |-> msg + 1, at |-> tot, data |-> SubSeq(buf, 1, k)]
    <2>1. /\ Scan(k) /\ out' = out \cup {new} /\ offs' = 0 /\ tot' = tot + k /\ input' = input
      BY <1>4 DEF EmitGarbage, Emit
    <2>2. new.type = "GARBAGE"
      OBVIOUS
    <2> HIDE DEF new
    <2>3. Messages' = Messages
      BY <2>1, <2>2 DEF Messages, Sent
    <2>4. tot' + offs' = tot + k
      BY <2>1 DEF IInv, TypeOK
    <2> QED BY <2>1, <2>3, <2>4, ScanRefines
  <1>5. ASSUME NEW k \in offs .. Len(buf), NoMessage(k) PROVE [F!Next]_F!vars
    <2>1. Scan(k) /\ tot' + offs' = tot + k /\ input' = input /\ Messages' = Messages
      BY <1>5 DEF NoMessage, Messages
    <2> QED BY <2>1, ScanRefines
  <1>6. CASE UNCHANGED vars
    BY <1>6 DEF vars, F!vars, Messages
  <1> QED BY <1>1, <1>2, <1>3, <1>4, <1>5, <1>6 DEF Next, Process

(* The parser implements its specification, the framer.                    *)
THEOREM Refinement == Spec => ImplementsFramer
  <1>1. Init => F!Init
    BY InitRefines
  <1>2. IInv /\ [Next]_vars => [F!Next]_F!vars
    BY NextRefines
  <1> QED BY <1>1, <1>2, Invariance, PTL DEF Spec, ImplementsFramer, F!Spec
=============================================================================
