------------------------------ MODULE MCParser ------------------------------
(* Streams made of whole, damaged and truncated messages, for TLC.         *)
EXTENDS Parser, SequencesExt

Sum(b) == FoldSeq(LAMBDA x, y : x + y, 0, b)

(* The 8-bit Fletcher checksum of UBX; stand-ins for the XOR and the CRCs  *)
MCUbxChecksum(b) ==
    FoldLeft(LAMBDA ck, x : <<(ck[1] + x) % 256, ((ck[1] + x) + ck[2]) % 256>>,
             <<0, 0>>, b)
MCNmeaChecksum(b) == <<48 + ((Sum(b) \div 16) % 8), 48 + (Sum(b) % 10)>>
MCCrc24(b) == <<Sum(b) % 256, Len(b), 1>>
MCCrc32(b) == <<Sum(b) % 256, Len(b), 2, 3>>

UbxBody(n) == <<1, 7, n, 0>> \o [i \in 1 .. n |-> UBX_SYNC_1]
UbxMsg(n) == <<UBX_SYNC_1, UBX_SYNC_2>> \o UbxBody(n) \o MCUbxChecksum(UbxBody(n))
NmeaMsg(n) ==
    LET text == [i \in 1 .. n |-> 65]
    IN  <<NMEA_PREAMBLE>> \o text \o <<STAR>> \o MCNmeaChecksum(text) \o <<CR, LF>>
Rtcm3Msg(n) ==
    LET body == <<RTCM3_PREAMBLE, 0, n>> \o [i \in 1 .. n |-> NMEA_PREAMBLE]
    IN  body \o MCCrc24(body)
NovatelMsg(n) ==
    LET body == <<NOVATEL_SYNC_1, NOVATEL_SYNC_2, NOVATEL_SYNC_3_SHORT, n>>
                    \o [i \in 1 .. 8 + n |-> 0]
    IN  body \o MCCrc32(body)
NovatelLong(n) ==
    LET body == <<NOVATEL_SYNC_1, NOVATEL_SYNC_2, NOVATEL_SYNC_3_LONG, 10, 0, 0, 0, 0, n, 0>>
                    \o [i \in 1 .. n |-> UBX_SYNC_1]
    IN  body \o MCCrc32(body)

Damaged(b) == [b EXCEPT ![Len(b)] = (@ + 1) % 256]
Truncated(b, n) == SubSeq(b, 1, n)

Small ==
    {UbxMsg(0), UbxMsg(1), Damaged(UbxMsg(0)), Truncated(UbxMsg(1), 7),
     NmeaMsg(0), NmeaMsg(2), Damaged(NmeaMsg(1)), Truncated(NmeaMsg(2), 3),
     Rtcm3Msg(1), Damaged(Rtcm3Msg(0)), Truncated(Rtcm3Msg(1), 2),
     <<0>>, <<UBX_SYNC_1>>, <<1, UBX_SYNC_1, UBX_SYNC_2>>}
TooLong == {UbxMsg(3), NmeaMsg(5), Rtcm3Msg(3), NovatelMsg(2)}
Novatel == {NovatelMsg(0), NovatelLong(2), Damaged(NovatelMsg(0)),
            Truncated(NovatelMsg(1), 12), <<NOVATEL_SYNC_1, NOVATEL_SYNC_2>>}

Pairs(A, B) == {a \o b : a \in A, b \in B}

(* Two small messages in every combination; a longer tail; long enough to   *)
(* fill the buffer; more garbage than tmp has room for                     *)
MCStreams ==
    Pairs(Small, Small) \cup TooLong \cup Novatel
        \cup Pairs({UbxMsg(0), <<0>>, <<UBX_SYNC_1>>}, TooLong \cup Novatel)
        \cup {UbxMsg(0) \o NovatelMsg(0) \o UbxMsg(2) \o <<0>> \o NmeaMsg(2),
              <<UBX_SYNC_1, UBX_SYNC_2>> \o NovatelMsg(0) \o UbxMsg(1) \o NovatelMsg(0),
              <<0, 0>> \o Truncated(NovatelMsg(1), 16) \o NovatelMsg(0) \o UbxMsg(0),
              <<0, 0, 0, 0>> \o Damaged(NovatelMsg(1))}
=============================================================================
