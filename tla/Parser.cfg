\* Small limits, so that the bin fills, the buffer fills, messages are too large.
\* Chunks of PARSER_MAX_ANY_SIZE, and of all the room that a full bin and the
\* largest message (17) leave.
SPECIFICATION FairSpec
CONSTANTS
    PARSER_MAX_UBX_SIZE = 10
    PARSER_MAX_NMEA_SIZE = 3
    PARSER_MAX_RTCM3_SIZE = 2
    PARSER_MAX_NOVATEL_SIZE = 17
    PARSER_MAX_GARB_SIZE = 3
    PARSER_MAX_ANY_SIZE = 20
    PARSER_BUF_SIZE = 40
    Chunks = {1, 2, 3, 20, 22}
    Streams <- MCStreams
    UbxChecksum <- MCUbxChecksum
    NmeaChecksum <- MCNmeaChecksum
    Crc24 <- MCCrc24
    Crc32 <- MCCrc32
INVARIANTS TmpFits Conservation FramingFinal NoOverflowWhenDrained
PROPERTIES ImplementsFramer DrainTerminates
\* The stream ends, and then there is nothing left to do.
CHECK_DEADLOCK FALSE
