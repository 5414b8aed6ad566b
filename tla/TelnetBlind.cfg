CONSTANTS
    Options <- MCOptions
    InbandSize = 4
    PacketSize = 3
    ReadSize = 3
    Streams <- MCBlindStreams
    Writes <- MCWrites
SPECIFICATION TelnetSpec
INVARIANTS SuboptionsEnd
CHECK_DEADLOCK FALSE
