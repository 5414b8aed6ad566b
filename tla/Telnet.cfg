CONSTANTS
    Options <- MCOptions
    InbandSize = 4
    PacketSize = 3
    ReadSize = 3
    Streams <- MCStreams
    Writes <- MCWrites
SPECIFICATION TelnetSpec
INVARIANTS DataDelivered OpenMeansAgreed WireExact
CHECK_DEADLOCK FALSE
