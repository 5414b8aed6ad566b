\* Three messages in two chunks, an epoch and a warning, a queue that fills.
SPECIFICATION FairSpec
CONSTANTS
    NumMsgs = 3
    EpochEnds = {2}
    Warnings = {2}
    NameSets <- MCNameSets
    ChunkMsgs = 2
    EVENT_QUEUE_MAX_SIZE = 1
    MaxOpens = 2
    MaxCommands <- MCMaxCommands
INVARIANTS EventQueueBounded NoStaleCommand InOrder UndisturbedPlayComplete
PROPERTIES FileExclusive CommandsExecuted CloseReturnsUnlessStuck PlayEnds
\* Close() may wait forever for a player that waits for room.
CHECK_DEADLOCK FALSE
