\* The main thread joins a player that waits for the main thread.
SPECIFICATION FairSpec
CONSTANTS
    NumMsgs = 3
    EpochEnds = {2}
    Warnings = {2}
    NameSets <- MCNameSets
    ChunkMsgs = 2
    EVENT_QUEUE_MAX_SIZE = 1
    MaxOpens = 1
    MaxCommands <- MCMaxCommands
PROPERTY CloseReturns
CHECK_DEADLOCK FALSE
