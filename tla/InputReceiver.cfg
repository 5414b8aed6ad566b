\* Requests, connects and disconnects in every order; the queue saturates.
SPECIFICATION FairSpec
CONSTANTS
    HIGH = 2
    LOW = 1
    MaxStarts = 2
    MaxRequests = 2
    MaxMsgs = 2
INVARIANTS IdleIsIdle GapsAnnounced
PROPERTIES ImplementsService StopReturns GetConfigAnswered
