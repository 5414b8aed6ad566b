CONSTANTS
    Size = 3
    Raw <- MCRaw
    HavePos <- EpochHavePos
    Profiles <- MCProfiles
    Minute = 3
    MaxNav = 4
    MaxLost = 1
SPECIFICATION EpochsSpec
INVARIANTS LatestIsComplete HeldIntact Synchronised EpochsPure BestSource
PROPERTIES ImplementsLog
CHECK_DEADLOCK FALSE
