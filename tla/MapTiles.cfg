CONSTANTS
    t1 = t1
    t2 = t2
    t3 = t3
    t4 = t4
    Tile = {t1, t2, t3, t4}
    Covered = {t1, t2, t3}
    a = a
    b = b
    Instance = {a, b}
    NumThreads = 2
    MAX_TILES_IN_QUEUE = 1
SPECIFICATION FairSpec
INVARIANTS LoadingIsRequested RequestedOnce
PROPERTIES RequestsEnd
CHECK_DEADLOCK FALSE
