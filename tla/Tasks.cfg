SPECIFICATION FairSpec
CONSTANTS
    t1 = t1
    t2 = t2
    t3 = t3
    None = None
    Tasks = {t1, t2, t3}
    HashCode <- TwoLanes
    Malformed = {t3}
    ThreadNum = 2
    MaxStarts = 1
INVARIANTS
    TypeOK
    SleptThrough
PROPERTIES
    KeepsContract
    TaskEnds
    StopEnds
CHECK_DEADLOCK FALSE
