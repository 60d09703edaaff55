SPECIFICATION FairSpec
CONSTANTS
    None = None
    MaxId = 3
    Times <- Moments
    LoopMax = 3
    Spans <- Ahead
INVARIANTS
    TypeOK
    NoNodeLost
    FreedOnce
    StartedIsStopped
PROPERTIES
    TimersKept
    QuitEnds
CHECK_DEADLOCK FALSE
