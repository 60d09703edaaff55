SPECIFICATION FairSpec
CONSTANTS
    h1 = h1
    h2 = h2
    k1 = k1
    k2 = k2
    k3 = k3
    Hosts = {h1, h2}
    Calls = {k1, k2}
    CallerOf <- Caller
    CalleeOf <- Callee
    Check_Expired_Span = 1
    Default_Expire = 2
    MaxFault = 1
INVARIANTS
    TypeOK
    NoneForgotten
PROPERTIES
    KeepsContract
    AwaitedEnds
CHECK_DEADLOCK FALSE
