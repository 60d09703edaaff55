SPECIFICATION UuidSpec
CONSTANTS
    s1 = s1
    s2 = s2
    Services = {s1, s2}
    Hold_Uuid_Min_Count = 1
    Apply_Uuid_Count = 2
    MaxId = 6
    MaxStops = 1
SYMMETRY AnyService
INVARIANTS
    UuidTypeOK
    NeverTwice
    LowPoolRefills
CHECK_DEADLOCK FALSE
