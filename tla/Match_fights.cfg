SPECIFICATION FairSpec
CONSTANTS
    r1 = r1
    r2 = r2
    g1 = g1
    None = None
    Match = Match
    Room = Room
    Fight = Fight
    Roles = {r1, r2}
    Games = {g1}
    MaxJoin = 2
    MaxTrouble = 2
INVARIANTS
    TypeOK
    RoleHeld
    InLiveRoom
PROPERTIES
    RoomEnds
CHECK_DEADLOCK FALSE
