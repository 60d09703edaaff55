SPECIFICATION HSpec
CONSTANTS
    c1 = c1
    c2 = c2
    c3 = c3
    g1 = g1
    m1 = m1
    m2 = m2
    r1 = r1
    None = None
    World = World
    Roles = {r1}
    Clients = {c1, c2}
    Gates = {g1}
    Games = {m1}
    GateOf <- OneGate
    TokenOf <- OnePlayer
    MaxId = 3
    MaxCall = 1
    MaxFault = 0
INVARIANTS
    TakeoverHandled
CHECK_DEADLOCK FALSE
