SPECIFICATION Spec
CONSTANTS
    k1 = k1
    k2 = k2
    k3 = k3
    Keys = {k1, k2, k3}
    TypeOf <- MCTcp
    MaxFlows = {2, 3}
    FirstMax = 3
    MaxReloads = 1
    WorkLimit = 1
    AnswerKeys = {k1, k2}
    BlockKeys = {k1, k3}
    OffloadKeys = {k2}
    CountMod = 4
    None = None
INVARIANTS AllocatedExact RoomMade  LinksInTable ClosedReleased
PROPERTIES BlockedLast IdleFlowsGo 
