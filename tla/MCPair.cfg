SPECIFICATION HaFairSpec
CONSTANTS
    Size = 4
    InOrder = TRUE
    MaxPuts = 6
    Keys = {"t", "u"}
    TypeOf <- MCTypeOf
    MaxEvents = 4
    None = None
INVARIANTS
    TypeOK
    CountIsBacklog
    GetsInOrder
    OneOwner
    Backup
    Failover
PROPERTIES
    DropsOnlyWhenFull
    Settles
CHECK_DEADLOCK FALSE
