SPECIFICATION Spec
CONSTANTS
    k1 = k1
    k2 = k2
    k3 = k3
    p1 = p1
    p2 = p2
    Keys = {k1, k2, k3}
    Packets = {p1, p2}
    Lookup <- MCLookup
    Reversed <- MCReversed
    Calls <- MCCalls
    MaxNodes = 2
    MaxList = 2
    MaxWait = 0
    MaxData = 4
    DataId <- MCDataId
    None = None

PROPERTY ProtocolKept
