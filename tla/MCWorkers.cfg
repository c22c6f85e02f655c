\* Two workers, three ever started, two connections, and one address that a second
\* peer uses again.
SPECIFICATION Spec
CONSTANTS
    k1 = k1
    s1 = s1
    s2 = s2
    a = a
    b = b
    Keys = {k1}
    Salts = {a, b}
    Sockets = {s1, s2}
    Size = 2
    PendingLimit = 1
    MaxId = 3
    MaxPeers = 2
    MaxQueue = 1
SYMMETRY MCSymmetry
INVARIANTS
    LoadCounted
    RouteKept
    FleetServes
CHECK_DEADLOCK FALSE
