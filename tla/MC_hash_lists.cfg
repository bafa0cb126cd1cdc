CONSTANTS
    Clients = {p1, p2}
    Keys = {k1}
    Vals = {v1}
    Members = {m1, m2}
    MaxActive = 1
    MaxIdle = 1
    IdleTimeout = 240
    Password = TRUE
    DialFaults = FALSE
    TransportFaults = TRUE
    NoConn = NoConn
    ErrConn = ErrConn
    MaxListLen = 2
    Ops <- HashListOps
    TTLs = {0, 30}
SYMMETRY ClientSymmetry
SPECIFICATION Spec
INVARIANT ErrorsSurface
INVARIANT TTLAppliedOnSuccess
INVARIANT ReadsDistinguishAbsent
