CONSTANTS
    Clients = {p1, p2}
    Keys = {k1, k2}
    Vals = {v1}
    Members = {m1}
    MaxActive = 1
    MaxIdle = 1
    IdleTimeout = 240
    Password = TRUE
    DialFaults = TRUE
    TransportFaults = TRUE
    NoConn = NoConn
    ErrConn = ErrConn
    MaxListLen = 2
    Ops <- StringOps
    TTLs = {0, 30}
SYMMETRY ClientSymmetry
SPECIFICATION Spec
INVARIANT ServiceTypeOK
INVARIANT ErrorsSurface
INVARIANT TTLAppliedOnSuccess
INVARIANT ReadsDistinguishAbsent
