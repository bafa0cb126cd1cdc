CONSTANTS
    Clients = {p1}
    Keys = {k1}
    Vals = {v1, v2}
    Members = {m1}
    MaxActive = 1
    MaxIdle = 1
    IdleTimeout = 240
    Password = TRUE
    DialFaults = FALSE
    TransportFaults = FALSE
    NoConn = NoConn
    ErrConn = ErrConn
    MaxListLen = 2
    Ops <- PushOps
    TTLs = {0}
SPECIFICATION Spec
INVARIANT PushAtNamedEnd
