CONSTANTS
    Clients = {p1}
    Keys = {k1}
    Vals = {v1}
    Members = {m1}
    MaxActive = 1
    MaxIdle = 1
    IdleTimeout = 240
    Password = TRUE
    DialFaults = FALSE
    TransportFaults = FALSE
    NoConn = NoConn
    ErrConn = ErrConn
    MaxListLen = 2
    Ops <- LIndexOnly
    TTLs = {0}
SPECIFICATION Spec
INVARIANT AbsentIsNotError
