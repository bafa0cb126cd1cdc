CONSTANTS
    Keys = {k1}
    Vals = {v1}
    Members = {m1}
    MaxIdle = 1
    IdleTimeout = 240
    Password = TRUE
    NoConn = NoConn
    ErrConn = ErrConn
    MaxListLen = 2
    TTLs = {0, 30}
    Clients = {p1, p2}
    MaxActive = 1
    DialFaults = TRUE
    TransportFaults = TRUE
    Ops <- LiveOps
SPECIFICATION Spec
PROPERTY CallsReturn
