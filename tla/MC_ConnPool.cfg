CONSTANTS
    Clients = {p1, p2, p3}
    MaxActive = 2
    MaxIdle = 1
    IdleTimeout = 240
    Password = TRUE
    DialFaults = TRUE
    NoConn = NoConn
    ErrConn = ErrConn
INIT PoolInit
NEXT PoolNext
INVARIANT TypeOK
INVARIANT PoolAccounting
PROPERTY PoolRefinesSpec
