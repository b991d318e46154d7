CONSTANTS
    c1 = c1
    c2 = c2
    k1 = k1
    k2 = k2
    NoConn = NoConn
    Clients <- OneClient
    Conns <- TwoConns
    Initial <- k1
    Attempts = 2
SPECIFICATION Spec
INVARIANT CloseReleases
