CONSTANTS
    c1 = c1
    c2 = c2
    k1 = k1
    k2 = k2
    NoConn = NoConn
    Clients <- OneClient
    Conns <- OneConn
    Initial <- k1
    Attempts = 1
SPECIFICATION LiveSpec
PROPERTIES
    CloseReturns
    ServeReturnsOrStranded
