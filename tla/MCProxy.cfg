CONSTANTS
    c1 = c1
    c2 = c2
    k1 = k1
    k2 = k2
    NoConn = NoConn
    Clients <- TwoClients
    Conns <- TwoConns
    Initial <- k1
    Attempts = 2
SPECIFICATION Spec
SYMMETRY Symmetric
INVARIANTS
    TypeOK
    SingleFlight
    NoLostWakeup
    NoCloseDuringWrite
    NoneLeaked
    NilExplained
    OneServe
PROPERTIES
    ImplementsLink
