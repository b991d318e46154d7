CONSTANTS
    c1 = c1
    c2 = c2
    p1 = p1
    p2 = p2
    Pollers <- TwoPollers
    Proxies <- TwoProxies
    NoServer = NoServer
    Unattached = Unattached
    NoProxy = NoProxy
    NoBody = NoBody
    TTL = 2
    MaxChanges = 2
SPECIFICATION Spec
INVARIANTS
    TypeOK
    SweptOut
    StaleSoonGone
