CONSTANTS
    d1 = d1
    d2 = d2
    ready = ready
    offline = offline
    Devices <- TwoDevices
    States <- TwoStates
    Gone = Gone
    Capacity = 1
    MaxChanges = 3
SPECIFICATION FairSpec
INVARIANTS
    TypeOK
    Accounted
PROPERTIES
    ImplementsView
    Settles
    Ends
CHECK_DEADLOCK FALSE
