CONSTANTS
    g1 = g1
    Callers <- OneCaller
    Kinds <- MostKinds
    Moves = 1
    Messages = 2
    Breaks = 2
SPECIFICATION Spec
INVARIANTS
    TypeOK
    HeldWhileAlone
    LiftedOrExcused
PROPERTIES
    ImplementsDelivery
    TeardownEnds
