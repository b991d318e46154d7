CONSTANTS
    b1 = b1
    b2 = b2
    p1 = p1
    d1 = d1
    d2 = d2
    NoPort = NoPort
    NoDevice = NoDevice
    Bridges <- TwoBridges
    Ports <- OnePort
    Devices <- TwoDevices
    Named <- OneNamed
    Device <- NamedDevice
    AutoRestart <- OneRestarts
    Recorders <- OneRecords
    Loose <- OneLoose
SPECIFICATION Spec
INVARIANTS
    TypeOK
    ReleasedAtRest
    OwnDevice
PROPERTIES
    MappingKept
    SignalEnds
    LossRestarts
