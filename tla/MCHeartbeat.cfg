CONSTANTS
    d1 = d1
    d2 = d2
    Devices <- TwoDevices
    Fields <- ThreeFields
    NoDevice = NoDevice
    NoError = NoError
    AdbError = AdbError
    RequestError = RequestError
    MaxRequests = 2
SPECIFICATION Spec
INVARIANTS
    TypeOK
    BeatExplained
PROPERTIES
    Enriched
    EndsWhenTold
