CONSTANTS
    h1 = h1
    h2 = h2
    h3 = h3
    e1 = e1
    e2 = e2
    r1 = r1
    r2 = r2
    Handlers <- ThreeHandlers
    Sessions <- TwoSessions
    Recordings <- NoRecordings
    NoSession = NoSession
    NoRecording = NoRecording
    MaxSessions = 1
SPECIFICATION FairSpec
INVARIANT TypeOK
PROPERTIES
    ImplementsPool
    RoomReturns
