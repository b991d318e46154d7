CONSTANTS
    h1 = h1
    h2 = h2
    h3 = h3
    e1 = e1
    e2 = e2
    r1 = r1
    r2 = r2
    Handlers <- TwoHandlers
    Sessions <- OneSession
    Recordings <- TwoRecordings
    NoSession = NoSession
    NoRecording = NoRecording
    MaxSessions = 1
SPECIFICATION Spec
SYMMETRY Symmetric
VIEW Live
INVARIANTS
    TakenOnce
    PointerExact
    OwnVideo
    Emptied
