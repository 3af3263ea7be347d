SPECIFICATION Spec
CONSTANTS
    FrameKinds = {"tool", "done", "error"}
    MaxFrames = 2
    MaxEvents = 3
    None = None
    Requests = {q1}
    Providers = {"codexChat", "codexBuild", "claude", "api"}
    MaxFaults = 2
INVARIANTS
    SessionEndsOnce ChatSound
PROPERTIES
    ImplementsJournal
CHECK_DEADLOCK FALSE
