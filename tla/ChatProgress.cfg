SPECIFICATION FairSpec
CONSTANTS
    FrameKinds = {"done", "tool"}
    MaxFrames = 1
    MaxEvents = 2
    None = None
    Requests = {q1}
    Providers = {"codexChat", "codexBuild", "claude", "api"}
    MaxFaults = 1
PROPERTIES
    ChatEnds
CHECK_DEADLOCK FALSE
