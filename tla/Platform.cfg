SPECIFICATION PlatformSpec
CONSTANTS
    Tabs = {t1, t2}
    Subjects = {s1, s2}
    Emails = {e1, e2}
    Keys = {e1, e2}
    MaxStates = 2
    MaxSessions = 2
    MaxRows = 3
    MaxDevices = 2
    MaxLost = 1
    None = None
    MaxCalls = 3
    Variants = {e1, e2}
    Proofs = {t1, t2}
    Tools = {a, b}
    MaxScript = 4
    NoTool = NoTool
    NoProof = NoProof
    NoVariant = NoVariant
    Starters = {t1, t2}
    Operator = op
    Nil = Nil
    MaxHistories = 2
    Procs = {t1, t2}
    Requests = {s1, s2}
    NoValue = NoValue
    Tampered = Tampered
    MaxCrashes = 2
    MaxReads = 1
    MaxTampers = 1
INVARIANTS
    IdentitySound AgentRunsSound SchemaSound AnchorSound
PROPERTIES
    RecoversAlone
SYMMETRY Symmetry
CHECK_DEADLOCK FALSE
