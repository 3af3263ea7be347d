SPECIFICATION SharedSpec
CONSTANTS
    Tabs = {t1}
    ApiKeys = {k1}
    SyncPageLimit = 1
    MaxLog = 2
    MaxVersion = 3
    MaxOps = 3
    MaxTroubles = 1
    Callers = {c1, c2}
    Dialects = {"sqlite", "postgresql"}
    Keys = {k1, k2}
    ProviderIds = {p1}
    Tools = {u1}
    Decisions = {d1, d2}
    ArtifactIds = {a1, a2}
    PageLimit = 1
    MaxMessages = 2
    MaxEvents = 4
    MaxVersions = 3
    MaxMembership = 2
    None = None
INVARIANTS
    SyncSound ConversationsSound
PROPERTIES
    SyncProgress ConversationsProgress
CHECK_DEADLOCK FALSE
