SPECIFICATION SvcSpec
CONSTANTS
    Reconnects = {a1, a2}
    ExternalEvents = {e1}
    Principals = {p1}
    MaxIntents = 2
    MaxSigners = 2
    NoPrincipal = NoPrincipal
    Importers = {a1, a2}
    SkillContents = {x, y}
    Names = {n}
    MaxPackages = 3
    MaxSkillCrashes = 1
    People = {a1, a2}
    Projects = {b1, b2}
    MaxTeams = 2
    MaxConnections = 1
    MaxFlows = 2
    MaxSkills = 1
    MaxDecisions = 2
    MaxEvidence = 2
    Preparers = {prepare}
    Publishers = {publish}
    Discarders = {discard}
    Contents = {plain, secret, other}
    Secrets = {secret}
    Base = Base
    Foreign = Foreign
    None = None
    MaxEdits = 1
    MaxCrashes = 2
    Procs = {a1, a2}
    Bundles = {b1, b2}
    NumFiles = 2
    CandidateContents = {w, z}
    Original = Original
    Absent = Absent
    Edited = Edited
    Nobody = Nobody
    MaxApprovals = 2
    MaxStops = 1
    MaxUserEdits = 1
    MaxRepairs = 2
    PlanLength = 3
    ChatIds = {a1, a2}
    MaxRunsPerChat = 2
    MaxQueuedMessages = 1
    MaxConcurrentRuns = 1
    EventHistory = 2
    MaxSubagents = 2
    MaxGrants = 1
    NoChat = NoChat
INVARIANTS
    SkillsSound PublishedSound DeliverySound WorkflowSound ChatsSound
PROPERTIES
    IngressKept GovernanceKept CommitStaysRecorded NothingAfterDiscard EditsSurvive
SYMMETRY Symmetry
CHECK_DEADLOCK FALSE
