SPECIFICATION Spec
CONSTANTS
    Runs = {build}
    BuildRuns = {build}
    Threads = {t1, t2}
    Faults = {"git", "record", "spawn", "pump", "closed", "shutdown", "locked"}
    MaxCrashes = 2
INVARIANTS
    QuietWhenReported NoStrandedWorktree ActiveIsAttended
PROPERTIES
    OutcomeIsFinal
SYMMETRY ThreadSymmetry
CHECK_DEADLOCK FALSE
