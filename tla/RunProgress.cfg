SPECIFICATION FairSpec
CONSTANTS
    Runs = {build, chat}
    BuildRuns = {build}
    Threads = {}
    Faults = {"git", "store", "record", "spawn", "pump", "unconfirmed", "closed"}
    MaxCrashes = 2
PROPERTIES
    RunsEndReviewable
CHECK_DEADLOCK FALSE
