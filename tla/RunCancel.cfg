SPECIFICATION Spec
CONSTANTS
    Runs = {build}
    BuildRuns = {build}
    Threads = {t1}
    Faults = {}
    MaxCrashes = 0
INVARIANT CancelStopsProvider
CHECK_DEADLOCK FALSE
