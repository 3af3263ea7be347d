SPECIFICATION FairSpec
CONSTANTS
    Schedules = {hourly, single}
    Once = {single}
    Broken = {}
    None = None
    Period = 2
    Lease = 1
    Limit = 2
    MaxAge = 1
    MaxLate = 4
    MaxCommands = 2
    MaxFaults = 1
INVARIANTS
    OneRunPerOccurrence NoOverlap VerdictIsTrue
PROPERTIES
    DueIsServed
