SPECIFICATION MCSpec
CONSTANTS
    Problems = {leak}
    collector = collector
    github = github
    Sinks = {collector, github}
    Kind <- KindInUse
    Submitters = {worker}
    None = none
    MaxRecords = 1
    MaxAge = 5
    BaseBackoff = 1
    MaxBackoff = 2
    MaxPuts = 2
    MaxFaults = 0
    MaxRestarts = 0
INVARIANT SpoolWithinCeiling
CHECK_DEADLOCK FALSE
