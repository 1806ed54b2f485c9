SPECIFICATION MCFairSpec
CONSTANTS
    Problems = {leak}
    collector = collector
    github = github
    Sinks = {collector, github}
    Kind <- KindInUse
    Submitters = {worker}
    None = none
    MaxRecords = 1
    MaxAge = 1
    BaseBackoff = 1
    MaxBackoff = 2
    MaxPuts = 2
    MaxFaults = 1
    MaxRestarts = 1
INVARIANTS NothingVanishes DeliveredIsTrue
PROPERTIES NotSentAfterSuccess EveryRecordSettled
CHECK_DEADLOCK FALSE
