SPECIFICATION FairSpec
CONSTANTS
    Problems = {leak}
    Causes = {"oom", "disk"}
    Severities = {TRUE, FALSE}
    Trackers <- AllTrackers
    DryRuns = {TRUE, FALSE}
    UpdateInterval = 1
    ResolveAfter = 2
    MaxRecords = 2
    MaxIssues = 4
    MaxFaults = 1
    MaxRestarts = 1
INVARIANTS DuplicatesExcused LedgerAgrees
PROPERTIES QuietIssueResolved EveryRecordHandled
