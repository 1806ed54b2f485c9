SPECIFICATION Spec
CONSTANTS
    Problems = {leak}
    Causes = {"oom"}
    Severities = {TRUE}
    Trackers <- OnlyGitHub
    DryRuns = {FALSE}
    UpdateInterval = 1
    ResolveAfter = 2
    MaxRecords = 2
    MaxIssues = 3
    MaxFaults = 0
    MaxRestarts = 1
INVARIANT OneOpenIssue
