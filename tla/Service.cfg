SPECIFICATION MCSpec
CONSTANTS
    runbook = runbook
    overview = overview
    worker = worker
    health = health
    main = main
    None = none
    NoPayload = nopayload
    Nobody = nobody
    NotANumber = NotANumber
    Yes = Yes
    Words = Words
    Beyond = Beyond
    Documents = {runbook, overview}
    WorkloadPaths <- Declared
    NodeFiles <- OnNode
    Readers = {worker, health, main}
    MaxTotalBytes = 7
    MaxFileBytes = 3
    NoticeBytes = 5
    HeadingBytes = 1
    Sizes = {0, 2, 4}
    Widths = {1, 2}
    MaxEdits = 2
    MaxRetries = 2
    ModelTimeout = 1
    MaxParts = 1
    Replies <- SomeReplies
    JoinTimeout <- Patience
    MaxErrors = 1
INVARIANTS TypeOK GuidanceIsCurrent GuidanceWithinBudget WorkerSurvives ReviewSkippedOnlyIfRoutine
PROPERTY ShutdownCompletes
CHECK_DEADLOCK FALSE
