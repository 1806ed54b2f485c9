SPECIFICATION MCFairSpec
CONSTANTS
    oom = oom
    refused = refused
    disk = disk
    worker = worker
    monitor = monitor
    Nobody = nobody
    None = none
    Sigs = {oom, refused, disk}
    Priority <- UrgencyInUse
    MaxQueueSize = 2
    RecurrenceWindow = 1
    CacheTTL = 0
    MaxArrivals <- Arrivals
    MaxClock = 2
INVARIANTS
    QueueMirrorsPending QueueBounded NoErrorSwallowed ReportedOnce TicketsAccounted
    RecentOccurrencesCounted ProposalsCountEmissions
PROPERTIES ShedsOnlyLessUrgent ImplementsErrorFates EveryErrorSettled EmissionsReturn
CHECK_DEADLOCK FALSE
