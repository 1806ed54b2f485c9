SPECIFICATION Spec
CONSTANTS
    oom = oom
    refused = refused
    disk = disk
    Sigs = {oom}
    Priority <- UrgencyInUse
    MaxQueueSize = 2
    RecurrenceWindow = 1
    CacheTTL = 1
    MaxArrivals <- ThreeEach
    MaxClock = 1
INVARIANT OccurrencesNotOvercounted
CHECK_DEADLOCK FALSE
