SPECIFICATION Spec
CONSTANTS
    leak = leak
    Problems = {leak}
    Emitters = {worker, monitor}
    Recorders = {exporter}
    Sinks = {webhook}
    Statuses = {"pending", "delivered"}
    Nobody = nobody
    None = none
    Results <- InferredAndCached
    MaxTotal = 3
    MaxFailures = 1
INVARIANTS NoUpdateLost KeysDistinct
PROPERTY HistoryKept
