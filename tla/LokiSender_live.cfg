\* Two callers of Shutdown.  No symmetry: it is not sound for liveness.
CONSTANTS
    MaxEntries = 2
    Pusher = {p1, p2}
    Closer = {c1, c2}
    QueueSize = 1
    MaxBatch = 2
    MaxConcurrentPush = 1
    MaxRetries = 2
SPECIFICATION Spec
PROPERTIES
    ShutdownReturns
    EarlyEntriesSettle
    RunNeverWaitsForLoki
