\* The final flush finds the only slot taken.
CONSTANTS
    MaxEntries = 3
    Pusher = {p1, p2}
    Closer = {c1}
    QueueSize = 2
    MaxBatch = 2
    MaxConcurrentPush = 1
    MaxRetries = 2
SYMMETRY PusherSymmetry
SPECIFICATION Spec
INVARIANTS
    ShutdownFlushes
