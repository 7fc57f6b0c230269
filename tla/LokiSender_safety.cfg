\* Two slots, so that batches overtake one another and a third is dropped.
CONSTANTS
    MaxEntries = 3
    Pusher = {p1, p2, p3}
    Closer = {c1}
    QueueSize = 2
    MaxBatch = 2
    MaxConcurrentPush = 2
    MaxRetries = 2
SYMMETRY PusherSymmetry
SPECIFICATION Spec
INVARIANTS
    TypeOK
    Ledger
    Fifo
    PushesBounded
    BatchBounded
    DeliveryCount
    NilMeansQuiescent
    NilMeansSettled
    OnlyLateEntriesStranded
PROPERTIES
    SettledStays
    ImplementsExporter
