CONSTANTS
    Goroutine = {g1, g2}
    Key <- MCKey
    Value = {v}
    Trace = {t}
    MaxLevel = 2
    MinLevel = 1
    Service = orders
    Configured = configured
    Labels <- MCLabels
    MaxDerived = 1
    MaxRecords = 3
SYMMETRY GoroutineSymmetry
SPECIFICATION Spec
INVARIANTS
    TypeOK
    SameOnBothSides
    TraceKept
    StreamsPartition
