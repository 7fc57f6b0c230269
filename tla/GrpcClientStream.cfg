CONSTANTS
    MaxSends = 3
    MaxResponses = 2
SPECIFICATION Spec
INVARIANTS
    TypeOK
    EndsOnce
    FailureIsMarked
    UnmarkedMeansOk
PROPERTIES
    SpanEnds
