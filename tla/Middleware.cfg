CONSTANTS
    Request = {r1, r2, r3}
    Key = {"tenant"}
    Raw = {"b%20c", "a b"}
    Value = {"b c"}
    Decode <- MCDecode
    Setups <- MCSetups
    OutsideHeaders <- MCOutsideHeaders
    MaxHeaders = 2
    MaxSets = 1
    MaxPanics = 1
SYMMETRY RequestSymmetry
SPECIFICATION Spec
INVARIANTS
    TypeOK
    SpanEndsWithRequest
    MetricsAgree
    OneStory
    
    TraceTree
    BaggageArrives
