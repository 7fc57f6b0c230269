CONSTANTS
    Provider = {p1, p2}
    Config <- MCConfig
SPECIFICATION Spec
INVARIANTS
    TypeOK
    ShutdownEmptiesOwn
    NothingRunsAfterwards
    ReverseOrder
PROPERTIES
    
    PortGivenBack
