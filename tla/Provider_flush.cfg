CONSTANTS
    Provider = {p1, p2}
    Config <- MCConfig
SYMMETRY ProviderSymmetry
SPECIFICATION Spec
INVARIANTS
    ForceFlushFlushes
