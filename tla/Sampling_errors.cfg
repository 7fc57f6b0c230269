CONSTANTS
    Service = {s1, s2}
    Full = 2
    Text <- MCText
    Setting <- MCSetting
    MaxSpans = 2
SYMMETRY ServiceSymmetry
SPECIFICATION Spec
INVARIANT ErrorsExported
