SPECIFICATION Spec
CONSTANTS
    Actions = {a1, a2}
    Workers = {w1, w2}
    Threshold = 2
    MaxRetries = 1
    MaxFailures = 2
    MaxMishaps = 2
    None = None
SYMMETRY Symmetry
INVARIANTS
    CountExact
    VectorOnlyAfterThreshold
    NothingStranded
CHECK_DEADLOCK FALSE
