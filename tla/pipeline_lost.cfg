SPECIFICATION Spec
CONSTANTS
    Actions = {a1, a2}
    Workers = {w1, w2}
    Threshold = 1
    MaxRetries = 1
    MaxFailures = 0
    MaxMishaps = 0
    None = None
INVARIANT AddedStays
CHECK_DEADLOCK FALSE
