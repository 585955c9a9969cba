SPECIFICATION FairSpec
CONSTANTS
    Actions = {a1, a2}
    Workers = {w1, w2}
    Threshold = 2
    MaxRetries = 1
    MaxFailures = 1
    MaxMishaps = 0
    None = None
PROPERTIES
    EveryActionProcessed
    BatchCorrects
CHECK_DEADLOCK FALSE
