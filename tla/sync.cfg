SPECIFICATION FairSpec
CONSTANTS
    Ids = {1, 2, 3, 4}
    Types = {12, 14}
    TypeOf <- MCTypeOf
    Runs = {r1}
    Rows = 2
    PageLimits = {1, 9}
    MaxVersion = 3
    MaxFailures = 1
INVARIANTS
    DetailsNotStale
    HiddenComesBack
    AllSeen
PROPERTIES
    Converges
CHECK_DEADLOCK FALSE
