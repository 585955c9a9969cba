SPECIFICATION Spec
CONSTANTS
    Ids = {1}
    Types = {12}
    TypeOf <- MCTypeOf
    Runs = {r1, r2}
    Rows = 1
    PageLimits = {9}
    MaxVersion = 3
    MaxFailures = 0
INVARIANT HiddenComesBack
CHECK_DEADLOCK FALSE
