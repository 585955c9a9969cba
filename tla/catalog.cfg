SPECIFICATION MCSpec
CONSTANTS
    TagPlaces = {1, 2}
    TagRuns = {1, 2}
    Sort <- MCSort
    Answers <- MCAnswers
    Hopeless = {}
    Misshapen = {1}
    TagLimit = 2
    BatchSize = 1
    MaxTagFaults = 1
    ListReads = {1, 2}
    Nearest <- MCNearest
    TagsOf <- MCTagsOf
    Named = {"p1"}
    Addressed = {"p2"}
    TagChoices = {{}, {"a", "b"}}
    RemainingCap = 2
    SearchLimit = 1
    CandidateLimit = 2
    OverFetch = 2
    MaxChanges = 2
    Content <- MCContent
    MaxRecordFaults = 1
    MaxBusy = 2
    RouteTxns = {t1, t2}
    RoutePlaces = {"p1", "p2"}
    Dates = {1, 2}
    MaxDays = 2
    Plans <- MCPlans
    NoTxn = NoTxn
    MaxRequests = 3
    Tabs = {1, 2}
    AccessLife = 1
    RefreshLife = 2
    MaxTime = 2
    MaxPairs = 3
    MaxFaults = 1
    Members = {"u1", "u2"}
    Edits = {1, 2}
    Nicknames = {"ga", "na", "da"}
    MaxUploads = 2
    MaxEdits = 3
    Calls = {1, 2, 3}
    MaxRows = 3
INVARIANTS
    CatalogTypes
    TagsAsAnswered
    ListsComplete
    RowsAgree
    RouteSound
    SignedInUntilLogout
    ImagesAccounted
    LogsBalance
PROPERTIES
    RetiredStays
    ImplementsRouteStore
CHECK_DEADLOCK FALSE
