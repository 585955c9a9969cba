SPECIFICATION MCSpec
CONSTANTS
    MaxKeys = 3
    MaxRetries = 3
    MaxCalls = 3
    MaxSpikes = 2
    TagPlaces = {1, 2, 3}
    TagRuns = {1}
    Sort <- MCSort
    Answers <- MCAnswers
    Hopeless = {1}
    Misshapen = {2}
    TagLimit = 2
    BatchSize = 1
    MaxTagFaults = 1
    ListReads = {1}
    Nearest <- MCNearest
    TagsOf <- MCTagsOf
    Named = {"p1"}
    Addressed = {"p2"}
    TagChoices = {{}, {"a", "b"}}
    RemainingCap = 2
    SearchLimit = 1
    CandidateLimit = 2
    OverFetch = 2
    MaxChanges = 1
    Content <- MCContent
    MaxRecordFaults = 1
    MaxBusy = 2
    Takers = {1, 2}
    Sheets <- MCSheets
    SentSheets <- MCSent
INVARIANTS
    BudgetsUsedInOrder
    LimitsRespected
    ResultSound
PROPERTIES
    CallEnds
    BacklogWorkedOff
    HiddenInTheEnd
    PhoneInTheEnd
    AnsweredInTheEnd
CHECK_DEADLOCK FALSE
