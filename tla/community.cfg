SPECIFICATION MCSpec
CONSTANTS
    Txns = {t1, t2}
    Users = {u1, u2}
    Places = {p1}
    Ratings = {3, 4}
    MaxReviews = 2
    None = None
    People = {"u", "v", "w"}
    Clicks = {1}
    Owners = {"u"}
    PageSize = 1
    MaxClock = 3
    Catalogues <- MCCatalogues
    SearchTags = {"a", "b"}
    HitTags = {"a"}
    SearchKeywords <- MCKeywords
    SearchFilters = {{}, {"b"}}
    SearchPage = 1
    MaxEdits = 1
    Takers = {1}
    Sheets <- MCSent
    SentSheets <- MCSent
    DemoUsers = {1, 2}
    RealUsers = {3}
    SeedPlaces = {"p", "q"}
    Draws <- MCDraws
    FollowDraws <- MCFollows
    MaxRuns = 2
    MaxCrashes = 1
    FirstRoutes = {1, 2}
    MaxRoutes = 3
    Drafts <- MCDrafts
    Stops = {"p", "q"}
    WordTags = {"a", "b"}
    RouteAsks <- MCAsks
    RoutePage = 1
    MaxWrites = 2
    OwnPlaces = {"p", "q", "r"}
    OwnPage = 2
    MaxTicks = 5
SYMMETRY Symmetry
INVARIANTS
    CommunityTypes
    RatingExactUnlessBypassed
    ReviewKeysHold
    EachSeenOnce
    SearchConsistent
    SharedPageFits
    SeedSound
    PageTrue
    OwnShiftBounded
CHECK_DEADLOCK FALSE
