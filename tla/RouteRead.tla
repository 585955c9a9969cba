-------------------------------- MODULE RouteRead --------------------------------
(***************************************************************************)
(* Routes as they are read (get_routes, get_user_routes, get_route_detail).*)
(*                                                                         *)
(* A page is put together from several queries, each with a snapshot of    *)
(* its own: whether the keyword matches anything, the number of rows, the  *)
(* rows with the number of their stops, their days, the stops of these     *)
(* days, the images of their places.  Between any two of them a route may  *)
(* be created, changed or removed and a place deleted.  TravelRoute shows  *)
(* that each change reaches the rows in one step; here it is one.          *)
(*                                                                         *)
(* Left out: the names of region and theme tags on a card, and likes,      *)
(* which nothing but the demo data command changes.                        *)
(***************************************************************************)
EXTENDS Naturals, FiniteSets

CONSTANTS
    FirstRoutes,    \* 1..n: the routes that are there at the start
    MaxRoutes,      \* bound: ids of routes, in the order of their creation
    Drafts,         \* what a route may hold: title, region, themes, and per day its stops
    Stops,          \* places
    WordTags,       \* the tags whose names contain the keyword
    RouteAsks,      \* the lists somebody asks for
    RoutePage,      \* routes on a page: 10 in the code
    MaxWrites       \* bound: changes

ASSUME ReadAssumption ==
    /\ MaxRoutes \in Nat /\ MaxWrites \in Nat /\ RoutePage \in Nat \ {0}
    /\ FirstRoutes \subseteq 1 .. MaxRoutes
    /\ \A draft \in Drafts :
          draft.plan \in [DOMAIN draft.plan -> SUBSET [order : 1 .. 5, place : Stops]]

VARIABLES
    stored,     \* the Route rows with their days, by id; edit counts their days' versions
    atlas,      \* the Place rows
    routeReader, \* somebody who reads a list of routes, or one route
    writes,     \* changes so far
    past        \* history: every plan a route has had

readVars == <<stored, atlas, routeReader, writes, past>>

-----------------------------------------------------------------------------
(* Data *)

NoRoute == [there |-> FALSE, edit |-> 0]
Ids == {r \in DOMAIN stored : stored[r].there}

\* kind is "list" or "mine"; word says whether a keyword is given.
Nobody == [pc |-> "idle", ask |-> [kind |-> "list", word |-> FALSE, region |-> "", themes |-> {}],
           typos |-> FALSE, page |-> 1, more |-> FALSE, cards |-> {}, days |-> {},
           stops |-> <<>>, images |-> {}]
Row(edit, route, plan) ==
    [there |-> TRUE, edit |-> edit, title |-> route.title, region |-> route.region,
     themes |-> route.themes, mine |-> route.mine, plan |-> plan]

-----------------------------------------------------------------------------
(* Queries *)

\* The rows that a keyword leaves of a route joined with its theme tags.
NoTheme == ""
ThemeRows(route) == IF route.themes = {} THEN {NoTheme} ELSE route.themes
WordRows(route) ==
    {t \in ThemeRows(route) : \/ route.title \in {"word", "core"} \/ route.region \in WordTags
                              \/ t \in WordTags}
KeptRows(route, ask, typos) ==
    IF ~ask.word THEN {NoTheme}
    ELSE IF typos THEN {t \in {NoTheme} : route.title = "typo"}
    ELSE WordRows(route)

Matches(r, ask, typos) ==
    LET route == stored[r] IN
    /\ KeptRows(route, ask, typos) # {}
    /\ ask.region = "" \/ route.region = ask.region
    /\ ask.themes \subseteq route.themes
    /\ ask.kind = "mine" => route.mine

Filtered(ask, typos) == {r \in Ids : Matches(r, ask, typos)}

\* Typing errors are looked for when no title or tag matches, whatever else is asked for.
NoWord(ask) == ask.word /\ \A r \in Ids : WordRows(stored[r]) = {}

\* Day and stop rows have ids of their own: an update deletes them and adds new ones.
DayRows(r) == {<<r, stored[r].edit, d>> : d \in DOMAIN stored[r].plan}
StopRows(r) == UNION {{<<d, stop>> : stop \in stored[r].plan[d]} : d \in DOMAIN stored[r].plan}

\* place_count: the stops in the rows of the join, each once.
PlaceCount(r, ask, typos) ==
    Cardinality({line[1] : line \in StopRows(r) \X KeptRows(stored[r], ask, typos)})

\* Mutated form of StopsOf: the stops of the day with this number.
StopsOfNumber(day) ==
    IF day[1] \in Ids /\ day[3] \in DOMAIN stored[day[1]].plan
    THEN stored[day[1]].plan[day[3]] ELSE {}

StopsOf(day) ==
    IF day[1] \in Ids /\ day[2] = stored[day[1]].edit THEN stored[day[1]].plan[day[3]] ELSE {}

\* Ids grow with created_at.
Newer(r, q) == r > q

\* The slice of a page.
Slice(set, page) ==
    LET place(r) == Cardinality({q \in set : Newer(q, r)}) + 1 IN
    {r \in set : place(r) > (page - 1) * RoutePage /\ place(r) <= page * RoutePage}

-----------------------------------------------------------------------------
(* Changes of routes and places, as TravelRoute commits them *)

ReadInit ==
    /\ stored \in [1 .. MaxRoutes ->
          {NoRoute} \cup {Row(0, draft, draft.plan) : draft \in Drafts}]
    /\ \A r \in 1 .. MaxRoutes : stored[r].there <=> r \in FirstRoutes
    /\ atlas = Stops /\ routeReader = Nobody /\ writes = 0
    /\ past = [r \in 1 .. MaxRoutes |-> IF stored[r].there THEN {stored[r].plan} ELSE {}]

\* A change, which the reader may not notice.
Change == writes < MaxWrites /\ writes' = writes + 1 /\ UNCHANGED routeReader

Visits(plan) == UNION {{stop.place : stop \in plan[d]} : d \in DOMAIN plan}

\* A new route, or new days, title and tags for one that is there.
StoreRoute(r, draft) ==
    /\ stored[r].there \/ (stored[r] = NoRoute /\ \A q \in Ids : q < r)
    /\ Visits(draft.plan) \subseteq atlas
    /\ stored' = [stored EXCEPT ![r] = Row(stored[r].edit + 1, draft, draft.plan)]
    /\ stored[r].there => draft.mine = stored[r].mine
    /\ past' = [past EXCEPT ![r] = past[r] \cup {draft.plan}]
    /\ Change /\ UNCHANGED atlas

\* An update without days.
RenameRoute(r, draft) ==
    /\ r \in Ids /\ draft.mine = stored[r].mine
    /\ stored' = [stored EXCEPT ![r] = Row(stored[r].edit, draft, stored[r].plan)]
    /\ Change /\ UNCHANGED <<atlas, past>>

RemoveRoute(r) ==
    /\ r \in Ids
    /\ stored' = [stored EXCEPT ![r] = [there |-> FALSE, edit |-> stored[r].edit + 1]]
    /\ Change /\ UNCHANGED <<atlas, past>>

\* The stops at the place go with it, the numbers of the others stay.
Spared(plan, kept) == [d \in DOMAIN plan |-> {stop \in plan[d] : stop.place \in kept}]

RemovePlace(p) ==
    /\ p \in atlas /\ atlas' = atlas \ {p}
    /\ stored' = [r \in DOMAIN stored |->
                    IF stored[r].there
                    THEN Row(stored[r].edit, stored[r], Spared(stored[r].plan, atlas'))
                    ELSE stored[r]]
    /\ Change /\ UNCHANGED past

-----------------------------------------------------------------------------
(* The reader *)

\* The first page of a list; exists() says whether the keyword matches.
AskRoutes(ask) ==
    /\ routeReader.pc = "idle"
    /\ routeReader' = [Nobody EXCEPT !.pc = "asked", !.ask = ask, !.typos = NoWord(ask)]
    /\ UNCHANGED <<stored, atlas, writes, past>>

\* The paginator counts; a page behind the end is refused, the first never.
CountRoutes ==
    /\ routeReader.pc = "asked"
    /\ LET count == Cardinality(Filtered(routeReader.ask, routeReader.typos)) IN
       routeReader' = [routeReader EXCEPT
                    !.pc = IF count <= (routeReader.page - 1) * RoutePage /\ routeReader.page > 1
                           THEN "ended" ELSE "counted",
                    !.more = count > routeReader.page * RoutePage]
    /\ UNCHANGED <<stored, atlas, writes, past>>

Card(r) == [id |-> r, count |-> PlaceCount(r, routeReader.ask, routeReader.typos),
            had |-> Cardinality(StopRows(r))]

ReadRoutes ==
    /\ routeReader.pc = "counted"
    /\ LET ids == Slice(Filtered(routeReader.ask, routeReader.typos), routeReader.page) IN
       routeReader' = [routeReader EXCEPT !.pc = "rows", !.cards = {Card(r) : r \in ids}]
    /\ UNCHANGED <<stored, atlas, writes, past>>

\* get_route_detail: one row, or RouteNotFound.
AskRoute(r) ==
    /\ routeReader.pc = "idle" /\ r \in Ids
    /\ routeReader' = [Nobody EXCEPT !.pc = "rows", !.cards = {[id |-> r,
                     count |-> PlaceCount(r, Nobody.ask, FALSE), had |-> Cardinality(StopRows(r))]}]
    /\ UNCHANGED <<stored, atlas, writes, past>>

OnPage == {card.id : card \in routeReader.cards}

ReadDays ==
    /\ routeReader.pc = "rows"
    /\ routeReader' = [routeReader EXCEPT !.pc = "days", !.days = UNION {DayRows(r) : r \in OnPage \cap Ids}]
    /\ UNCHANGED <<stored, atlas, writes, past>>

ReadStops ==
    /\ routeReader.pc = "days"
    /\ routeReader' = [routeReader EXCEPT !.pc = "stops", !.stops = [day \in routeReader.days |-> StopsOf(day)]]
    /\ UNCHANGED <<stored, atlas, writes, past>>

ReadImages ==
    /\ routeReader.pc = "stops"
    /\ routeReader' = [routeReader EXCEPT !.pc = "shown", !.images = atlas]
    /\ UNCHANGED <<stored, atlas, writes, past>>

\* The next page is a request of its own and asks exists() again.
NextPage ==
    /\ routeReader.pc = "shown" /\ routeReader.more
    /\ routeReader' = [routeReader EXCEPT !.pc = "asked", !.page = routeReader.page + 1, !.cards = {},
                    !.days = {}, !.stops = <<>>, !.images = {}, !.typos = NoWord(routeReader.ask)]
    /\ UNCHANGED <<stored, atlas, writes, past>>

LeaveList ==
    /\ routeReader.pc = "ended" \/ (routeReader.pc = "shown" /\ ~routeReader.more)
    /\ routeReader' = Nobody
    /\ UNCHANGED <<stored, atlas, writes, past>>

ReadNext ==
    \/ \E r \in 1 .. MaxRoutes, draft \in Drafts : StoreRoute(r, draft) \/ RenameRoute(r, draft)
    \/ \E r \in 1 .. MaxRoutes : RemoveRoute(r) \/ AskRoute(r)
    \/ \E p \in Stops : RemovePlace(p)
    \/ \E ask \in RouteAsks : AskRoutes(ask)
    \/ CountRoutes \/ ReadRoutes \/ ReadDays \/ ReadStops \/ ReadImages \/ NextPage \/ LeaveList

ReadSpec == ReadInit /\ [][ReadNext]_readVars

-----------------------------------------------------------------------------
(* Properties *)

\* What is shown of a route: for each of its days the places in order, and on its card the
\* picture of the first place of the first day.
DaysShown(r) == {day \in DOMAIN routeReader.stops : day[1] = r}
First(stops) == {s.place : s \in {s \in stops : \A t \in stops : s.order <= t.order}}
Picture(r) ==
    UNION {First(routeReader.stops[day]) :
           day \in {day \in DaysShown(r) : \A other \in DaysShown(r) : day[3] <= other[3]}}
        \cap routeReader.images

\* The days shown of a route are those of one plan that it has had, without the places
\* deleted meanwhile, or none of their stops is shown: never some days of one version
\* and some of another, however updates fall between the queries of a page; the picture
\* belongs to that version too (RouteDetailSerializer: the map joins the stops in this order).
OneVersion ==
    routeReader.pc = "shown" => \A r \in OnPage :
        \/ \A day \in DaysShown(r) : routeReader.stops[day] = {}
        \/ \E plan \in past[r], kept \in SUBSET Stops :
              /\ atlas \subseteq kept
              /\ {day[3] : day \in DaysShown(r)} = DOMAIN plan
              /\ \A day \in DaysShown(r) : routeReader.stops[day] = Spared(plan, kept)[day[3]]
              /\ \A p \in Picture(r) : \E d \in DOMAIN plan :
                    /\ \A e \in DOMAIN plan : d <= e
                    /\ p \in First(Spared(plan, kept)[d])

\* The number of places on a card is that of the route's stops when its row was read, also
\* where the keyword joins the row with several theme tags (annotate with distinct=True).
PlaceCountExact == \A card \in routeReader.cards : card.count = card.had

\* What a page shows of a route was true of it at one time: its days, its picture and
\* the number on its card.
PageTrue == OneVersion /\ PlaceCountExact
=============================================================================
