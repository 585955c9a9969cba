------------------------------ MODULE TravelRoute ------------------------------
(***************************************************************************)
(* Travel routes (apps/route): one route of one member, which requests     *)
(* create, update and delete at the same time while places are deleted.    *)
(*                                                                         *)
(* Every request is a READ COMMITTED transaction.  update_route loads the  *)
(* row without a lock and writes all of its columns back: from route.save  *)
(* to its end it holds the row's lock.  What a transaction has written is  *)
(* kept in its record and reaches row and days when it commits.            *)
(*                                                                         *)
(* The names begin with Route so that this module can be checked together  *)
(* with others; RouteStore says what the routes promise.                   *)
(***************************************************************************)
EXTENDS Integers, FiniteSets

CONSTANTS
    RouteTxns,      \* requests that may be on their way at the same time
    RoutePlaces,    \* places
    Dates,          \* dates, as numbers
    MaxDays,        \* 3 in the code
    Plans,          \* the plans that requests carry: for each day its stops
    NoTxn,          \* no transaction
    MaxRequests     \* bound: updates and deletions

ASSUME RouteAssumption ==
    /\ NoTxn \notin RouteTxns
    /\ Dates \subseteq Int /\ Dates # {} /\ MaxDays \in Nat \ {0} /\ MaxRequests \in Nat \ {0}

VARIABLES
    row,        \* the Route row
    days,       \* its RouteDay and RouteDayPlace rows
    places,     \* the Place rows
    logs,       \* ROUTE_ADD actions recorded, per place
    txn,        \* what each request is doing
    lock,       \* the transaction that holds the lock of the Route row
    requests,   \* requests so far
    arrivals,   \* history: how often a place has come into the route
    moved       \* history: the dates were stored without days since the days were

routeVars == <<row, days, places, logs, txn, lock, requests, arrivals, moved>>

-----------------------------------------------------------------------------
(* Data *)

Day == 1..MaxDays
Row == [there : BOOLEAN, first : Dates, last : Dates]
NoRow == LET d == CHOOSE d \in Dates : TRUE IN [there |-> FALSE, first |-> d, last |-> d]
Dated(first, last) == [there |-> TRUE, first |-> first, last |-> last]

\* A RouteDay row with its RouteDayPlace rows.
Stop == [order : Nat, place : RoutePlaces]
NoDay == [there |-> FALSE, stops |-> {}]
Plan == [Day -> [there : BOOLEAN, stops : SUBSET Stop]]
Empty == [d \in Day |-> NoDay]
DaysOf(plan) == {d \in Day : plan[d].there}
Visited(plan) == UNION {{s.place : s \in plan[d].stops} : d \in Day}

\* A day that is not in a request has no stops in it either.
ASSUME RoutePlansAssumption ==
    \A plan \in Plans : plan \in Plan /\ \A d \in Day : ~plan[d].there => plan[d] = NoDay

\* row is the object in memory; given says whether the request has days, bad that its
\* region tag does not exist; gone are the days deleted so far, fresh the places to log.
Txn == [pc : {"idle", "loaded", "saved", "rebuilt", "collected"}, kind : {"update", "delete"},
        row : Row, given : BOOLEAN, plan : Plan, bad : BOOLEAN, gone : SUBSET Day,
        fresh : SUBSET RoutePlaces]
Asked(kind, r, given, plan, bad) ==
    [pc |-> "loaded", kind |-> kind, row |-> r, given |-> given, plan |-> plan, bad |-> bad,
     gone |-> {}, fresh |-> {}]
GoneTo(x, pc, gone, fresh) ==
    [pc |-> pc, kind |-> x.kind, row |-> x.row, given |-> x.given, plan |-> x.plan, bad |-> x.bad,
     gone |-> gone, fresh |-> fresh]
Idle == GoneTo(Asked("update", NoRow, FALSE, Empty, FALSE), "idle", {}, {})

RouteInit ==
    /\ row = NoRow /\ days = Empty
    /\ places = RoutePlaces
    /\ logs = [p \in RoutePlaces |-> 0] /\ arrivals = logs
    /\ txn = [t \in RouteTxns |-> Idle] /\ lock = NoTxn
    /\ requests = 0 /\ moved = FALSE

-----------------------------------------------------------------------------
(* Validation *)

\* RouteCreateSerializer.validate, and RouteUpdateSerializer.validate with both dates.
DatesValid(first, last) == first <= last /\ last - first < MaxDays

Length(r) == r.last - r.first + 1

\* _validate_days: the number of places is bounded by the plan's own type.
DaysValid(plan, r) == \A d \in DaysOf(plan) : d <= Length(r)

PlacesValid(plan) == Visited(plan) \subseteq places

-----------------------------------------------------------------------------
(* create_route *)

\* The new rows are seen by nobody before the commit, so that this is one step.
CreateRoute(first, last, plan) ==
    /\ requests = 0 /\ requests' = 1
    /\ DatesValid(first, last)
    /\ DaysValid(plan, Dated(first, last)) /\ PlacesValid(plan)
    /\ row' = Dated(first, last) /\ days' = plan
    /\ logs' = [p \in RoutePlaces |-> IF p \in Visited(plan) THEN 1 ELSE 0]
    /\ arrivals' = logs'
    /\ UNCHANGED <<places, txn, lock, moved>>

-----------------------------------------------------------------------------
(* update_route *)

Request == 0 < requests /\ requests < MaxRequests /\ requests' = requests + 1

\* The row is read without a lock, the owner compared, the fields set on the object.
\* A date that is not given keeps the value that was read; NoRow's dates stand for none.
LoadUpdate(t, first, last, given, plan, bad) ==
    /\ txn[t].pc = "idle" /\ row.there /\ Request
    /\ DatesValid(first, last) \/ first = row.first \/ last = row.last
    /\ txn' = [txn EXCEPT ![t] = Asked("update", Dated(first, last), given, plan, bad)]
    /\ UNCHANGED <<row, days, places, logs, lock, arrivals, moved>>

\* Mutated form of SaveRow: the row is not written, so that nothing is locked.
SaveNothing(t) ==
    /\ txn[t].pc = "loaded" /\ txn[t].kind = "update"
    /\ txn' = [txn EXCEPT ![t] = GoneTo(txn[t], "saved", {}, {})]
    /\ UNCHANGED <<row, days, places, logs, lock, requests, arrivals, moved>>

\* route.save waits for the lock; a row that is gone is inserted again.
SaveRow(t) ==
    /\ txn[t].pc = "loaded" /\ txn[t].kind = "update" /\ lock = NoTxn
    /\ lock' = t
    /\ txn' = [txn EXCEPT ![t] = GoneTo(txn[t], "saved", {}, {})]
    /\ UNCHANGED <<row, days, places, logs, requests, arrivals, moved>>

Released(t) == IF lock = t THEN NoTxn ELSE lock

\* An exception: the transaction is rolled back.
RollBack(t) ==
    /\ txn' = [txn EXCEPT ![t] = Idle]
    /\ lock' = Released(t)
    /\ UNCHANGED <<row, days, places, logs, requests, arrivals, moved>>

\* A deletion holds the rows of the days that it has deleted.
HeldByDelete == {u \in RouteTxns : txn[u].pc = "collected" /\ txn[u].gone \cap DaysOf(days) # {}}

\* Mutated form of Fresh: every place of the request is recorded.
AllPlaces(plan) == Visited(plan)

\* Only places that are new to the route are recorded.
Fresh(plan) == Visited(plan) \ Visited(days)

\* The days are validated against the object, the old ones deleted, the new ones created.
Rebuild(t) ==
    /\ txn[t].pc = "saved" /\ txn[t].given
    /\ DaysValid(txn[t].plan, txn[t].row) /\ PlacesValid(txn[t].plan)
    /\ HeldByDelete = {}
    /\ txn' = [txn EXCEPT ![t] = GoneTo(txn[t], "rebuilt", DaysOf(days), Fresh(txn[t].plan))]
    /\ UNCHANGED <<row, days, places, logs, lock, requests, arrivals, moved>>

RejectDays(t) ==
    /\ txn[t].pc = "saved" /\ txn[t].given
    /\ ~(DaysValid(txn[t].plan, txn[t].row) /\ PlacesValid(txn[t].plan))
    /\ RollBack(t)

Done(t) == txn[t].pc = (IF txn[t].given THEN "rebuilt" ELSE "saved")

\* Days that were deleted are gone, days that others have added since are still there.
Merged(t) ==
    [d \in Day |-> IF txn[t].plan[d].there THEN txn[t].plan[d]
                   ELSE IF d \in txn[t].gone THEN NoDay ELSE days[d]]

\* unique_together of RouteDay, and the deferred foreign keys of RouteDayPlace.
Clash(t) ==
    \/ \E d \in DaysOf(txn[t].plan) : days[d].there /\ d \notin txn[t].gone
    \/ ~PlacesValid(txn[t].plan)

Count(set, p) == IF p \in set THEN 1 ELSE 0

CommitRow(t) ==
    /\ Done(t) /\ ~txn[t].given /\ ~txn[t].bad
    /\ row' = txn[t].row
    /\ moved' = (moved \/ row # txn[t].row)
    /\ txn' = [txn EXCEPT ![t] = Idle] /\ lock' = Released(t)
    /\ UNCHANGED <<days, places, logs, requests, arrivals>>

CommitDays(t) ==
    /\ Done(t) /\ txn[t].given /\ ~txn[t].bad /\ ~Clash(t)
    /\ row' = txn[t].row /\ days' = Merged(t)
    /\ logs' = [p \in RoutePlaces |-> logs[p] + Count(txn[t].fresh, p)]
    /\ arrivals' = [p \in RoutePlaces |-> arrivals[p] + Count(Visited(days') \ Visited(days), p)]
    /\ moved' = FALSE
    /\ txn' = [txn EXCEPT ![t] = Idle] /\ lock' = Released(t)
    /\ UNCHANGED <<places, requests>>

\* The region tag is validated last, the constraints at the commit.
CommitFails(t) ==
    /\ Done(t) /\ (txn[t].bad \/ (txn[t].given /\ Clash(t)))
    /\ RollBack(t)

-----------------------------------------------------------------------------
(* delete_route, admin_delete_route *)

LoadDelete(t) ==
    /\ txn[t].pc = "idle" /\ row.there /\ Request
    /\ txn' = [txn EXCEPT ![t] = Asked("delete", NoRow, FALSE, Empty, FALSE)]
    /\ UNCHANGED <<row, days, places, logs, lock, arrivals, moved>>

\* The days are collected and deleted; rows an update has deleted must be waited for.
CollectDays(t) ==
    /\ txn[t].pc = "loaded" /\ txn[t].kind = "delete"
    /\ \A u \in RouteTxns : txn[u].pc = "rebuilt" => txn[u].gone = {}
    /\ HeldByDelete = {}
    /\ txn' = [txn EXCEPT ![t] = GoneTo(txn[t], "collected", DaysOf(days), {})]
    /\ UNCHANGED <<row, days, places, logs, lock, requests, arrivals, moved>>

\* Then the row; days that came since have no route to belong to.
RemoveRow(t) ==
    /\ txn[t].pc = "collected" /\ lock = NoTxn
    /\ DaysOf(days) \subseteq txn[t].gone
    /\ row' = NoRow /\ days' = Empty /\ moved' = FALSE
    /\ txn' = [txn EXCEPT ![t] = Idle]
    /\ UNCHANGED <<places, logs, lock, requests, arrivals>>

RemoveFails(t) ==
    /\ txn[t].pc = "collected" /\ lock = NoTxn
    /\ ~(DaysOf(days) \subseteq txn[t].gone)
    /\ RollBack(t)

\* An update holds the row and waits for the days, a deletion the other way round:
\* the database cancels one of the two.
Deadlock(t) ==
    /\ lock # NoTxn /\ txn[lock].pc = "saved" /\ txn[lock].given /\ HeldByDelete # {}
    /\ t \in HeldByDelete \cup {lock}
    /\ RollBack(t)

-----------------------------------------------------------------------------
(* Places *)

Without(plan, p) ==
    [d \in Day |-> [there |-> plan[d].there, stops |-> {s \in plan[d].stops : s.place # p}]]

\* The cascade of Place.delete waits for stops that a transaction has deleted.
DropPlace(p) ==
    /\ p \in places
    /\ \A t \in RouteTxns : txn[t].pc \in {"rebuilt", "collected"} => p \notin Visited(days)
    /\ places' = places \ {p} /\ days' = Without(days, p)
    /\ logs' = [logs EXCEPT ![p] = 0] /\ arrivals' = [arrivals EXCEPT ![p] = 0]
    /\ UNCHANGED <<row, txn, lock, requests, moved>>

-----------------------------------------------------------------------------
(* Specification *)

RouteNext ==
    \/ \E first, last \in Dates, plan \in Plans : CreateRoute(first, last, plan)
    \/ \E t \in RouteTxns, first, last \in Dates, plan \in Plans, bad \in BOOLEAN :
          LoadUpdate(t, first, last, TRUE, plan, bad)
    \/ \E t \in RouteTxns, first, last \in Dates : LoadUpdate(t, first, last, FALSE, Empty, FALSE)
    \/ \E t \in RouteTxns :
          \/ SaveRow(t) \/ Rebuild(t) \/ RejectDays(t)
          \/ CommitRow(t) \/ CommitDays(t) \/ CommitFails(t)
          \/ LoadDelete(t) \/ CollectDays(t) \/ RemoveRow(t) \/ RemoveFails(t) \/ Deadlock(t)
    \/ \E p \in RoutePlaces : DropPlace(p)

RouteSpec == RouteInit /\ [][RouteNext]_routeVars

-----------------------------------------------------------------------------
(* Properties *)

\* Every variable keeps its type, and of two updates only one has written the row: the
\* other waits for its lock.
RouteTypeOK ==
    /\ row \in Row /\ days \in Plan /\ places \subseteq RoutePlaces
    /\ logs \in [RoutePlaces -> Nat] /\ arrivals \in [RoutePlaces -> Nat]
    /\ txn \in [RouteTxns -> Txn] /\ lock \in RouteTxns \cup {NoTxn}
    /\ \A t \in RouteTxns : lock = t <=> txn[t].pc \in {"saved", "rebuilt"}
    /\ requests \in 0..MaxRequests /\ moved \in BOOLEAN

\* A place is recorded once each time it comes into the route, and not again when an
\* update sends the days anew, however updates, deletions and places overlap
\* (_record_route_add_actions: no double weight for the same place).
LoggedOncePerArrival == \A p \in RoutePlaces : logs[p] = arrivals[p]

\* The days of a route fit its dates as long as no update has stored dates without days:
\* an update checks its days against the dates it writes in the same transaction.
InRange == \A d \in DaysOf(days) : d <= Length(row)
DaysFitUnlessMoved == ~moved => InRange

\* Seen through its committed rows a route is a RouteStore: whatever overlaps, its days
\* are those of one request.
Store == INSTANCE RouteStore WITH Places <- RoutePlaces, row <- row, days <- days
ImplementsRouteStore == Store!Spec

\* The records of what came into a route, and the days against its dates, survive every
\* overlap of updates: the two together.
RouteSound == LoggedOncePerArrival /\ DaysFitUnlessMoved
=============================================================================
