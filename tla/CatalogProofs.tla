----------------------------- MODULE CatalogProofs -----------------------------
(***************************************************************************)
(* What the rows of the catalogue promise, for any number of places,       *)
(* plans, workers and faults: the days of a route are those of one update, *)
(* the AI tags of a place are those of its style vector, the rows of a     *)
(* place agree, and a list shows what it must.                             *)
(*                                                                         *)
(* Several programs write these rows without a lock. What holds of the     *)
(* rows when nobody writes follows from what each writer holds while it    *)
(* does: each section states it and proves that the steps of the others    *)
(* keep it.                                                                *)
(***************************************************************************)
EXTENDS MCCatalog, MemberProofs, FiniteSetTheorems, TLAPS

--------------------------------------------------------------------------------
(* Routes *)

(***************************************************************************)
(* The committed rows of a route are those of RouteStore, every arrival of *)
(* a place is recorded once, and the days fit the dates they were stored   *)
(* with.                                                                   *)
(*                                                                         *)
(* An update that has rebuilt the days decides before its commit what it   *)
(* deletes and what it records; RouteInv says that this is still true when *)
(* it commits, because it holds the lock of the row from its save on, and  *)
(* because deletions and cascades wait for the days that it has deleted.   *)
(***************************************************************************)

\* A day without a row has no stops.
DaysClean == \A d \in Day : ~days[d].there => days[d] = NoDay

\* Before the route is created nobody works on it.
NotBefore == requests = 0 => \A t \in RouteTxns : txn[t].pc = "idle"

\* What an update will write comes from a request.
Carries(x) == x.row.there /\ (x.given => x.plan \in Plans)
Requested == \A t \in RouteTxns :
    /\ txn[t].pc \in {"saved", "rebuilt"} => txn[t].kind = "update"
    /\ txn[t].pc # "idle" /\ txn[t].kind = "update" => Carries(txn[t])

\* What an update found when it rebuilt the days is still there.
Current(x) ==
    /\ x.given /\ DaysValid(x.plan, x.row)
    /\ DaysOf(days) \subseteq x.gone
    /\ x.fresh = Visited(x.plan) \ Visited(days)
StillCurrent == \A t \in RouteTxns : txn[t].pc = "rebuilt" => Current(txn[t])

RouteInv ==
    RouteTypeOK /\ DaysClean /\ NotBefore /\ Requested /\ StillCurrent /\ RouteSound

-----------------------------------------------------------------------------
(* Types *)

LEMMA NoRowType == NoRow \in Row /\ ~NoRow.there
<1>1. (CHOOSE d \in Dates : TRUE) \in Dates
  BY RouteAssumption
<1> QED BY <1>1 DEF NoRow, Row

LEMMA EmptyType == Empty \in Plan /\ DaysOf(Empty) = {} /\ Visited(Empty) = {}
BY DEF Empty, Plan, NoDay, DaysOf, Visited

LEMMA AskedType ==
    ASSUME NEW kind \in {"update", "delete"}, NEW r \in Row, NEW given \in BOOLEAN,
           NEW plan \in Plan, NEW bad \in BOOLEAN
    PROVE  Asked(kind, r, given, plan, bad) \in Txn
BY DEF Asked, Txn

LEMMA GoneToType ==
    ASSUME NEW x \in Txn, NEW pc \in {"idle", "loaded", "saved", "rebuilt", "collected"},
           NEW gone \in SUBSET Day, NEW fresh \in SUBSET RoutePlaces
    PROVE  GoneTo(x, pc, gone, fresh) \in Txn
BY DEF GoneTo, Txn

LEMMA IdleType == Idle \in Txn /\ Idle.pc = "idle"
<1>1. Asked("update", NoRow, FALSE, Empty, FALSE) \in Txn
  BY NoRowType, EmptyType, AskedType
<1>2. Idle \in Txn
  BY <1>1, GoneToType DEF Idle
<1>3. Idle.pc = "idle"
  BY DEF Idle, GoneTo
<1> QED BY <1>2, <1>3

LEMMA VisitedType == ASSUME NEW plan \in Plan PROVE Visited(plan) \subseteq RoutePlaces
BY DEF Visited, Plan, Stop

LEMMA DaysOfType == ASSUME NEW plan PROVE DaysOf(plan) \subseteq Day
BY DEF DaysOf

-----------------------------------------------------------------------------
LEMMA InitRoute == RouteInit => RouteInv
<1>1. SUFFICES ASSUME RouteInit PROVE RouteInv
  OBVIOUS
<1>2. RouteTypeOK
  <2>1. \A t \in RouteTxns : txn[t] = Idle /\ lock # t
    BY <1>1, RouteAssumption DEF RouteInit
  <2>2. txn \in [RouteTxns -> Txn]
    BY <1>1, IdleType DEF RouteInit
  <2>3. logs \in [RoutePlaces -> Nat] /\ arrivals \in [RoutePlaces -> Nat]
    BY <1>1 DEF RouteInit
  <2>4. \A t \in RouteTxns : lock = t <=> txn[t].pc \in {"saved", "rebuilt"}
    BY <2>1, IdleType
  <2>5. requests \in 0 .. MaxRequests /\ lock = NoTxn /\ places = RoutePlaces
    BY <1>1, RouteAssumption DEF RouteInit
  <2>7. moved \in BOOLEAN
    BY <1>1 DEF RouteInit
  <2>6. row \in Row /\ days \in Plan
    BY <1>1, NoRowType, EmptyType DEF RouteInit
  <2> QED BY <2>2, <2>3, <2>4, <2>5, <2>6, <2>7 DEF RouteTypeOK
<1>3. DaysClean
  BY <1>1 DEF RouteInit, DaysClean, Empty
<1>4. NotBefore /\ Requested /\ StillCurrent
  BY <1>1, IdleType DEF RouteInit, NotBefore, Requested, StillCurrent
<1>5. RouteSound
  BY <1>1, EmptyType DEF RouteInit, RouteSound, LoggedOncePerArrival, DaysFitUnlessMoved, InRange
<1> QED BY <1>2, <1>3, <1>4, <1>5 DEF RouteInv

\* A step of one transaction that touches neither the rows nor the other transactions.
LEMMA QuietStep ==
    ASSUME RouteInv, NEW t \in RouteTxns, NEW x \in Txn,
           txn' = [txn EXCEPT ![t] = x],
           UNCHANGED <<row, days, places, logs, arrivals, moved>>,
           requests' \in 0 .. MaxRequests, requests' = 0 => requests = 0 /\ x.pc = "idle",
           lock' \in RouteTxns \cup {NoTxn},
           \A u \in RouteTxns : lock' = u <=> txn'[u].pc \in {"saved", "rebuilt"},
           x.pc \in {"saved", "rebuilt"} => x.kind = "update",
           x.pc # "idle" /\ x.kind = "update" => Carries(x),
           x.pc = "rebuilt" => Current(x)
    PROVE  RouteInv'
<1>1. RouteTypeOK /\ DaysClean /\ NotBefore /\ Requested /\ StillCurrent /\ RouteSound
  BY DEF RouteInv
<1>2. /\ txn' \in [RouteTxns -> Txn] /\ txn'[t] = x
      /\ \A u \in RouteTxns : u # t => txn'[u] = txn[u]
  BY <1>1 DEF RouteTypeOK
<1>3. RouteTypeOK'
  BY <1>1, <1>2 DEF RouteTypeOK, Row, Plan, Day, Stop
<1>4. DaysClean' /\ RouteSound'
  BY <1>1 DEF DaysClean, RouteSound, LoggedOncePerArrival, DaysFitUnlessMoved, InRange, DaysOf,
                  Length, Day, NoDay
<1>5. NotBefore'
  BY <1>1, <1>2 DEF NotBefore
<1>6. Requested'
  BY <1>1, <1>2 DEF Requested, Carries
<1>7. StillCurrent'
  <2>1. \A u \in RouteTxns : txn'[u].pc = "rebuilt" => Current(txn'[u])
    BY <1>1, <1>2 DEF StillCurrent
  <2>2. ASSUME NEW y PROVE Current(y) => Current(y)'
    BY DEF Current, DaysValid, DaysOf, Visited, Length, Day
  <2> QED BY <2>1, <2>2 DEF StillCurrent, Current
<1> QED BY <1>3, <1>4, <1>5, <1>6, <1>7 DEF RouteInv

-----------------------------------------------------------------------------
(* The steps of a transaction before it ends *)

LEMMA LoadUpdateStep ==
    ASSUME RouteInv, NEW t \in RouteTxns, NEW first \in Dates, NEW last \in Dates,
           NEW given \in BOOLEAN, NEW plan \in Plan, given => plan \in Plans, NEW bad \in BOOLEAN,
           LoadUpdate(t, first, last, given, plan, bad)
    PROVE  RouteInv'
<1> DEFINE x == Asked("update", Dated(first, last), given, plan, bad)
<1>1. Dated(first, last) \in Row /\ Dated(first, last).there
  BY DEF Dated, Row
<1>2. x \in Txn /\ x.pc = "loaded" /\ Carries(x)
  BY <1>1, AskedType DEF Asked, Carries
<1>3. /\ txn' = [txn EXCEPT ![t] = x] /\ txn[t].pc = "idle"
      /\ requests < MaxRequests /\ requests' = requests + 1
      /\ UNCHANGED <<row, days, places, logs, lock, arrivals, moved>>
  BY DEF LoadUpdate, Request
<1>4. RouteTypeOK
  BY DEF RouteInv
<1>5. requests' \in 0 .. MaxRequests /\ requests' # 0
  BY <1>3, <1>4, RouteAssumption DEF RouteTypeOK
<1>6. \A u \in RouteTxns : lock' = u <=> txn'[u].pc \in {"saved", "rebuilt"}
  BY <1>2, <1>3, <1>4 DEF RouteTypeOK
<1>7. lock' \in RouteTxns \cup {NoTxn}
  BY <1>3, <1>4 DEF RouteTypeOK
<1> HIDE DEF x
<1> QED BY <1>2, <1>3, <1>5, <1>6, <1>7, QuietStep

LEMMA SaveRowStep ==
    ASSUME RouteInv, NEW t \in RouteTxns, SaveRow(t)
    PROVE  RouteInv'
<1> DEFINE x == GoneTo(txn[t], "saved", {}, {})
<1>1. RouteTypeOK /\ Requested /\ NotBefore
  BY DEF RouteInv
<1>2. /\ txn' = [txn EXCEPT ![t] = x] /\ lock = NoTxn /\ lock' = t
      /\ txn[t].pc = "loaded" /\ txn[t].kind = "update"
      /\ UNCHANGED <<row, days, places, logs, requests, arrivals, moved>>
  BY DEF SaveRow
<1>3. txn[t] \in Txn /\ Carries(txn[t])
  BY <1>1, <1>2 DEF RouteTypeOK, Requested
<1>4. x \in Txn /\ x.pc = "saved" /\ x.kind = "update" /\ Carries(x)
  BY <1>2, <1>3, GoneToType DEF GoneTo, Carries
<1>5. requests' \in 0 .. MaxRequests /\ requests' # 0
  BY <1>1, <1>2 DEF RouteTypeOK, NotBefore
<1>6. \A u \in RouteTxns : lock' = u <=> txn'[u].pc \in {"saved", "rebuilt"}
  BY <1>1, <1>2, <1>4, RouteAssumption DEF RouteTypeOK
<1> HIDE DEF x
<1> QED BY <1>2, <1>4, <1>5, <1>6, QuietStep

LEMMA RebuildStep ==
    ASSUME RouteInv, NEW t \in RouteTxns, Rebuild(t)
    PROVE  RouteInv'
<1> DEFINE x == GoneTo(txn[t], "rebuilt", DaysOf(days), Fresh(txn[t].plan))
<1>1. RouteTypeOK /\ Requested /\ NotBefore
  BY DEF RouteInv
<1>2. /\ txn' = [txn EXCEPT ![t] = x] /\ txn[t].pc = "saved" /\ txn[t].given
      /\ DaysValid(txn[t].plan, txn[t].row)
      /\ UNCHANGED <<row, days, places, logs, lock, requests, arrivals, moved>>
  BY DEF Rebuild
<1>3. txn[t] \in Txn /\ Carries(txn[t]) /\ txn[t].kind = "update"
  BY <1>1, <1>2 DEF RouteTypeOK, Requested
<1>4. DaysOf(days) \in SUBSET Day /\ Fresh(txn[t].plan) \in SUBSET RoutePlaces
  <2>1. txn[t].plan \in Plan
    BY <1>3 DEF Txn
  <2> QED BY <2>1, VisitedType DEF DaysOf, Fresh
<1>5. x \in Txn
  BY <1>3, <1>4, GoneToType
<1>6. /\ x.pc = "rebuilt" /\ x.kind = "update" /\ x.plan = txn[t].plan /\ x.row = txn[t].row
      /\ (x.given <=> txn[t].given) /\ x.gone = DaysOf(days)
      /\ x.fresh = Visited(txn[t].plan) \ Visited(days)
  BY <1>3 DEF GoneTo, Fresh
<1>7. Carries(x) /\ Current(x)
  BY <1>2, <1>3, <1>6 DEF Carries, Current
<1>8. requests' \in 0 .. MaxRequests /\ requests' # 0 /\ lock' \in RouteTxns \cup {NoTxn}
  BY <1>1, <1>2 DEF RouteTypeOK, NotBefore
<1>9. \A u \in RouteTxns : lock' = u <=> txn'[u].pc \in {"saved", "rebuilt"}
  BY <1>1, <1>2, <1>6 DEF RouteTypeOK
<1> HIDE DEF x
<1> QED BY <1>2, <1>5, <1>6, <1>7, <1>8, <1>9, QuietStep

LEMMA RollBackStep ==
    ASSUME RouteInv, NEW t \in RouteTxns, RollBack(t)
    PROVE  RouteInv'
<1>1. RouteTypeOK /\ NotBefore
  BY DEF RouteInv
<1>2. /\ txn' = [txn EXCEPT ![t] = Idle] /\ lock' = Released(t)
      /\ UNCHANGED <<row, days, places, logs, requests, arrivals, moved>>
  BY DEF RollBack
<1>3. requests' \in 0 .. MaxRequests /\ lock' \in RouteTxns \cup {NoTxn}
  BY <1>1, <1>2 DEF RouteTypeOK, Released
<1>4. \A u \in RouteTxns : lock' = u <=> txn'[u].pc \in {"saved", "rebuilt"}
  BY <1>1, <1>2, IdleType, RouteAssumption DEF RouteTypeOK, Released
<1> QED BY <1>2, <1>3, <1>4, IdleType, QuietStep

LEMMA LoadDeleteStep ==
    ASSUME RouteInv, NEW t \in RouteTxns, LoadDelete(t)
    PROVE  RouteInv'
<1> DEFINE x == Asked("delete", NoRow, FALSE, Empty, FALSE)
<1>1. RouteTypeOK
  BY DEF RouteInv
<1>2. x \in Txn /\ x.pc = "loaded" /\ x.kind = "delete"
  BY NoRowType, EmptyType, AskedType DEF Asked
<1>3. /\ txn' = [txn EXCEPT ![t] = x] /\ txn[t].pc = "idle"
      /\ requests < MaxRequests /\ requests' = requests + 1
      /\ UNCHANGED <<row, days, places, logs, lock, arrivals, moved>>
  BY DEF LoadDelete, Request
<1>4. requests' \in 0 .. MaxRequests /\ requests' # 0 /\ lock' \in RouteTxns \cup {NoTxn}
  BY <1>1, <1>3, RouteAssumption DEF RouteTypeOK
<1>5. \A u \in RouteTxns : lock' = u <=> txn'[u].pc \in {"saved", "rebuilt"}
  BY <1>1, <1>2, <1>3 DEF RouteTypeOK
<1> HIDE DEF x
<1> QED BY <1>2, <1>3, <1>4, <1>5, QuietStep

LEMMA CollectDaysStep ==
    ASSUME RouteInv, NEW t \in RouteTxns, CollectDays(t)
    PROVE  RouteInv'
<1> DEFINE x == GoneTo(txn[t], "collected", DaysOf(days), {})
<1>1. RouteTypeOK /\ NotBefore
  BY DEF RouteInv
<1>2. /\ txn' = [txn EXCEPT ![t] = x] /\ txn[t].pc = "loaded" /\ txn[t].kind = "delete"
      /\ UNCHANGED <<row, days, places, logs, lock, requests, arrivals, moved>>
  BY DEF CollectDays
<1>3. x \in Txn /\ x.pc = "collected" /\ x.kind = "delete"
  <2>1. txn[t] \in Txn /\ DaysOf(days) \in SUBSET Day
    BY <1>1 DEF RouteTypeOK, DaysOf
  <2> QED BY <1>2, <2>1, GoneToType DEF GoneTo
<1>4. requests' \in 0 .. MaxRequests /\ requests' # 0 /\ lock' \in RouteTxns \cup {NoTxn}
  BY <1>1, <1>2 DEF RouteTypeOK, NotBefore
<1>5. \A u \in RouteTxns : lock' = u <=> txn'[u].pc \in {"saved", "rebuilt"}
  BY <1>1, <1>2, <1>3 DEF RouteTypeOK
<1> HIDE DEF x
<1> QED BY <1>2, <1>3, <1>4, <1>5, QuietStep

-----------------------------------------------------------------------------
(* The ends of transactions *)

\* The transaction is over and its lock free; the others go on.
LEMMA EndTypes ==
    ASSUME RouteInv, NEW t \in RouteTxns, txn' = [txn EXCEPT ![t] = Idle], lock' = Released(t)
    PROVE  /\ txn' \in [RouteTxns -> Txn]
           /\ lock' \in RouteTxns \cup {NoTxn}
           /\ \A u \in RouteTxns : lock' = u <=> txn'[u].pc \in {"saved", "rebuilt"}
           /\ \A u \in RouteTxns : txn'[u].pc # "idle" => txn'[u] = txn[u]
           /\ lock = t => \A u \in RouteTxns : txn'[u].pc # "rebuilt"
<1>1. RouteTypeOK
  BY DEF RouteInv
<1>2. /\ txn' \in [RouteTxns -> Txn] /\ txn'[t].pc = "idle"
      /\ \A u \in RouteTxns : u # t => txn'[u] = txn[u]
  BY <1>1, IdleType DEF RouteTypeOK
<1>3. /\ lock' \in RouteTxns \cup {NoTxn}
      /\ \A u \in RouteTxns : lock' = u <=> txn'[u].pc \in {"saved", "rebuilt"}
  BY <1>1, <1>2, RouteAssumption DEF RouteTypeOK, Released
<1>4. lock = t => \A u \in RouteTxns : txn'[u].pc # "rebuilt"
  BY <1>1, <1>2 DEF RouteTypeOK
<1> QED BY <1>2, <1>3, <1>4

\* The control part of the invariant after such an end.
LEMMA EndControl ==
    ASSUME RouteInv, NEW t \in RouteTxns, txn' = [txn EXCEPT ![t] = Idle], lock' = Released(t),
           requests' = requests
    PROVE  NotBefore' /\ Requested'
<1>1. NotBefore /\ Requested
  BY DEF RouteInv
<1>2. \A u \in RouteTxns : txn'[u].pc # "idle" => txn'[u] = txn[u]
  BY EndTypes
<1> QED BY <1>1, <1>2 DEF NotBefore, Requested, Carries

\* An update that is done holds the lock.
LEMMA DoneHolds ==
    ASSUME RouteInv, NEW t \in RouteTxns, Done(t)
    PROVE  /\ lock = t /\ txn[t] \in Txn /\ Carries(txn[t])
           /\ txn[t].given => txn[t].pc = "rebuilt" /\ Current(txn[t])
<1>1. RouteTypeOK /\ Requested /\ StillCurrent
  BY DEF RouteInv
<1>2. txn[t].pc \in {"saved", "rebuilt"} /\ (txn[t].given => txn[t].pc = "rebuilt")
  BY DEF Done
<1> QED BY <1>1, <1>2 DEF RouteTypeOK, Requested, StillCurrent

LEMMA CommitRowStep ==
    ASSUME RouteInv, NEW t \in RouteTxns, CommitRow(t)
    PROVE  RouteInv'
<1>1. /\ row' = txn[t].row /\ moved' = (moved \/ row # txn[t].row) /\ Done(t)
      /\ txn' = [txn EXCEPT ![t] = Idle] /\ lock' = Released(t)
      /\ UNCHANGED <<days, places, logs, requests, arrivals>>
  BY DEF CommitRow
<1>2. RouteTypeOK /\ DaysClean /\ RouteSound
  BY DEF RouteInv
<1>3. lock = t /\ txn[t] \in Txn
  BY <1>1, DoneHolds
<1>4. /\ txn' \in [RouteTxns -> Txn] /\ lock' \in RouteTxns \cup {NoTxn}
      /\ \A u \in RouteTxns : lock' = u <=> txn'[u].pc \in {"saved", "rebuilt"}
      /\ \A u \in RouteTxns : txn'[u].pc # "rebuilt"
  BY <1>1, <1>3, EndTypes
<1>5. RouteTypeOK'
  <2>1. row' \in Row /\ moved' \in BOOLEAN
    BY <1>1, <1>3 DEF Txn
  <2> QED BY <1>1, <1>2, <1>4, <2>1 DEF RouteTypeOK
<1>6. DaysClean' /\ StillCurrent'
  BY <1>1, <1>2, <1>4 DEF DaysClean, StillCurrent
<1>7. RouteSound'
  <2>1. ~moved' => ~moved /\ row' = row
    BY <1>1
  <2> QED BY <1>1, <1>2, <2>1 DEF RouteSound, LoggedOncePerArrival, DaysFitUnlessMoved,
                                     InRange, DaysOf
<1> QED BY <1>1, <1>5, <1>6, <1>7, EndControl DEF RouteInv

\* An update that commits its days leaves nothing of the old ones.
LEMMA MergedIsPlan ==
    ASSUME RouteInv, NEW t \in RouteTxns, txn[t] \in Txn, Carries(txn[t]), Current(txn[t])
    PROVE  Merged(t) = txn[t].plan
<1>1. DaysClean
  BY DEF RouteInv
<1>2. txn[t].plan \in Plan /\ txn[t].plan \in Plans
  BY DEF Carries, Current, Txn
<1>3. \A d \in Day : ~txn[t].plan[d].there => txn[t].plan[d] = NoDay
  BY <1>2, RoutePlansAssumption
<1>4. \A d \in Day : d \notin txn[t].gone => days[d] = NoDay
  BY <1>1 DEF DaysClean, Current, DaysOf
<1>5. txn[t].plan = [d \in Day |-> txn[t].plan[d]]
  BY <1>2 DEF Plan
<1> QED BY <1>3, <1>4, <1>5 DEF Merged

LEMMA CommitDaysStep ==
    ASSUME RouteInv, NEW t \in RouteTxns, CommitDays(t)
    PROVE  RouteInv'
<1>1. /\ row' = txn[t].row /\ days' = Merged(t) /\ moved' = FALSE /\ Done(t) /\ txn[t].given
      /\ txn' = [txn EXCEPT ![t] = Idle] /\ lock' = Released(t)
      /\ UNCHANGED <<places, requests>>
  BY DEF CommitDays
<1>2. RouteTypeOK /\ RouteSound
  BY DEF RouteInv
<1>3. lock = t /\ txn[t] \in Txn /\ Carries(txn[t]) /\ Current(txn[t])
  BY <1>1, DoneHolds
<1>4. /\ txn' \in [RouteTxns -> Txn] /\ lock' \in RouteTxns \cup {NoTxn}
      /\ \A u \in RouteTxns : lock' = u <=> txn'[u].pc \in {"saved", "rebuilt"}
      /\ \A u \in RouteTxns : txn'[u].pc # "rebuilt"
  BY <1>1, <1>3, EndTypes
<1>5. days' = txn[t].plan /\ txn[t].plan \in Plan /\ txn[t].plan \in Plans /\ row' \in Row
  BY <1>1, <1>3, MergedIsPlan DEF Txn, Carries
<1>6. /\ logs' = [p \in RoutePlaces |-> logs[p] + Count(txn[t].fresh, p)]
      /\ arrivals' = [p \in RoutePlaces |-> arrivals[p] + Count(txn[t].fresh, p)]
  <2>1. Visited(days') \ Visited(days) = txn[t].fresh
    <3>1. Visited(days') = Visited(txn[t].plan)
      BY <1>5 DEF Visited
    <3> QED BY <1>3, <3>1 DEF Current
  <2> QED BY <2>1 DEF CommitDays
<1>7. RouteTypeOK'
  <2>1. \A p \in RoutePlaces : Count(txn[t].fresh, p) \in Nat
    BY DEF Count
  <2>2. logs' \in [RoutePlaces -> Nat] /\ arrivals' \in [RoutePlaces -> Nat]
    BY <1>2, <1>6, <2>1 DEF RouteTypeOK
  <2> QED BY <1>1, <1>2, <1>4, <1>5, <2>2 DEF RouteTypeOK
<1>8. DaysClean' /\ StillCurrent'
  BY <1>4, <1>5, RoutePlansAssumption DEF DaysClean, StillCurrent
<1>9. RouteSound'
  <2>1. LoggedOncePerArrival'
    BY <1>2, <1>6 DEF RouteSound, LoggedOncePerArrival
  <2>2. InRange'
    BY <1>1, <1>3, <1>5 DEF InRange, Current, DaysValid, DaysOf, Length
  <2> QED BY <2>1, <2>2 DEF RouteSound, DaysFitUnlessMoved
<1> QED BY <1>1, <1>7, <1>8, <1>9, EndControl DEF RouteInv

LEMMA RemoveRowStep ==
    ASSUME RouteInv, NEW t \in RouteTxns, RemoveRow(t)
    PROVE  RouteInv'
<1>1. /\ row' = NoRow /\ days' = Empty /\ moved' = FALSE /\ lock = NoTxn
      /\ txn' = [txn EXCEPT ![t] = Idle]
      /\ UNCHANGED <<places, logs, lock, requests, arrivals>>
  BY DEF RemoveRow
<1>2. RouteTypeOK /\ RouteSound
  BY DEF RouteInv
<1>3. lock' = Released(t)
  BY <1>1, RouteAssumption DEF Released
<1>4. /\ txn' \in [RouteTxns -> Txn] /\ lock' \in RouteTxns \cup {NoTxn}
      /\ \A u \in RouteTxns : lock' = u <=> txn'[u].pc \in {"saved", "rebuilt"}
  BY <1>1, <1>3, EndTypes
<1>5. \A u \in RouteTxns : txn'[u].pc # "rebuilt"
  BY <1>1, <1>4, RouteAssumption
<1>6. RouteTypeOK'
  BY <1>1, <1>2, <1>4, NoRowType, EmptyType DEF RouteTypeOK
<1>7. DaysClean' /\ StillCurrent'
  BY <1>1, <1>5 DEF DaysClean, StillCurrent, Empty
<1>8. RouteSound'
  <2>1. DaysOf(days') = {}
    BY <1>1, EmptyType
  <2>2. InRange'
    BY <2>1 DEF InRange, DaysOf
  <2> QED BY <1>1, <1>2, <2>2 DEF RouteSound, LoggedOncePerArrival, DaysFitUnlessMoved
<1> QED BY <1>1, <1>3, <1>6, <1>7, <1>8, EndControl DEF RouteInv

-----------------------------------------------------------------------------
(* Creation, and the deletion of a place *)

LEMMA CreateRouteStep ==
    ASSUME RouteInv, NEW first \in Dates, NEW last \in Dates, NEW plan \in Plans,
           CreateRoute(first, last, plan)
    PROVE  RouteInv'
<1>1. /\ requests = 0 /\ requests' = 1 /\ DaysValid(plan, Dated(first, last))
      /\ row' = Dated(first, last) /\ days' = plan
      /\ logs' = [p \in RoutePlaces |-> IF p \in Visited(plan) THEN 1 ELSE 0]
      /\ arrivals' = logs'
      /\ UNCHANGED <<places, txn, lock, moved>>
  BY DEF CreateRoute
<1>2. RouteTypeOK /\ NotBefore /\ Requested
  BY DEF RouteInv
<1>3. \A t \in RouteTxns : txn[t].pc = "idle"
  BY <1>1, <1>2 DEF NotBefore
<1>4. row' \in Row /\ plan \in Plan
  BY <1>1, RoutePlansAssumption DEF Dated, Row
<1>5. RouteTypeOK'
  <2>1. logs' \in [RoutePlaces -> Nat] /\ arrivals' \in [RoutePlaces -> Nat]
    BY <1>1
  <2>2. requests' \in 0 .. MaxRequests
    BY <1>1, RouteAssumption
  <2> QED BY <1>1, <1>2, <1>4, <2>1, <2>2 DEF RouteTypeOK
<1>6. DaysClean'
  BY <1>1, RoutePlansAssumption DEF DaysClean
<1>7. NotBefore' /\ Requested' /\ StillCurrent'
  BY <1>1, <1>2, <1>3 DEF NotBefore, Requested, StillCurrent, Carries
<1>8. RouteSound'
  <2>1. InRange'
    BY <1>1 DEF InRange, DaysValid, DaysOf, Length
  <2> QED BY <1>1, <2>1 DEF RouteSound, LoggedOncePerArrival, DaysFitUnlessMoved
<1> QED BY <1>5, <1>6, <1>7, <1>8 DEF RouteInv

LEMMA WithoutType ==
    ASSUME NEW plan \in Plan, NEW p
    PROVE  /\ Without(plan, p) \in Plan
           /\ \A d \in Day : Without(plan, p)[d].there <=> plan[d].there
           /\ Visited(Without(plan, p)) = Visited(plan) \ {p}
<1>1. \A d \in Day : /\ Without(plan, p)[d].there = plan[d].there
                    /\ Without(plan, p)[d].stops = {s \in plan[d].stops : s.place # p}
  BY DEF Without
<1>2. \A d \in Day : plan[d].there \in BOOLEAN /\ plan[d].stops \in SUBSET Stop
  BY DEF Plan
<1>3. Without(plan, p) \in Plan
  BY <1>2 DEF Without, Plan
<1>4. Visited(Without(plan, p)) = Visited(plan) \ {p}
  BY <1>1 DEF Visited
<1> QED BY <1>1, <1>3, <1>4

LEMMA DropPlaceStep ==
    ASSUME RouteInv, NEW p \in RoutePlaces, DropPlace(p)
    PROVE  RouteInv'
<1>1. /\ \A t \in RouteTxns : txn[t].pc \in {"rebuilt", "collected"} => p \notin Visited(days)
      /\ places' = places \ {p} /\ days' = Without(days, p)
      /\ logs' = [logs EXCEPT ![p] = 0] /\ arrivals' = [arrivals EXCEPT ![p] = 0]
      /\ UNCHANGED <<row, txn, lock, requests, moved>>
  BY DEF DropPlace
<1>2. RouteTypeOK /\ DaysClean /\ NotBefore /\ Requested /\ StillCurrent /\ RouteSound
  BY DEF RouteInv
<1>3. /\ days' \in Plan /\ \A d \in Day : days'[d].there <=> days[d].there
      /\ Visited(days') = Visited(days) \ {p}
  <2>1. days \in Plan
    BY <1>2 DEF RouteTypeOK
  <2>2. Visited(days') = Visited(Without(days, p))
    BY <1>1 DEF Visited
  <2> QED BY <1>1, <2>1, <2>2, WithoutType
<1>4. DaysOf(days') = DaysOf(days)
  BY <1>3 DEF DaysOf
<1>5. RouteTypeOK'
  <2>1. logs' \in [RoutePlaces -> Nat] /\ arrivals' \in [RoutePlaces -> Nat]
    BY <1>1, <1>2 DEF RouteTypeOK
  <2> QED BY <1>1, <1>2, <1>3, <2>1 DEF RouteTypeOK
<1>6. DaysClean'
  <2>1. ASSUME NEW d \in Day, ~days'[d].there PROVE days'[d] = NoDay
    <3>1. days[d] = NoDay
      BY <1>2, <1>3, <2>1 DEF DaysClean
    <3>2. days[d].there = FALSE /\ days[d].stops = {}
      BY <3>1 DEF NoDay
    <3>3. days'[d] = [there |-> days[d].there, stops |-> {s \in days[d].stops : s.place # p}]
      BY <1>1 DEF Without
    <3>4. {s \in days[d].stops : s.place # p} = {}
      BY <3>2
    <3> QED BY <3>2, <3>3, <3>4 DEF NoDay
  <2> QED BY <2>1 DEF DaysClean, NoDay
<1>7. NotBefore' /\ Requested'
  BY <1>1, <1>2 DEF NotBefore, Requested, Carries
<1>8. StillCurrent'
  <2>1. ASSUME NEW t \in RouteTxns, txn'[t].pc = "rebuilt" PROVE Current(txn[t])'
    <3>1. Current(txn[t]) /\ p \notin Visited(days)
      BY <1>1, <1>2, <2>1 DEF StillCurrent
    <3>2. Visited(days') = Visited(days)
      BY <1>3, <3>1
    <3>3. Visited(txn'[t].plan) = Visited(txn[t].plan) /\ txn'[t] = txn[t]
      BY <1>1 DEF Visited
    <3>4. /\ txn[t].given /\ DaysValid(txn[t].plan, txn[t].row)
          /\ DaysOf(days) \subseteq txn[t].gone
          /\ txn[t].fresh = Visited(txn[t].plan) \ Visited(days)
      BY <3>1 DEF Current
    <3>5. DaysValid(txn[t].plan, txn[t].row)'
      BY <3>3, <3>4 DEF DaysValid, DaysOf, Length
    <3> QED BY <1>4, <3>2, <3>3, <3>4, <3>5 DEF Current
  <2> QED BY <2>1 DEF StillCurrent
<1>9. RouteSound'
  <2>1. LoggedOncePerArrival'
    BY <1>1, <1>2 DEF RouteSound, LoggedOncePerArrival, RouteTypeOK
  <2>2. DaysFitUnlessMoved'
    BY <1>1, <1>2, <1>4 DEF RouteSound, DaysFitUnlessMoved, InRange, Length
  <2> QED BY <2>1, <2>2 DEF RouteSound
<1> QED BY <1>5, <1>6, <1>7, <1>8, <1>9 DEF RouteInv

-----------------------------------------------------------------------------
LEMMA StutterStep == ASSUME RouteInv, UNCHANGED routeVars PROVE RouteInv'
<1>1. /\ row' = row /\ days' = days /\ places' = places /\ logs' = logs /\ txn' = txn
      /\ lock' = lock /\ requests' = requests /\ arrivals' = arrivals /\ moved' = moved
  BY DEF routeVars
<1>2. RouteTypeOK' /\ DaysClean' /\ NotBefore' /\ Requested' /\ RouteSound'
  BY <1>1 DEF RouteInv, RouteTypeOK, DaysClean, NotBefore, Requested, Carries, RouteSound,
              LoggedOncePerArrival, DaysFitUnlessMoved,
                                     InRange, DaysOf
<1>3. StillCurrent'
  BY <1>1 DEF RouteInv, StillCurrent, Current, DaysValid, DaysOf, Visited
<1> QED BY <1>2, <1>3 DEF RouteInv

LEMMA RouteInvInductive == RouteInv /\ [RouteNext]_routeVars => RouteInv'
<1>1. SUFFICES ASSUME RouteInv, [RouteNext]_routeVars PROVE RouteInv'
  OBVIOUS
<1>2. ASSUME NEW first \in Dates, NEW last \in Dates, NEW plan \in Plans,
             CreateRoute(first, last, plan)
      PROVE  RouteInv'
  BY <1>1, <1>2, CreateRouteStep
<1>3. ASSUME NEW t \in RouteTxns, NEW first \in Dates, NEW last \in Dates, NEW plan \in Plans,
             NEW bad \in BOOLEAN, LoadUpdate(t, first, last, TRUE, plan, bad)
      PROVE  RouteInv'
  BY <1>1, <1>3, RoutePlansAssumption, LoadUpdateStep
<1>4. ASSUME NEW t \in RouteTxns, NEW first \in Dates, NEW last \in Dates,
             LoadUpdate(t, first, last, FALSE, Empty, FALSE)
      PROVE  RouteInv'
  BY <1>1, <1>4, EmptyType, LoadUpdateStep
<1>5. ASSUME NEW t \in RouteTxns,
             \/ SaveRow(t) \/ Rebuild(t) \/ RejectDays(t)
             \/ CommitRow(t) \/ CommitDays(t) \/ CommitFails(t)
             \/ LoadDelete(t) \/ CollectDays(t) \/ RemoveRow(t) \/ RemoveFails(t) \/ Deadlock(t)
      PROVE  RouteInv'
  <2>1. CASE RejectDays(t) \/ CommitFails(t) \/ RemoveFails(t) \/ Deadlock(t)
    <3>1. RollBack(t)
      BY <2>1 DEF RejectDays, CommitFails, RemoveFails, Deadlock
    <3> QED BY <1>1, <3>1, RollBackStep
  <2>2. CASE SaveRow(t) \/ Rebuild(t) \/ LoadDelete(t) \/ CollectDays(t)
    BY <1>1, <2>2, SaveRowStep, RebuildStep, LoadDeleteStep, CollectDaysStep
  <2>3. CASE CommitRow(t) \/ CommitDays(t) \/ RemoveRow(t)
    BY <1>1, <2>3, CommitRowStep, CommitDaysStep, RemoveRowStep
  <2> QED BY <1>5, <2>1, <2>2, <2>3
<1>6. ASSUME NEW p \in RoutePlaces, DropPlace(p) PROVE RouteInv'
  BY <1>1, <1>6, DropPlaceStep
<1> QED BY <1>1, <1>2, <1>3, <1>4, <1>5, <1>6, StutterStep DEF RouteNext

LEMMA RouteInvAlways == RouteSpec => []RouteInv
BY InitRoute, RouteInvInductive, PTL DEF RouteSpec

\* Every variable keeps its type, and the lock of the row is held by the one update that has
\* saved the row and not committed, whatever else overlaps it or is cancelled.
THEOREM RouteTypesKept == RouteSpec => []RouteTypeOK
<1>1. RouteInv => RouteTypeOK
  BY DEF RouteInv
<1> QED BY <1>1, RouteInvAlways, PTL

\* However updates, deletions and the deletion of places overlap, every arrival of a place
\* is recorded once, and days are out of range only after dates were stored without days.
THEOREM RouteAlwaysSound == RouteSpec => []RouteSound
<1>1. RouteInv => RouteSound
  BY DEF RouteInv
<1> QED BY <1>1, RouteInvAlways, PTL

-----------------------------------------------------------------------------
(* The refinement *)

LEMMA SameData ==
    /\ Store!Row = Row /\ Store!Day = Day /\ Store!Plan = Plan /\ Store!Empty = Empty
    /\ \A plan, p : Store!Without(plan, p) = Without(plan, p)
    /\ \A plan, r : DaysValid(plan, r) => Store!Fits(plan, r)
<1>1. Store!Day = Day /\ Store!Row = Row /\ Store!Stop = Stop /\ Store!NoDay = NoDay
  BY DEF Store!Day, Day, Store!Row, Row, Store!Stop, Stop, Store!NoDay, NoDay
<1>2. Store!Plan = Plan /\ Store!Empty = Empty
  BY <1>1 DEF Store!Plan, Plan, Store!Empty, Empty
<1>3. \A plan, p : Store!Without(plan, p) = Without(plan, p)
  BY <1>1 DEF Store!Without, Without
<1>4. \A plan, r : DaysValid(plan, r) => Store!Fits(plan, r)
  BY <1>1 DEF Store!Fits, DaysValid, DaysOf, Length, Store!Length
<1> QED BY <1>1, <1>2, <1>3, <1>4

LEMMA CreateStores ==
    ASSUME NEW first \in Dates, NEW last \in Dates, NEW plan \in Plans,
           CreateRoute(first, last, plan)
    PROVE  Store!Store
<1>1. /\ DaysValid(plan, Dated(first, last)) /\ row' = Dated(first, last) /\ days' = plan
  BY DEF CreateRoute
<1>2. Dated(first, last) \in Row /\ Dated(first, last).there
  BY DEF Dated, Row
<1> QED BY <1>1, <1>2, SameData DEF Store!Store

LEMMA CommitStores ==
    ASSUME RouteInv, NEW t \in RouteTxns, CommitRow(t) \/ CommitDays(t)
    PROVE  Store!Store \/ Store!StoreRow
<1>1. Done(t) /\ row' = txn[t].row
  BY DEF CommitRow, CommitDays
<1>2. txn[t] \in Txn /\ Carries(txn[t]) /\ (txn[t].given => Current(txn[t]))
  BY <1>1, DoneHolds
<1>3. txn[t].row \in Row /\ txn[t].row.there
  BY <1>2 DEF Txn, Carries
<1>4. CASE CommitRow(t)
  BY <1>1, <1>3, <1>4, SameData DEF CommitRow, Store!StoreRow
<1>5. CASE CommitDays(t)
  <2>1. days' = Merged(t) /\ txn[t].given
    BY <1>5 DEF CommitDays
  <2>2. days' = txn[t].plan /\ txn[t].plan \in Plans
    BY <1>2, <2>1, MergedIsPlan DEF Carries
  <2>3. DaysValid(txn[t].plan, txn[t].row)
    BY <1>2, <2>1 DEF Current
  <2> QED BY <1>1, <1>3, <2>2, <2>3, SameData DEF Store!Store
<1> QED BY <1>4, <1>5

LEMMA OtherStores ==
    ASSUME RouteNext
    PROVE  \/ UNCHANGED <<row, days>>
           \/ \E first, last \in Dates, plan \in Plans : CreateRoute(first, last, plan)
           \/ \E t \in RouteTxns : CommitRow(t) \/ CommitDays(t) \/ RemoveRow(t)
           \/ \E p \in RoutePlaces : DropPlace(p)
<1>1. ASSUME NEW t \in RouteTxns, RejectDays(t) \/ CommitFails(t) \/ RemoveFails(t) \/ Deadlock(t)
      PROVE  UNCHANGED <<row, days>>
  BY <1>1 DEF RejectDays, CommitFails, RemoveFails, Deadlock, RollBack
<1>2. ASSUME NEW t \in RouteTxns, SaveRow(t) \/ Rebuild(t) \/ LoadDelete(t) \/ CollectDays(t)
      PROVE  UNCHANGED <<row, days>>
  BY <1>2 DEF SaveRow, Rebuild, LoadDelete, CollectDays
<1>3. ASSUME NEW t \in RouteTxns, NEW first \in Dates, NEW last \in Dates,
             NEW given, NEW plan, NEW bad,
             LoadUpdate(t, first, last, given, plan, bad)
      PROVE  UNCHANGED <<row, days>>
  BY <1>3 DEF LoadUpdate
<1> QED BY <1>1, <1>2, <1>3 DEF RouteNext

\* Seen through its committed rows, a route that any number of transactions write at the
\* same time is a RouteStore: each step stores one request, removes the route, loses a
\* place, or changes nothing.
THEOREM RouteRefines == RouteSpec => ImplementsRouteStore
<1>1. RouteInit => Store!Init
  BY NoRowType, SameData DEF RouteInit, Store!Init
<1>2. RouteInv /\ [RouteNext]_routeVars => [Store!Next]_<<row, days>>
  <2>1. SUFFICES ASSUME RouteInv, [RouteNext]_routeVars
                 PROVE  Store!Next \/ UNCHANGED <<row, days>>
    OBVIOUS
  <2>2. ASSUME NEW first \in Dates, NEW last \in Dates, NEW plan \in Plans,
               CreateRoute(first, last, plan)
        PROVE  Store!Next
    BY <2>2, CreateStores DEF Store!Next
  <2>3. ASSUME NEW t \in RouteTxns, CommitRow(t) \/ CommitDays(t) PROVE Store!Next
    BY <2>1, <2>3, CommitStores DEF Store!Next
  <2>4. ASSUME NEW t \in RouteTxns, RemoveRow(t) PROVE Store!Next
    BY <2>4, NoRowType, SameData DEF RemoveRow, Store!Next, Store!Remove
  <2>5. ASSUME NEW p \in RoutePlaces, DropPlace(p) PROVE Store!Next
    BY <2>5, SameData DEF DropPlace, Store!Next, Store!LosePlace
  <2>6. CASE UNCHANGED routeVars
    BY <2>6 DEF routeVars
  <2> QED BY <2>1, <2>2, <2>3, <2>4, <2>5, <2>6, OtherStores
<1> QED BY <1>1, <1>2, RouteInvAlways, PTL DEF RouteSpec, ImplementsRouteStore, Store!Spec

--------------------------------------------------------------------------------
(* AI tags *)

(***************************************************************************)
(* A tagging that is writing has deleted the tags of its place and puts    *)
(* back those of one answer. TagInv says which answer, and that nobody     *)
(* else writes the place meanwhile unless a run crossed it.                *)
(***************************************************************************)

RightFood(p, given) ==
    given \cap FoodTags # {} => Sort[p].lcls1 = "FD" \/ Sort[p].ctype \in {15, 39}
RightTags(p, given) == RightFood(p, given) /\ given \cap Styles # {}

TagWriting(r, p) == job[r][p].pc \in {"cleared", "tagged"}

AnswersRight ==
    \A r \in TagRuns, p \in TagPlaces :
        job[r][p].pc \in {"answered", "cleared", "tagged"} => RightTags(p, job[r][p].tags)
IdleRunsRest == \A r \in TagRuns, p \in TagPlaces : mode[r] = "idle" => job[r][p].pc = "none"
StoredRight ==
    \A p \in TagPlaces : /\ feature[p].style = "ai" => RightTags(p, feature[p].from)
                         /\ RightFood(p, aiTags[p])
OneWriter ==
    \A p \in TagPlaces \ crossed : \A r, s \in TagRuns :
        TagWriting(r, p) /\ TagWriting(s, p) => r = s
WriterKnows ==
    \A p \in TagPlaces \ crossed : \A r \in TagRuns :
        /\ job[r][p].pc = "cleared" => aiTags[p] = {}
        /\ job[r][p].pc = "tagged" => aiTags[p] = job[r][p].tags

TagInv == /\ TagTypeOK /\ AnswersRight /\ IdleRunsRest /\ StoredRight
          /\ OneWriter /\ WriterKnows /\ TagsMatchVector

LEMMA AnswerRight ==
    ASSUME NEW p \in TagPlaces, NEW answer
    PROVE  /\ Result(p, answer) \subseteq Candidates
           /\ RightTags(p, Result(p, answer))
<1> DEFINE kept == DropNonFoodTags(p, FilterTags(answer))
<1>1. kept \subseteq Candidates /\ RightFood(p, kept)
  BY DEF DropNonFoodTags, FilterTags, RightFood, IsFoodPlace, FoodTags
<1>2. FallbackStyle(p) \in Styles
  BY DEF FallbackStyle, StyleByCtype, StyleByLcls1, Styles
<1>3. FallbackStyle(p) \in FoodTags => Sort[p].lcls1 = "FD" \/ Sort[p].ctype = 39
  BY DEF FallbackStyle, StyleByCtype, StyleByLcls1, FoodTags
<1> HIDE DEF kept
<1>4. Result(p, answer) = EnsureMinStyle(p, kept)
  BY DEF Result, kept
<1>5. CASE kept \cap Styles = {}
  <2>1. Result(p, answer) = kept \cup {FallbackStyle(p)}
    BY <1>4, <1>5 DEF EnsureMinStyle
  <2>2. QED
    BY <2>1, <1>1, <1>2, <1>3 DEF RightTags, RightFood, Candidates
<1>6. CASE kept \cap Styles # {}
  BY <1>4, <1>1, <1>6 DEF EnsureMinStyle, RightTags
<1>7. QED
  BY <1>5, <1>6

LEMMA TagInvInit == TagInit => TagInv
BY TagAssumption DEF TagInit, TagInv, TagTypeOK, AnswersRight, IdleRunsRest, StoredRight, OneWriter,
     WriterKnows, TagsMatchVector, RightFood, TagWriting, NoFeature, NoJob, Feature, Job, TagModes

LEMMA TagStutters == TagInv /\ UNCHANGED tagVars => TagInv'
<1> SUFFICES ASSUME TagInv, UNCHANGED tagVars PROVE TagInv'
  OBVIOUS
<1> USE DEF tagVars
<1>1. TagTypeOK'
  BY DEF TagInv, TagTypeOK
<1>2. AnswersRight' /\ IdleRunsRest' /\ StoredRight' /\ OneWriter' /\ WriterKnows'
  BY DEF TagInv, AnswersRight, IdleRunsRest, StoredRight, OneWriter, WriterKnows, TagWriting
<1>3. TagsMatchVector'
  BY DEF TagInv, TagsMatchVector, AtRest
<1> QED
  BY <1>1, <1>2, <1>3 DEF TagInv

\* What a change of one job does to the jobs.
LEMMA TagJobAt ==
    ASSUME TagTypeOK, NEW r \in TagRuns, NEW p \in TagPlaces, NEW next \in Job,
           JobAt(r, p, next)
    PROVE  /\ job' \in [TagRuns -> [TagPlaces -> Job]]
           /\ job'[r][p] = next
           /\ \A s \in TagRuns, q \in TagPlaces : s # r \/ q # p => job'[s][q] = job[s][q]
BY DEF TagTypeOK, JobAt

LEMMA TagAnalyse ==
    ASSUME TagInv, NEW r \in TagRuns, NEW p \in TagPlaces, Analyse(r, p)
    PROVE  TagInv'
<1>1. PICK answer \in Answers : JobAt(r, p, Doing("answered", Result(p, answer)))
  BY DEF Analyse
<1> DEFINE new == Doing("answered", Result(p, answer))
<1>2. new \in Job /\ new.pc = "answered" /\ RightTags(p, new.tags)
  BY AnswerRight DEF Doing, Job
<1> HIDE DEF new
<1>3. /\ UNCHANGED <<described, aiTags, feature, mode, tagFaults, recut, crossed>>
      /\ mode[r] # "idle" /\ JobAt(r, p, new) /\ job[r][p].pc = "todo"
  BY <1>1 DEF Analyse, new, NextUp, Todo
<1>4. TagTypeOK
  BY DEF TagInv
<1>5. /\ job' \in [TagRuns -> [TagPlaces -> Job]]
      /\ job'[r][p] = new
      /\ \A s \in TagRuns, q \in TagPlaces : s # r \/ q # p => job'[s][q] = job[s][q]
  BY <1>2, <1>3, <1>4, TagJobAt
<1>6. TagTypeOK'
  BY <1>3, <1>4, <1>5 DEF TagTypeOK
<1>7. AnswersRight'
  BY <1>2, <1>3, <1>5 DEF TagInv, AnswersRight
<1>8. IdleRunsRest' /\ StoredRight'
  BY <1>3, <1>5 DEF TagInv, IdleRunsRest, StoredRight
<1>9. OneWriter' /\ WriterKnows'
  BY <1>2, <1>3, <1>5 DEF TagInv, OneWriter, WriterKnows, TagWriting
<1>10. TagsMatchVector'
  BY <1>2, <1>3, <1>5 DEF TagInv, TagsMatchVector, AtRest
<1> QED
  BY <1>6, <1>7, <1>8, <1>9, <1>10 DEF TagInv

LEMMA TagClear ==
    ASSUME TagInv, NEW r \in TagRuns, NEW p \in TagPlaces, ClearTags(r, p)
    PROVE  TagInv'
<1> DEFINE new == Doing("cleared", job[r][p].tags)
<1>1. TagTypeOK /\ job[r][p] \in Job
  BY DEF TagInv, TagTypeOK
<1>2. new \in Job /\ new.pc = "cleared" /\ new.tags = job[r][p].tags
  BY <1>1 DEF Doing, Job
<1>3. /\ UNCHANGED <<described, feature, mode, tagFaults, recut>>
      /\ JobAt(r, p, new) /\ job[r][p].pc = "answered"
      /\ aiTags' = [aiTags EXCEPT ![p] = {}]
      /\ crossed' = IF Others(r, p) # {} THEN crossed \cup {p} ELSE crossed
  BY DEF ClearTags
<1> HIDE DEF new
<1>4. /\ job' \in [TagRuns -> [TagPlaces -> Job]]
      /\ job'[r][p] = new
      /\ \A s \in TagRuns, q \in TagPlaces : s # r \/ q # p => job'[s][q] = job[s][q]
  BY <1>2, <1>3, <1>1, TagJobAt
<1>5. /\ aiTags' \in [TagPlaces -> SUBSET Candidates] /\ aiTags'[p] = {}
      /\ \A q \in TagPlaces : q # p => aiTags'[q] = aiTags[q]
  BY <1>3, <1>1 DEF TagTypeOK
<1>6. crossed \subseteq crossed' /\ crossed' \subseteq TagPlaces
  BY <1>3, <1>1 DEF TagTypeOK
<1>7. p \notin crossed' => \A s \in TagRuns : s # r => ~TagWriting(s, p)
  BY <1>3 DEF Others, TagWriting
<1>8. TagTypeOK'
  BY <1>3, <1>1, <1>4, <1>5, <1>6 DEF TagTypeOK
<1>9. AnswersRight'
  BY <1>2, <1>3, <1>4 DEF TagInv, AnswersRight
<1>10. IdleRunsRest'
  BY <1>3, <1>4 DEF TagInv, IdleRunsRest
<1>11. \A q \in TagPlaces : RightFood(q, aiTags[q])
  BY DEF TagInv, StoredRight
<1>12. \A q \in TagPlaces : RightFood(q, aiTags'[q])
  <2>1. RightFood(p, {})
    BY DEF RightFood
  <2> QED
    BY <2>1, <1>5, <1>11
<1>13. StoredRight'
  BY <1>3, <1>12 DEF TagInv, StoredRight
<1>14. OneWriter'
  BY <1>2, <1>3, <1>4, <1>6, <1>7 DEF TagInv, OneWriter, TagWriting
<1>15. WriterKnows'
  BY <1>2, <1>3, <1>4, <1>5, <1>6, <1>7 DEF TagInv, WriterKnows, TagWriting
<1>16. TagsMatchVector'
  BY <1>2, <1>3, <1>4, <1>5, <1>6 DEF TagInv, TagsMatchVector, AtRest
<1> QED
  BY <1>8, <1>9, <1>10, <1>13, <1>14, <1>15, <1>16 DEF TagInv

LEMMA TagAdd ==
    ASSUME TagInv, NEW r \in TagRuns, NEW p \in TagPlaces, AddTags(r, p)
    PROVE  TagInv'
<1> DEFINE new == Doing("tagged", job[r][p].tags)
<1>1. TagTypeOK /\ job[r][p] \in Job
  BY DEF TagInv, TagTypeOK
<1>2. new \in Job /\ new.pc = "tagged" /\ new.tags = job[r][p].tags
  BY <1>1 DEF Doing, Job
<1>3. /\ UNCHANGED <<described, feature, mode, tagFaults, recut, crossed>>
      /\ JobAt(r, p, new) /\ job[r][p].pc = "cleared"
      /\ aiTags' = [aiTags EXCEPT ![p] = aiTags[p] \cup job[r][p].tags]
  BY DEF AddTags
<1> HIDE DEF new
<1>4. /\ job' \in [TagRuns -> [TagPlaces -> Job]]
      /\ job'[r][p] = new
      /\ \A s \in TagRuns, q \in TagPlaces : s # r \/ q # p => job'[s][q] = job[s][q]
  BY <1>2, <1>3, <1>1, TagJobAt
<1>5. job[r][p].tags \subseteq Candidates
  BY <1>1 DEF Job
<1>6. /\ aiTags' \in [TagPlaces -> SUBSET Candidates] /\ aiTags'[p] = aiTags[p] \cup job[r][p].tags
      /\ \A q \in TagPlaces : q # p => aiTags'[q] = aiTags[q]
  BY <1>3, <1>1, <1>5 DEF TagTypeOK
<1>7. TagTypeOK'
  BY <1>3, <1>1, <1>4, <1>6 DEF TagTypeOK
<1>8. AnswersRight'
  BY <1>2, <1>3, <1>4 DEF TagInv, AnswersRight
<1>9. IdleRunsRest'
  BY <1>3, <1>4 DEF TagInv, IdleRunsRest
<1>10. RightTags(p, job[r][p].tags)
  BY <1>3 DEF TagInv, AnswersRight
<1>11. RightFood(p, aiTags[p])
  BY DEF TagInv, StoredRight
<1>12. RightFood(p, aiTags'[p])
  BY <1>6, <1>10, <1>11 DEF RightFood, RightTags
<1>13. \A q \in TagPlaces : RightFood(q, aiTags[q])
  BY DEF TagInv, StoredRight
<1>14. \A q \in TagPlaces : RightFood(q, aiTags'[q])
  BY <1>6, <1>12, <1>13
<1>15. StoredRight'
  BY <1>3, <1>14 DEF TagInv, StoredRight
<1>16. OneWriter'
  BY <1>2, <1>3, <1>4 DEF TagInv, OneWriter, TagWriting
<1>17. p \notin crossed => aiTags[p] = {} /\ \A s \in TagRuns : s # r => ~TagWriting(s, p)
  BY <1>3 DEF TagInv, OneWriter, WriterKnows, TagWriting
<1>18. p \notin crossed => aiTags'[p] = new.tags
  BY <1>2, <1>6, <1>17
<1>19. p \notin crossed => \A s \in TagRuns : s # r => ~(job'[s][p].pc \in {"cleared", "tagged"})
  BY <1>4, <1>17 DEF TagWriting
<1>20. ASSUME NEW q \in TagPlaces \ crossed, NEW s \in TagRuns
      PROVE  /\ job'[s][q].pc = "cleared" => aiTags'[q] = {}
             /\ job'[s][q].pc = "tagged" => aiTags'[q] = job'[s][q].tags
  <2>1. CASE q # p
    BY <2>1, <1>4, <1>6 DEF TagInv, WriterKnows
  <2>2. CASE q = p /\ s # r
    BY <2>2, <1>19
  <2>3. CASE q = p /\ s = r
    BY <2>3, <1>2, <1>4, <1>18
  <2> QED
    BY <2>1, <2>2, <2>3
<1>21. WriterKnows'
  BY <1>3, <1>20 DEF WriterKnows
<1>22. TagsMatchVector'
  BY <1>2, <1>3, <1>4, <1>6 DEF TagInv, TagsMatchVector, AtRest
<1> QED
  BY <1>7, <1>8, <1>9, <1>15, <1>16, <1>21, <1>22 DEF TagInv

LEMMA TagSave ==
    ASSUME TagInv, NEW r \in TagRuns, NEW p \in TagPlaces, SaveStyle(r, p)
    PROVE  TagInv'
<1> DEFINE shown == Styled(p, job[r][p].tags)
<1>1. TagTypeOK /\ job[r][p] \in Job /\ feature[p] \in Feature
  BY DEF TagInv, TagTypeOK
<1>2. shown \in Feature /\ shown.style = "ai" /\ shown.from = job[r][p].tags
  BY <1>1 DEF Styled, Feature, Job
<1>3. /\ UNCHANGED <<described, aiTags, mode, tagFaults, recut, crossed>>
      /\ JobAt(r, p, NoJob) /\ job[r][p].pc = "tagged"
      /\ feature' = [feature EXCEPT ![p] = shown]
  BY DEF SaveStyle
<1> HIDE DEF shown
<1>4. NoJob \in Job /\ NoJob.pc = "none"
  BY DEF NoJob, Job
<1>5. /\ job' \in [TagRuns -> [TagPlaces -> Job]]
      /\ job'[r][p] = NoJob
      /\ \A s \in TagRuns, q \in TagPlaces : s # r \/ q # p => job'[s][q] = job[s][q]
  BY <1>1, <1>3, <1>4, TagJobAt
<1>6. /\ feature' \in [TagPlaces -> Feature] /\ feature'[p] = shown
      /\ \A q \in TagPlaces : q # p => feature'[q] = feature[q]
  BY <1>1, <1>2, <1>3 DEF TagTypeOK
<1>7. TagTypeOK'
  BY <1>1, <1>3, <1>5, <1>6 DEF TagTypeOK
<1>8. AnswersRight' /\ IdleRunsRest'
  BY <1>3, <1>4, <1>5 DEF TagInv, AnswersRight, IdleRunsRest
<1>9. RightTags(p, shown.from)
  BY <1>2, <1>3 DEF TagInv, AnswersRight
<1>10. StoredRight'
  BY <1>3, <1>6, <1>9 DEF TagInv, StoredRight
<1>11. OneWriter' /\ WriterKnows'
  BY <1>3, <1>4, <1>5 DEF TagInv, OneWriter, WriterKnows, TagWriting
<1>12. p \notin crossed => aiTags[p] = shown.from
  BY <1>2, <1>3 DEF TagInv, WriterKnows
<1>13. \A q \in TagPlaces : q # p => (AtRest(q)' => AtRest(q))
  BY <1>5 DEF AtRest
<1>14. TagsMatchVector'
  BY <1>3, <1>6, <1>12, <1>13 DEF TagInv, TagsMatchVector
<1> QED
  BY <1>7, <1>8, <1>10, <1>11, <1>14 DEF TagInv

\* Embedding keeps what tagging has stored, a dump stores no vector from tagging.
LEMMA TagRowKeeps ==
    ASSUME TagInv, NEW p \in TagPlaces, NEW shown \in Feature,
           shown.style = "ai" => shown.style = feature[p].style /\ shown.from = feature[p].from,
           feature' = [feature EXCEPT ![p] = shown],
           TagTypeOK', OneWriter', WriterKnows', aiTags' = aiTags, recut' = recut,
           crossed' = crossed,
           \A q \in TagPlaces : AtRest(q)' => AtRest(q)
    PROVE  StoredRight' /\ TagsMatchVector'
<1>1. feature \in [TagPlaces -> Feature]
  BY DEF TagInv, TagTypeOK
<1>2. /\ feature'[p] = shown
      /\ \A q \in TagPlaces : q # p => feature'[q] = feature[q]
  BY <1>1
<1>3. StoredRight'
  BY <1>2 DEF TagInv, StoredRight
<1>4. TagsMatchVector'
  BY <1>2 DEF TagInv, TagsMatchVector
<1> QED
  BY <1>3, <1>4

LEMMA TagPersist ==
    ASSUME TagInv, NEW r \in TagRuns, NEW p \in TagPlaces, PersistContentVector(r, p)
    PROVE  TagInv'
<1> DEFINE shown == [there |-> TRUE, style |-> feature[p].style,
                   from |-> feature[p].from, content |-> TRUE]
<1>1. TagTypeOK /\ feature[p] \in Feature
  BY DEF TagInv, TagTypeOK
<1>2. shown \in Feature /\ shown.style = feature[p].style /\ shown.from = feature[p].from
  BY <1>1 DEF Feature
<1>3. /\ UNCHANGED <<described, aiTags, mode, tagFaults, recut, crossed>>
      /\ JobAt(r, p, NoJob) /\ job[r][p].pc = "embedded"
      /\ feature' = [feature EXCEPT ![p] = shown]
  BY DEF PersistContentVector
<1> HIDE DEF shown
<1>4. NoJob \in Job /\ NoJob.pc = "none"
  BY DEF NoJob, Job
<1>5. /\ job' \in [TagRuns -> [TagPlaces -> Job]]
      /\ job'[r][p] = NoJob
      /\ \A s \in TagRuns, q \in TagPlaces : s # r \/ q # p => job'[s][q] = job[s][q]
  BY <1>1, <1>3, <1>4, TagJobAt
<1>6. feature' \in [TagPlaces -> Feature]
  BY <1>1, <1>2, <1>3 DEF TagTypeOK
<1>7. TagTypeOK'
  BY <1>1, <1>3, <1>5, <1>6 DEF TagTypeOK
<1>8. AnswersRight' /\ IdleRunsRest'
  BY <1>3, <1>4, <1>5 DEF TagInv, AnswersRight, IdleRunsRest
<1>9. OneWriter' /\ WriterKnows'
  BY <1>3, <1>4, <1>5 DEF TagInv, OneWriter, WriterKnows, TagWriting
<1>10. \A q \in TagPlaces : AtRest(q)' => AtRest(q)
  BY <1>3, <1>5 DEF AtRest
<1>11. StoredRight' /\ TagsMatchVector'
  BY <1>2, <1>3, <1>7, <1>9, <1>10, TagRowKeeps
<1> QED
  BY <1>7, <1>8, <1>9, <1>11 DEF TagInv

LEMMA TagDump ==
    ASSUME TagInv, NEW p \in TagPlaces, NEW style \in {"none", "dump"},
           NEW content \in BOOLEAN, LoadDump(p, style, content)
    PROVE  TagInv'
<1> DEFINE shown == [there |-> TRUE, style |-> style, from |-> {}, content |-> content]
<1>1. TagTypeOK
  BY DEF TagInv
<1>2. shown \in Feature /\ shown.style # "ai"
  BY DEF Feature
<1>3. /\ UNCHANGED <<described, aiTags, job, mode, recut, crossed>>
      /\ feature' = [feature EXCEPT ![p] = shown]
      /\ TagFault
  BY DEF LoadDump
<1> HIDE DEF shown
<1>4. tagFaults' \in 0..MaxTagFaults
  BY <1>1, <1>3, TagAssumption DEF TagTypeOK, TagFault
<1>6. feature' \in [TagPlaces -> Feature]
  BY <1>1, <1>2, <1>3 DEF TagTypeOK
<1>7. TagTypeOK'
  BY <1>1, <1>3, <1>4, <1>6 DEF TagTypeOK
<1>8. AnswersRight' /\ IdleRunsRest'
  BY <1>3 DEF TagInv, AnswersRight, IdleRunsRest
<1>9. OneWriter' /\ WriterKnows'
  BY <1>3 DEF TagInv, OneWriter, WriterKnows, TagWriting
<1>10. \A q \in TagPlaces : AtRest(q)' => AtRest(q)
  BY <1>3 DEF AtRest
<1>11. StoredRight' /\ TagsMatchVector'
  BY <1>2, <1>3, <1>7, <1>9, <1>10, TagRowKeeps
<1> QED
  BY <1>7, <1>8, <1>9, <1>11 DEF TagInv

\* The steps that write no row: a run begins, ends, takes a batch or leaves a place.
\* Whoever writes a place afterwards was writing it before, and with the same tags.
LEMMA TagJobsOnly ==
    ASSUME TagInv, job' \in [TagRuns -> [TagPlaces -> Job]], mode' \in [TagRuns -> TagModes],
           tagFaults' \in 0..MaxTagFaults,
           UNCHANGED <<described, aiTags, feature, crossed>>,
           recut \subseteq recut', recut' \subseteq TagPlaces,
           \A s \in TagRuns, q \in TagPlaces :
               \/ job'[s][q] = job[s][q]
               \/ job'[s][q].pc \in {"none", "todo", "embedded"},
           \A q \in TagPlaces \ recut' : \A s \in TagRuns :
               TagWriting(s, q) => job'[s][q] = job[s][q] \/ feature[q].style = "none",
           IdleRunsRest'
    PROVE  TagInv'
<1>1. TagTypeOK'
  BY DEF TagInv, TagTypeOK
<1>2. AnswersRight'
  BY DEF TagInv, AnswersRight
<1>3. StoredRight'
  BY DEF TagInv, StoredRight
<1>4. OneWriter'
  BY DEF TagInv, OneWriter, TagWriting
<1>5. WriterKnows'
  BY DEF TagInv, WriterKnows, TagWriting
<1>6. TagsMatchVector'
  BY DEF TagInv, TagsMatchVector, AtRest, TagWriting
<1> QED
  BY <1>1, <1>2, <1>3, <1>4, <1>5, <1>6 DEF TagInv

\* A place that was next is left for another run.
LEMMA TagLeaves ==
    ASSUME TagInv, NEW r \in TagRuns, NEW p \in TagPlaces, NextUp(r, p), JobAt(r, p, NoJob),
           tagFaults' \in 0..MaxTagFaults,
           UNCHANGED <<described, aiTags, feature, mode, recut, crossed>>
    PROVE  TagInv'
<1>1. TagTypeOK
  BY DEF TagInv
<1>2. job[r][p].pc = "todo"
  BY DEF NextUp, Todo
<1>4. NoJob \in Job /\ NoJob.pc = "none"
  BY DEF NoJob, Job
<1>5. /\ job' \in [TagRuns -> [TagPlaces -> Job]]
      /\ job'[r][p] = NoJob
      /\ \A s \in TagRuns, q \in TagPlaces : s # r \/ q # p => job'[s][q] = job[s][q]
  BY <1>1, <1>4, TagJobAt
<1>6. IdleRunsRest' /\ mode' \in [TagRuns -> TagModes] /\ recut' \subseteq TagPlaces
  BY <1>1, <1>2, <1>4, <1>5 DEF TagInv, IdleRunsRest, TagTypeOK
<1>7. \A s \in TagRuns, q \in TagPlaces :
         job'[s][q] = job[s][q] \/ job'[s][q].pc \in {"none", "todo", "embedded"}
  BY <1>4, <1>5
<1>8. \A s \in TagRuns, q \in TagPlaces : TagWriting(s, q) => job'[s][q] = job[s][q]
  BY <1>2, <1>5 DEF TagWriting
<1> QED
  BY <1>5, <1>6, <1>7, <1>8, TagJobsOnly

LEMMA TagRefused ==
    ASSUME TagInv, NEW r \in TagRuns, NEW p \in TagPlaces, Refused(r, p)
    PROVE  TagInv'
<1>1. /\ UNCHANGED <<described, aiTags, feature, mode, recut, crossed>>
      /\ NextUp(r, p) /\ JobAt(r, p, NoJob)
      /\ UNCHANGED tagFaults \/ TagFault
  BY DEF Refused
<1>2. tagFaults' \in 0..MaxTagFaults
  BY <1>1, TagAssumption DEF TagInv, TagTypeOK, TagFault
<1> QED
  BY <1>1, <1>2, TagLeaves

\* A run that gives some of its places another job.
LEMMA TagJobsOf ==
    ASSUME TagTypeOK, NEW r \in TagRuns, NEW next \in [TagPlaces -> Job],
           job' = [job EXCEPT ![r] = next]
    PROVE  /\ job' \in [TagRuns -> [TagPlaces -> Job]] /\ job'[r] = next
           /\ \A s \in TagRuns : s # r => job'[s] = job[s]
BY DEF TagTypeOK

LEMMA TagStart ==
    ASSUME TagInv, NEW r \in TagRuns, NEW m \in TagModes, NEW onlyMissing \in BOOLEAN,
           StartTagRun(r, m, onlyMissing)
    PROVE  TagInv'
<1> DEFINE set == First(Wanted(m, onlyMissing), TagLimit)
           next == [p \in TagPlaces |-> IF p \in set THEN Doing("todo", {}) ELSE NoJob]
<1>1. TagTypeOK
  BY DEF TagInv
<1>2. /\ UNCHANGED <<described, aiTags, feature, tagFaults, recut, crossed>>
      /\ mode[r] = "idle" /\ m # "idle" /\ mode' = [mode EXCEPT ![r] = m]
      /\ job' = [job EXCEPT ![r] = next]
  BY DEF StartTagRun
<1> HIDE DEF set
<1>3. /\ next \in [TagPlaces -> Job]
      /\ \A p \in TagPlaces : next[p].pc \in {"none", "todo"}
  BY DEF NoJob, Doing, Job
<1> HIDE DEF next
<1>4. /\ job' \in [TagRuns -> [TagPlaces -> Job]] /\ job'[r] = next
      /\ \A s \in TagRuns : s # r => job'[s] = job[s]
  BY <1>1, <1>2, <1>3, TagJobsOf
<1>5. /\ mode' \in [TagRuns -> TagModes] /\ mode'[r] # "idle"
      /\ \A s \in TagRuns : s # r => mode'[s] = mode[s]
  BY <1>1, <1>2 DEF TagTypeOK
<1>6. IdleRunsRest'
  BY <1>4, <1>5 DEF TagInv, IdleRunsRest
<1>7. tagFaults' \in 0..MaxTagFaults /\ recut' \subseteq TagPlaces
  BY <1>1, <1>2 DEF TagTypeOK
<1>8. \A s \in TagRuns, q \in TagPlaces :
         job'[s][q] = job[s][q] \/ job'[s][q].pc \in {"none", "todo", "embedded"}
  BY <1>3, <1>4
<1>9. \A s \in TagRuns, q \in TagPlaces : TagWriting(s, q) => job'[s][q] = job[s][q]
  BY <1>2, <1>4 DEF TagWriting, TagInv, IdleRunsRest
<1> QED
  BY <1>2, <1>4, <1>5, <1>6, <1>7, <1>8, <1>9, TagJobsOnly

LEMMA TagEnd ==
    ASSUME TagInv, NEW r \in TagRuns, EndTagRun(r)
    PROVE  TagInv'
<1>1. TagTypeOK
  BY DEF TagInv
<1>2. /\ UNCHANGED <<described, aiTags, feature, job, tagFaults, recut, crossed>>
      /\ \A p \in TagPlaces : job[r][p].pc = "none"
      /\ mode' = [mode EXCEPT ![r] = "idle"]
  BY DEF EndTagRun
<1>3. /\ mode' \in [TagRuns -> TagModes]
      /\ \A s \in TagRuns : s # r => mode'[s] = mode[s]
  BY <1>1, <1>2 DEF TagTypeOK, TagModes
<1>4. IdleRunsRest'
  BY <1>2, <1>3 DEF TagInv, IdleRunsRest
<1>5. /\ job' \in [TagRuns -> [TagPlaces -> Job]]
      /\ tagFaults' \in 0..MaxTagFaults /\ recut' \subseteq TagPlaces
  BY <1>1, <1>2 DEF TagTypeOK
<1> QED
  BY <1>2, <1>3, <1>4, <1>5, TagJobsOnly

\* A batch is taken or left out as a whole.
LEMMA TagBatch ==
    ASSUME TagInv, NEW r \in TagRuns, NEW j \in Job, j.pc \in {"none", "embedded"},
           mode[r] # "idle",
           job' = [job EXCEPT ![r] =
                     [p \in TagPlaces |->
                         IF p \in First(Todo(r), BatchSize) THEN j ELSE job[r][p]]],
           tagFaults' \in 0..MaxTagFaults,
           UNCHANGED <<described, aiTags, feature, mode, recut, crossed>>
    PROVE  TagInv'
<1> DEFINE set == First(Todo(r), BatchSize)
           next == [p \in TagPlaces |-> IF p \in set THEN j ELSE job[r][p]]
<1>1. TagTypeOK
  BY DEF TagInv
<1>2. \A p \in set : job[r][p].pc = "todo"
  BY DEF First, Todo
<1>3. job' = [job EXCEPT ![r] = next]
  OBVIOUS
<1> HIDE DEF set
<1>4. next \in [TagPlaces -> Job]
  BY <1>1 DEF TagTypeOK
<1>5. \A p \in TagPlaces : IF p \in set THEN next[p] = j ELSE next[p] = job[r][p]
  OBVIOUS
<1> HIDE DEF next
<1>6. /\ job' \in [TagRuns -> [TagPlaces -> Job]] /\ job'[r] = next
      /\ \A s \in TagRuns : s # r => job'[s] = job[s]
  BY <1>1, <1>3, <1>4, TagJobsOf
<1>7. IdleRunsRest'
  BY <1>6 DEF TagInv, IdleRunsRest
<1>8. mode' \in [TagRuns -> TagModes] /\ recut' \subseteq TagPlaces
  BY <1>1 DEF TagTypeOK
<1>9. \A s \in TagRuns, q \in TagPlaces :
         job'[s][q] = job[s][q] \/ job'[s][q].pc \in {"none", "todo", "embedded"}
  BY <1>5, <1>6
<1>10. \A s \in TagRuns, q \in TagPlaces : TagWriting(s, q) => job'[s][q] = job[s][q]
  BY <1>2, <1>5, <1>6 DEF TagWriting
<1> QED
  BY <1>6, <1>7, <1>8, <1>9, <1>10, TagJobsOnly

\* A run that ends before its time, wherever it is.
LEMMA TagRunOver ==
    ASSUME TagInv, NEW r \in TagRuns, RunOver(r), tagFaults' \in 0..MaxTagFaults,
           recut' = recut \cup CutShort(r), UNCHANGED <<described, aiTags, feature, crossed>>
    PROVE  TagInv'
<1> DEFINE next == [p \in TagPlaces |-> NoJob]
<1>1. TagTypeOK
  BY DEF TagInv
<1>2. mode' = [mode EXCEPT ![r] = "idle"] /\ job' = [job EXCEPT ![r] = next]
  BY DEF RunOver
<1>4. next \in [TagPlaces -> Job] /\ \A p \in TagPlaces : next[p].pc = "none"
  BY DEF NoJob, Job
<1> HIDE DEF next
<1>5. /\ job' \in [TagRuns -> [TagPlaces -> Job]] /\ job'[r] = next
      /\ \A s \in TagRuns : s # r => job'[s] = job[s]
  BY <1>1, <1>2, <1>4, TagJobsOf
<1>6. /\ mode' \in [TagRuns -> TagModes]
      /\ \A s \in TagRuns : s # r => mode'[s] = mode[s]
  BY <1>1, <1>2 DEF TagTypeOK, TagModes
<1>7. IdleRunsRest'
  BY <1>4, <1>5, <1>6 DEF TagInv, IdleRunsRest
<1>8. recut \subseteq recut' /\ recut' \subseteq TagPlaces
  BY <1>1 DEF TagTypeOK, CutShort
<1>9. \A s \in TagRuns, q \in TagPlaces :
         job'[s][q] = job[s][q] \/ job'[s][q].pc \in {"none", "todo", "embedded"}
  BY <1>4, <1>5
<1>10. \A q \in TagPlaces \ recut' : TagWriting(r, q) => feature[q].style = "none"
  BY DEF CutShort, TagWriting
<1>11. \A q \in TagPlaces \ recut' : \A s \in TagRuns :
          TagWriting(s, q) => job'[s][q] = job[s][q] \/ feature[q].style = "none"
  BY <1>5, <1>10
<1> QED
  BY <1>5, <1>6, <1>7, <1>8, <1>9, <1>11, TagJobsOnly

LEMMA TagAbort ==
    ASSUME TagInv, NEW r \in TagRuns, AbortRun(r)
    PROVE  TagInv'
<1>1. tagFaults' \in 0..MaxTagFaults
  BY TagAssumption DEF AbortRun, TagInv, TagTypeOK, TagFault
<1> QED
  BY <1>1, TagRunOver DEF AbortRun

\* A wrong shape ends the run of a single worker, which has no place in hand.
LEMMA TagMisread ==
    ASSUME TagInv, NEW r \in TagRuns, NEW p \in TagPlaces, Misread(r, p)
    PROVE  TagInv'
<1>1. TagTypeOK
  BY DEF TagInv
<1>2. /\ UNCHANGED <<described, aiTags, feature, recut, crossed>> /\ NextUp(r, p)
      /\ UNCHANGED tagFaults \/ TagFault
      /\ IF mode[r] = "tag" THEN RunOver(r) ELSE JobAt(r, p, NoJob) /\ UNCHANGED mode
  BY DEF Misread
<1>3. tagFaults' \in 0..MaxTagFaults
  BY <1>1, <1>2, TagAssumption DEF TagTypeOK, TagFault
<1>4. CASE mode[r] = "tag"
  <2>1. InHand(r) = {}
    BY <1>2, <1>4 DEF NextUp
  <2>2. CutShort(r) = {}
    BY <2>1 DEF InHand, CutShort
  <2> QED
    BY <1>2, <1>3, <1>4, <2>2, TagRunOver
<1>5. CASE mode[r] # "tag"
  BY <1>2, <1>3, <1>5, TagLeaves
<1> QED
  BY <1>4, <1>5

LEMMA TagDescribe ==
    ASSUME TagInv, NEW p \in TagPlaces, Describe(p)
    PROVE  TagInv'
<1> USE DEF Describe
<1>1. TagTypeOK'
  BY DEF TagInv, TagTypeOK
<1>2. AnswersRight' /\ IdleRunsRest' /\ StoredRight' /\ OneWriter' /\ WriterKnows'
  BY DEF TagInv, AnswersRight, IdleRunsRest, StoredRight, OneWriter, WriterKnows, TagWriting
<1>3. TagsMatchVector'
  BY DEF TagInv, TagsMatchVector, AtRest
<1> QED
  BY <1>1, <1>2, <1>3 DEF TagInv

LEMMA TagInvStep == TagInv /\ [TagNext]_tagVars => TagInv'
<1> SUFFICES ASSUME TagInv, [TagNext]_tagVars PROVE TagInv'
  OBVIOUS
<1>1. ASSUME NEW p \in TagPlaces, Describe(p) PROVE TagInv'
  BY <1>1, TagDescribe
<1>2. ASSUME NEW r \in TagRuns, NEW m \in TagModes, NEW o \in BOOLEAN, StartTagRun(r, m, o)
      PROVE  TagInv'
  BY <1>2, TagStart
<1>3. ASSUME NEW r \in TagRuns, EmbedBatch(r) PROVE TagInv'
  <2>1. Doing("embedded", {}) \in Job /\ Doing("embedded", {}).pc = "embedded"
    BY DEF Doing, Job
  <2>2. tagFaults' \in 0..MaxTagFaults
    BY <1>3 DEF EmbedBatch, TagInv, TagTypeOK
  <2> QED
    BY <1>3, <2>1, <2>2, TagBatch DEF EmbedBatch
<1>4. ASSUME NEW r \in TagRuns, BatchFails(r) PROVE TagInv'
  <2>1. NoJob \in Job /\ NoJob.pc = "none"
    BY DEF NoJob, Job
  <2>2. tagFaults' \in 0..MaxTagFaults
    BY <1>4, TagAssumption DEF BatchFails, TagInv, TagTypeOK, TagFault
  <2> QED
    BY <1>4, <2>1, <2>2, TagBatch DEF BatchFails
<1>5. ASSUME NEW r \in TagRuns, NEW p \in TagPlaces,
             \/ Analyse(r, p) \/ ClearTags(r, p) \/ AddTags(r, p) \/ SaveStyle(r, p)
             \/ PersistContentVector(r, p) \/ Refused(r, p) \/ Misread(r, p)
      PROVE  TagInv'
  BY <1>5, TagAnalyse, TagClear, TagAdd, TagSave, TagPersist, TagRefused, TagMisread
<1>6. ASSUME NEW r \in TagRuns, EndTagRun(r) \/ AbortRun(r) PROVE TagInv'
  BY <1>6, TagEnd, TagAbort
<1>7. ASSUME NEW p \in TagPlaces, NEW style \in {"none", "dump"}, NEW content \in BOOLEAN,
             LoadDump(p, style, content)
      PROVE  TagInv'
  BY <1>7, TagDump
<1>8. ASSUME UNCHANGED tagVars PROVE TagInv'
  BY <1>8, TagStutters
<1>9. \A p \in Hopeless \cup Misshapen : p \in TagPlaces
  BY TagAssumption
<1>10. ASSUME NEW r \in TagRuns, TagStep(r) PROVE TagInv'
  BY <1>10, <1>3, <1>5, <1>6, <1>9 DEF TagStep
<1> QED
  BY <1>1, <1>2, <1>4, <1>5, <1>6, <1>7, <1>8, <1>10 DEF TagNext

\* Every variable of the tag runs keeps its type, and no place gets a tag that is not
\* seeded, whatever the model answers and however runs overlap (ai_tagging.py _filter_tags).
THEOREM TagTypesKept == TagSpec => []TagTypeOK
<1>1. TagInv => TagTypeOK
  BY DEF TagInv
<1> QED
  BY <1>1, TagInvInit, TagInvStep, PTL DEF TagSpec

\* For any number of places, runs and faults: the AI tags of a place at rest are those of
\* the answer that its style vector came with, a tagging that was cut short included, and
\* they are what the guard rails leave of the answer, with the exceptions that the
\* autocommit of persist_ai_result makes necessary.
THEOREM TagsAlwaysAsAnswered == TagSpec => []TagsAsAnswered
<1>1. TagInv => TagsAsAnswered
  <2> SUFFICES ASSUME TagInv PROVE GuardRails
    BY DEF TagInv, TagsAsAnswered
  <2>1. \A p \in TagPlaces : aiTags[p] \cap FoodTags # {} =>
           Sort[p].lcls1 = "FD" \/ Sort[p].ctype \in {15, 39}
    BY DEF TagInv, StoredRight, RightFood
  <2>2. \A p \in TagPlaces \ (recut \cup crossed) :
           AtRest(p) /\ feature[p].style = "ai" => aiTags[p] \cap Styles # {}
    BY DEF TagInv, StoredRight, RightTags, TagsMatchVector
  <2> QED
    BY <2>1, <2>2 DEF GuardRails
<1> QED
  BY <1>1, TagInvInit, TagInvStep, PTL DEF TagSpec

--------------------------------------------------------------------------------
(* The rows of one place *)

(***************************************************************************)
(* Every program saves what it read some steps before. RecordInv says for  *)
(* each of them how old that may be: what it holds is no newer than the    *)
(* source, and either as new as the row or it has been overtaken.          *)
(***************************************************************************)

(* The rows of one place. *)

\* A row is no newer than its source, and details have their place.
VersionsFit ==
    /\ rec.version <= source
    /\ rec.there => rec.version >= 1
    /\ info.there => rec.there

\* What the collection holds: an item, with details at least as new.
CollectFits(w) ==
    w.pc > 0 => /\ w.rec.version \in 1 .. source
                /\ w.pc = 2 /\ w.version > 0 =>
                      Mapped(Type(w.rec)) /\ w.rec.version <= w.version

\* A copy of the row; one that no save has overtaken has the row's version.
CopyFits(w) == w.pc > 0 => rec.there /\ w.rec.there /\ w.rec.version \in 1 .. source

BackfillFits(w) ==
    /\ CopyFits(w)
    /\ w.pc > 0 => Mapped(Type(w.rec))
    /\ w.pc >= 2 => w.rec.version <= w.version
    /\ w.pc > 0 /\ ~w.late /\ ~overtaken => w.rec.version = rec.version

AdminFits(w) ==
    /\ CopyFits(w)
    /\ w.pc > 0 /\ ~w.late /\ ~overtaken => w.rec.version = rec.version

\* The tagging has removed the tags, and then added the region.
AssignFits(w) ==
    /\ CopyFits(w)
    /\ w.pc > 0 /\ ~w.late =>
          /\ w.rec.version = rec.version
          /\ w.pc = 2 => tags = {}
          /\ w.pc = 3 => tags = {Content[rec.version].region}

HasFee == Mapped(Type(rec)) /\ "fee" \in FieldMap[Type(rec)]
CleanFits(w) ==
    w.pc > 0 /\ ~w.late /\ ~overtaken /\ rec.there /\ HasFee => w.info.fee >= rec.version

WorkersFit ==
    /\ CollectFits(worker["collect"]) /\ BackfillFits(worker["backfill"])
    /\ CleanFits(worker["clean"]) /\ AssignFits(worker["assign"]) /\ AdminFits(worker["admin"])

\* The images of the last save are there, the first of them as the main one.
ImagesFit ==
    /\ IsInjective(pictured)
    /\ \A image \in images : image.url \in Range(pictured) =>
           (image.main <=> image.url = pictured[1])
    /\ images # {} => pictured # <<>> /\ \E image \in images : image.url = pictured[1]

RecordInv ==
    /\ RecordTypeOK /\ VersionsFit /\ WorkersFit /\ TagsFollowRecord /\ InfoNotStale /\ ImagesFit

-----------------------------------------------------------------------------
LEMMA ContentTyped ==
    /\ Len(Content) \in Nat /\ Len(Content) >= 1
    /\ \A v \in Version : Content[v] \in Versions
BY RecordAssumption DEF Version

\* One program goes on; whatever its new state is, the others keep theirs.
LEMMA ProgramMoves ==
    ASSUME worker \in [Programs -> Worker], NEW p \in Programs, NEW w \in Worker, Goto(p, w)
    PROVE  /\ worker' \in [Programs -> Worker] /\ worker'[p] = w
           /\ \A q \in Programs \ {p} : worker'[q] = worker[q]
BY DEF Goto

\* As long as the rows and the history stay, it is enough that the program that moves
\* holds what it must; the tagging must have touched no tag before.
LEMMA RowsStay ==
    ASSUME RecordInv, RecordTypeOK', NEW p \in Programs,
           \A q \in Programs \ {p} : worker'[q] = worker[q],
           UNCHANGED <<source, rec, info, images, tags, overtaken, pictured>>,
           untagged => untagged',
           p = "collect" => CollectFits(worker'[p]), p = "backfill" => BackfillFits(worker'[p]),
           p = "clean" => CleanFits(worker'[p]), p = "assign" => AssignFits(worker'[p]),
           p = "admin" => AdminFits(worker'[p]),
           p = "assign" /\ worker'[p].pc < 2 => worker[p].pc < 2 \/ untagged'
    PROVE  RecordInv'
<1>1. VersionsFit' /\ ImagesFit' /\ InfoNotStale'
  BY DEF RecordInv, VersionsFit, ImagesFit, InfoNotStale, Type
<1>2. TagsFollowRecord'
  <2>1. Expected' = Expected
    BY DEF Expected
  <2> QED
    BY <2>1 DEF RecordInv, TagsFollowRecord, Programs
<1>3. WorkersFit'
  BY DEF RecordInv, WorkersFit, Programs, CollectFits, BackfillFits, CleanFits, AssignFits,
         AdminFits, CopyFits, HasFee, Type
<1> QED
  BY <1>1, <1>2, <1>3 DEF RecordInv

-----------------------------------------------------------------------------
\* What the helpers make has its type.
LEMMA NothingTyped == NoRec \in Rec /\ NoInfo \in Info /\ NoWorker \in Worker
<1>1. NoRec \in Rec /\ NoInfo \in Info
  BY ContentTyped DEF NoRec, Rec, NoInfo, Info
<1> HIDE DEF NoRec, NoInfo
<1> QED
  BY <1>1, ContentTyped DEF NoWorker, Worker

LEMMA BegunTyped ==
    ASSUME NEW r \in Rec, NEW i \in Info, NEW refresh \in BOOLEAN
    PROVE  /\ Begun(r, i, refresh) \in Worker
           /\ Begun(r, i, refresh).pc = 1 /\ Begun(r, i, refresh).rec = r
           /\ Begun(r, i, refresh).info = i /\ Begun(r, i, refresh).version = 0
           /\ Begun(r, i, refresh).late = FALSE
<1>1. 1 \in 0 .. 4 /\ 0 \in 0 .. Len(Content) /\ FALSE \in BOOLEAN
  BY ContentTyped
<1>2. Begun(r, i, refresh) \in Worker
  BY <1>1 DEF Begun, Worker
<1> QED
  BY <1>2 DEF Begun

LEMMA GoesOn ==
    ASSUME NEW w \in Worker, NEW v \in 0 .. Len(Content)
    PROVE  /\ Detailed(w, v) \in Worker /\ Detailed(w, v).pc = 2 /\ Detailed(w, v).version = v
           /\ Detailed(w, v).rec = w.rec /\ Detailed(w, v).info = w.info
           /\ Detailed(w, v).refresh = w.refresh /\ Detailed(w, v).late = w.late
<1>0. PICK y : y = Detailed(w, v)
  OBVIOUS
<1>1. /\ y.pc = 2 /\ y.version = v /\ y.rec = w.rec /\ y.info = w.info
      /\ y.refresh = w.refresh /\ y.late = w.late
  BY <1>0 DEF Detailed, Worker
<1>2. /\ w.rec \in Rec /\ w.info \in Info /\ w.refresh \in BOOLEAN /\ w.late \in BOOLEAN
  BY DEF Worker
<1>3. y = [pc |-> 2, rec |-> w.rec, info |-> w.info, version |-> v,
           refresh |-> w.refresh, late |-> w.late]
  BY <1>0 DEF Detailed, Worker
<1>4. y \in Worker
  BY <1>2, <1>3 DEF Worker
<1> QED
  BY <1>0, <1>1, <1>4

LEMMA NextPc ==
    ASSUME NEW w \in Worker, NEW pc \in 0 .. 4
    PROVE  LET y == [w EXCEPT !.pc = pc] IN
           /\ y \in Worker /\ y.pc = pc /\ y.version = w.version /\ y.rec = w.rec /\ y.info = w.info
           /\ y.refresh = w.refresh /\ y.late = w.late
  BY DEF Worker

LEMMA RecVersion ==
    ASSUME NEW v \in 0 .. Len(Content)
    PROVE  [NoRec EXCEPT !.version = v] \in Rec /\ [NoRec EXCEPT !.version = v].version = v
  BY DEF Rec, NoRec

LEMMA FilledTyped ==
    ASSUME NEW i \in Info, NEW ctype, NEW v \in 0 .. Len(Content)
    PROVE  /\ Filled(i, ctype, v) \in Info
           /\ Filled(i, ctype, v).there /\ Filled(i, ctype, v).parking = v
           /\ "fee" \in FieldMap[ctype] => Filled(i, ctype, v).fee = v
<1>1. i.fee \in 0 .. Len(Content)
  BY DEF Info
<1>2. (IF "fee" \in FieldMap[ctype] THEN v ELSE i.fee) \in 0 .. Len(Content)
  BY <1>1
<1> QED
  BY <1>2 DEF Filled, Info

LEMMA CleanedTyped ==
    ASSUME NEW i \in Info, NEW copy \in Info
    PROVE  /\ Cleaned(i, copy) \in Info /\ Cleaned(i, copy).there = i.there
           /\ Cleaned(i, copy).parking = i.parking /\ Cleaned(i, copy).fee = copy.fee
<1>0. PICK y : y = Cleaned(i, copy)
  OBVIOUS
<1>1. /\ i.there \in BOOLEAN /\ i.parking \in 0 .. Len(Content) /\ copy.fee \in 0 .. Len(Content)
  BY DEF Info
<1>2. y = [there |-> i.there, parking |-> i.parking, fee |-> copy.fee, raw |-> FALSE]
  BY <1>0 DEF Cleaned, Info
<1> QED
  BY <1>0, <1>1, <1>2 DEF Info

LEMMA TagsTyped ==
    ASSUME NEW r \in Rec, r.version \in Version, NEW i
    PROVE  TagsFor(r, i) \subseteq RecordTags
<1>1. Content[r.version].region \in Regions
  BY DEF Regions
<1> QED
  BY <1>1 DEF TagsFor, RecordTags

LEMMA PicsTyped ==
    ASSUME NEW v \in Version
    PROVE  /\ Content[v].pics \in Seq(Urls) /\ Content[v].pics # <<>>
           /\ IsInjective(Content[v].pics)
<1>1. Content[v].pics \in Seq(STRING)
  BY ContentTyped DEF Versions
<1>2. \A i \in 1 .. Len(Content[v].pics) : Content[v].pics[i] \in Urls
  BY <1>1 DEF Urls, Range
<1> QED
  BY <1>1, <1>2, RecordAssumption

\* A saved list of images: one row for each, and the first is the main one.
LEMMA RowsAsSaved ==
    ASSUME NEW urls \in Seq(Urls), urls # <<>>, IsInjective(urls)
    PROVE  /\ Rows(urls) \subseteq Image
           /\ \A x, y \in Rows(urls) : x.url = y.url => x = y
           /\ \A x \in Rows(urls) : x.url \in Range(urls) /\ (x.main <=> x.url = urls[1])
           /\ \E x \in Rows(urls) : x.url = urls[1]
<1>1. 1 \in DOMAIN urls /\ DOMAIN urls = 1 .. Len(urls) /\ Len(urls) \in Nat
  OBVIOUS
<1>2. ASSUME NEW x \in Rows(urls)
      PROVE  x \in Image /\ x.url \in Range(urls) /\ (x.main <=> x.url = urls[1])
  <2>1. PICK i \in DOMAIN urls : x = [url |-> urls[i], order |-> i - 1, main |-> i = 1]
    BY DEF Rows
  <2>2. x.url = urls[i] /\ x.order = i - 1 /\ x.main = (i = 1)
    BY <2>1
  <2>3. urls[i] \in Urls /\ i - 1 \in Nat /\ (i = 1) \in BOOLEAN
    BY <1>1
  <2>4. x \in Image
    BY <2>1, <2>3 DEF Image
  <2>5. urls[i] = urls[1] => i = 1
    BY <1>1 DEF IsInjective
  <2> QED
    BY <2>2, <2>4, <2>5 DEF Range
<1>3. ASSUME NEW x \in Rows(urls), NEW y \in Rows(urls), x.url = y.url
      PROVE  x = y
  <2>1. PICK i \in DOMAIN urls : x = [url |-> urls[i], order |-> i - 1, main |-> i = 1]
    BY DEF Rows
  <2>2. PICK j \in DOMAIN urls : y = [url |-> urls[j], order |-> j - 1, main |-> j = 1]
    BY DEF Rows
  <2>3. urls[i] = urls[j]
    BY <1>3, <2>1, <2>2
  <2>4. i = j
    BY <2>3 DEF IsInjective
  <2> QED
    BY <2>1, <2>2, <2>4
<1>4. \E x \in Rows(urls) : x.url = urls[1]
  <2>1. [url |-> urls[1], order |-> 1 - 1, main |-> 1 = 1] \in Rows(urls)
    BY <1>1 DEF Rows
  <2> QED
    BY <2>1
<1> QED
  BY <1>2, <1>3, <1>4

\* What a program's step on its own keeps.
LEMMA InvParts ==
    ASSUME RecordInv
    PROVE  /\ source \in Version /\ rec \in Rec /\ info \in Info
           /\ worker \in [Programs -> Worker] /\ \A p \in Programs : worker[p] \in Worker
           /\ source \in 1 .. Len(Content) /\ Len(Content) \in Nat
           /\ rec.version \in 0 .. Len(Content) /\ rec.version <= source
           /\ NoWorker \in Worker
BY ContentTyped, NothingTyped DEF RecordInv, RecordTypeOK, VersionsFit, Version, Rec

\* A program that stops holds nothing.
LEMMA StoppedFits ==
    /\ CollectFits(NoWorker) /\ BackfillFits(NoWorker) /\ CleanFits(NoWorker)
    /\ AssignFits(NoWorker) /\ AdminFits(NoWorker)
BY DEF NoWorker, CollectFits, BackfillFits, CleanFits, AssignFits, AdminFits, CopyFits

-----------------------------------------------------------------------------
LEMMA RecordInvInit == RecordInit => RecordInv
<1> SUFFICES ASSUME RecordInit PROVE RecordInv
  OBVIOUS
<1> USE ContentTyped, RecordAssumption
<1>1. 1 \in Version /\ NoWorker \in Worker /\ NoRec \in Rec /\ NoInfo \in Info
  BY NothingTyped DEF Version
<1>2. worker = [p \in Programs |-> NoWorker]
  BY DEF RecordInit
<1>3. WorkersFit
  BY <1>2, StoppedFits DEF WorkersFit, Programs
<1>4. /\ source \in Version /\ worker \in [Programs -> Worker] /\ faults \in 0..MaxRecordFaults
      /\ untagged \in BOOLEAN /\ overtaken \in BOOLEAN
  <2>1. 0 \in 0 .. MaxRecordFaults /\ FALSE \in BOOLEAN
    OBVIOUS
  <2>2. worker \in [Programs -> Worker]
    BY <1>1, <1>2
  <2> QED
    BY <1>1, <2>1, <2>2 DEF RecordInit
<1>5. CASE rec = NoRec /\ info = NoInfo /\ images = {} /\ tags = {} /\ pictured = <<>>
  <2>1. RecordTypeOK
    BY <1>1, <1>4, <1>5 DEF RecordTypeOK
  <2>2. VersionsFit /\ TagsFollowRecord /\ InfoNotStale
    BY <1>5 DEF RecordInit, VersionsFit, TagsFollowRecord, InfoNotStale, NoRec, NoInfo
  <2>3. ImagesFit
    BY <1>5 DEF ImagesFit, IsInjective
  <2> QED
    BY <1>3, <2>1, <2>2, <2>3 DEF RecordInv
<1>6. CASE /\ rec = [there |-> TRUE, version |-> 1, tel |-> FALSE]
           /\ info \in {NoInfo, Legacy}
           /\ images = Rows(Content[1].pics) /\ pictured = Content[1].pics
           /\ tags = TagsFor(rec, info)
  <2>1. rec \in Rec /\ rec.version = 1 /\ rec.there
    BY <1>1, <1>6 DEF Rec, Version
  <2>2. info \in Info
    <3>1. (IF "fee" \in FieldMap[Content[1].ctype] THEN 1 ELSE 0) \in 0 .. Len(Content)
      BY DEF Version
    <3>2. Legacy \in Info
      BY <3>1 DEF Legacy, Info
    <3> QED
      BY <1>1, <1>6, <3>2
  <2>3. tags \subseteq RecordTags
    BY <1>1, <1>6, <2>1, TagsTyped
  <2>4. pictured \in Seq(Urls) /\ pictured # <<>> /\ IsInjective(pictured)
    BY <1>1, <1>6, PicsTyped
  <2>5. /\ images \subseteq Image /\ \A x, y \in images : x.url = y.url => x = y
        /\ ImagesFit
    BY <1>6, <2>4, RowsAsSaved DEF ImagesFit
  <2>6. RecordTypeOK
    BY <1>4, <2>1, <2>2, <2>3, <2>4, <2>5 DEF RecordTypeOK
  <2>7. VersionsFit /\ TagsFollowRecord
    BY <1>6, <2>1 DEF RecordInit, VersionsFit, TagsFollowRecord, Expected, TagsFor
  <2>8. InfoNotStale
    BY <1>6, <2>1 DEF InfoNotStale, NoInfo, Legacy, Type
  <2> QED
    BY <1>3, <2>5, <2>6, <2>7, <2>8 DEF RecordInv
<1> QED
  BY <1>5, <1>6 DEF RecordInit

LEMMA RecordSourceChanges ==
    ASSUME RecordInv, SourceChanges
    PROVE  RecordInv'
<1> USE ContentTyped DEF SourceChanges
<1>1. RecordTypeOK'
  BY DEF RecordInv, RecordTypeOK, Version
<1>2. VersionsFit' /\ InfoNotStale' /\ TagsFollowRecord'
  BY DEF RecordInv, RecordTypeOK, Version, Rec, VersionsFit, InfoNotStale,
         TagsFollowRecord, Expected, Type
<1>3. WorkersFit'
  BY DEF RecordInv, RecordTypeOK, Version, WorkersFit, CollectFits, BackfillFits, CleanFits,
         AssignFits, AdminFits, CopyFits, HasFee, Type
<1>4. ImagesFit'
  BY DEF RecordInv, ImagesFit
<1> QED
  BY <1>1, <1>2, <1>3, <1>4 DEF RecordInv

LEMMA RecordListItem ==
    ASSUME RecordInv, ListItem
    PROVE  RecordInv'
<1> DEFINE w == Begun([NoRec EXCEPT !.version = source], NoInfo, FALSE)
<1>1. /\ worker \in [Programs -> Worker] /\ "collect" \in Programs /\ worker["collect"] \in Worker
      /\ source \in 1 .. Len(Content) /\ rec \in Rec /\ info \in Info /\ Len(Content) \in Nat
  BY InvParts DEF Programs
<1>2. /\ [NoRec EXCEPT !.version = source] \in Rec
      /\ [NoRec EXCEPT !.version = source].version = source
  BY <1>1, RecVersion
<1>3. w \in Worker /\ w.pc = 1 /\ w.rec.version = source
  BY <1>2, NothingTyped, BegunTyped
<1>4. Goto("collect", w)
  BY DEF ListItem
<1> HIDE DEF w
<1>5. /\ worker' \in [Programs -> Worker] /\ worker'["collect"] = w
      /\ \A q \in Programs \ {"collect"} : worker'[q] = worker[q]
  BY <1>1, <1>3, <1>4, ProgramMoves
<1>6. RecordTypeOK'
  BY <1>5 DEF ListItem, Fault, RecordInv, RecordTypeOK
<1>7. CollectFits(worker'["collect"])
  BY <1>1, <1>2, <1>3, <1>5 DEF CollectFits
<1> QED
  BY <1>1, <1>5, <1>6, <1>7, RowsStay DEF ListItem

LEMMA RecordFetchDetails ==
    ASSUME RecordInv, FetchDetails
    PROVE  RecordInv'
<1>1. PICK empty \in BOOLEAN :
         /\ IF empty THEN Fault ELSE UNCHANGED faults
         /\ Goto("collect", Detailed(worker["collect"],
                IF empty \/ ~Mapped(Type(worker["collect"].rec)) THEN 0 ELSE source))
  BY DEF FetchDetails
<1> DEFINE v == IF empty \/ ~Mapped(Type(worker["collect"].rec)) THEN 0 ELSE source
<1> HIDE DEF v
<1> DEFINE w == Detailed(worker["collect"], v)
<1>2. /\ worker \in [Programs -> Worker] /\ "collect" \in Programs /\ worker["collect"] \in Worker
      /\ source \in 1 .. Len(Content) /\ rec \in Rec /\ info \in Info /\ Len(Content) \in Nat
  BY InvParts DEF Programs
<1>3. v \in 0 .. Len(Content)
  BY <1>2 DEF v
<1>4. Goto("collect", w)
  BY <1>1 DEF v
<1>5. w = Detailed(worker["collect"], v)
  OBVIOUS
<1> HIDE DEF w
<1>6. w \in Worker /\ w.pc = 2 /\ w.rec = worker["collect"].rec /\ w.version = v
  BY <1>2, <1>5, <1>3, GoesOn
<1>7. /\ worker' \in [Programs -> Worker] /\ worker'["collect"] = w
      /\ \A q \in Programs \ {"collect"} : worker'[q] = worker[q]
  BY <1>2, <1>6, <1>4, ProgramMoves
<1>8. RecordTypeOK'
  <2>1. faults' \in 0 .. MaxRecordFaults
    BY <1>1, RecordAssumption DEF Fault, RecordInv, RecordTypeOK
  <2> QED
    BY <1>7, <2>1 DEF FetchDetails, RecordInv, RecordTypeOK
<1>9. CollectFits(worker'["collect"])
  <2>1. worker["collect"].rec.version \in 1 .. source
    BY DEF FetchDetails, At, RecordInv, WorkersFit, CollectFits
  <2> QED
    BY <1>2, <1>3, <1>6, <1>7, <2>1 DEF CollectFits, v
<1> QED
  BY <1>2, <1>7, <1>8, <1>9, RowsStay DEF FetchDetails

LEMMA RecordStartBackfill ==
    ASSUME RecordInv, NEW refresh \in BOOLEAN, StartBackfill(refresh)
    PROVE  RecordInv'
<1> DEFINE w == Begun(rec, info, refresh)
<1>1. /\ worker \in [Programs -> Worker] /\ "backfill" \in Programs /\ worker["backfill"] \in Worker
      /\ source \in 1 .. Len(Content) /\ rec \in Rec /\ info \in Info /\ Len(Content) \in Nat
  BY InvParts DEF Programs
<1>2. Goto("backfill", w)
  BY DEF StartBackfill
<1>3. w = Begun(rec, info, refresh)
  OBVIOUS
<1> HIDE DEF w
<1>4. /\ w \in Worker /\ w.pc = 1 /\ w.rec = rec /\ w.info = info
      /\ w.version = 0 /\ w.late = FALSE
  <2>1. rec \in Rec /\ info \in Info
    BY <1>1
  <2>2. /\ Begun(rec, info, refresh) \in Worker
        /\ Begun(rec, info, refresh).pc = 1 /\ Begun(rec, info, refresh).rec = rec
        /\ Begun(rec, info, refresh).info = info /\ Begun(rec, info, refresh).version = 0
        /\ Begun(rec, info, refresh).late = FALSE
    BY <2>1, BegunTyped
  <2> QED
    BY <1>3, <2>2
<1>5. /\ worker' \in [Programs -> Worker] /\ worker'["backfill"] = w
      /\ \A q \in Programs \ {"backfill"} : worker'[q] = worker[q]
  BY <1>1, <1>4, <1>2, ProgramMoves
<1>6. RecordTypeOK'
  BY <1>5 DEF StartBackfill, Fault, RecordInv, RecordTypeOK
<1>7. BackfillFits(worker'["backfill"])
  <2>1. rec.there /\ Mapped(Type(rec)) /\ rec.version \in 1 .. source
    BY <1>1 DEF StartBackfill, Target, RecordInv, VersionsFit, Rec
  <2> QED
    BY <1>4, <1>5, <2>1 DEF BackfillFits, CopyFits, StartBackfill, Type
<1> QED
  BY <1>1, <1>5, <1>6, <1>7, RowsStay DEF StartBackfill

LEMMA RecordFetchIntro ==
    ASSUME RecordInv, FetchIntro
    PROVE  RecordInv'
<1> DEFINE w == Detailed(worker["backfill"], source)
<1>1. /\ worker \in [Programs -> Worker] /\ "backfill" \in Programs /\ worker["backfill"] \in Worker
      /\ source \in 1 .. Len(Content) /\ rec \in Rec /\ info \in Info /\ Len(Content) \in Nat
  BY InvParts DEF Programs
<1>2. Goto("backfill", w)
  BY DEF FetchIntro
<1>3. w = Detailed(worker["backfill"], source)
  OBVIOUS
<1> HIDE DEF w
<1>4. /\ w \in Worker /\ w.pc = 2 /\ w.version = source
      /\ w.rec = worker["backfill"].rec /\ w.late = worker["backfill"].late
  <2>1. source \in 0 .. Len(Content)
    BY <1>1
  <2> QED
    BY <1>1, <1>3, <2>1, GoesOn
<1>5. /\ worker' \in [Programs -> Worker] /\ worker'["backfill"] = w
      /\ \A q \in Programs \ {"backfill"} : worker'[q] = worker[q]
  BY <1>1, <1>4, <1>2, ProgramMoves
<1>6. RecordTypeOK'
  BY <1>5 DEF FetchIntro, Fault, RecordInv, RecordTypeOK
<1>7. BackfillFits(worker'["backfill"])
  <2>1. BackfillFits(worker["backfill"]) /\ worker["backfill"].pc = 1
    BY DEF FetchIntro, At, RecordInv, WorkersFit
  <2> QED
    BY <1>1, <1>4, <1>5, <2>1 DEF BackfillFits, CopyFits, FetchIntro, Type
<1> QED
  BY <1>1, <1>5, <1>6, <1>7, RowsStay DEF FetchIntro

LEMMA RecordCollectDirty ==
    ASSUME RecordInv, CollectDirty
    PROVE  RecordInv'
<1> DEFINE w == Begun(NoRec, info, FALSE)
<1>1. /\ worker \in [Programs -> Worker] /\ "clean" \in Programs /\ worker["clean"] \in Worker
      /\ source \in 1 .. Len(Content) /\ rec \in Rec /\ info \in Info /\ Len(Content) \in Nat
  BY InvParts DEF Programs
<1>3. /\ w \in Worker /\ w.pc = 1 /\ w.rec = NoRec /\ w.info = info
      /\ w.version = 0 /\ w.late = FALSE
  BY <1>1, NothingTyped, BegunTyped
<1>4. Goto("clean", w)
  BY DEF CollectDirty
<1> HIDE DEF w
<1>5. /\ worker' \in [Programs -> Worker] /\ worker'["clean"] = w
      /\ \A q \in Programs \ {"clean"} : worker'[q] = worker[q]
  BY <1>1, <1>3, <1>4, ProgramMoves
<1>6. RecordTypeOK'
  BY <1>5 DEF CollectDirty, Fault, RecordInv, RecordTypeOK
<1>7. CleanFits(worker'["clean"])
  BY <1>3, <1>5 DEF CleanFits, HasFee, CollectDirty, RecordInv, InfoNotStale, Type
<1> QED
  BY <1>1, <1>5, <1>6, <1>7, RowsStay DEF CollectDirty

LEMMA RecordReadPlaces ==
    ASSUME RecordInv, ReadPlaces
    PROVE  RecordInv'
<1> DEFINE w == Begun(rec, info, FALSE)
<1>1. /\ worker \in [Programs -> Worker] /\ "assign" \in Programs /\ worker["assign"] \in Worker
      /\ source \in 1 .. Len(Content) /\ rec \in Rec /\ info \in Info /\ Len(Content) \in Nat
  BY InvParts DEF Programs
<1>3. /\ w \in Worker /\ w.pc = 1 /\ w.rec = rec /\ w.info = info
      /\ w.version = 0 /\ w.late = FALSE
  BY <1>1, BegunTyped
<1>4. Goto("assign", w)
  BY DEF ReadPlaces
<1> HIDE DEF w
<1>5. /\ worker' \in [Programs -> Worker] /\ worker'["assign"] = w
      /\ \A q \in Programs \ {"assign"} : worker'[q] = worker[q]
  BY <1>1, <1>3, <1>4, ProgramMoves
<1>6. RecordTypeOK'
  BY <1>5 DEF ReadPlaces, Fault, RecordInv, RecordTypeOK
<1>7. AssignFits(worker'["assign"])
  <2>1. rec.there /\ rec.version \in 1 .. source
    BY <1>1 DEF ReadPlaces, RecordInv, VersionsFit, Rec
  <2> QED
    BY <1>3, <1>5, <2>1 DEF AssignFits, CopyFits, ReadPlaces
<1> QED
  BY <1>1, <1>5, <1>6, <1>7, RowsStay DEF ReadPlaces, At, Start

LEMMA RecordAdminLoad ==
    ASSUME RecordInv, AdminLoad
    PROVE  RecordInv'
<1> DEFINE w == Begun(rec, NoInfo, FALSE)
<1>1. /\ worker \in [Programs -> Worker] /\ "admin" \in Programs /\ worker["admin"] \in Worker
      /\ source \in 1 .. Len(Content) /\ rec \in Rec /\ info \in Info /\ Len(Content) \in Nat
  BY InvParts DEF Programs
<1>3. /\ w \in Worker /\ w.pc = 1 /\ w.rec = rec /\ w.info = NoInfo
      /\ w.version = 0 /\ w.late = FALSE
  BY <1>1, NothingTyped, BegunTyped
<1>4. Goto("admin", w)
  BY DEF AdminLoad
<1> HIDE DEF w
<1>5. /\ worker' \in [Programs -> Worker] /\ worker'["admin"] = w
      /\ \A q \in Programs \ {"admin"} : worker'[q] = worker[q]
  BY <1>1, <1>3, <1>4, ProgramMoves
<1>6. RecordTypeOK'
  <2>1. faults' \in 0 .. MaxRecordFaults
    BY RecordAssumption DEF AdminLoad, Fault, RecordInv, RecordTypeOK
  <2> QED
    BY <1>5, <2>1 DEF AdminLoad, RecordInv, RecordTypeOK
<1>7. AdminFits(worker'["admin"])
  <2>1. rec.there /\ rec.version \in 1 .. source
    BY <1>1 DEF AdminLoad, RecordInv, VersionsFit, Rec
  <2> QED
    BY <1>3, <1>5, <2>1 DEF AdminFits, CopyFits, AdminLoad
<1> QED
  BY <1>1, <1>5, <1>6, <1>7, RowsStay DEF AdminLoad

LEMMA RecordNoIntro ==
    ASSUME RecordInv, NoIntro
    PROVE  RecordInv'
<1>1. worker \in [Programs -> Worker] /\ "backfill" \in Programs /\ NoWorker \in Worker
  BY InvParts DEF Programs
<1>2. /\ worker' \in [Programs -> Worker] /\ worker'["backfill"] = NoWorker
      /\ \A q \in Programs \ {"backfill"} : worker'[q] = worker[q]
  BY <1>1, ProgramMoves DEF NoIntro
<1>3. RecordTypeOK'
  <2>1. faults' \in 0 .. MaxRecordFaults
    BY RecordAssumption DEF NoIntro, Fault, RecordInv, RecordTypeOK
  <2> QED
    BY <1>2, <2>1 DEF NoIntro, RecordInv, RecordTypeOK
<1>4. BackfillFits(worker'["backfill"])
  BY <1>2 DEF BackfillFits, CopyFits, NoWorker
<1> QED
  BY <1>1, <1>2, <1>3, <1>4, RowsStay DEF NoIntro

LEMMA RecordCrash ==
    ASSUME RecordInv, NEW p \in Programs, Crash(p)
    PROVE  RecordInv'
<1>1. worker \in [Programs -> Worker] /\ NoWorker \in Worker
  BY InvParts
<1>2. /\ worker' \in [Programs -> Worker] /\ worker'[p] = NoWorker
      /\ \A q \in Programs \ {p} : worker'[q] = worker[q]
  BY <1>1, ProgramMoves DEF Crash
<1>3. untagged \in BOOLEAN /\ untagged' \in BOOLEAN
  BY DEF Crash, RecordInv, RecordTypeOK
<1>4. RecordTypeOK'
  <2>1. faults' \in 0 .. MaxRecordFaults
    BY RecordAssumption DEF Crash, Fault, RecordInv, RecordTypeOK
  <2> QED
    BY <1>2, <1>3, <2>1 DEF Crash, RecordInv, RecordTypeOK
<1>5. /\ CollectFits(worker'[p]) /\ BackfillFits(worker'[p]) /\ CleanFits(worker'[p])
      /\ AssignFits(worker'[p]) /\ AdminFits(worker'[p])
  BY <1>2 DEF NoWorker, CollectFits, BackfillFits, CleanFits, AssignFits, AdminFits, CopyFits
<1>6. /\ untagged => untagged'
      /\ p = "assign" /\ worker'[p].pc < 2 => worker[p].pc < 2 \/ untagged'
  <2>1. CASE p = "assign" /\ worker[p].pc > 1
    BY <2>1 DEF Crash
  <2>2. CASE p = "assign" /\ ~(worker[p].pc > 1)
    <3>1. worker[p].pc \in Nat
      BY <1>1 DEF Worker
    <3>2. worker[p].pc < 2
      BY <2>2, <3>1
    <3>3. untagged => untagged'
      BY DEF Crash
    <3> QED
      BY <3>2, <3>3
  <2>3. CASE p # "assign"
    BY <2>3 DEF Crash
  <2> QED
    BY <2>1, <2>2, <2>3
<1> QED
  BY <1>2, <1>4, <1>5, <1>6, RowsStay DEF Crash

\* The other programs keep what they hold while the row's version, the source and the tags
\* stay.
LEMMA MoveKeepsFits ==
    ASSUME RecordInv, NEW p \in Programs, p # "assign",
           \A q \in Programs \ {p} : worker'[q] = worker[q],
           rec'.version = rec.version, rec'.there = rec.there, UNCHANGED <<source, tags>>,
           overtaken => overtaken',
           p = "collect" => CollectFits(worker[p])', p = "backfill" => BackfillFits(worker[p])',
           p = "clean" => CleanFits(worker[p])', p = "admin" => AdminFits(worker[p])'
    PROVE  WorkersFit'
<1>1. CollectFits(worker["collect"])'
  BY DEF RecordInv, WorkersFit, Programs, CollectFits, Type
<1>2. BackfillFits(worker["backfill"])'
  BY DEF RecordInv, WorkersFit, Programs, BackfillFits, CopyFits, Type
<1>3. CleanFits(worker["clean"])'
  BY DEF RecordInv, WorkersFit, Programs, CleanFits, HasFee, Type
<1>4. AssignFits(worker["assign"])'
  BY DEF RecordInv, WorkersFit, Programs, AssignFits, CopyFits
<1>5. AdminFits(worker["admin"])'
  BY DEF RecordInv, WorkersFit, Programs, AdminFits, CopyFits
<1> QED
  BY <1>1, <1>2, <1>3, <1>4, <1>5 DEF WorkersFit

LEMMA RecordUpdateTel ==
    ASSUME RecordInv, UpdateTel
    PROVE  RecordInv'
<1> DEFINE w == [worker["backfill"] EXCEPT !.pc = 3]
<1>1. /\ worker \in [Programs -> Worker] /\ "backfill" \in Programs /\ worker["backfill"] \in Worker
      /\ rec \in Rec
  BY InvParts DEF Programs
<1>2. /\ w \in Worker /\ w.pc = 3 /\ w.version = worker["backfill"].version
      /\ w.rec = worker["backfill"].rec /\ w.late = worker["backfill"].late
  BY <1>1 DEF Worker
<1>3. Goto("backfill", w)
  BY DEF UpdateTel
<1> HIDE DEF w
<1>4. /\ worker' \in [Programs -> Worker] /\ worker'["backfill"] = w
      /\ \A q \in Programs \ {"backfill"} : worker'[q] = worker[q]
  BY <1>1, <1>2, <1>3, ProgramMoves
<1>5. rec'.version = rec.version /\ rec'.there = rec.there /\ rec' \in Rec
  <2>1. Content[worker["backfill"].version].phone \in BOOLEAN
    <3>1. worker["backfill"].version \in 0 .. Len(Content)
      BY <1>1 DEF Worker
    <3>2. worker["backfill"].version >= 1
      BY <1>1, <3>1, ContentTyped DEF UpdateTel, At, RecordInv, WorkersFit, BackfillFits, CopyFits,
             Worker, Rec
    <3> QED
      BY <3>1, <3>2, ContentTyped DEF Version, Versions
  <2> DEFINE tel == rec.tel \/ Content[worker["backfill"].version].phone
  <2>2. tel \in BOOLEAN
    OBVIOUS
  <2>3. rec' = [rec EXCEPT !.tel = tel]
    BY DEF UpdateTel
  <2> HIDE DEF tel
  <2> QED
    BY <1>1, <2>2, <2>3 DEF Rec
<1>6. RecordTypeOK'
  BY <1>4, <1>5 DEF UpdateTel, RecordInv, RecordTypeOK
<1>7. VersionsFit' /\ InfoNotStale' /\ ImagesFit'
  BY <1>5 DEF UpdateTel, RecordInv, VersionsFit, InfoNotStale, ImagesFit, Type
<1>8. TagsFollowRecord'
  BY <1>4, <1>5 DEF UpdateTel, RecordInv, TagsFollowRecord, Expected, Programs
<1>9. WorkersFit'
  BY <1>2, <1>4, <1>5 DEF UpdateTel, At, RecordInv, WorkersFit, Programs, CollectFits, BackfillFits,
         CleanFits, AssignFits, AdminFits, CopyFits, HasFee, Type
<1> QED
  BY <1>6, <1>7, <1>8, <1>9 DEF RecordInv

LEMMA RecordBackfillInfo ==
    ASSUME RecordInv, BackfillInfo
    PROVE  RecordInv'
<1> DEFINE w == worker["backfill"]
           new == Filled(info, Type(w.rec), w.version)
<1>1. /\ worker \in [Programs -> Worker] /\ "backfill" \in Programs /\ w \in Worker
      /\ info \in Info /\ NoWorker \in Worker /\ w.version \in 0 .. Len(Content)
  BY InvParts DEF Programs, Worker
<1>2. /\ worker' \in [Programs -> Worker] /\ worker'["backfill"] = NoWorker
      /\ \A q \in Programs \ {"backfill"} : worker'[q] = worker[q]
  BY <1>1, ProgramMoves DEF BackfillInfo
<1>3. /\ new \in Info /\ new.there /\ new.parking = w.version
      /\ "fee" \in FieldMap[Type(w.rec)] => new.fee = w.version
  BY <1>1, FilledTyped
<1>4. /\ w.pc = 3 /\ rec.there /\ w.rec.version <= w.version /\ w.rec.version \in Nat
      /\ ~w.late /\ ~overtaken => w.rec.version = rec.version
  BY DEF BackfillInfo, At, RecordInv, WorkersFit, BackfillFits, CopyFits
<1>5. UNCHANGED <<source, rec, images, tags, faults, pictured>>
  BY DEF BackfillInfo
<1>6. CASE UNCHANGED <<info, untagged, overtaken>>
  <2>1. RecordTypeOK'
    BY <1>2, <1>5, <1>6 DEF RecordInv, RecordTypeOK
  <2>2. BackfillFits(worker'["backfill"])
    BY <1>2, StoppedFits DEF BackfillFits, CopyFits, NoWorker
  <2> QED
    BY <1>1, <1>2, <1>5, <1>6, <2>1, <2>2, RowsStay
<1>7. CASE /\ info' = new
           /\ untagged' = (untagged \/ TagsFor(rec, new) # TagsFor(rec, info))
           /\ overtaken' = (overtaken \/ w.late)
  <2> HIDE DEF new
  <2>1. untagged' \in BOOLEAN /\ overtaken' \in BOOLEAN
    BY <1>7
  <2>2. RecordTypeOK'
    BY <1>2, <1>3, <1>5, <1>7, <2>1 DEF RecordInv, RecordTypeOK
  <2>3. VersionsFit' /\ ImagesFit'
    BY <1>4, <1>5 DEF RecordInv, VersionsFit, ImagesFit
  <2>4. TagsFollowRecord'
    <3>1. SUFFICES ASSUME rec.there, ~untagged', worker["assign"].pc < 2
                   PROVE  tags = Expected'
      BY <1>2, <1>5 DEF TagsFollowRecord, Programs
    <3>2. TagsFor(rec, new) = TagsFor(rec, info) /\ ~untagged
      BY <1>7, <3>1
    <3>3. Expected = TagsFor(rec, info) /\ Expected' = TagsFor(rec, new)
      BY <1>5, <1>7 DEF Expected, TagsFor
    <3> QED
      BY <3>1, <3>2, <3>3 DEF RecordInv, TagsFollowRecord
  <2>5. InfoNotStale'
    <3>1. SUFFICES ASSUME ~overtaken', Mapped(Type(rec))
                   PROVE  /\ new.parking >= rec.version
                          /\ "fee" \in FieldMap[Type(rec)] => new.fee >= rec.version
      BY <1>5, <1>7 DEF InfoNotStale, Type
    <3>2. w.rec.version = rec.version
      BY <1>4, <1>7, <3>1
    <3> QED
      BY <1>1, <1>3, <1>4, <3>2 DEF Type
  <2>6. WorkersFit'
    <3>1. overtaken => overtaken'
      BY <1>7
    <3> QED
      BY <1>2, <1>5, <3>1, MoveKeepsFits DEF BackfillFits, CopyFits, NoWorker, Programs
  <2> QED
    BY <2>2, <2>3, <2>4, <2>5, <2>6 DEF RecordInv
<1> QED
  BY <1>6, <1>7 DEF BackfillInfo

LEMMA RecordBulkUpdate ==
    ASSUME RecordInv, BulkUpdate
    PROVE  RecordInv'
<1> DEFINE w == worker["clean"]
           new == Cleaned(info, w.info)
<1>1. /\ worker \in [Programs -> Worker] /\ "clean" \in Programs /\ w \in Worker
      /\ info \in Info /\ NoWorker \in Worker /\ w.info \in Info
  BY InvParts DEF Programs, Worker
<1>2. /\ worker' \in [Programs -> Worker] /\ worker'["clean"] = NoWorker
      /\ \A q \in Programs \ {"clean"} : worker'[q] = worker[q]
  BY <1>1, ProgramMoves DEF BulkUpdate
<1>3. /\ info' = new /\ untagged' = (untagged \/ TagsFor(rec, new) # TagsFor(rec, info))
      /\ overtaken' = (overtaken \/ w.late) /\ w.pc = 1
      /\ UNCHANGED <<source, rec, images, tags, faults, pictured>>
  BY DEF BulkUpdate, At
<1>4. /\ new \in Info /\ new.there = info.there /\ new.parking = info.parking
      /\ new.fee = w.info.fee
  BY <1>1, CleanedTyped
<1> HIDE DEF new
<1>5. RecordTypeOK'
  <2>1. untagged' \in BOOLEAN /\ overtaken' \in BOOLEAN
    BY <1>3
  <2> QED
    BY <1>2, <1>3, <1>4, <2>1 DEF RecordInv, RecordTypeOK
<1>6. VersionsFit' /\ ImagesFit'
  BY <1>3, <1>4 DEF RecordInv, VersionsFit, ImagesFit
<1>7. TagsFollowRecord'
  <2>1. SUFFICES ASSUME rec.there, ~untagged', worker["assign"].pc < 2
                 PROVE  tags = Expected'
    BY <1>2, <1>3 DEF TagsFollowRecord, Programs
  <2>2. TagsFor(rec, new) = TagsFor(rec, info) /\ ~untagged
    BY <1>3, <2>1
  <2>3. Expected = TagsFor(rec, info) /\ Expected' = TagsFor(rec, new)
    BY <1>3 DEF Expected, TagsFor
  <2> QED
    BY <2>1, <2>2, <2>3 DEF RecordInv, TagsFollowRecord
<1>8. InfoNotStale'
  <2>1. CleanFits(w)
    BY DEF RecordInv, WorkersFit
  <2>2. SUFFICES ASSUME rec.there, info.there, ~overtaken', Mapped(Type(rec))
                 PROVE  /\ info.parking >= rec.version
                        /\ "fee" \in FieldMap[Type(rec)] => w.info.fee >= rec.version
    BY <1>3, <1>4 DEF InfoNotStale, Type
  <2>3. ~overtaken /\ ~w.late
    BY <1>3, <2>2
  <2> QED
    BY <1>3, <2>1, <2>2, <2>3 DEF RecordInv, InfoNotStale, CleanFits, HasFee
<1>9. WorkersFit'
  <2>1. overtaken => overtaken'
    BY <1>3
  <2> QED
    BY <1>2, <1>3, <2>1, MoveKeepsFits DEF CleanFits, NoWorker, Programs
<1> QED
  BY <1>5, <1>6, <1>7, <1>8, <1>9 DEF RecordInv

\* The tagging moves on; it holds the row as before.
LEMMA TaggingMoves ==
    ASSUME RecordInv, NEW w \in Worker, Goto("assign", w), AssignFits(worker["assign"])',
           UNCHANGED <<source, rec, info, images, faults, overtaken, pictured>>,
           tags' \subseteq RecordTags, untagged' \in BOOLEAN, TagsFollowRecord'
    PROVE  RecordInv'
<1>1. worker \in [Programs -> Worker] /\ "assign" \in Programs
  BY InvParts DEF Programs
<1>2. /\ worker' \in [Programs -> Worker] /\ worker'["assign"] = w
      /\ \A q \in Programs \ {"assign"} : worker'[q] = worker[q]
  BY <1>1, ProgramMoves
<1>3. RecordTypeOK'
  BY <1>2 DEF RecordInv, RecordTypeOK
<1>4. VersionsFit' /\ InfoNotStale' /\ ImagesFit'
  BY DEF RecordInv, VersionsFit, InfoNotStale, ImagesFit, Type
<1>5. WorkersFit'
  <2>1. CollectFits(worker["collect"])'
    BY <1>2 DEF RecordInv, WorkersFit, Programs, CollectFits, Type
  <2>2. BackfillFits(worker["backfill"])'
    BY <1>2 DEF RecordInv, WorkersFit, Programs, BackfillFits, CopyFits, Type
  <2>3. CleanFits(worker["clean"])'
    BY <1>2 DEF RecordInv, WorkersFit, Programs, CleanFits, HasFee, Type
  <2>4. AdminFits(worker["admin"])'
    BY <1>2 DEF RecordInv, WorkersFit, Programs, AdminFits, CopyFits
  <2> QED
    BY <2>1, <2>2, <2>3, <2>4 DEF WorkersFit
<1> QED
  BY <1>3, <1>4, <1>5 DEF RecordInv

LEMMA RecordRemoveTags ==
    ASSUME RecordInv, RemoveTags
    PROVE  RecordInv'
<1> DEFINE w == [worker["assign"] EXCEPT !.pc = 2]
<1>1. worker["assign"] \in Worker /\ worker \in [Programs -> Worker] /\ "assign" \in Programs
  BY InvParts DEF Programs
<1>2. w \in Worker /\ w.pc = 2 /\ w.rec = worker["assign"].rec /\ w.late = worker["assign"].late
  BY <1>1 DEF Worker
<1>3. Goto("assign", w)
  BY DEF RemoveTags
<1> HIDE DEF w
<1>4. worker'["assign"] = w
  BY <1>1, <1>2, <1>3, ProgramMoves
<1>5. AssignFits(worker["assign"]) /\ worker["assign"].pc = 1
  BY DEF RemoveTags, At, RecordInv, WorkersFit
<1>6. AssignFits(worker["assign"])'
  BY <1>2, <1>4, <1>5 DEF AssignFits, CopyFits, RemoveTags
<1>7. TagsFollowRecord'
  BY <1>2, <1>4 DEF TagsFollowRecord
<1> QED
  BY <1>2, <1>3, <1>6, <1>7, TaggingMoves DEF RemoveTags, RecordInv, RecordTypeOK

LEMMA RecordAddRegion ==
    ASSUME RecordInv, AddRegion
    PROVE  RecordInv'
<1> DEFINE w == [worker["assign"] EXCEPT !.pc = 3]
<1>1. worker["assign"] \in Worker /\ worker \in [Programs -> Worker] /\ "assign" \in Programs
  BY InvParts DEF Programs
<1>2. w \in Worker /\ w.pc = 3 /\ w.rec = worker["assign"].rec /\ w.late = worker["assign"].late
  BY <1>1 DEF Worker
<1>3. Goto("assign", w)
  BY DEF AddRegion
<1> HIDE DEF w
<1>4. worker'["assign"] = w
  BY <1>1, <1>2, <1>3, ProgramMoves
<1>5. AssignFits(worker["assign"]) /\ worker["assign"].pc = 2
  BY DEF AddRegion, At, RecordInv, WorkersFit
<1>6. AssignFits(worker["assign"])'
  BY <1>2, <1>4, <1>5 DEF AssignFits, CopyFits, AddRegion
<1>7. TagsFollowRecord'
  BY <1>2, <1>4 DEF TagsFollowRecord
<1>8. tags' \subseteq RecordTags
  <2>1. worker["assign"].rec.version \in Version
    BY <1>5, InvParts DEF AssignFits, CopyFits, Version
  <2> QED
    BY <2>1 DEF AddRegion, RecordInv, RecordTypeOK, RecordTags, Regions
<1> QED
  BY <1>2, <1>3, <1>6, <1>7, <1>8, TaggingMoves DEF AddRegion, RecordInv, RecordTypeOK

LEMMA RecordAddFacilities ==
    ASSUME RecordInv, AddFacilities
    PROVE  RecordInv'
<1> DEFINE w == worker["assign"]
           r == w.rec.version
<1>1. /\ worker["assign"] \in Worker /\ worker \in [Programs -> Worker] /\ "assign" \in Programs
      /\ NoWorker \in Worker /\ w.rec \in Rec
  BY InvParts DEF Programs, Worker
<1>2. worker'["assign"] = NoWorker
  BY <1>1, ProgramMoves DEF AddFacilities
<1>3. AssignFits(w) /\ w.pc = 3
  BY DEF AddFacilities, At, RecordInv, WorkersFit
<1>4. r \in Version /\ Content[r].region \in Regions
  BY <1>3, InvParts DEF AssignFits, CopyFits, Version, Regions
<1>5. AssignFits(worker["assign"])'
  BY <1>2 DEF AssignFits, CopyFits, NoWorker
<1>6. tags' \subseteq RecordTags
  <2>1. TagsFor(w.rec, w.info) \subseteq RecordTags
    BY <1>1, <1>4, TagsTyped
  <2> QED
    BY <2>1 DEF AddFacilities, RecordInv, RecordTypeOK
<1>7. TagsFollowRecord'
  <2>1. SUFFICES ASSUME ~w.late, w.info = info
                 PROVE  tags' = Expected
    BY DEF AddFacilities, TagsFollowRecord, Expected
  <2>2. r = rec.version /\ tags = {Content[r].region}
    BY <1>3, <2>1 DEF AssignFits
  <2>3. "parking" \notin Regions /\ "free" \notin Regions
    BY RecordAssumption DEF Regions
  <2>4. TagsFor(w.rec, w.info) = Expected
    BY <2>1, <2>2 DEF TagsFor, Expected
  <2>5. tags' = {Content[r].region} \cup (Expected \ Regions)
    BY <2>2, <2>4 DEF AddFacilities
  <2> QED
    BY <1>4, <2>2, <2>3, <2>5 DEF Expected
<1>8. untagged' \in BOOLEAN
  BY DEF AddFacilities
<1> QED
  BY <1>1, <1>5, <1>6, <1>7, <1>8, TaggingMoves DEF AddFacilities

LEMMA RecordAdminSave ==
    ASSUME RecordInv, AdminSave
    PROVE  RecordInv'
<1> DEFINE w == worker["admin"]
           a == worker["assign"]
<1>1. /\ worker \in [Programs -> Worker] /\ NoWorker \in Worker /\ w \in Worker /\ a \in Worker
      /\ w.rec \in Rec /\ source \in Version
  BY InvParts DEF Programs, Worker
<1>2. /\ rec' = w.rec /\ tags' \in {tags, {}} /\ untagged' = TRUE /\ w.pc = 1
      /\ overtaken' = (overtaken \/ w.late) /\ UNCHANGED <<source, info, faults>>
  BY DEF AdminSave, At
<1>3. AdminFits(w)
  BY DEF RecordInv, WorkersFit
<1>4. /\ worker' \in [Programs -> Worker] /\ worker'["admin"] = NoWorker
      /\ worker'["assign"].pc = a.pc /\ worker'["assign"].rec = a.rec
      /\ worker'["assign"].late = (a.pc > 0)
      /\ \A q \in {"collect", "backfill", "clean"} : worker'[q] = worker[q]
  <2> DEFINE late == a.pc > 0
             b == [a EXCEPT !.late = late]
  <2>1. late \in BOOLEAN
    OBVIOUS
  <2>2. worker' = [[worker EXCEPT !["admin"] = NoWorker] EXCEPT !["assign"] = b]
    BY <1>1 DEF AdminSave, Programs
  <2> HIDE DEF late
  <2>3. b \in Worker /\ b.pc = a.pc /\ b.rec = a.rec /\ b.late = late
    BY <1>1, <2>1 DEF Worker
  <2> HIDE DEF b
  <2> QED
    BY <1>1, <2>2, <2>3 DEF late, Programs
<1>5. PICK urls \in Seq(Urls) \cup {<<>>} :
        \/ UNCHANGED <<images, pictured>>
        \/ urls # <<>> /\ IsInjective(urls) /\ images' = Rows(urls) /\ pictured' = urls
  <2>1. CASE UNCHANGED <<images, pictured>>
    BY <2>1
  <2>2. ASSUME NEW url \in Urls, images' = Rows(<<url>>), pictured' = <<url>>
        PROVE  /\ <<url>> \in Seq(Urls) /\ <<url>> # <<>> /\ IsInjective(<<url>>)
    BY DEF IsInjective
  <2> QED
    BY <2>1, <2>2 DEF AdminSave
<1>6. /\ images' \subseteq Image /\ \A x, y \in images' : x.url = y.url => x = y
      /\ pictured' \in Seq(Urls) /\ ImagesFit'
  <2>1. CASE UNCHANGED <<images, pictured>>
    BY <2>1 DEF RecordInv, RecordTypeOK, ImagesFit
  <2>2. CASE urls # <<>> /\ IsInjective(urls) /\ images' = Rows(urls) /\ pictured' = urls
    BY <2>2, RowsAsSaved DEF ImagesFit
  <2> QED
    BY <1>5, <2>1, <2>2
<1>7. RecordTypeOK'
  <2>1. untagged' \in BOOLEAN /\ overtaken' \in BOOLEAN
    BY <1>2
  <2> QED
    BY <1>1, <1>2, <1>4, <1>6, <2>1 DEF RecordInv, RecordTypeOK
<1>8. VersionsFit' /\ TagsFollowRecord'
  BY <1>1, <1>2, <1>3 DEF RecordInv, VersionsFit, TagsFollowRecord, AdminFits, CopyFits, Version
<1>9. ~overtaken' => ~overtaken /\ rec'.version = rec.version
  <2>1. SUFFICES ASSUME ~overtaken'
                 PROVE  ~overtaken /\ rec'.version = rec.version
    OBVIOUS
  <2>2. ~overtaken /\ ~w.late
    BY <1>2, <2>1
  <2> QED
    BY <1>2, <1>3, <2>2 DEF AdminFits
<1>10. rec.there /\ rec'.there
  BY <1>2, <1>3 DEF AdminFits, CopyFits
<1>11. InfoNotStale'
  BY <1>2, <1>9, <1>10 DEF RecordInv, InfoNotStale, Type
<1>12. WorkersFit'
  <2>1. CollectFits(worker["collect"])'
    BY <1>2, <1>4 DEF RecordInv, WorkersFit, CollectFits, Type
  <2>2. BackfillFits(worker["backfill"])'
    BY <1>2, <1>4, <1>9, <1>10 DEF RecordInv, WorkersFit, BackfillFits, CopyFits, Type
  <2>3. CleanFits(worker["clean"])'
    BY <1>2, <1>4, <1>9, <1>10 DEF RecordInv, WorkersFit, CleanFits, HasFee, Type
  <2>4. AssignFits(worker["assign"])'
    BY <1>2, <1>4, <1>10 DEF RecordInv, WorkersFit, AssignFits, CopyFits
  <2>5. AdminFits(worker["admin"])'
    BY <1>4 DEF AdminFits, CopyFits, NoWorker
  <2> QED
    BY <2>1, <2>2, <2>3, <2>4, <2>5 DEF WorkersFit
<1> QED
  BY <1>6, <1>7, <1>8, <1>11, <1>12 DEF RecordInv

LEMMA RecordSavePlace ==
    ASSUME RecordInv, SavePlace
    PROVE  RecordInv'
<1> DEFINE w == worker["collect"]
           v == w.rec.version
           urls == Content[v].pics
           newRec == [there |-> TRUE, version |-> v,
                      tel |-> w.version > 0 /\ Content[w.version].phone]
           newInfo == IF w.version > 0 THEN Filled(info, Type(w.rec), w.version) ELSE info
<1>1. /\ worker \in [Programs -> Worker] /\ NoWorker \in Worker /\ w \in Worker
      /\ info \in Info /\ source \in 1 .. Len(Content) /\ w.version \in 0 .. Len(Content)
      /\ images \subseteq Image /\ \A x, y \in images : x.url = y.url => x = y
      /\ faults \in 0 .. MaxRecordFaults
  BY InvParts DEF Programs, Worker, RecordInv, RecordTypeOK
<1>2. /\ rec' = newRec /\ info' = newInfo /\ tags' = TagsFor(newRec, newInfo) /\ untagged' = FALSE
      /\ images' = Saved(images, urls) /\ pictured' = urls /\ w.pc = 2
      /\ overtaken' = (Mapped(Type(newRec)) /\ w.version = 0) /\ UNCHANGED <<source, faults>>
  BY DEF SavePlace, TagsAfterSave, At
<1>3. /\ v \in 1 .. source /\ v \in Version
      /\ w.version > 0 => Mapped(Type(w.rec)) /\ v <= w.version
  BY <1>1, <1>2 DEF RecordInv, WorkersFit, CollectFits, Version
<1>4. urls \in Seq(Urls) /\ urls # <<>> /\ IsInjective(urls)
  BY <1>3, PicsTyped
<1>5. newRec \in Rec /\ newRec.there /\ newRec.version = v /\ Type(newRec) = Type(w.rec)
  <2> DEFINE tel == w.version > 0 /\ Content[w.version].phone
  <2>1. tel \in BOOLEAN
    BY <1>1, ContentTyped DEF Version, Versions
  <2>2. v \in 0 .. Len(Content)
    BY <1>1, <1>3
  <2> HIDE DEF tel, v
  <2> QED
    BY <2>1, <2>2 DEF Rec, Type, tel, v
<1>6. /\ newInfo \in Info
      /\ w.version > 0 => /\ newInfo.there /\ newInfo.parking = w.version
                          /\ "fee" \in FieldMap[Type(w.rec)] => newInfo.fee = w.version
  BY <1>1, FilledTyped
<1> HIDE DEF newRec, newInfo
<1>7. tags' \subseteq RecordTags
  BY <1>2, <1>3, <1>5, TagsTyped
<1>8. /\ images' \subseteq Image /\ \A x, y \in images' : x.url = y.url => x = y
  BY <1>1, <1>2, <1>4, RowsAsSaved DEF Saved
<1>9. ImagesFit'
  BY <1>2, <1>4, RowsAsSaved DEF ImagesFit, Saved
<1>10. worker' = [p \in Programs |-> IF p = "collect" THEN NoWorker
                                     ELSE [worker[p] EXCEPT !.late = (worker[p].pc > 0)]]
  BY DEF SavePlace
<1>11. ASSUME NEW p \in Programs, p # "collect"
       PROVE  /\ worker'[p] \in Worker /\ worker'[p].pc = worker[p].pc
              /\ worker'[p].rec = worker[p].rec /\ worker'[p].version = worker[p].version
              /\ worker'[p].late = (worker[p].pc > 0)
  <2> DEFINE late == worker[p].pc > 0
             b == [worker[p] EXCEPT !.late = late]
  <2>1. late \in BOOLEAN /\ worker[p] \in Worker
    BY <1>1
  <2>2. worker'[p] = b
    BY <1>10, <1>11
  <2> HIDE DEF late
  <2>3. b \in Worker /\ b.pc = worker[p].pc /\ b.rec = worker[p].rec /\ b.late = late
        /\ b.version = worker[p].version
    BY <2>1 DEF Worker
  <2> HIDE DEF b
  <2> QED
    BY <2>2, <2>3 DEF late
<1>12. worker'["collect"] = NoWorker
  BY <1>10 DEF Programs
<1>13. worker' \in [Programs -> Worker]
  <2>1. \A p \in Programs : worker'[p] \in Worker
    BY <1>1, <1>11, <1>12
  <2>2. DOMAIN worker' = Programs /\ worker' = [p \in Programs |-> worker'[p]]
    BY <1>10
  <2> QED
    BY <2>1, <2>2
<1>14. RecordTypeOK'
  <2>1. overtaken' \in BOOLEAN /\ untagged' \in BOOLEAN
    BY <1>2
  <2> QED
    BY <1>1, <1>2, <1>4, <1>5, <1>6, <1>7, <1>8, <1>13, <2>1 DEF RecordTypeOK, Version
<1>15. VersionsFit'
  BY <1>1, <1>2, <1>3, <1>5 DEF VersionsFit
<1>16. TagsFollowRecord'
  BY <1>2 DEF TagsFollowRecord, Expected, TagsFor
<1>17. InfoNotStale'
  <2>1. SUFFICES ASSUME w.version > 0
                 PROVE  InfoNotStale'
    <3>1. CASE w.version = 0
      <4>1. Type(rec)' = Type(newRec)
        BY <1>2 DEF Type
      <4>2. Mapped(Type(newRec)) => overtaken'
        BY <1>2, <3>1
      <4> QED
        BY <4>1, <4>2 DEF InfoNotStale
    <3> QED
      BY <1>1, <2>1, <3>1
  <2> QED
    BY <1>1, <1>2, <1>3, <1>5, <1>6, <2>1 DEF InfoNotStale, Type
<1>18. WorkersFit'
  <2>1. CollectFits(worker["collect"])'
    BY <1>12 DEF CollectFits, NoWorker
  <2>2. BackfillFits(worker["backfill"])'
    BY <1>2, <1>5, <1>11 DEF RecordInv, WorkersFit, BackfillFits, CopyFits, Type, Programs
  <2>3. CleanFits(worker["clean"])'
    BY <1>11 DEF CleanFits, Programs
  <2>4. AssignFits(worker["assign"])'
    BY <1>2, <1>5, <1>11 DEF RecordInv, WorkersFit, AssignFits, CopyFits, Programs
  <2>5. AdminFits(worker["admin"])'
    BY <1>2, <1>5, <1>11 DEF RecordInv, WorkersFit, AdminFits, CopyFits, Programs
  <2> QED
    BY <2>1, <2>2, <2>3, <2>4, <2>5 DEF WorkersFit
<1> QED
  BY <1>9, <1>14, <1>15, <1>16, <1>17, <1>18 DEF RecordInv

LEMMA RecordStutter ==
    ASSUME RecordInv, UNCHANGED recordVars
    PROVE  RecordInv'
BY DEF recordVars, RecordInv, RecordTypeOK, VersionsFit, WorkersFit, CollectFits, BackfillFits,
       CleanFits, AssignFits, AdminFits, CopyFits, HasFee, TagsFollowRecord, Expected,
       InfoNotStale, ImagesFit, Type

LEMMA RecordInvKept == RecordSpec => []RecordInv
<1>1. RecordInit => RecordInv
  BY RecordInvInit
<1>2. RecordInv /\ [RecordNext]_recordVars => RecordInv'
  <2>1. SUFFICES ASSUME RecordInv, RecordNext
                 PROVE  RecordInv'
    BY RecordStutter
  <2>2. CASE SourceChanges \/ ListItem \/ CollectDirty \/ ReadPlaces \/ AdminLoad
    BY <2>1, <2>2, RecordSourceChanges, RecordListItem, RecordCollectDirty, RecordReadPlaces,
       RecordAdminLoad
  <2>3. CASE BeginBackfill \/ NoIntro
    BY <2>1, <2>3, RecordStartBackfill, RecordNoIntro DEF BeginBackfill
  <2>4. ASSUME NEW p \in Programs, RecordSteps(p)
        PROVE  RecordInv'
    <3>1. \/ FetchDetails \/ SavePlace \/ FetchIntro \/ UpdateTel \/ BackfillInfo \/ BulkUpdate
          \/ RemoveTags \/ AddRegion \/ AddFacilities \/ AdminSave
      BY <2>4 DEF RecordSteps, Programs
    <3>2. CASE FetchDetails \/ SavePlace
      BY <2>1, <3>2, RecordFetchDetails, RecordSavePlace
    <3>3. CASE FetchIntro \/ UpdateTel \/ BackfillInfo
      BY <2>1, <3>3, RecordFetchIntro, RecordUpdateTel, RecordBackfillInfo
    <3>4. CASE BulkUpdate \/ AdminSave
      BY <2>1, <3>4, RecordBulkUpdate, RecordAdminSave
    <3>5. CASE RemoveTags \/ AddRegion \/ AddFacilities
      BY <2>1, <3>5, RecordRemoveTags, RecordAddRegion, RecordAddFacilities
    <3> QED
      BY <3>1, <3>2, <3>3, <3>4, <3>5
  <2>5. ASSUME NEW p \in Programs, Crash(p)
        PROVE  RecordInv'
    BY <2>1, <2>5, RecordCrash
  <2> QED
    BY <2>1, <2>2, <2>3, <2>4, <2>5 DEF RecordNext
<1> QED
  BY <1>1, <1>2, PTL DEF RecordSpec

\* Whatever the programs write over each other, at most one row holds each image, the tags are
\* ones that some program gives, and every version comes from the source.
THEOREM RecordTypesKept == RecordSpec => []RecordTypeOK
BY RecordInvKept, PTL DEF RecordInv

\* The first picture of the last save is the main image of the place.
LEMMA MainOne == RecordInv => MainImage
<1> SUFFICES ASSUME RecordInv PROVE MainImage
  OBVIOUS
<1>1. images # {} => Mains # {}
  BY DEF RecordInv, ImagesFit, Mains, RecordTypeOK, Image, Range
<1>2. ASSUME NEW first \in Mains, \A image \in images : image.url \in Range(pictured)
      PROVE  first.url = pictured[1]
  BY <1>2 DEF RecordInv, ImagesFit, Mains
<1> QED
  BY <1>1, <1>2 DEF MainImage

\* For any versions of the source and any crashes: when nobody holds them the region and
\* facility tags follow the rows, the details are no older than the list said, and the first
\* picture of the last save is the main image (place_sync.py:212-300, assign_place_tags.py).
THEOREM RowsAlwaysAgree == RecordSpec => []RowsAgree
<1>1. RecordInv => RowsAgree
  BY MainOne DEF RecordInv, RowsAgree
<1> QED
  BY <1>1, RecordInvKept, PTL

--------------------------------------------------------------------------------
(* Lists of places *)

(***************************************************************************)
(* A list is put together from several queries while places and vectors    *)
(* come and go. ListInv says of each request what it has found so far: the *)
(* tiers that it left behind had no place that is there all the time, and  *)
(* the ids it goes on with are all of them, unless there are as many as a  *)
(* limit. The pages of the vector order need no invariant: PagesSliced     *)
(* holds in every state, because whoever is before the end of a page has   *)
(* at most as many rows before him as are fetched.                         *)
(***************************************************************************)

\* What a request q has found, when visible are the places that are shown.  Until it is done
\* it has nothing to list but the places with a vector; tiers left behind were empty; and
\* the ids it goes on with are all that it looks for, unless there are as many as a limit.
Fits(q, visible) ==
    /\ q.steady \subseteq visible
    /\ q.vec \cap q.rest = {} /\ (q.pc # "done" => q.rest = {})
    /\ q.pc \in {"idle", "ids", "store", "load"} => q.vec = {}
    /\ q.pc = "rest" => q.kind = "feed"
    /\ q.pc = "load" => q.kind \in {"feed", "hybrid"}
    /\ q.kind = "feed" /\ q.pc = "done" /\ Cardinality(q.rest) < RemainingCap =>
          q.steady \cap HasAll(q.tags) \subseteq q.vec \cup q.rest
    /\ q.kind = "hybrid" /\ q.pc = "ids" /\ q.tier > 1 =>
          q.steady \cap HasAll(q.tags) \cap Named = {}
    /\ q.kind = "hybrid" /\ ~q.hit /\ Cardinality(q.ids) < CandidateLimit =>
          /\ q.pc \in {"store", "load"} => q.steady \cap HasAll(q.tags) \cap Named \subseteq q.ids
          /\ q.pc = "done" => q.steady \cap HasAll(q.tags) \cap Named \subseteq q.vec
    /\ q.kind = "popular" /\ q.pc = "store" /\ Cardinality(q.ids) < RemainingCap =>
          q.steady \cap HasAll(q.tags) \subseteq q.ids
    /\ q.kind = "popular" /\ q.pc = "done" /\ ~q.hit /\ Cardinality(q.vec) < RemainingCap =>
          q.steady \cap HasAll(q.tags) \subseteq q.vec

AllFit == \A r \in ListReads : Fits(read[r], PlacesIn("shown"))

ListInv == ListTypeOK /\ AllFit

-----------------------------------------------------------------------------
LEMMA ListConstants ==
    /\ IsFiniteSet(ListPlaces) /\ {} \in TagChoices
    /\ RemainingCap \in Nat \ {0} /\ SearchLimit \in Nat \ {0} /\ CandidateLimit \in Nat \ {0}
    /\ MaxChanges \in Nat
<1>1. Nearest \in Seq(ToSet(Nearest)) /\ {} \in TagChoices /\ MaxChanges \in Nat
  BY ListAssumption, Zenon
<1>2. {RemainingCap, SearchLimit, CandidateLimit, OverFetch} \subseteq Nat \ {0}
  BY ListAssumption, Zenon
<1>3. IsFiniteSet(ListPlaces)
  <2>1. Len(Nearest) \in Nat /\ DOMAIN Nearest = 1 .. Len(Nearest)
    BY <1>1
  <2>2. IsFiniteSet(1 .. Len(Nearest))
    BY <2>1, FS_Interval
  <2>3. Nearest \in Surjection(1 .. Len(Nearest), ListPlaces)
    BY <1>1, <2>1 DEF Surjection, ListPlaces, ToSet
  <2> QED
    BY <2>2, <2>3, FS_Surjection
<1> QED
  BY <1>1, <1>2, <1>3

\* The first n of a set are all of it when they are fewer than n.
LEMMA TopsKnown ==
    ASSUME NEW S, S \subseteq ListPlaces, NEW n \in Nat, NEW s \in Tops(S, n)
    PROVE  s \subseteq S /\ s \subseteq ListPlaces /\ (Cardinality(s) < n => s = S)
<1>1. IsFiniteSet(S) /\ s \subseteq S
  BY ListConstants, FS_Subset DEF Tops
<1>2. Cardinality(S) \in Nat
  BY <1>1, FS_CardinalityType
<1>3. Cardinality(s) = IF Cardinality(S) < n THEN Cardinality(S) ELSE n
  BY DEF Tops
<1>4. Cardinality(s) = Cardinality(S) => s = S
  BY <1>1, FS_Subset
<1> QED
  BY <1>1, <1>2, <1>3, <1>4

LEMMA AllTagsAnyTag ==
    ASSUME NEW ts
    PROVE  HasAll(ts) \subseteq HasAny(ts) /\ HasAll(ts) \subseteq ListPlaces
BY DEF HasAll, HasAny

\* A request takes a step and nothing else it depends on changes.
LEMMA OneRead ==
    ASSUME ListInv, NEW r \in ListReads, NEW q \in Read, Fits(q, PlacesIn("shown")), Become(r, q),
           UNCHANGED <<status, vectors, changes>>,
           popular' \in [{RemainingCap, SearchLimit} -> Cached],
           hybrid' \in [TagChoices -> Cached], detail' \subseteq ListPlaces
    PROVE  ListInv'
<1>1. read' = [read EXCEPT ![r] = q] /\ read \in [ListReads -> Read]
  BY DEF Become, ListInv, ListTypeOK
<1>2. PlacesIn("shown")' = PlacesIn("shown") /\ Existing' = Existing
  BY DEF PlacesIn, Existing
<1>3. ListTypeOK'
  <2>1. read' \in [ListReads -> Read]
    BY <1>1
  <2> QED
    BY <1>2, <2>1 DEF ListInv, ListTypeOK
<1>4. AllFit'
  BY <1>1, <1>2 DEF ListInv, AllFit
<1> QED
  BY <1>3, <1>4 DEF ListInv

\* What a request can rely on.
LEMMA ReadKnown ==
    ASSUME ListInv, NEW r \in ListReads
    PROVE  /\ read[r] \in Read /\ Fits(read[r], PlacesIn("shown"))
           /\ read[r].steady \subseteq PlacesIn("shown") /\ PlacesIn("shown") \subseteq ListPlaces
           /\ popular \in [{RemainingCap, SearchLimit} -> Cached]
           /\ hybrid \in [TagChoices -> Cached] /\ detail \subseteq ListPlaces
           /\ read[r].tags \in TagChoices
<1>1. read[r] \in Read /\ Fits(read[r], PlacesIn("shown"))
  BY DEF ListInv, ListTypeOK, AllFit
<1> QED
  BY <1>1 DEF ListInv, ListTypeOK, Fits, PlacesIn, Read

\* The records that a step puts in place of a request.
LEMMA ThenKnown ==
    ASSUME NEW r \in ListReads, read[r] \in Read, NEW pc \in {"ids", "store", "load"},
           NEW ids \in SUBSET ListPlaces
    PROVE  /\ Then(r, pc, ids) \in Read /\ Then(r, pc, ids).pc = pc /\ Then(r, pc, ids).ids = ids
           /\ Then(r, pc, ids).kind = read[r].kind /\ Then(r, pc, ids).tags = read[r].tags
           /\ Then(r, pc, ids).tier = read[r].tier /\ Then(r, pc, ids).vec = read[r].vec
           /\ Then(r, pc, ids).rest = read[r].rest /\ Then(r, pc, ids).steady = read[r].steady
           /\ Then(r, pc, ids).hit = read[r].hit
BY DEF Then, Read

LEMMA ReplyKnown ==
    ASSUME NEW r \in ListReads, read[r] \in Read, NEW ids \in SUBSET ListPlaces
    PROVE  /\ Reply(r, ids) \in Read /\ Reply(r, ids).pc = "done" /\ Reply(r, ids).vec = ids
           /\ Reply(r, ids).kind = read[r].kind /\ Reply(r, ids).tags = read[r].tags
           /\ Reply(r, ids).tier = read[r].tier /\ Reply(r, ids).ids = read[r].ids
           /\ Reply(r, ids).rest = read[r].rest /\ Reply(r, ids).steady = read[r].steady
           /\ Reply(r, ids).hit = read[r].hit
BY DEF Reply, Read

-----------------------------------------------------------------------------
(* Requests *)

LEMMA ListInvInit == ListInit => ListInv
<1> SUFFICES ASSUME ListInit PROVE ListInv
  OBVIOUS
<1>1. NoRead \in Read
  BY ListConstants DEF NoRead, Read, Kinds
<1>2. NotCached \in Cached /\ 0 \in 0 .. MaxChanges
  BY ListConstants DEF NotCached, Cached
<1>3. ListTypeOK
  <2>1. PlacesIn("gone") = {}
    BY DEF ListInit, PlacesIn
  <2> QED
    BY <1>1, <1>2, <2>1 DEF ListInit, ListTypeOK, Existing
<1>4. \A r \in ListReads : read[r] = NoRead
  BY DEF ListInit
<1>5. Fits(NoRead, PlacesIn("shown"))
  BY DEF Fits, NoRead
<1> QED
  BY <1>3, <1>4, <1>5 DEF ListInv, AllFit

LEMMA ReadStarts ==
    ASSUME ListInv, NEW r \in ListReads, NEW kind \in Kinds, NEW ts \in TagChoices,
           StartRead(r, kind, ts)
    PROVE  ListInv'
<1> DEFINE q == [NoRead EXCEPT !.pc = "ids", !.kind = kind, !.tags = ts,
                               !.steady = PlacesIn("shown")]
<1>1. PlacesIn("shown") \subseteq ListPlaces
  BY DEF PlacesIn
<1>2. NoRead \in Read
  BY ListConstants DEF NoRead, Read, Kinds
<1>3. q \in Read /\ q.pc = "ids" /\ q.tier = 1 /\ q.vec = {} /\ q.rest = {}
         /\ q.steady = PlacesIn("shown")
  BY <1>1, <1>2 DEF Read, NoRead
<1> HIDE DEF q
<1>4. Fits(q, PlacesIn("shown"))
  BY <1>3 DEF Fits
<1>5. Become(r, q) /\ UNCHANGED <<status, vectors, popular, hybrid, detail, changes>>
  BY DEF StartRead, q
<1> QED
  BY <1>3, <1>4, <1>5, OneRead DEF ListInv, ListTypeOK

LEMMA ReadEnds ==
    ASSUME ListInv, NEW r \in ListReads, EndRead(r)
    PROVE  ListInv'
<1>1. NoRead \in Read
  BY ListConstants DEF NoRead, Read, Kinds
<1>2. Fits(NoRead, PlacesIn("shown"))
  BY DEF Fits, NoRead
<1>3. Become(r, NoRead) /\ UNCHANGED <<status, vectors, popular, hybrid, detail, changes>>
  BY DEF EndRead
<1> QED
  BY <1>1, <1>2, <1>3, OneRead DEF ListInv, ListTypeOK

LEMMA VectorIdsRead ==
    ASSUME ListInv, NEW r \in ListReads, ReadVectorIds(r)
    PROVE  ListInv'
<1> DEFINE ids == PlacesIn("shown") \cap vectors \cap HasAny(read[r].tags)
           q == Then(r, "load", ids)
<1>1. /\ read[r].pc = "ids" /\ read[r].kind = "feed" /\ Become(r, q)
      /\ UNCHANGED <<status, vectors, popular, hybrid, detail, changes>>
  BY DEF ReadVectorIds
<1>2. read[r] \in Read /\ Fits(read[r], PlacesIn("shown")) /\ ids \in SUBSET ListPlaces
  BY ReadKnown
<1> HIDE DEF ids
<1>3. q \in Read /\ q.pc = "load" /\ q.kind = "feed" /\ q.vec = read[r].vec
         /\ q.rest = read[r].rest /\ q.steady = read[r].steady
  BY <1>1, <1>2, ThenKnown
<1> HIDE DEF q
<1>4. Fits(q, PlacesIn("shown"))
  BY <1>1, <1>2, <1>3 DEF Fits
<1> QED
  BY <1>1, <1>3, <1>4, OneRead DEF ListInv, ListTypeOK

LEMMA PlacesLoaded ==
    ASSUME ListInv, NEW r \in ListReads, LoadPlaces(r)
    PROVE  ListInv'
<1> DEFINE mine == read[r].ids \cap Existing
           q == IF read[r].kind = "feed" THEN [read[r] EXCEPT !.pc = "rest", !.vec = mine]
                ELSE Reply(r, mine)
<1>1. /\ read[r].pc = "load" /\ Become(r, q)
      /\ UNCHANGED <<status, vectors, popular, hybrid, detail, changes>>
  BY DEF LoadPlaces
<1>2. /\ read[r] \in Read /\ Fits(read[r], PlacesIn("shown")) /\ mine \in SUBSET ListPlaces
      /\ read[r].steady \subseteq PlacesIn("shown")
  BY ReadKnown DEF Read
<1>3. read[r].ids \cap PlacesIn("shown") \subseteq mine
  BY <1>2 DEF PlacesIn, Existing
<1> HIDE DEF mine
<1>4. CASE read[r].kind = "feed"
  <2>1. /\ q \in Read /\ q.pc = "rest" /\ q.kind = "feed" /\ q.rest = read[r].rest
        /\ q.steady = read[r].steady
    BY <1>2, <1>4 DEF Read
  <2> HIDE DEF q
  <2>2. Fits(q, PlacesIn("shown"))
    BY <1>1, <1>2, <2>1 DEF Fits
  <2> QED
    BY <1>1, <2>1, <2>2, OneRead DEF ListInv, ListTypeOK
<1>5. CASE read[r].kind # "feed"
  <2>1. /\ q \in Read /\ q.pc = "done" /\ q.kind = read[r].kind /\ q.rest = read[r].rest
        /\ q.steady = read[r].steady /\ q.tags = read[r].tags /\ q.ids = read[r].ids
        /\ q.hit = read[r].hit /\ q.vec = mine
    BY <1>2, <1>5, ReplyKnown
  <2> HIDE DEF q
  <2>2. Fits(q, PlacesIn("shown"))
    BY <1>1, <1>2, <1>3, <1>5, <2>1 DEF Fits
  <2> QED
    BY <1>1, <2>1, <2>2, OneRead DEF ListInv, ListTypeOK
<1> QED
  BY <1>4, <1>5

LEMMA RemainingAppended ==
    ASSUME ListInv, NEW r \in ListReads, AppendRemaining(r)
    PROVE  ListInv'
<1>1. PICK rest \in Tops(Remaining(r), RemainingCap) :
         Become(r, [read[r] EXCEPT !.pc = "done", !.rest = rest])
  BY DEF AppendRemaining
<1> DEFINE q == [read[r] EXCEPT !.pc = "done", !.rest = rest]
<1>2. /\ read[r].pc = "rest" /\ Become(r, q)
      /\ UNCHANGED <<status, vectors, popular, hybrid, detail, changes>>
  BY <1>1 DEF AppendRemaining
<1>3. /\ read[r] \in Read /\ Fits(read[r], PlacesIn("shown"))
      /\ read[r].steady \subseteq PlacesIn("shown") /\ PlacesIn("shown") \subseteq ListPlaces
  BY ReadKnown
<1>4. /\ rest \subseteq Remaining(r) /\ rest \subseteq ListPlaces
      /\ Cardinality(rest) < RemainingCap => rest = Remaining(r)
  <2>1. Remaining(r) \subseteq ListPlaces
    BY <1>3 DEF Remaining
  <2> QED
    BY <1>1, <2>1, TopsKnown, ListConstants
<1>5. /\ q \in Read /\ q.pc = "done" /\ q.kind = read[r].kind /\ q.vec = read[r].vec
      /\ q.rest = rest /\ q.steady = read[r].steady /\ q.tags = read[r].tags
  BY <1>3, <1>4 DEF Read
<1> HIDE DEF q
<1>6. read[r].kind = "feed"
  BY <1>2, <1>3 DEF Fits
<1>7. Cardinality(rest) < RemainingCap =>
         read[r].steady \cap HasAll(read[r].tags) \subseteq read[r].vec \cup rest
  BY <1>3, <1>4 DEF Remaining
<1>8. read[r].vec \cap rest = {}
  BY <1>4 DEF Remaining
<1>9. Fits(q, PlacesIn("shown"))
  BY <1>3, <1>5, <1>6, <1>7, <1>8 DEF Fits
<1> QED
  BY <1>2, <1>5, <1>9, OneRead DEF ListInv, ListTypeOK

LEMMA HybridTaken ==
    ASSUME ListInv, NEW r \in ListReads, HybridHit(r)
    PROVE  ListInv'
<1> DEFINE ids == hybrid[read[r].tags].ids
           q == [Then(r, "load", ids) EXCEPT !.hit = TRUE]
<1>1. /\ read[r].pc = "ids" /\ read[r].kind = "hybrid" /\ Become(r, q)
      /\ UNCHANGED <<status, vectors, popular, hybrid, detail, changes>>
  BY DEF HybridHit
<1>2. /\ read[r] \in Read /\ Fits(read[r], PlacesIn("shown"))
      /\ hybrid \in [TagChoices -> Cached] /\ read[r].tags \in TagChoices
  BY ReadKnown
<1>3. ids \in SUBSET ListPlaces
  BY <1>2 DEF Cached
<1> HIDE DEF ids
<1>4. /\ q \in Read /\ q.pc = "load" /\ q.kind = "hybrid" /\ q.vec = read[r].vec /\ q.hit
      /\ q.rest = read[r].rest /\ q.steady = read[r].steady
  <2>1. /\ Then(r, "load", ids) \in Read /\ Then(r, "load", ids).pc = "load"
        /\ Then(r, "load", ids).kind = "hybrid" /\ Then(r, "load", ids).vec = read[r].vec
        /\ Then(r, "load", ids).rest = read[r].rest
        /\ Then(r, "load", ids).steady = read[r].steady
    BY <1>1, <1>2, <1>3, ThenKnown
  <2> QED
    BY <2>1 DEF Read
<1> HIDE DEF q
<1>5. Fits(q, PlacesIn("shown"))
  BY <1>1, <1>2, <1>4 DEF Fits
<1> QED
  BY <1>1, <1>4, <1>5, OneRead DEF ListInv, ListTypeOK

LEMMA CandidatesRead ==
    ASSUME ListInv, NEW r \in ListReads, ReadCandidates(r)
    PROVE  ListInv'
<1>1. /\ read[r].pc = "ids" /\ read[r].kind = "hybrid"
      /\ UNCHANGED <<status, vectors, popular, hybrid, detail, changes>>
  BY DEF ReadCandidates
<1>2. /\ read[r] \in Read /\ Fits(read[r], PlacesIn("shown"))
      /\ read[r].steady \subseteq PlacesIn("shown") /\ PlacesIn("shown") \subseteq ListPlaces
      /\ read[r].tier \in 1 .. 3
  BY ReadKnown DEF Read
<1> DEFINE wanted == read[r].steady \cap HasAll(read[r].tags) \cap Named
<1>3. PICK found \in ListCandidates(r) :
         IF found # {}
         THEN \E ids \in Tops(found, CandidateLimit) : Become(r, Then(r, "store", ids))
         ELSE IF read[r].tier = 3 THEN Become(r, Reply(r, {}))
         ELSE Become(r, [read[r] EXCEPT !.tier = read[r].tier + 1])
  BY DEF ReadCandidates
<1>4. found \subseteq ListPlaces /\ (read[r].tier = 1 => wanted \subseteq found)
  BY <1>2 DEF ListCandidates
<1>5. read[r].tier > 1 => wanted = {}
  BY <1>1, <1>2 DEF Fits
<1>6. read[r].vec = {} /\ read[r].rest = {}
  BY <1>1, <1>2 DEF Fits
<1>7. CASE found # {}
  <2>1. PICK ids \in Tops(found, CandidateLimit) : Become(r, Then(r, "store", ids))
    BY <1>3, <1>7
  <2>2. /\ ids \subseteq found /\ ids \in SUBSET ListPlaces
        /\ Cardinality(ids) < CandidateLimit => ids = found
    BY <1>4, <2>1, TopsKnown, ListConstants
  <2>3. Cardinality(ids) < CandidateLimit => wanted \subseteq ids
    BY <1>2, <1>4, <1>5, <2>2
  <2> DEFINE q == Then(r, "store", ids)
  <2>4. /\ q \in Read /\ q.pc = "store" /\ q.kind = "hybrid" /\ q.vec = {} /\ q.ids = ids
        /\ q.rest = {} /\ q.steady = read[r].steady /\ q.tags = read[r].tags
    BY <1>1, <1>2, <1>6, <2>2, ThenKnown
  <2> HIDE DEF q
  <2>5. Fits(q, PlacesIn("shown"))
    BY <1>2, <2>3, <2>4 DEF Fits
  <2> QED
    BY <1>1, <2>1, <2>4, <2>5, OneRead DEF ListInv, ListTypeOK, q
<1>8. CASE found = {} /\ read[r].tier = 3
  <2> DEFINE q == Reply(r, {})
  <2>1. /\ q \in Read /\ q.pc = "done" /\ q.kind = "hybrid" /\ q.vec = {}
        /\ q.rest = {} /\ q.steady = read[r].steady /\ q.tags = read[r].tags
    BY <1>1, <1>2, <1>6, ReplyKnown
  <2>2. Become(r, q)
    BY <1>3, <1>8
  <2> HIDE DEF q
  <2>3. wanted = {}
    BY <1>5, <1>8
  <2>4. Fits(q, PlacesIn("shown"))
    BY <1>2, <2>1, <2>3 DEF Fits
  <2> QED
    BY <1>1, <2>1, <2>2, <2>4, OneRead DEF ListInv, ListTypeOK
<1>9. CASE found = {} /\ read[r].tier # 3
  <2> DEFINE q == [read[r] EXCEPT !.tier = read[r].tier + 1]
  <2>1. read[r].tier + 1 \in 1 .. 3
    BY <1>2, <1>9
  <2>2. /\ q \in Read /\ q.pc = "ids" /\ q.kind = "hybrid" /\ q.vec = {}
        /\ q.rest = {} /\ q.steady = read[r].steady /\ q.tags = read[r].tags
    BY <1>1, <1>2, <1>6, <2>1 DEF Read
  <2>3. Become(r, q)
    BY <1>3, <1>9
  <2> HIDE DEF q
  <2>4. wanted = {}
    BY <1>2, <1>4, <1>5, <1>9
  <2>5. Fits(q, PlacesIn("shown"))
    BY <1>2, <2>2, <2>4 DEF Fits
  <2> QED
    BY <1>1, <2>2, <2>3, <2>5, OneRead DEF ListInv, ListTypeOK
<1> QED
  BY <1>7, <1>8, <1>9

LEMMA HybridStored ==
    ASSUME ListInv, NEW r \in ListReads, StoreHybrid(r)
    PROVE  ListInv'
<1> DEFINE q == Then(r, "load", read[r].ids)
<1>1. /\ read[r].pc = "store" /\ read[r].kind = "hybrid" /\ Become(r, q)
      /\ hybrid' = [hybrid EXCEPT ![read[r].tags] = Entry(read[r].ids)]
      /\ UNCHANGED <<status, vectors, popular, detail, changes>>
  BY DEF StoreHybrid
<1>2. /\ read[r] \in Read /\ Fits(read[r], PlacesIn("shown"))
      /\ hybrid \in [TagChoices -> Cached] /\ read[r].ids \in SUBSET ListPlaces
  BY ReadKnown DEF Read
<1>3. hybrid' \in [TagChoices -> Cached]
  BY <1>1, <1>2 DEF Entry, Cached
<1>4. /\ q \in Read /\ q.pc = "load" /\ q.kind = "hybrid" /\ q.vec = read[r].vec
      /\ q.rest = read[r].rest /\ q.steady = read[r].steady /\ q.tags = read[r].tags
      /\ q.ids = read[r].ids /\ q.hit = read[r].hit
  BY <1>1, <1>2, ThenKnown
<1> HIDE DEF q
<1>5. Fits(q, PlacesIn("shown"))
  BY <1>1, <1>2, <1>4 DEF Fits
<1> QED
  BY <1>1, <1>3, <1>4, <1>5, OneRead DEF ListInv, ListTypeOK

\* A request that is answered at once, and not from what it must find by itself.
LEMMA Answered ==
    ASSUME ListInv, NEW r \in ListReads, NEW ids \in SUBSET ListPlaces,
           read[r].pc \in {"ids", "store"}, read[r].kind \notin {"feed", "hybrid"},
           read[r].kind = "popular" /\ Cardinality(ids) < RemainingCap =>
              read[r].steady \cap HasAll(read[r].tags) \subseteq ids
    PROVE  Reply(r, ids) \in Read /\ Fits(Reply(r, ids), PlacesIn("shown"))
<1> DEFINE q == Reply(r, ids)
<1>1. read[r] \in Read /\ Fits(read[r], PlacesIn("shown"))
  BY ReadKnown
<1>2. /\ q \in Read /\ q.pc = "done" /\ q.kind = read[r].kind /\ q.vec = ids
      /\ q.rest = read[r].rest /\ q.steady = read[r].steady /\ q.tags = read[r].tags
  BY <1>1, ReplyKnown
<1> HIDE DEF q
<1>3. Fits(q, PlacesIn("shown"))
  BY <1>1, <1>2 DEF Fits
<1> QED
  BY <1>2, <1>3 DEF q

\* The same from a cache: then nothing is promised.
LEMMA AnsweredFromCache ==
    ASSUME ListInv, NEW r \in ListReads, NEW ids \in SUBSET ListPlaces,
           read[r].pc = "ids", read[r].kind \notin {"feed", "hybrid"}
    PROVE  LET q == [Reply(r, ids) EXCEPT !.hit = TRUE] IN
           q \in Read /\ Fits(q, PlacesIn("shown"))
<1> DEFINE q == [Reply(r, ids) EXCEPT !.hit = TRUE]
<1>1. read[r] \in Read /\ Fits(read[r], PlacesIn("shown"))
  BY ReadKnown
<1>2. /\ Reply(r, ids) \in Read /\ Reply(r, ids).pc = "done"
      /\ Reply(r, ids).kind = read[r].kind /\ Reply(r, ids).vec = ids
      /\ Reply(r, ids).rest = read[r].rest /\ Reply(r, ids).steady = read[r].steady
  BY <1>1, ReplyKnown
<1>3. /\ q \in Read /\ q.pc = "done" /\ q.kind = read[r].kind /\ q.vec = ids /\ q.hit
      /\ q.rest = read[r].rest /\ q.steady = read[r].steady
  BY <1>2 DEF Read
<1> HIDE DEF q
<1>4. Fits(q, PlacesIn("shown"))
  BY <1>1, <1>3 DEF Fits
<1> QED
  BY <1>3, <1>4 DEF q

LEMMA SearchKnown ==
    ASSUME NEW r \in ListReads, NEW found \in SUBSET ListPlaces
    PROVE  /\ Search(r, found) \in SUBSET ListPlaces
           /\ read[r].kind = "popular" => Search(r, found) = found
           /\ LimitOf(r) \in {RemainingCap, SearchLimit} /\ LimitOf(r) \in Nat
           /\ read[r].kind = "popular" => LimitOf(r) = RemainingCap
BY ListConstants DEF Search, LimitOf

LEMMA PopularTaken ==
    ASSUME ListInv, NEW r \in ListReads, PopularHit(r)
    PROVE  ListInv'
<1> DEFINE ids == Search(r, popular[LimitOf(r)].ids \cap Existing)
           q == [Reply(r, ids) EXCEPT !.hit = TRUE]
<1>1. /\ read[r].pc = "ids" /\ read[r].kind \in {"popular", "search"} /\ Become(r, q)
      /\ UNCHANGED <<status, vectors, popular, hybrid, detail, changes>>
  BY DEF PopularHit
<1>2. popular[LimitOf(r)].ids \cap Existing \in SUBSET ListPlaces
  BY DEF Existing
<1>3. ids \in SUBSET ListPlaces
  BY <1>2, SearchKnown
<1> HIDE DEF ids
<1>4. q \in Read /\ Fits(q, PlacesIn("shown"))
  BY <1>1, <1>3, AnsweredFromCache
<1> HIDE DEF q
<1> QED
  BY <1>1, <1>4, OneRead DEF ListInv, ListTypeOK

LEMMA PopularRead ==
    ASSUME ListInv, NEW r \in ListReads, ReadPopular(r)
    PROVE  ListInv'
<1>1. PICK ids \in Tops(PopularIds(read[r].tags), LimitOf(r)) :
         Become(r, IF read[r].tags = {} THEN Then(r, "store", ids) ELSE Reply(r, Search(r, ids)))
  BY DEF ReadPopular
<1>2. /\ read[r].pc = "ids" /\ read[r].kind \in {"popular", "search"}
      /\ UNCHANGED <<status, vectors, popular, hybrid, detail, changes>>
  BY DEF ReadPopular
<1>3. /\ read[r] \in Read /\ Fits(read[r], PlacesIn("shown"))
      /\ read[r].steady \subseteq PlacesIn("shown") /\ PlacesIn("shown") \subseteq ListPlaces
  BY ReadKnown
<1>4. /\ ids \in SUBSET ListPlaces
      /\ Cardinality(ids) < LimitOf(r) => ids = PopularIds(read[r].tags)
  <2>1. PopularIds(read[r].tags) \subseteq ListPlaces
    BY <1>3 DEF PopularIds
  <2>2. LimitOf(r) \in Nat
    BY SearchKnown
  <2> QED
    BY <1>1, <2>1, <2>2, TopsKnown
<1>5. read[r].kind = "popular" /\ Cardinality(ids) < RemainingCap =>
         read[r].steady \cap HasAll(read[r].tags) \subseteq ids
  BY <1>3, <1>4, SearchKnown, AllTagsAnyTag DEF PopularIds
<1>6. CASE read[r].tags = {}
  <2> DEFINE q == Then(r, "store", ids)
  <2>1. Become(r, q)
    BY <1>1, <1>6
  <2>2. /\ q \in Read /\ q.pc = "store" /\ q.kind = read[r].kind /\ q.vec = read[r].vec
        /\ q.rest = read[r].rest /\ q.steady = read[r].steady /\ q.tags = read[r].tags
        /\ q.ids = ids
    BY <1>3, <1>4, ThenKnown
  <2> HIDE DEF q
  <2>3. Fits(q, PlacesIn("shown"))
    BY <1>2, <1>3, <1>5, <2>2 DEF Fits
  <2> QED
    BY <1>2, <2>1, <2>2, <2>3, OneRead DEF ListInv, ListTypeOK
<1>7. CASE read[r].tags # {}
  <2> DEFINE found == Search(r, ids)
  <2>1. found \in SUBSET ListPlaces /\ (read[r].kind = "popular" => found = ids)
    BY <1>4, SearchKnown
  <2>2. Become(r, Reply(r, found))
    BY <1>1, <1>7
  <2> HIDE DEF found
  <2>3. Reply(r, found) \in Read /\ Fits(Reply(r, found), PlacesIn("shown"))
    BY <1>2, <1>5, <2>1, Answered
  <2> QED
    BY <1>2, <2>2, <2>3, OneRead DEF ListInv, ListTypeOK
<1> QED
  BY <1>6, <1>7

LEMMA PopularStored ==
    ASSUME ListInv, NEW r \in ListReads, StorePopular(r)
    PROVE  ListInv'
<1> DEFINE found == Search(r, read[r].ids)
<1>1. /\ read[r].pc = "store" /\ read[r].kind \in {"popular", "search"}
      /\ popular' = [popular EXCEPT ![LimitOf(r)] = Entry(read[r].ids)]
      /\ Become(r, Reply(r, found))
      /\ UNCHANGED <<status, vectors, hybrid, detail, changes>>
  BY DEF StorePopular
<1>2. /\ read[r] \in Read /\ Fits(read[r], PlacesIn("shown"))
      /\ popular \in [{RemainingCap, SearchLimit} -> Cached] /\ read[r].ids \in SUBSET ListPlaces
  BY ReadKnown DEF Read
<1>3. popular' \in [{RemainingCap, SearchLimit} -> Cached]
  BY <1>1, <1>2, SearchKnown DEF Entry, Cached
<1>4. found \in SUBSET ListPlaces /\ (read[r].kind = "popular" => found = read[r].ids)
  BY <1>2, SearchKnown
<1> HIDE DEF found
<1>5. read[r].kind = "popular" /\ Cardinality(found) < RemainingCap =>
         read[r].steady \cap HasAll(read[r].tags) \subseteq found
  BY <1>1, <1>2, <1>4 DEF Fits
<1>6. Reply(r, found) \in Read /\ Fits(Reply(r, found), PlacesIn("shown"))
  BY <1>1, <1>4, <1>5, Answered
<1> QED
  BY <1>1, <1>3, <1>6, OneRead DEF ListInv, ListTypeOK

LEMMA DetailRead ==
    ASSUME ListInv, NEW r \in ListReads, NEW p \in ListPlaces, ReadDetail(r, p)
    PROVE  ListInv'
<1>1. /\ read[r].pc = "ids" /\ read[r].kind = "detail"
      /\ Become(r, IF p \in detail THEN [Reply(r, {p}) EXCEPT !.hit = TRUE]
                   ELSE IF status[p] = "shown" THEN Then(r, "store", {p})
                   ELSE Reply(r, {}))
      /\ UNCHANGED <<status, vectors, popular, hybrid, detail, changes>>
  BY DEF ReadDetail
<1>2. read[r] \in Read /\ Fits(read[r], PlacesIn("shown"))
  BY ReadKnown
<1>3. {p} \in SUBSET ListPlaces /\ {} \in SUBSET ListPlaces
  OBVIOUS
<1>4. CASE p \in detail
  <2> DEFINE q == [Reply(r, {p}) EXCEPT !.hit = TRUE]
  <2>1. q \in Read /\ Fits(q, PlacesIn("shown"))
    BY <1>1, <1>3, AnsweredFromCache
  <2>2. Become(r, q)
    BY <1>1, <1>4
  <2> HIDE DEF q
  <2> QED
    BY <1>1, <2>1, <2>2, OneRead DEF ListInv, ListTypeOK
<1>5. CASE p \notin detail /\ status[p] = "shown"
  <2> DEFINE q == Then(r, "store", {p})
  <2>1. Become(r, q)
    BY <1>1, <1>5
  <2>2. /\ q \in Read /\ q.pc = "store" /\ q.kind = "detail" /\ q.vec = read[r].vec
        /\ q.rest = read[r].rest /\ q.steady = read[r].steady
    BY <1>1, <1>2, <1>3, ThenKnown
  <2> HIDE DEF q
  <2>3. Fits(q, PlacesIn("shown"))
    BY <1>1, <1>2, <2>2 DEF Fits
  <2> QED
    BY <1>1, <2>1, <2>2, <2>3, OneRead DEF ListInv, ListTypeOK
<1>6. CASE p \notin detail /\ status[p] # "shown"
  <2>1. Become(r, Reply(r, {}))
    BY <1>1, <1>6
  <2>2. Reply(r, {}) \in Read /\ Fits(Reply(r, {}), PlacesIn("shown"))
    BY <1>1, <1>3, Answered
  <2> QED
    BY <1>1, <2>1, <2>2, OneRead DEF ListInv, ListTypeOK
<1> QED
  BY <1>4, <1>5, <1>6

LEMMA DetailStored ==
    ASSUME ListInv, NEW r \in ListReads, StoreDetail(r)
    PROVE  ListInv'
<1>1. /\ read[r].pc = "store" /\ read[r].kind = "detail"
      /\ detail' = detail \cup read[r].ids /\ Become(r, Reply(r, read[r].ids))
      /\ UNCHANGED <<status, vectors, popular, hybrid, changes>>
  BY DEF StoreDetail
<1>2. read[r].ids \in SUBSET ListPlaces /\ detail' \subseteq ListPlaces
  BY <1>1, ReadKnown DEF Read
<1>3. Reply(r, read[r].ids) \in Read /\ Fits(Reply(r, read[r].ids), PlacesIn("shown"))
  BY <1>1, <1>2, Answered
<1> QED
  BY <1>1, <1>2, <1>3, OneRead DEF ListInv, ListTypeOK

-----------------------------------------------------------------------------
(* Caches and places *)

\* An entry that expires disturbs no request.
LEMMA CacheExpires ==
    ASSUME ListInv, Expire
    PROVE  ListInv'
<1>1. /\ UNCHANGED <<status, vectors, read, changes>>
      /\ popular' \in [{RemainingCap, SearchLimit} -> Cached]
      /\ hybrid' \in [TagChoices -> Cached] /\ detail' \subseteq ListPlaces
  <2>1. NotCached \in Cached
    BY DEF NotCached, Cached
  <2>2. /\ popular \in [{RemainingCap, SearchLimit} -> Cached]
        /\ hybrid \in [TagChoices -> Cached] /\ detail \subseteq ListPlaces
    BY DEF ListInv, ListTypeOK
  <2>3. CASE \E n \in DOMAIN popular : ExpirePopular(n)
    BY <2>1, <2>2, <2>3 DEF ExpirePopular
  <2>4. CASE \E ts \in TagChoices : ExpireHybrid(ts)
    BY <2>1, <2>2, <2>4 DEF ExpireHybrid
  <2>5. CASE \E p \in ListPlaces : ExpireDetail(p)
    BY <2>2, <2>5 DEF ExpireDetail
  <2> QED
    BY <2>3, <2>4, <2>5 DEF Expire
<1>2. PlacesIn("shown")' = PlacesIn("shown") /\ Existing' = Existing
  BY <1>1 DEF PlacesIn, Existing
<1> QED
  BY <1>1, <1>2 DEF ListInv, ListTypeOK, AllFit

LEMMA OneMoreChange ==
    ASSUME ListInv, Change
    PROVE  changes' \in 0 .. MaxChanges
<1>1. changes \in 0 .. MaxChanges /\ MaxChanges \in Nat
  BY ListConstants DEF ListInv, ListTypeOK
<1> QED
  BY <1>1 DEF Change

LEMMA VectorChanges ==
    ASSUME ListInv, NEW p \in ListPlaces, ChangeVector(p)
    PROVE  ListInv'
<1>1. /\ Change /\ status[p] # "gone" /\ UNCHANGED <<status, popular, hybrid, detail, read>>
      /\ vectors' = IF p \in vectors THEN vectors \ {p} ELSE vectors \cup {p}
  BY DEF ChangeVector
<1>2. PlacesIn("shown")' = PlacesIn("shown") /\ Existing' = Existing /\ p \in Existing
  BY <1>1 DEF PlacesIn, Existing
<1>3. vectors' \subseteq Existing'
  BY <1>1, <1>2 DEF ListInv, ListTypeOK
<1>4. changes' \in 0 .. MaxChanges
  BY <1>1, OneMoreChange
<1> QED
  BY <1>1, <1>2, <1>3, <1>4 DEF ListInv, ListTypeOK, AllFit

LEMMA PlaceChanges ==
    ASSUME ListInv, NEW p \in ListPlaces, NEW s \in {"shown", "hidden", "gone"}, ChangePlace(p, s)
    PROVE  ListInv'
<1>1. /\ Change /\ status[p] # "gone" /\ UNCHANGED <<popular, hybrid, detail>>
      /\ status' = [status EXCEPT ![p] = s] /\ vectors' = VectorsLeft(p, s)
      /\ read' = [r \in ListReads |-> [read[r] EXCEPT !.steady = read[r].steady \ {p}]]
  BY DEF ChangePlace
<1>2. status \in [ListPlaces -> {"shown", "hidden", "gone"}] /\ vectors \subseteq Existing
  BY DEF ListInv, ListTypeOK
<1>3. status' \in [ListPlaces -> {"shown", "hidden", "gone"}]
  BY <1>1, <1>2
<1>4. PlacesIn("shown") \ {p} \subseteq PlacesIn("shown")'
  BY <1>1, <1>2 DEF PlacesIn
<1>5. vectors' \subseteq Existing'
  BY <1>1, <1>2 DEF VectorsLeft, Existing, PlacesIn
<1>6. changes' \in 0 .. MaxChanges
  BY <1>1, OneMoreChange
<1>7. ASSUME NEW r \in ListReads
      PROVE  read'[r] \in Read /\ Fits(read'[r], PlacesIn("shown")')
  <2> DEFINE q == read'[r]
  <2>1. read[r] \in Read /\ Fits(read[r], PlacesIn("shown"))
    BY ReadKnown
  <2>2. q = [read[r] EXCEPT !.steady = read[r].steady \ {p}]
    BY <1>1
  <2> HIDE DEF q
  <2>3. /\ q \in Read /\ q.pc = read[r].pc /\ q.kind = read[r].kind /\ q.tags = read[r].tags
        /\ q.tier = read[r].tier /\ q.ids = read[r].ids /\ q.vec = read[r].vec
        /\ q.rest = read[r].rest /\ q.hit = read[r].hit /\ q.steady = read[r].steady \ {p}
    BY <2>1, <2>2 DEF Read
  <2>4. Fits(q, PlacesIn("shown")')
    BY <1>4, <2>1, <2>3 DEF Fits
  <2> QED
    BY <2>3, <2>4 DEF q
<1>8. read' \in [ListReads -> Read]
  BY <1>1, <1>7
<1>9. ListTypeOK'
  BY <1>1, <1>3, <1>5, <1>6, <1>8 DEF ListInv, ListTypeOK
<1>10. AllFit'
  BY <1>7 DEF AllFit
<1> QED
  BY <1>9, <1>10 DEF ListInv

-----------------------------------------------------------------------------
(* Theorems *)

LEMMA ListInvNext == ListInv /\ [ListNext]_listVars => ListInv'
<1> SUFFICES ASSUME ListInv, [ListNext]_listVars PROVE ListInv'
  OBVIOUS
<1>1. ASSUME NEW r \in ListReads, NEW kind \in Kinds, NEW ts \in TagChoices,
             StartRead(r, kind, ts)
      PROVE  ListInv'
  BY <1>1, ReadStarts
<1>2. ASSUME NEW r \in ListReads, ReadStep(r) PROVE ListInv'
  <2>1. \/ ReadVectorIds(r) \/ LoadPlaces(r) \/ AppendRemaining(r) \/ HybridHit(r)
        \/ ReadCandidates(r) \/ StoreHybrid(r)
        => ListInv'
    BY VectorIdsRead, PlacesLoaded, RemainingAppended, HybridTaken, CandidatesRead, HybridStored
  <2>2. \/ PopularHit(r) \/ ReadPopular(r) \/ StorePopular(r)
        \/ (\E p \in ListPlaces : ReadDetail(r, p)) \/ StoreDetail(r) \/ EndRead(r)
        => ListInv'
    BY PopularTaken, PopularRead, PopularStored, DetailRead, DetailStored, ReadEnds
  <2> QED
    BY <1>2, <2>1, <2>2 DEF ReadStep
<1>3. CASE Expire
  BY <1>3, CacheExpires
<1>4. ASSUME NEW p \in ListPlaces,
             ChangeVector(p) \/ \E s \in {"shown", "hidden", "gone"} : ChangePlace(p, s)
      PROVE  ListInv'
  BY <1>4, VectorChanges, PlaceChanges
<1>5. CASE UNCHANGED listVars
  <2>1. PlacesIn("shown")' = PlacesIn("shown") /\ Existing' = Existing
    BY <1>5 DEF listVars, PlacesIn, Existing
  <2> QED
    BY <1>5, <2>1 DEF listVars, ListInv, ListTypeOK, AllFit
<1> QED
  BY <1>1, <1>2, <1>3, <1>4, <1>5 DEF ListNext

LEMMA ListInvSays == ListInv => NoneTwice /\ NoneMissed
<1> SUFFICES ASSUME ListInv PROVE NoneTwice /\ NoneMissed
  OBVIOUS
<1>1. \A r \in ListReads : read[r] \in Read /\ Fits(read[r], PlacesIn("shown"))
  BY ReadKnown
<1>2. NoneTwice
  BY <1>1 DEF NoneTwice, Fits
<1>3. NoneMissed
  <2>1. SUFFICES ASSUME NEW r \in ListReads, read[r].pc = "done", ~read[r].hit, Room(r)
                 PROVE  read[r].steady \cap Sought(r) \subseteq Listed(r)
    BY DEF NoneMissed
  <2>2. CASE read[r].kind = "feed"
    BY <1>1, <2>1, <2>2 DEF Fits, Room, Sought, Listed
  <2>3. CASE read[r].kind = "hybrid"
    BY <1>1, <2>1, <2>3 DEF Fits, Room, Sought, Listed
  <2>4. CASE read[r].kind = "popular"
    BY <1>1, <2>1, <2>4 DEF Fits, Room, Sought, Listed
  <2>5. CASE read[r].kind \notin {"feed", "hybrid", "popular"}
    BY <2>5 DEF Sought
  <2> QED
    BY <2>2, <2>3, <2>4, <2>5
<1> QED
  BY <1>2, <1>3

\* Every variable keeps its type: the caches hold ids that a query could have returned,
\* and a place whose row is gone has no vector.
THEOREM ListTypesKept == ListSpec => []ListTypeOK
<1>1. ListInit => ListInv
  BY ListInvInit
<1>2. ListInv /\ [ListNext]_listVars => ListInv'
  BY ListInvNext
<1>3. ListInv => ListTypeOK
  BY DEF ListInv
<1> QED
  BY <1>1, <1>2, <1>3, PTL DEF ListSpec

-----------------------------------------------------------------------------
(* Pages of a list: what the join leaves out is behind the page *)

LEMMA NearerOrders ==
    ASSUME NEW p, NEW q, NEW o, Nearer(p, q), Nearer(q, o)
    PROVE  Nearer(p, o)
<1>1. PICK i, j \in DOMAIN Nearest : i < j /\ Nearest[i] = p /\ Nearest[j] = q
  BY DEF Nearer
<1>2. PICK k, m \in DOMAIN Nearest : k < m /\ Nearest[k] = q /\ Nearest[m] = o
  BY DEF Nearer
<1>3. IsInjective(Nearest) /\ Nearest \in Seq(ToSet(Nearest))
  BY ListAssumption, Zenon
<1>4. j = k
  BY <1>1, <1>2, <1>3 DEF IsInjective
<1>5. \A n \in DOMAIN Nearest : n \in Int
  BY <1>3
<1>6. i < m
  BY <1>1, <1>2, <1>4, <1>5
<1> QED
  BY <1>1, <1>2, <1>6 DEF Nearer

LEMMA OverFetchKnown == OverFetch \in Nat \ {0}
<1>1. {RemainingCap, SearchLimit, CandidateLimit, OverFetch} \subseteq Nat \ {0}
  BY ListAssumption, Zenon
<1> QED
  BY <1>1

LEMMA MoreEach ==
    ASSUME NEW a \in Nat, NEW b \in Nat, NEW c \in Nat, b <= c
    PROVE  a * b <= a * c /\ a * b \in Nat /\ a * c \in Nat
<1> DEFINE d == c - b
<1>1. d \in Nat /\ c = b + d
  OBVIOUS
<1> HIDE DEF d
<1>2. a * (b + d) = a * b + a * d /\ a * b \in Nat /\ a * d \in Nat
  BY <1>1
<1> QED
  BY <1>1, <1>2

\* Whoever is before the end of a page has fewer rows before him than are fetched.
LEMMA FewerRows ==
    ASSUME NEW a \in Nat, NEW b \in Nat, a < b, NEW n \in Nat \ {0}
    PROVE  a * n < b * n /\ a * n \in Nat /\ b * n \in Nat
<1> DEFINE d == b - a - 1
<1>1. d \in Nat /\ b = a + (d + 1)
  OBVIOUS
<1> HIDE DEF d
<1>2. /\ (a + (d + 1)) * n = a * n + (d + 1) * n /\ (d + 1) * n = d * n + n
      /\ a * n \in Nat /\ d * n \in Nat
  BY <1>1
<1> QED
  BY <1>1, <1>2

\* The rows of some places are at most as many as the tags for each of them.
LEMMA RowsCounted ==
    ASSUME NEW S \in SUBSET ListPlaces, NEW ts, IsFiniteSet(ts),
           Cardinality(ts) <= OverFetch
    PROVE  /\ IsFiniteSet(S) /\ Cardinality(S) \in Nat
           /\ IsFiniteSet(JoinRows(S, ts)) /\ Cardinality(JoinRows(S, ts)) \in Nat
           /\ Cardinality(JoinRows(S, ts)) <= Cardinality(S) * OverFetch
<1>1. IsFiniteSet(S) /\ Cardinality(S) \in Nat /\ Cardinality(ts) \in Nat
  BY ListConstants, FS_Subset, FS_CardinalityType
<1>2. OverFetch \in Nat \ {0}
  BY OverFetchKnown
<1> DEFINE n == Cardinality(S)
           m == Cardinality(ts)
<1>3. 1 <= OverFetch /\ n * 1 = n
  BY <1>1, <1>2
<1>4. CASE ts = {}
  <2>1. JoinRows(S, ts) = S \X {"place"}
    BY <1>4 DEF JoinRows
  <2>2. IsFiniteSet({"place"}) /\ Cardinality({"place"}) = 1
    BY FS_Singleton
  <2>3. IsFiniteSet(S \X {"place"}) /\ Cardinality(S \X {"place"}) = n * 1
    BY <1>1, <2>2, FS_Product
  <2>4. n * 1 <= n * OverFetch
    BY <1>1, <1>2, <1>3, MoreEach
  <2> QED
    BY <1>1, <2>1, <2>3, <2>4, FS_CardinalityType
<1>5. CASE ts # {}
  <2>1. JoinRows(S, ts) \subseteq S \X ts
    BY <1>5 DEF JoinRows
  <2>2. IsFiniteSet(S \X ts) /\ Cardinality(S \X ts) = n * m
    BY <1>1, FS_Product
  <2>3. IsFiniteSet(JoinRows(S, ts)) /\ Cardinality(JoinRows(S, ts)) <= n * m
    BY <2>1, <2>2, FS_Subset
  <2>4. Cardinality(JoinRows(S, ts)) \in Nat
    BY <2>3, FS_CardinalityType
  <2>5. n * m <= n * OverFetch /\ n * m \in Nat /\ n * OverFetch \in Nat
    BY <1>1, <1>2, MoreEach
  <2> DEFINE all == n * m
             most == n * OverFetch
  <2> HIDE DEF all, most
  <2>6. Cardinality(JoinRows(S, ts)) <= most
    BY <2>3, <2>4, <2>5 DEF all, most
  <2> QED
    BY <1>1, <2>3, <2>4, <2>6 DEF most
<1> QED
  BY <1>4, <1>5

\* What is fetched is the beginning of what is found: it leaves out nobody nearer.
LEMMA FetchedFirst ==
    ASSUME NEW F \in SUBSET ListPlaces, NEW ts, IsFiniteSet(ts),
           Cardinality(ts) <= OverFetch, NEW n \in Nat
    PROVE  /\ Fetched(F, ts, n) \subseteq F
           /\ \A p \in Fetched(F, ts, n) : Before(Fetched(F, ts, n), p) = Before(F, p)
<1> DEFINE A == Fetched(F, ts, n)
           Ahead(p) == {q \in F : Nearer(q, p)}
<1>1. A \subseteq F /\ \A p \in F : p \in A <=> Cardinality(JoinRows(Ahead(p), ts)) < n
  BY DEF Fetched
<1>2. ASSUME NEW p \in A, NEW q \in F, Nearer(q, p) PROVE q \in A
  <2>1. /\ Ahead(q) \subseteq Ahead(p)
        /\ Ahead(p) \in SUBSET ListPlaces /\ Ahead(q) \in SUBSET ListPlaces
    BY <1>2, NearerOrders
  <2> DEFINE few == JoinRows(Ahead(q), ts)
             many == JoinRows(Ahead(p), ts)
  <2>2. Cardinality(many) < n
    BY <1>1
  <2> HIDE DEF Ahead
  <2>3. few \subseteq many
    BY <2>1 DEF JoinRows
  <2>4. IsFiniteSet(many) /\ Cardinality(many) \in Nat /\ Cardinality(few) \in Nat
    BY <2>1, RowsCounted
  <2> HIDE DEF few, many
  <2>5. Cardinality(few) <= Cardinality(many)
    BY <2>3, <2>4, FS_Subset
  <2>6. Cardinality(few) < n
    BY <2>2, <2>4, <2>5
  <2> QED
    BY <1>1, <2>6 DEF few
<1> HIDE DEF A
<1>3. ASSUME NEW p \in A PROVE Before(A, p) = Before(F, p)
  <2>1. {q \in A : Nearer(q, p)} = {q \in F : Nearer(q, p)}
    BY <1>1, <1>2
  <2> QED
    BY <2>1 DEF Before
<1> QED
  BY <1>1, <1>3 DEF A

\* All whose turn comes before the end of a page are fetched.
LEMMA FetchedEnough ==
    ASSUME NEW F \in SUBSET ListPlaces, NEW ts, IsFiniteSet(ts),
           Cardinality(ts) <= OverFetch, NEW n \in Nat, NEW p \in F, Before(F, p) < n
    PROVE  p \in Fetched(F, ts, n * OverFetch)
<1> DEFINE S == {q \in F : Nearer(q, p)}
           k == Cardinality(S)
           rows == Cardinality(JoinRows(S, ts))
<1>1. S \in SUBSET ListPlaces /\ Before(F, p) = k
  BY DEF Before
<1> HIDE DEF S
<1>2. k \in Nat /\ rows \in Nat /\ rows <= k * OverFetch
  BY <1>1, RowsCounted
<1>3. k < n
  BY <1>1
<1>4. k * OverFetch < n * OverFetch /\ k * OverFetch \in Nat /\ n * OverFetch \in Nat
  BY <1>2, <1>3, OverFetchKnown, FewerRows
<1> DEFINE some == k * OverFetch
           most == n * OverFetch
<1> HIDE DEF k, rows, some, most
<1>5. rows < most
  <2>1. rows <= some /\ some < most /\ some \in Nat /\ most \in Nat
    BY <1>2, <1>4 DEF some, most
  <2> QED
    BY <1>2, <2>1
<1> QED
  BY <1>5 DEF Fetched, rows, most, S

\* The pages are the slices of one list.
LEMMA PagesSliced ==
    ASSUME NEW ts, IsFiniteSet(ts), Cardinality(ts) <= OverFetch, NEW region,
           NEW set \in SUBSET ListPlaces, NEW from \in Nat, NEW size \in Nat
    PROVE  PageIds(set, ts, region, from, size) =
              Slice(Found(set, ts, region), from, from + size)
<1> DEFINE F == Found(set, ts, region)
           end == from + size
           A == Fetched(F, ts, end * OverFetch)
<1>1. F \in SUBSET ListPlaces /\ end \in Nat /\ end * OverFetch \in Nat
  <2>1. F \in SUBSET ListPlaces /\ end \in Nat
    BY DEF Found
  <2> QED
    BY <2>1, OverFetchKnown
<1>2. CASE ts \cup region = {}
  BY <1>2 DEF PageIds
<1>3. CASE ts \cup region # {}
  <2>1. PageIds(set, ts, region, from, size) = Slice(A, from, end)
    BY <1>3 DEF PageIds
  <2> HIDE DEF F, end
  <2>2. A \subseteq F /\ \A p \in A : Before(A, p) = Before(F, p)
    BY <1>1, FetchedFirst
  <2>3. \A p \in F : Before(F, p) < end => p \in A
    BY <1>1, FetchedEnough
  <2> HIDE DEF A
  <2>4. Slice(A, from, end) = Slice(F, from, end)
    BY <2>2, <2>3 DEF Slice
  <2> QED
    BY <2>1, <2>4 DEF F, end
<1> QED
  BY <1>2, <1>3

LEMMA PagesSay == PagesAreSlices
<1>1. SUFFICES ASSUME NEW ts \in SUBSET ListTags,
                      NEW region \in {{}} \cup {{t} : t \in ListTags},
                      NEW size \in 1..Len(Nearest), NEW nth \in 1..Len(Nearest),
                      Cardinality(ts) <= OverFetch
               PROVE  PageIds(Indexed, ts, region, (nth - 1) * size, size) =
                         Slice(Found(Indexed, ts, region), (nth - 1) * size, nth * size)
  BY DEF PagesAreSlices
<1>2. Indexed \in SUBSET ListPlaces
  BY DEF Indexed, PlacesIn
<1>3. IsFiniteSet(ts)
  <2>1. IsFiniteSet(ListTags)
    BY ListAssumption, Zenon
  <2> QED
    BY <2>1, FS_Subset
<1> DEFINE from == (nth - 1) * size
<1>4. from \in Nat /\ size \in Nat /\ nth * size = from + size
  <2>1. \A k \in Nat : k * size \in Nat /\ (k + 1) * size = k * size + size
    OBVIOUS
  <2>2. nth - 1 \in Nat /\ nth = (nth - 1) + 1
    OBVIOUS
  <2> QED
    BY <2>1, <2>2
<1> HIDE DEF from
<1>5. PageIds(Indexed, ts, region, from, size) =
         Slice(Found(Indexed, ts, region), from, from + size)
  BY <1>1, <1>2, <1>3, <1>4, PagesSliced
<1> QED
  BY <1>4, <1>5 DEF from

\* A list shows every place once, in one query or in several, on one page or on several:
\* none is listed twice, none is missed that is shown all the time (_append_remaining,
\* _get_places_hybrid, get_popular_places), and the pages are the slices of one list
\* (get_place_ids_sorted_by_vector), whatever vectors come and go.
THEOREM ListsAlwaysComplete == ListSpec => []ListsComplete
<1>1. ListInit => ListInv
  BY ListInvInit
<1>2. ListInv /\ [ListNext]_listVars => ListInv'
  BY ListInvNext
<1>3. ListInv => ListsComplete
  BY ListInvSays, PagesSay DEF ListsComplete
<1> QED
  BY <1>1, <1>2, <1>3, PTL DEF ListSpec

--------------------------------------------------------------------------------
(* The parts together *)

(***************************************************************************)
(* MCCatalog runs one module at a time and keeps the variables of the      *)
(* others as they are, so that each module sees its own behaviour with     *)
(* pauses in it.                                                           *)
(***************************************************************************)

\* Whichever module runs, the others stand still: every behaviour of the composition is one
\* of each module, so whatever is proved of a module holds of the composition.
THEOREM CatalogParts ==
    MCSpec => /\ TagSpec /\ ListSpec /\ RecordSpec /\ RouteSpec
              /\ SessionSpec /\ ProfileSpec /\ MarkSpec
<1>1. MCInit => /\ TagInit /\ ListInit /\ RecordInit /\ RouteInit
                /\ SessionInit /\ ProfileInit /\ MarkInit
  BY DEF MCInit
<1>2. [MCNext]_allVars => [TagNext]_tagVars
  BY DEF MCNext, Steps, allVars
<1>3. [MCNext]_allVars => [ListNext]_listVars
  BY DEF MCNext, Steps, allVars
<1>4. [MCNext]_allVars => [RecordNext]_recordVars
  BY DEF MCNext, Steps, allVars
<1>5. [MCNext]_allVars => [RouteNext]_routeVars
  BY DEF MCNext, Steps, allVars
<1>6. [MCNext]_allVars => [SessionNext]_sessionVars
  BY DEF MCNext, Steps, allVars
<1>7. [MCNext]_allVars => [ProfileNext]_profileVars
  BY DEF MCNext, Steps, allVars
<1>8. [MCNext]_allVars => [MarkNext]_markVars
  BY DEF MCNext, Steps, allVars
<1> QED
  BY <1>1, <1>2, <1>3, <1>4, <1>5, <1>6, <1>7, <1>8, PTL
  DEF MCSpec, TagSpec, ListSpec, RecordSpec, RouteSpec, SessionSpec, ProfileSpec, MarkSpec

\* Whichever module runs, no place gets a tag that is not seeded, nicknames differ, a vector
\* goes with its place, and a member marks a place once.
THEOREM CatalogTypesKept == MCSpec => []CatalogTypes
<1>1. /\ TagTypeOK /\ ListTypeOK /\ RecordTypeOK /\ RouteTypeOK
      /\ SessionTypeOK /\ ProfileTypeOK /\ MarkTypeOK
      => CatalogTypes
  BY DEF CatalogTypes
<1> QED
  BY <1>1, CatalogParts, TagTypesKept, ListTypesKept, RecordTypesKept, RouteTypesKept,
     SessionTypeCorrect, NicknamesDiffer, OneBookmark, PTL
================================================================================
