------------------------------- MODULE PlaceSync -------------------------------
(***************************************************************************)
(* Collecting places from the Korea Tourism API (place_sync.py): sync_all, *)
(* sync_area and sync_incremental, which walk through the pages of each    *)
(* content type and store the places one by one.                           *)
(*                                                                         *)
(* The source gives each content a modifiedtime and a showflag and changes *)
(* while a run is on its way.  The details of a content are abstracted to  *)
(* the version they belong to; calls fail or end the run (TourApiClient).  *)
(* Every change of a content at the source moves its modifiedtime on, a    *)
(* content keeps its type, and the lists keep their order.                 *)
(***************************************************************************)
EXTENDS Integers, FiniteSets

CONSTANTS
    Ids,           \* content ids; a positive number each, listed in their order
    Types,         \* content types; a positive number each, collected in their order
    TypeOf,        \* the type of each content
    Runs,          \* commands and tasks that may collect at the same time
    Rows,          \* num_of_rows
    PageLimits,    \* values of max_pages and pages; a large one stands for None
    MaxVersion,    \* bound: changes at the source
    MaxFailures    \* bound: failing calls and saves, and crashes of a run

ASSUME IdsAssumption == Ids \subseteq Nat \ {0} /\ IsFiniteSet(Ids)
ASSUME TypesAssumption ==
    Types \subseteq Nat \ {0} /\ IsFiniteSet(Types) /\ TypeOf \in [Ids -> Types]
ASSUME RowsAssumption == Rows \in Nat \ {0} /\ PageLimits \subseteq Nat \ {0}
ASSUME BoundsAssumption == MaxVersion \in Nat /\ MaxFailures \in Nat

VARIABLES
    source,     \* the contents at the source
    now,        \* its clock, which moves on with every change
    place,      \* the Place rows
    run,        \* what each run is doing
    failures

vars == <<source, now, place, run, failures>>

-----------------------------------------------------------------------------
(* Data *)

\* modifiedtime; zero stands for none.
Version == 0..MaxVersion

\* A content is not published yet, has showflag 0, or is shown with or without firstimage.
Content == [version : Version, state : {"new", "hidden", "bare", "pictured"}]

\* mtime is source_modified_at, data the version of the stored details.
Row == [exists : BOOLEAN, type : Types \cup {0}, mtime : Version, data : Version, active : BOOLEAN]
NoRow == [exists |-> FALSE, type |-> 0, mtime |-> 0, data |-> 0, active |-> FALSE]

\* sync_all with and without skip_existing, sync_area, sync_incremental.
Modes == {"all", "refresh", "area", "sync"}

\* An item of a list, as far as it is used.
Item == [id : Ids \cup {0}, version : Version, state : {"new", "hidden", "bare", "pictured"}]
NoItem == [id |-> 0, version |-> 0, state |-> "new"]

\* A run: the types it has still to begin, the type and the page it is at, the rows of
\* the type that it saw when it began it, the items of the page that are left, whether
\* the page was full, the item it works on, and the version of the details it fetched.
\* missing: history, contents listed when the type was begun that no page has shown.
RunState ==
    [pc : {"idle", "types", "page", "items", "details", "save", "done"}, mode : Modes,
     pages : PageLimits \cup {1}, types : SUBSET Types, type : Types \cup {0},
     page : 0..(Cardinality(Ids) + 1), existing : [Ids -> Version], items : SUBSET Item,
     full : BOOLEAN, item : Item, data : Version, missing : SUBSET Ids]
Idle == [pc |-> "idle", mode |-> "sync", pages |-> 1, types |-> {}, type |-> 0, page |-> 0,
         existing |-> [i \in Ids |-> 0], items |-> {}, full |-> FALSE,
         item |-> NoItem, data |-> 0, missing |-> {}]

Init ==
    /\ source = [i \in Ids |-> [version |-> 0, state |-> "new"]]
    /\ place = [i \in Ids |-> NoRow]
    /\ run = [r \in Runs |-> Idle]
    /\ now = 0 /\ failures = 0

-----------------------------------------------------------------------------
(* The source *)

Shown(state) == state \in {"bare", "pictured"}

\* areaBasedSyncList2 lists hidden contents too, areaBasedList2 only shown ones.
Listed(mode, type) ==
    {i \in Ids : /\ TypeOf[i] = type
                 /\ Shown(source[i].state) \/ (mode = "sync" /\ source[i].state = "hidden")}

Rank(i, ids) == Cardinality({j \in ids : j <= i})

Page(ids, n) == {i \in ids : (n - 1) * Rows < Rank(i, ids) /\ Rank(i, ids) <= n * Rows}

AsItem(i) == [id |-> i, version |-> source[i].version, state |-> source[i].state]

\* A content is published, edited, hidden or shown again.
Change(i) ==
    /\ now < MaxVersion /\ now' = now + 1
    /\ \E state \in {"hidden", "bare", "pictured"} :
          source' = [source EXCEPT ![i] = [version |-> now + 1, state |-> state]]
    /\ UNCHANGED <<place, run, failures>>

-----------------------------------------------------------------------------
(* A run *)

Fail == failures < MaxFailures /\ failures' = failures + 1

StartRun(r, mode, types, pages) ==
    /\ run[r].pc = "idle"
    /\ mode = "area" => Cardinality(types) = 1
    /\ mode # "area" => types = Types
    /\ run' = [run EXCEPT ![r] = [Idle EXCEPT !.pc = "types", !.mode = mode,
                                              !.types = types, !.pages = pages]]
    /\ UNCHANGED <<source, now, place, failures>>

\* The rows of the type are read once, before its first page.
Existing(type) ==
    [i \in Ids |-> IF place[i].exists /\ place[i].type = type THEN place[i].mtime ELSE 0]

BeginType(r) ==
    /\ run[r].pc = "types"
    /\ \E t \in run[r].types :
       /\ \A u \in run[r].types : t <= u
       /\ run' = [run EXCEPT ![r] =
                    [run[r] EXCEPT !.pc = "page", !.type = t, !.types = @ \ {t}, !.page = 1,
                              !.existing = Existing(t), !.missing = Listed(run[r].mode, t)]]
    /\ UNCHANGED <<source, now, place, failures>>

EndRun(r) ==
    /\ run[r].pc = "types" /\ run[r].types = {}
    /\ run' = [run EXCEPT ![r] = Idle]
    /\ UNCHANGED <<source, now, place, failures>>

\* An empty page ends the type.
FetchPage(r) ==
    LET ids == Page(Listed(run[r].mode, run[r].type), run[r].page) IN
    /\ run[r].pc = "page"
    /\ run' = [run EXCEPT ![r] =
                 IF ids = {} THEN [run[r] EXCEPT !.pc = "done"]
                 ELSE [run[r] EXCEPT !.pc = "items", !.items = {AsItem(i) : i \in ids},
                                !.full = (Cardinality(ids) = Rows), !.missing = @ \ ids]]
    /\ UNCHANGED <<source, now, place, failures>>

\* _safe_area_based_list: an error ends the type; sync_area has no such guard.
PageFails(r) ==
    /\ run[r].pc = "page" /\ Fail
    /\ run' = [run EXCEPT ![r] = IF run[r].mode = "area" THEN Idle ELSE [run[r] EXCEPT !.pc = "types"]]
    /\ UNCHANGED <<source, now, place>>

\* Mutated form of LastPage: a full page ends the type too.
AnyPageIsLast(r) == run[r].mode # "area"

LastPage(r) == run[r].mode # "area" /\ ~run[r].full

EndPage(r) ==
    /\ run[r].pc = "items" /\ run[r].items = {}
    /\ run' = [run EXCEPT ![r] =
                 IF LastPage(r) THEN [run[r] EXCEPT !.pc = "done"]
                 ELSE IF run[r].page >= run[r].pages THEN [run[r] EXCEPT !.pc = "types"]
                 ELSE [run[r] EXCEPT !.pc = "page", !.page = @ + 1]]
    /\ UNCHANGED <<source, now, place, failures>>

\* The type has been walked through to its end.
EndType(r) ==
    /\ run[r].pc = "done"
    /\ run' = [run EXCEPT ![r] = [run[r] EXCEPT !.pc = "types"]]
    /\ UNCHANGED <<source, now, place, failures>>

\* Mutated form of Wanted: an incremental run collects what is missing, and no more.
WantedMissing(r, item) ==
    run[r].mode \in {"refresh", "area"} \/ run[r].existing[item.id] = 0

\* Which items need their details: with skip_existing only rows that are missing, in an
\* incremental run those that are missing or older than the list says.
Wanted(r, item) ==
    \/ run[r].mode \in {"refresh", "area"}
    \/ run[r].mode = "all" /\ run[r].existing[item.id] = 0
    \/ run[r].mode = "sync" /\ item.version > run[r].existing[item.id]

\* showflag=0 deactivates a row the run knows of.
Deactivated(r, item) == item.state = "hidden" /\ run[r].existing[item.id] > 0

\* An item is left alone, deactivated at once, or its details are to be fetched.
TakeItem(r) ==
    /\ run[r].pc = "items"
    /\ \E item \in run[r].items :
       /\ \A other \in run[r].items : item.id <= other.id
       /\ run' = [run EXCEPT ![r] =
                    IF item.state = "pictured" /\ Wanted(r, item)
                    THEN [run[r] EXCEPT !.items = @ \ {item}, !.pc = "details", !.item = item]
                    ELSE [run[r] EXCEPT !.items = @ \ {item}]]
       /\ place' = IF Deactivated(r, item) THEN [place EXCEPT ![item.id].active = FALSE]
                   ELSE place
    /\ UNCHANGED <<source, now, failures>>

\* detail_common, detail_image and detail_intro.
FetchDetails(r) ==
    /\ run[r].pc = "details"
    /\ run' = [run EXCEPT ![r] = [run[r] EXCEPT !.pc = "save", !.data = source[run[r].item.id].version]]
    /\ UNCHANGED <<source, now, place, failures>>

\* The place is left for the next run.
SkipItem(r) ==
    /\ run[r].pc \in {"details", "save"} /\ Fail
    /\ run' = [run EXCEPT ![r] = [run[r] EXCEPT !.pc = "items", !.item = NoItem, !.data = 0]]
    /\ UNCHANGED <<source, now, place>>

\* Mutated form of Stored: the time of the save is taken for the list's.
StoredNow(r) ==
    [exists |-> TRUE, type |-> run[r].type, mtime |-> source[run[r].item.id].version,
     data |-> run[r].data, active |-> TRUE]

\* Mutated form of Stored: the row keeps its is_active.
StoredAsItWas(r) ==
    [exists |-> TRUE, type |-> run[r].type, mtime |-> run[r].item.version, data |-> run[r].data,
     active |-> place[run[r].item.id].exists => place[run[r].item.id].active]

\* build_place_defaults
Stored(r) ==
    [exists |-> TRUE, type |-> run[r].type, mtime |-> run[r].item.version,
     data |-> run[r].data, active |-> TRUE]

Save(r) ==
    /\ run[r].pc = "save"
    /\ place' = [place EXCEPT ![run[r].item.id] = Stored(r)]
    /\ run' = [run EXCEPT ![r] = [run[r] EXCEPT !.pc = "items", !.item = NoItem, !.data = 0]]
    /\ UNCHANGED <<source, now, failures>>

\* AllKeysExhaustedError, or a crash.
Abort(r) ==
    /\ run[r].pc # "idle" /\ Fail
    /\ run' = [run EXCEPT ![r] = Idle]
    /\ UNCHANGED <<source, now, place>>

-----------------------------------------------------------------------------
(* Specification *)

Step(r) ==
    \/ BeginType(r) \/ EndRun(r) \/ FetchPage(r) \/ EndPage(r) \/ EndType(r)
    \/ TakeItem(r) \/ FetchDetails(r) \/ Save(r)

Fault(r) == PageFails(r) \/ SkipItem(r) \/ Abort(r)

Start(r) == \E mode \in Modes, types \in {Types} \cup {{t} : t \in Types}, pages \in PageLimits :
                StartRun(r, mode, types, pages)

Next ==
    \/ \E i \in Ids : Change(i)
    \/ \E r \in Runs : Start(r) \/ Step(r) \/ Fault(r)

Spec == Init /\ [][Next]_vars

\* A run that has begun goes on, and the monthly task starts an unlimited incremental
\* run again and again, whatever other runs an operator starts.
MonthlyTask(r) == \E pages \in PageLimits : pages > Cardinality(Ids) /\ StartRun(r, "sync", Types, pages)

FairSpec == Spec /\ \A r \in Runs : WF_vars(Step(r)) /\ SF_vars(MonthlyTask(r))

-----------------------------------------------------------------------------
(* Properties *)

TypeOK ==
    /\ source \in [Ids -> Content]
    /\ place \in [Ids -> Row]
    /\ run \in [Runs -> RunState]
    /\ now \in Version /\ failures \in 0..MaxFailures

\* The stored modifiedtime is never newer than the stored details: a place whose details
\* are stale is always taken for changed by the next incremental run.
DetailsNotStale == \A i \in Ids : place[i].mtime <= place[i].data

\* A place that is shown at the source but inactive here will be collected again:
\* the source has a newer modifiedtime.
HiddenComesBack ==
    \A i \in Ids : place[i].exists /\ ~place[i].active /\ Shown(source[i].state)
                       => place[i].mtime < source[i].version

\* An incremental run that walks a type to its end has seen every content that was
\* listed when it began, although pages are fetched one by one.
AllSeen == \A r \in Runs : run[r].pc = "done" /\ run[r].mode = "sync" => run[r].missing = {}

\* Once the source and the failures have come to rest, incremental runs bring every row
\* into line: shown places with an image are active with current details, hidden ones
\* are inactive.
InLine(i) ==
    /\ source[i].state = "pictured" => place[i].active /\ place[i].data = source[i].version
    /\ source[i].state = "hidden" => ~place[i].active
Converges == <>[](\A i \in Ids : InLine(i))

-----------------------------------------------------------------------------
(* Inductive invariants *)

\* The items a run has still to deal with, the one it fetches details of included.
InHand(r) == run[r].pc \in {"details", "save"}
Pending(r) == run[r].items \cup {x \in {run[r].item} : InHand(r)}

\* A page that is not empty is one of the first Cardinality(Ids) pages.
PageBound == \A r \in Runs :
    /\ run[r].pc = "page" => run[r].page # 0
    /\ run[r].pc \in {"items", "details", "save"} => run[r].page \in 1..Cardinality(Ids)

ClockAhead == \A i \in Ids : source[i].version <= now

\* What a list said may be out of date, but never ahead of the source, and it is still
\* true as long as the modifiedtime is the same.
ListsTrue == \A r \in Runs : \A x \in Pending(r) :
    /\ x.id \in Ids /\ x.version <= source[x.id].version
    /\ x.version = source[x.id].version => x.state = source[x.id].state

\* The details that are about to be saved were fetched after the list.
DetailsAfterList == \A r \in Runs :
    run[r].pc = "save" => run[r].item.version <= run[r].data

DataInv == TypeOK /\ PageBound /\ ClockAhead /\ ListsTrue /\ DetailsAfterList /\ DetailsNotStale

\* A row never claims more than the source has said; one that is up to date is active.
RowsBehind == \A i \in Ids : place[i].exists =>
    /\ place[i].mtime <= source[i].version
    /\ place[i].mtime = source[i].version => place[i].active /\ Shown(source[i].state)

\* A page has one item for a content, and only items with an image are fetched.
OneItem == \A r \in Runs :
    /\ \A x, y \in Pending(r) : x.id = y.id => x = y
    /\ InHand(r) => run[r].item.state = "pictured" /\ run[r].item \notin run[r].items

\* A list that says hidden is newer than the row.
HiddenIsNews == \A r \in Runs : \A x \in run[r].items :
    x.state = "hidden" /\ place[x.id].exists => place[x.id].mtime < x.version

\* For one run at a time.
BackInv == DataInv /\ RowsBehind /\ OneItem /\ HiddenIsNews
=============================================================================
