---------------------------- MODULE PlaceSyncProofs ----------------------------
(***************************************************************************)
(* For any number of contents, types and page sizes: types and the page    *)
(* bound, that details are never older than the stored modifiedtime        *)
(* (however many runs overlap), that a hidden place comes back and rows    *)
(* only go forward (when there is one run at a time), and that a walk to   *)
(* the end of a type misses nothing.  A step of a run does one of six      *)
(* things to its items and to the rows; the invariants of the rows are     *)
(* proved of those.                                                        *)
(***************************************************************************)
EXTENDS PlaceSync, FiniteSetTheorems, TLAPS

USE IdsAssumption, TypesAssumption, RowsAssumption, BoundsAssumption

\* A run lets items go, or it deactivates a row for one, or lists a page, or takes an
\* item up, or has fetched its details, or saves it.
NotInHand(r) == run'[r].pc \notin {"details", "save"}
Drops(r) == NotInHand(r) /\ run'[r].items \subseteq run[r].items /\ place' = place
Deactivates(r) == \E x \in run[r].items :
    /\ x.state = "hidden" /\ run[r].pc = "items"
    /\ NotInHand(r) /\ run'[r].items \subseteq run[r].items
    /\ place' = [place EXCEPT ![x.id].active = FALSE]
Lists(r) == NotInHand(r) /\ run'[r].items \subseteq {AsItem(i) : i \in Ids} /\ place' = place
Takes(r) == \E x \in run[r].items :
    /\ x.state = "pictured" /\ run[r].pc = "items" /\ run'[r].pc = "details"
    /\ run'[r].item = x /\ run'[r].items = run[r].items \ {x}
    /\ place' = place
Fetches(r) ==
    /\ run[r].pc = "details" /\ run'[r].pc = "save"
    /\ run'[r].item = run[r].item /\ run'[r].items = run[r].items
    /\ run'[r].data = source[run[r].item.id].version
    /\ place' = place
Saves(r) ==
    /\ run[r].pc = "save" /\ NotInHand(r) /\ run'[r].items = run[r].items
    /\ place' = [place EXCEPT ![run[r].item.id] = Stored(r)]

Does(r) == Drops(r) \/ Deactivates(r) \/ Lists(r) \/ Takes(r) \/ Fetches(r) \/ Saves(r)

Paged(r) ==
    /\ run'[r].pc = "page" => run'[r].page # 0
    /\ run'[r].pc \in {"items", "details", "save"} => run'[r].page \in 1..Cardinality(Ids)

(* A page beyond the number of contents is empty. *)
LEMMA PageInRange ==
    ASSUME NEW ids \in SUBSET Ids, NEW n \in Nat \ {0}, NEW i \in Page(ids, n)
    PROVE  n \in 1..Cardinality(Ids)
<1>1. Cardinality(Ids) \in Nat
  BY FS_CardinalityType
<1>2. Rank(i, ids) \in Nat /\ Rank(i, ids) <= Cardinality(Ids)
  <2>1. {j \in ids : j <= i} \subseteq Ids
    OBVIOUS
  <2> QED BY <2>1, FS_Subset, FS_CardinalityType DEF Rank
<1>3. (n - 1) * Rows < Rank(i, ids)
  BY DEF Page
<1>4. n - 1 <= (n - 1) * Rows
  <2>1. ASSUME NEW a \in Nat, NEW b \in Nat PROVE a <= a * (b + 1)
    <3>1. a * (b + 1) = a * b + a /\ a * b \in Nat
      OBVIOUS
    <3> QED BY <3>1
  <2>2. n - 1 \in Nat /\ Rows - 1 \in Nat /\ Rows = (Rows - 1) + 1
    OBVIOUS
  <2> QED BY <2>1, <2>2
<1>5. (n - 1) * Rows \in Nat
  OBVIOUS
<1> QED BY <1>1, <1>2, <1>3, <1>4, <1>5

(* Replacing the state of one run. *)
LEMMA NewRun ==
    ASSUME TypeOK, NEW r \in Runs, NEW new \in RunState, run' = [run EXCEPT ![r] = new]
    PROVE  /\ run' \in [Runs -> RunState]
           /\ run'[r] = new
           /\ \A s \in Runs \ {r} : run'[s] = run[s]
BY DEF TypeOK

(* The state a run starts from. *)
LEMMA IdleType == Idle \in RunState /\ NoItem \in Item
<1>1. 0 \in Version /\ 0 \in 0..(Cardinality(Ids) + 1)
  BY FS_CardinalityType DEF Version
<1>2. NoItem \in Item
  BY <1>1 DEF NoItem, Item
<1> QED BY <1>1, <1>2 DEF Idle, RunState, Modes

(* What the source lists has the type of an item. *)
LEMMA ItemType == TypeOK => \A i \in Ids : AsItem(i) \in Item /\ AsItem(i).id = i
BY DEF TypeOK, Content, AsItem, Item

(* What one step of a run does, in those terms. *)
LEMMA StepEffect ==
    ASSUME DataInv, NEW r \in Runs, Start(r) \/ Step(r) \/ Fault(r)
    PROVE  /\ run' \in [Runs -> RunState]
           /\ \A s \in Runs \ {r} : run'[s] = run[s]
           /\ Does(r) /\ Paged(r)
           /\ UNCHANGED <<source, now>>
           /\ failures' \in 0..MaxFailures
<1> DEFINE Goal == /\ run' \in [Runs -> RunState]
                   /\ \A s \in Runs \ {r} : run'[s] = run[s]
                   /\ Does(r) /\ Paged(r)
<1>1. TypeOK /\ run[r] \in RunState /\ PageBound
  BY DEF DataInv, TypeOK
<1>2. UNCHANGED <<source, now>> /\ failures' \in 0..MaxFailures
  <2>1. Fail => failures' \in 0..MaxFailures
    BY <1>1 DEF TypeOK, Fail
  <2>2. CASE Start(r)
    BY <1>1, <2>2 DEF TypeOK, Start, StartRun
  <2>3. CASE Step(r)
    BY <1>1, <2>3 DEF TypeOK, Step, BeginType, EndRun, FetchPage, EndPage, EndType, TakeItem,
       FetchDetails, Save
  <2>4. CASE Fault(r)
    BY <2>1, <2>4 DEF Fault, PageFails, SkipItem, Abort
  <2> QED BY <2>2, <2>3, <2>4
<1> SUFFICES Goal
  BY <1>2
\* A new state of the run out of whose hands the items are, and which keeps or drops them.
<1>3. ASSUME NEW new \in RunState, run' = [run EXCEPT ![r] = new], place' = place,
             new.pc \notin {"details", "save"}, new.items \subseteq run[r].items,
             new.pc = "page" => new.page # 0, new.pc = "items" => new.page \in 1..Cardinality(Ids)
      PROVE  Goal
  BY <1>1, <1>3, NewRun DEF Does, Drops, NotInHand, Paged
<1>4. ASSUME NEW mode \in Modes, NEW types \in {Types} \cup {{t} : t \in Types}, NEW pages \in PageLimits,
             StartRun(r, mode, types, pages)
      PROVE  Goal
  <2> DEFINE new == [Idle EXCEPT !.pc = "types", !.mode = mode, !.types = types, !.pages = pages]
  <2>1. types \subseteq Types /\ Idle.items = {}
    BY DEF Idle
  <2>2. new \in RunState /\ new.pc = "types" /\ new.items = {}
    BY <2>1, IdleType DEF RunState
  <2>3. run' = [run EXCEPT ![r] = new] /\ place' = place
    BY <1>4 DEF StartRun
  <2> HIDE DEF new
  <2> QED BY <1>3, <2>2, <2>3
<1>5. CASE BeginType(r)
  <2>0. PICK t \in run[r].types :
             run' = [run EXCEPT ![r] =
                       [run[r] EXCEPT !.pc = "page", !.type = t, !.types = @ \ {t}, !.page = 1,
                                 !.existing = Existing(t), !.missing = Listed(run[r].mode, t)]]
    BY <1>5 DEF BeginType
  <2> DEFINE new == [run[r] EXCEPT !.pc = "page", !.type = t, !.types = @ \ {t}, !.page = 1,
                                   !.existing = Existing(t), !.missing = Listed(run[r].mode, t)]
  <2>1. Existing(t) \in [Ids -> Version] /\ Listed(run[r].mode, t) \subseteq Ids
    BY <1>1 DEF TypeOK, Existing, Listed, Row, Version
  <2>2. 1 \in 0..(Cardinality(Ids) + 1)
    BY FS_CardinalityType
  <2>3. new \in RunState /\ new.pc = "page" /\ new.page = 1 /\ new.items = run[r].items
    BY <1>1, <2>1, <2>2 DEF RunState
  <2>4. run' = [run EXCEPT ![r] = new] /\ place' = place
    BY <1>5, <2>0 DEF BeginType
  <2> HIDE DEF new
  <2>5. new.pc \notin {"details", "save"} /\ new.page # 0 /\ new.items \subseteq run[r].items
        /\ new.pc # "items"
    BY <2>3
  <2> QED BY <1>3, <2>3, <2>4, <2>5
<1>6. CASE EndRun(r) \/ Abort(r)
  <2>1. run' = [run EXCEPT ![r] = Idle] /\ place' = place
    BY <1>6 DEF EndRun, Abort
  <2>2. Idle.pc = "idle" /\ Idle.items = {}
    BY DEF Idle
  <2> QED BY <1>3, <2>1, <2>2, IdleType
<1>7. CASE FetchPage(r)
  <2> DEFINE ids == Page(Listed(run[r].mode, run[r].type), run[r].page)
             new == [run[r] EXCEPT !.pc = "items", !.items = {AsItem(i) : i \in ids},
                                   !.full = (Cardinality(ids) = Rows), !.missing = @ \ ids]
             none == [run[r] EXCEPT !.pc = "done"]
  <2>1. ids \subseteq Ids /\ Listed(run[r].mode, run[r].type) \subseteq Ids
    BY DEF Page, Listed
  <2>2. CASE ids = {}
    <3>1. none \in RunState /\ none.pc = "done" /\ none.items = run[r].items
      BY <1>1 DEF RunState
    <3>2. run' = [run EXCEPT ![r] = none] /\ place' = place
      BY <1>7, <2>2 DEF FetchPage
    <3> HIDE DEF none
    <3> QED BY <1>3, <3>1, <3>2
  <2>3. CASE ids # {}
    <3>1. {AsItem(i) : i \in ids} \subseteq Item
      BY <1>1, <2>1, ItemType
    <3>2. /\ new \in RunState /\ new.pc = "items" /\ new.page = run[r].page
          /\ new.items = {AsItem(i) : i \in ids}
      BY <1>1, <2>1, <3>1 DEF RunState
    <3>3. run' = [run EXCEPT ![r] = new] /\ place' = place
      BY <1>7, <2>3 DEF FetchPage
    <3>4. run[r].page \in 1..Cardinality(Ids)
      <4>1. run[r].page \in Nat \ {0}
        BY <1>1, <1>7 DEF FetchPage, PageBound, RunState
      <4> QED BY <2>1, <2>3, <4>1, PageInRange
    <3> HIDE DEF new
    <3>5. run'[r] = new /\ run' \in [Runs -> RunState] /\ \A s \in Runs \ {r} : run'[s] = run[s]
      BY <1>1, <3>2, <3>3, NewRun
    <3>6. new.items \subseteq {AsItem(i) : i \in Ids}
      BY <2>1, <3>2
    <3>7. Lists(r) /\ Paged(r)
      BY <3>2, <3>3, <3>4, <3>5, <3>6 DEF Lists, NotInHand, Paged
    <3> QED BY <3>5, <3>7 DEF Does
  <2> QED BY <2>2, <2>3
<1>8. CASE PageFails(r)
  <2> DEFINE new == [run[r] EXCEPT !.pc = "types"]
  <2>1. new \in RunState /\ new.pc = "types" /\ new.items = run[r].items
    BY <1>1 DEF RunState
  <2>2. Idle \in RunState /\ Idle.pc = "idle" /\ Idle.items = {}
    BY IdleType DEF Idle
  <2>3. /\ run' = [run EXCEPT ![r] = Idle] \/ run' = [run EXCEPT ![r] = new]
        /\ place' = place
    BY <1>8 DEF PageFails
  <2> HIDE DEF new
  <2> QED BY <1>3, <2>1, <2>2, <2>3
<1>9. CASE EndPage(r)
  <2> DEFINE done == [run[r] EXCEPT !.pc = "done"]
             types == [run[r] EXCEPT !.pc = "types"]
             next == [run[r] EXCEPT !.pc = "page", !.page = @ + 1]
  <2>1. run[r].page \in 1..Cardinality(Ids) /\ Cardinality(Ids) \in Nat
    BY <1>1, <1>9, FS_CardinalityType DEF EndPage, PageBound
  <2>2. run[r].page + 1 \in 0..(Cardinality(Ids) + 1) /\ run[r].page + 1 # 0
    BY <2>1
  <2>3. done \in RunState /\ done.pc = "done" /\ done.items = run[r].items
    BY <1>1 DEF RunState
  <2>4. types \in RunState /\ types.pc = "types" /\ types.items = run[r].items
    BY <1>1 DEF RunState
  <2>5. next \in RunState /\ next.pc = "page" /\ next.items = run[r].items /\ next.page # 0
    BY <1>1, <2>2 DEF RunState
  <2>6. /\ \/ run' = [run EXCEPT ![r] = done]
           \/ run' = [run EXCEPT ![r] = types]
           \/ run' = [run EXCEPT ![r] = next]
        /\ place' = place
    BY <1>9 DEF EndPage
  <2> HIDE DEF done, types, next
  <2> QED BY <1>3, <2>3, <2>4, <2>5, <2>6
<1>10. CASE EndType(r)
  <2> DEFINE new == [run[r] EXCEPT !.pc = "types"]
  <2>1. new \in RunState /\ new.pc = "types" /\ new.items = run[r].items
    BY <1>1 DEF RunState
  <2>2. run' = [run EXCEPT ![r] = new] /\ place' = place
    BY <1>10 DEF EndType
  <2> HIDE DEF new
  <2> QED BY <1>3, <2>1, <2>2
<1>11. CASE TakeItem(r)
  <2> PICK x \in run[r].items :
        /\ run' = [run EXCEPT ![r] =
                     IF x.state = "pictured" /\ Wanted(r, x)
                     THEN [run[r] EXCEPT !.items = @ \ {x}, !.pc = "details", !.item = x]
                     ELSE [run[r] EXCEPT !.items = @ \ {x}]]
        /\ place' = IF Deactivated(r, x) THEN [place EXCEPT ![x.id].active = FALSE]
                    ELSE place
    BY <1>11 DEF TakeItem
  <2> DEFINE taken == [run[r] EXCEPT !.items = @ \ {x}, !.pc = "details", !.item = x]
             left == [run[r] EXCEPT !.items = @ \ {x}]
  <2>1. run[r].pc = "items" /\ run[r].page \in 1..Cardinality(Ids)
    BY <1>1, <1>11 DEF TakeItem, PageBound
  <2>2. CASE x.state = "pictured" /\ Wanted(r, x)
    <3>1. /\ taken \in RunState /\ taken.pc = "details" /\ taken.item = x
          /\ taken.items = run[r].items \ {x} /\ taken.page = run[r].page
      BY <1>1 DEF RunState
    <3>2. run' = [run EXCEPT ![r] = taken] /\ place' = place
      BY <2>2 DEF Deactivated
    <3> HIDE DEF taken
    <3>3. run'[r] = taken /\ run' \in [Runs -> RunState] /\ \A s \in Runs \ {r} : run'[s] = run[s]
      BY <1>1, <3>1, <3>2, NewRun
    <3>4. Takes(r) /\ Paged(r)
      BY <2>1, <2>2, <3>1, <3>2, <3>3 DEF Takes, Paged
    <3> QED BY <3>3, <3>4 DEF Does
  <2>3. CASE ~(x.state = "pictured" /\ Wanted(r, x))
    <3>1. /\ left \in RunState /\ left.pc = "items" /\ left.page = run[r].page
          /\ left.items \subseteq run[r].items
      BY <1>1, <2>1 DEF RunState
    <3>2. run' = [run EXCEPT ![r] = left]
      BY <2>3
    <3> HIDE DEF left
    <3>3. CASE place' = place
      BY <1>3, <2>1, <3>1, <3>2, <3>3
    <3>4. CASE x.state = "hidden" /\ place' = [place EXCEPT ![x.id].active = FALSE]
      <4>1. run'[r] = left /\ run' \in [Runs -> RunState] /\ \A s \in Runs \ {r} : run'[s] = run[s]
        BY <1>1, <3>1, <3>2, NewRun
      <4>2. Deactivates(r) /\ Paged(r)
        BY <2>1, <3>1, <3>4, <4>1 DEF Deactivates, NotInHand, Paged
      <4> QED BY <4>1, <4>2 DEF Does
    <3> QED BY <3>3, <3>4 DEF Deactivated
  <2> QED BY <2>2, <2>3
<1>12. CASE FetchDetails(r)
  <2> DEFINE new == [run[r] EXCEPT !.pc = "save", !.data = source[run[r].item.id].version]
  <2>1. run[r].pc = "details" /\ run[r].page \in 1..Cardinality(Ids)
    BY <1>1, <1>12 DEF FetchDetails, PageBound
  <2>2. run[r].item.id \in Ids
    BY <2>1 DEF DataInv, ListsTrue, Pending, InHand
  <2>3. source[run[r].item.id].version \in Version
    BY <1>1, <2>2 DEF TypeOK, Content
  <2>4. /\ new \in RunState /\ new.pc = "save" /\ new.item = run[r].item
        /\ new.items = run[r].items /\ new.page = run[r].page
        /\ new.data = source[run[r].item.id].version
    BY <1>1, <2>3 DEF RunState
  <2>5. run' = [run EXCEPT ![r] = new] /\ place' = place
    BY <1>12 DEF FetchDetails
  <2> HIDE DEF new
  <2>6. run'[r] = new /\ run' \in [Runs -> RunState] /\ \A s \in Runs \ {r} : run'[s] = run[s]
    BY <1>1, <2>4, <2>5, NewRun
  <2>7. Fetches(r) /\ Paged(r)
    BY <2>1, <2>4, <2>5, <2>6 DEF Fetches, Paged
  <2> QED BY <2>6, <2>7 DEF Does
<1>13. CASE SkipItem(r) \/ Save(r)
  <2> DEFINE new == [run[r] EXCEPT !.pc = "items", !.item = NoItem, !.data = 0]
  <2>1. run[r].pc \in {"details", "save"} /\ run[r].page \in 1..Cardinality(Ids)
    BY <1>1, <1>13 DEF SkipItem, Save, PageBound
  <2>2. 0 \in Version
    BY DEF Version
  <2>3. new \in RunState /\ new.pc = "items" /\ new.items = run[r].items /\ new.page = run[r].page
    BY <1>1, <2>2, IdleType DEF RunState
  <2>4. run' = [run EXCEPT ![r] = new]
    BY <1>13 DEF SkipItem, Save
  <2> HIDE DEF new
  <2>5. CASE SkipItem(r)
    BY <1>3, <2>1, <2>3, <2>4, <2>5 DEF SkipItem
  <2>6. CASE Save(r)
    <3>1. run'[r] = new /\ run' \in [Runs -> RunState] /\ \A s \in Runs \ {r} : run'[s] = run[s]
      BY <1>1, <2>3, <2>4, NewRun
    <3>2. Saves(r) /\ Paged(r)
      BY <2>1, <2>3, <2>6, <3>1 DEF Save, Saves, NotInHand, Paged
    <3> QED BY <3>1, <3>2 DEF Does
  <2> QED BY <1>13, <2>5, <2>6
<1> QED BY <1>4, <1>5, <1>6, <1>7, <1>8, <1>9, <1>10, <1>11, <1>12, <1>13 DEF Start, Step, Fault

-----------------------------------------------------------------------------
(* Types and the age of details, for any number of runs *)

(* What a run has still to deal with was pending before, or has just been listed. *)
LEMMA PendingEffect ==
    ASSUME DataInv, NEW r \in Runs, Does(r), NEW x \in Pending(r)'
    PROVE  x \in Pending(r) \/ \E i \in Ids : x = AsItem(i)
<1>1. CASE Drops(r)
  BY <1>1 DEF Drops, NotInHand, Pending, InHand
<1>2. CASE Deactivates(r)
  BY <1>2 DEF Deactivates, NotInHand, Pending, InHand
<1>3. CASE Lists(r)
  BY <1>3 DEF Lists, NotInHand, Pending, InHand
<1>4. CASE Takes(r)
  BY <1>4 DEF Takes, Pending, InHand
<1>5. CASE Fetches(r)
  BY <1>5 DEF Fetches, Pending, InHand
<1>6. CASE Saves(r)
  BY <1>6 DEF Saves, NotInHand, Pending, InHand
<1> QED BY <1>1, <1>2, <1>3, <1>4, <1>5, <1>6 DEF Does

(* A row stays, is deactivated, or is stored anew. *)
LEMMA PlaceEffect ==
    ASSUME DataInv, NEW r \in Runs, Does(r)
    PROVE  /\ place' \in [Ids -> Row]
           /\ \A i \in Ids :
                \/ place'[i] = place[i]
                \/ /\ \E x \in run[r].items : x.id = i /\ x.state = "hidden"
                   /\ place'[i].exists = place[i].exists /\ place'[i].mtime = place[i].mtime
                   /\ place'[i].data = place[i].data
                \/ /\ run[r].pc = "save" /\ run[r].item.id = i /\ place'[i] = Stored(r)
<1>1. place \in [Ids -> Row] /\ run[r] \in RunState
  BY DEF DataInv, TypeOK
<1>2. CASE place' = place
  BY <1>1, <1>2
<1>3. CASE Deactivates(r)
  <2>1. PICK x \in run[r].items : x.state = "hidden" /\ place' = [place EXCEPT ![x.id].active = FALSE]
    BY <1>3 DEF Deactivates
  <2>2. x.id \in Ids
    BY DEF DataInv, ListsTrue, Pending
  <2>3. place[x.id] \in Row
    BY <1>1, <2>2
  <2> DEFINE off == [place[x.id] EXCEPT !.active = FALSE]
  <2>4. /\ off \in Row /\ off.exists = place[x.id].exists /\ off.mtime = place[x.id].mtime
        /\ off.data = place[x.id].data
    BY <2>3 DEF Row
  <2>5. place' = [place EXCEPT ![x.id] = off]
    BY <2>1
  <2> HIDE DEF off
  <2> QED BY <1>1, <2>1, <2>2, <2>4, <2>5
<1>4. CASE Saves(r)
  <2>1. run[r].pc = "save" /\ place' = [place EXCEPT ![run[r].item.id] = Stored(r)]
    BY <1>4 DEF Saves
  <2>2. run[r].item.id \in Ids
    BY <2>1 DEF DataInv, ListsTrue, Pending, InHand
  <2>3. Stored(r) \in Row
    BY <1>1 DEF Stored, Row, RunState, Item
  <2> QED BY <1>1, <2>1, <2>2, <2>3
<1> QED BY <1>2, <1>3, <1>4 DEF Does, Drops, Lists, Takes, Fetches

(* The steps of Next. *)
LEMMA NextCases ==
    [Next]_vars => \/ UNCHANGED vars \/ \E i \in Ids : Change(i)
                   \/ \E r \in Runs : Start(r) \/ Step(r) \/ Fault(r)
BY DEF Next

(* A change at the source leaves the runs and the rows behind. *)
LEMMA ChangeEffect ==
    ASSUME TypeOK, NEW i \in Ids, Change(i)
    PROVE  /\ UNCHANGED <<run, place, failures>>
           /\ now' = now + 1 /\ now' \in Version
           /\ source' \in [Ids -> Content]
           /\ source'[i].version = now + 1
           /\ \A j \in Ids \ {i} : source'[j] = source[j]
<1>1. PICK state \in {"hidden", "bare", "pictured"} :
          source' = [source EXCEPT ![i] = [version |-> now + 1, state |-> state]]
  BY DEF Change
<1>2. now' = now + 1 /\ now' \in Version /\ now + 1 \in Version /\ UNCHANGED <<run, place, failures>>
  BY DEF Change, TypeOK, Version
<1> DEFINE new == [version |-> now + 1, state |-> state]
<1>3. new \in Content /\ new.version = now + 1
  BY <1>2 DEF Content
<1>4. source' = [source EXCEPT ![i] = new]
  BY <1>1
<1> HIDE DEF new
<1> QED BY <1>2, <1>3, <1>4 DEF TypeOK

(* Initially there is nothing. *)
LEMMA DataInit == Init => DataInv
<1> SUFFICES ASSUME Init PROVE DataInv
  OBVIOUS
<1>1. 0 \in Version /\ 0 \in 0..MaxFailures
  BY DEF Version
<1>2. TypeOK
  <2>1. source \in [Ids -> Content]
    BY <1>1 DEF Init, Content
  <2>2. place \in [Ids -> Row]
    BY <1>1 DEF Init, NoRow, Row
  <2> QED BY <1>1, <2>1, <2>2, IdleType DEF Init, TypeOK
<1>3. \A r \in Runs : run[r].pc = "idle" /\ run[r].items = {}
  BY DEF Init, Idle
<1>4. PageBound /\ ListsTrue /\ DetailsAfterList
  BY <1>3 DEF PageBound, ListsTrue, DetailsAfterList, Pending, InHand
<1>5. ClockAhead
  BY DEF Init, ClockAhead
<1>6. DetailsNotStale
  BY DEF Init, NoRow, DetailsNotStale
<1> QED BY <1>2, <1>4, <1>5, <1>6 DEF DataInv

(* Every step keeps the types, and no row's details get older than its modifiedtime. *)
LEMMA DataStep == DataInv /\ [Next]_vars => DataInv'
<1> SUFFICES ASSUME DataInv, [Next]_vars PROVE DataInv'
  OBVIOUS
<1>1. CASE UNCHANGED vars
  BY <1>1 DEF vars, DataInv, TypeOK, PageBound, ClockAhead, ListsTrue, DetailsAfterList,
     DetailsNotStale, Pending, InHand
<1>2. ASSUME NEW i \in Ids, Change(i) PROVE DataInv'
  <2>1. /\ UNCHANGED <<run, place, failures>> /\ now' = now + 1 /\ now' \in Version
        /\ source' \in [Ids -> Content] /\ source'[i].version = now + 1
        /\ \A j \in Ids \ {i} : source'[j] = source[j]
    BY <1>2, ChangeEffect DEF DataInv
  <2>2. now \in Nat /\ \A j \in Ids : source[j].version \in Nat /\ source[j].version <= now
    BY DEF DataInv, ClockAhead, TypeOK, Content, Version
  <2>3. TypeOK' /\ PageBound' /\ DetailsAfterList' /\ DetailsNotStale'
    BY <2>1 DEF DataInv, TypeOK, PageBound, DetailsAfterList, DetailsNotStale
  <2>4. ClockAhead'
    <3> SUFFICES ASSUME NEW j \in Ids PROVE source'[j].version <= now + 1
      BY <2>1 DEF ClockAhead
    <3>1. CASE j = i
      BY <2>1, <2>2, <3>1
    <3>2. CASE j # i
      BY <2>1, <2>2, <3>2
    <3> QED BY <3>1, <3>2
  <2>5. ListsTrue'
    <3> SUFFICES ASSUME NEW r \in Runs, NEW x \in Pending(r)
                 PROVE  /\ x.id \in Ids /\ x.version <= source'[x.id].version
                        /\ x.version = source'[x.id].version => x.state = source'[x.id].state
      BY <2>1 DEF ListsTrue, Pending, InHand
    <3>1. /\ x.id \in Ids /\ x.version <= source[x.id].version
          /\ x.version = source[x.id].version => x.state = source[x.id].state
      BY DEF DataInv, ListsTrue
    <3>2. x.version \in Nat
      BY DEF DataInv, TypeOK, Pending, RunState, Item, Version
    <3>3. CASE x.id = i
      BY <2>1, <2>2, <3>1, <3>2, <3>3
    <3>4. CASE x.id # i
      BY <2>1, <3>1, <3>4
    <3> QED BY <3>3, <3>4
  <2> QED BY <2>3, <2>4, <2>5 DEF DataInv
<1>3. ASSUME NEW r \in Runs, Start(r) \/ Step(r) \/ Fault(r) PROVE DataInv'
  <2>1. /\ run' \in [Runs -> RunState] /\ \A s \in Runs \ {r} : run'[s] = run[s]
        /\ Does(r) /\ Paged(r) /\ UNCHANGED <<source, now>> /\ failures' \in 0..MaxFailures
    BY <1>3, StepEffect
  <2>2. place' \in [Ids -> Row]
    BY <2>1, PlaceEffect
  <2>3. TypeOK' /\ ClockAhead'
    BY <2>1, <2>2 DEF DataInv, TypeOK, ClockAhead
  <2>4. PageBound'
    BY <2>1 DEF DataInv, PageBound, Paged
  <2>5. ListsTrue'
    <3> SUFFICES ASSUME NEW s \in Runs, NEW x \in Pending(s)'
                 PROVE  /\ x.id \in Ids /\ x.version <= source[x.id].version
                        /\ x.version = source[x.id].version => x.state = source[x.id].state
      BY <2>1 DEF ListsTrue
    <3>1. CASE x \in Pending(s)
      BY <3>1 DEF DataInv, ListsTrue
    <3>2. ASSUME NEW i \in Ids, x = AsItem(i)
          PROVE  x.id = i /\ x.version = source[i].version /\ x.state = source[i].state
                 /\ source[i].version <= source[i].version
      BY <3>2 DEF AsItem, DataInv, TypeOK, Content, Version
    <3>3. x \in Pending(s) \/ \E i \in Ids : x = AsItem(i)
      <4>1. CASE s = r
        BY <2>1, <4>1, PendingEffect
      <4>2. CASE s # r
        BY <2>1, <4>2 DEF Pending, InHand
      <4> QED BY <4>1, <4>2
    <3> QED BY <3>1, <3>2, <3>3
  <2>6. DetailsAfterList'
    <3>1. ASSUME run'[r].pc = "save" PROVE run'[r].item.version <= run'[r].data
      <4>1. Fetches(r)
        BY <2>1, <3>1 DEF Does, Drops, Deactivates, Lists, Takes, Saves, NotInHand
      <4>2. run[r].item.version <= source[run[r].item.id].version
        BY <4>1 DEF Fetches, DataInv, ListsTrue, Pending, InHand
      <4> QED BY <4>1, <4>2 DEF Fetches
    <3> QED BY <2>1, <3>1 DEF DataInv, DetailsAfterList
  <2>7. DetailsNotStale'
    <3> SUFFICES ASSUME NEW i \in Ids PROVE place'[i].mtime <= place'[i].data
      BY DEF DetailsNotStale
    <3>1. place[i].mtime <= place[i].data
      BY DEF DataInv, DetailsNotStale
    <3>2. run[r].pc = "save" => Stored(r).mtime <= Stored(r).data
      BY DEF DataInv, DetailsAfterList, Stored
    <3>3. \/ place'[i] = place[i]
          \/ place'[i].mtime = place[i].mtime /\ place'[i].data = place[i].data
          \/ run[r].pc = "save" /\ place'[i] = Stored(r)
      BY <2>1, PlaceEffect, Zenon
    <3> QED BY <3>1, <3>2, <3>3
  <2> QED BY <2>3, <2>4, <2>5, <2>6, <2>7 DEF DataInv
<1> QED BY <1>1, <1>2, <1>3, NextCases

(* Every variable keeps its type; a run never goes further than one page beyond the *)
(* number of contents. *)
THEOREM TypeCorrect == Spec => []TypeOK
<1>1. DataInv => TypeOK
  BY DEF DataInv
<1> QED BY <1>1, DataInit, DataStep, PTL DEF Spec

(* However runs overlap and the source changes under them, a stored modifiedtime is *)
(* never newer than the stored details. *)
THEOREM DetailsCurrent == Spec => []DetailsNotStale
<1>1. DataInv => DetailsNotStale
  BY DEF DataInv
<1> QED BY <1>1, DataInit, DataStep, PTL DEF Spec

-----------------------------------------------------------------------------
(* Hidden places come back, when there is one run at a time *)

(* A list that is taken up still says what is newer than the row: in the meantime only *)
(* the run itself has stored anything, and each content is on its page once. *)
LEMMA BackStep ==
    ASSUME \A r, s \in Runs : r = s, BackInv, [Next]_vars
    PROVE  RowsBehind' /\ OneItem' /\ HiddenIsNews'
<1> USE DEF BackInv
<1>0. /\ \A i \in Ids : source[i].version \in Nat /\ source[i].version <= now
      /\ now \in Nat /\ run \in [Runs -> RunState]
      /\ \A i \in Ids : place[i].mtime \in Nat
      /\ \A r \in Runs : \A x \in Pending(r) : x.version \in Nat
  BY DEF DataInv, TypeOK, ClockAhead, Content, Row, Version, Pending, RunState, Item
<1>1. CASE UNCHANGED vars
  BY <1>1 DEF vars, RowsBehind, OneItem, HiddenIsNews, Pending, InHand
<1>2. ASSUME NEW i \in Ids, Change(i) PROVE RowsBehind' /\ OneItem' /\ HiddenIsNews'
  <2>1. /\ UNCHANGED <<run, place>> /\ source'[i].version = now + 1
        /\ \A j \in Ids \ {i} : source'[j] = source[j]
    BY <1>2, ChangeEffect DEF DataInv
  <2>2. OneItem' /\ HiddenIsNews'
    BY <2>1 DEF OneItem, HiddenIsNews, Pending, InHand
  <2>3. RowsBehind'
    <3> SUFFICES ASSUME NEW j \in Ids, place[j].exists
                 PROVE  /\ place[j].mtime <= source'[j].version
                        /\ place[j].mtime = source'[j].version
                               => place[j].active /\ Shown(source'[j].state)
      BY <2>1 DEF RowsBehind
    <3>1. /\ place[j].mtime <= source[j].version
          /\ place[j].mtime = source[j].version => place[j].active /\ Shown(source[j].state)
      BY DEF RowsBehind
    <3>2. CASE j = i
      BY <1>0, <2>1, <3>1, <3>2
    <3>3. CASE j # i
      BY <2>1, <3>1, <3>3
    <3> QED BY <3>2, <3>3
  <2> QED BY <2>2, <2>3
<1>3. ASSUME NEW r \in Runs, Start(r) \/ Step(r) \/ Fault(r)
      PROVE  RowsBehind' /\ OneItem' /\ HiddenIsNews'
  <2>1. Does(r) /\ UNCHANGED source /\ run' \in [Runs -> RunState]
    BY <1>3, StepEffect
  <2>2. \A s \in Runs : s = r
    OBVIOUS
  <2>3. \A i \in Ids :
           \/ place'[i] = place[i]
           \/ /\ \E x \in run[r].items : x.id = i /\ x.state = "hidden"
              /\ place'[i].exists = place[i].exists /\ place'[i].mtime = place[i].mtime
           \/ run[r].pc = "save" /\ run[r].item.id = i /\ place'[i] = Stored(r)
    BY <2>1, PlaceEffect
  <2>4. RowsBehind'
    <3> SUFFICES ASSUME NEW i \in Ids, place'[i].exists
                 PROVE  /\ place'[i].mtime <= source[i].version
                        /\ place'[i].mtime = source[i].version
                               => place'[i].active /\ Shown(source[i].state)
      BY <2>1 DEF RowsBehind
    <3>1. CASE place'[i] = place[i]
      BY <3>1 DEF RowsBehind
    <3>2. ASSUME NEW x \in run[r].items, x.id = i, x.state = "hidden",
                 place'[i].exists = place[i].exists, place'[i].mtime = place[i].mtime
          PROVE  place'[i].mtime < source[i].version
      <4>1. place[i].mtime < x.version
        BY <3>2 DEF HiddenIsNews
      <4>2. x \in Pending(r) /\ x.version <= source[i].version
        BY <3>2 DEF Pending, DataInv, ListsTrue
      <4> QED BY <1>0, <3>2, <4>1, <4>2
    <3>3. CASE run[r].pc = "save" /\ run[r].item.id = i /\ place'[i] = Stored(r)
      <4>1. run[r].item \in Pending(r) /\ run[r].item.state = "pictured"
        BY <3>3 DEF Pending, InHand, OneItem
      <4>2. /\ run[r].item.version <= source[i].version
            /\ run[r].item.version = source[i].version => source[i].state = "pictured"
        BY <3>3, <4>1 DEF DataInv, ListsTrue
      <4>3. place'[i].mtime = run[r].item.version /\ place'[i].active
        BY <3>3 DEF Stored
      <4> QED BY <4>2, <4>3 DEF Shown
    <3>4. CASE place'[i].mtime < source[i].version
      BY <1>0, <2>3, <3>4 DEF Stored, DataInv, TypeOK, RunState, Item, Version
    <3> QED BY <2>3, <3>1, <3>2, <3>3, <3>4
  <2>5. OneItem'
    <3>1. \A i, j \in Ids : AsItem(i).id = AsItem(j).id => i = j
      BY DEF AsItem
    <3>2. CASE Drops(r) \/ Deactivates(r)
      BY <2>2, <3>2 DEF Drops, Deactivates, NotInHand, OneItem, Pending, InHand
    <3>3. CASE Lists(r)
      BY <2>2, <3>1, <3>3 DEF Lists, NotInHand, OneItem, Pending, InHand
    <3>4. CASE Takes(r)
      BY <2>2, <3>4 DEF Takes, OneItem, Pending, InHand
    <3>5. CASE Fetches(r)
      BY <2>2, <3>5 DEF Fetches, OneItem, Pending, InHand
    <3>6. CASE Saves(r)
      BY <2>2, <3>6 DEF Saves, NotInHand, OneItem, Pending, InHand
    <3> QED BY <2>1, <3>2, <3>3, <3>4, <3>5, <3>6 DEF Does
  <2>6. HiddenIsNews'
    <3> SUFFICES ASSUME NEW x \in run'[r].items, x.state = "hidden", place'[x.id].exists
                 PROVE  place'[x.id].mtime < x.version
      BY <2>2 DEF HiddenIsNews
    <3>1. CASE Lists(r)
      <4>1. PICK i \in Ids : x = AsItem(i)
        BY <3>1 DEF Lists
      <4>2. x.id = i /\ x.version = source[i].version /\ source[i].state = "hidden"
        BY <4>1 DEF AsItem
      <4>3. place[i].exists /\ place'[i].mtime = place[i].mtime
        BY <3>1, <4>2 DEF Lists
      <4>4. place[i].mtime <= source[i].version /\ place[i].mtime # source[i].version
        BY <4>2, <4>3 DEF RowsBehind, Shown
      <4> QED BY <1>0, <4>2, <4>3, <4>4
    <3>2. CASE ~Lists(r)
      <4>1. x \in run[r].items
        BY <2>1, <3>2 DEF Does, Drops, Deactivates, Takes, Fetches, Saves
      <4>2. x \in Pending(r) /\ x.id \in Ids
        BY <4>1 DEF Pending, DataInv, ListsTrue
      <4>3. ~(run[r].pc = "save" /\ run[r].item.id = x.id)
        BY <4>1, <4>2 DEF OneItem, Pending, InHand
      <4>4. place'[x.id].exists = place[x.id].exists /\ place'[x.id].mtime = place[x.id].mtime
        BY <2>3, <4>2, <4>3
      <4> QED BY <4>1, <4>4 DEF HiddenIsNews
    <3> QED BY <3>1, <3>2
  <2> QED BY <2>4, <2>5, <2>6
<1> QED BY <1>1, <1>2, <1>3, NextCases

(* At the start there is neither a row nor an item. *)
LEMMA BackInit == Init => BackInv
<1> SUFFICES ASSUME Init PROVE BackInv
  OBVIOUS
<1>1. \A r \in Runs : run[r].pc = "idle" /\ run[r].items = {}
  BY DEF Init, Idle
<1>2. OneItem /\ HiddenIsNews
  BY <1>1 DEF OneItem, HiddenIsNews, Pending, InHand
<1>3. RowsBehind
  BY DEF Init, NoRow, RowsBehind
<1> QED BY <1>2, <1>3, DataInit DEF BackInv

(* When no two runs overlap, a place that is inactive here and shown at the source is *)
(* older here than there, so that the next incremental run collects it again. *)
THEOREM ComesBack ==
    ASSUME \A r, s \in Runs : r = s
    PROVE  Spec => []HiddenComesBack
<1>1. BackInv /\ [Next]_vars => BackInv'
  BY DataStep, BackStep DEF BackInv
<1>2. BackInv => HiddenComesBack
  <2> SUFFICES ASSUME BackInv, NEW i \in Ids, place[i].exists, ~place[i].active
               PROVE  place[i].mtime < source[i].version
    BY DEF HiddenComesBack
  <2>1. place[i].mtime <= source[i].version /\ place[i].mtime # source[i].version
    BY DEF BackInv, RowsBehind
  <2>2. place[i].mtime \in Nat /\ source[i].version \in Nat
    BY DEF BackInv, DataInv, TypeOK, Content, Row, Version
  <2> QED BY <2>1, <2>2
<1> QED BY <1>1, <1>2, BackInit, PTL DEF Spec

-----------------------------------------------------------------------------
(* Rows only go forward, when there is one run at a time *)

\* Details are never newer than the source; a list, and the details fetched for one of its
\* items, never older than the row they are for.
DetailsBehind == \A i \in Ids : place[i].data <= source[i].version
ListsAhead == \A r \in Runs : \A x \in Pending(r) :
    place[x.id].exists => place[x.id].mtime <= x.version
DetailsBetween == \A r \in Runs : run[r].pc = "save" =>
    /\ place[run[r].item.id].data <= run[r].data
    /\ run[r].data <= source[run[r].item.id].version

ForwardInv == BackInv /\ DetailsBehind /\ ListsAhead /\ DetailsBetween

RowsGoForward == \A i \in Ids : place[i].exists =>
    /\ place'[i].exists
    /\ place[i].mtime <= place'[i].mtime /\ place[i].data <= place'[i].data

(* Only the run itself stores rows meanwhile, and those of other contents. *)
LEMMA ForwardStep ==
    ASSUME \A r, s \in Runs : r = s, ForwardInv, [Next]_vars
    PROVE  DetailsBehind' /\ ListsAhead' /\ DetailsBetween' /\ RowsGoForward
<1> USE DEF ForwardInv
<1>1. /\ \A i \in Ids : source[i].version \in Nat /\ place[i].mtime \in Nat /\ place[i].data \in Nat
      /\ \A i \in Ids : source[i].version <= now
      /\ now \in Nat /\ run \in [Runs -> RunState] /\ DataInv
      /\ \A r \in Runs : run[r].data \in Nat /\ \A x \in Pending(r) : x.version \in Nat
  BY DEF BackInv, DataInv, TypeOK, ClockAhead, Content, Row, Version, Pending, RunState, Item
<1>2. \A r \in Runs : \A x \in Pending(r) : x.id \in Ids /\ x.version <= source[x.id].version
  BY <1>1 DEF DataInv, ListsTrue
<1>3. CASE UNCHANGED vars
  BY <1>1, <1>3
  DEF vars, DetailsBehind, ListsAhead, DetailsBetween, RowsGoForward, Pending, InHand
<1>4. ASSUME NEW i \in Ids, Change(i)
      PROVE  DetailsBehind' /\ ListsAhead' /\ DetailsBetween' /\ RowsGoForward
  <2>1. /\ UNCHANGED <<run, place>> /\ source'[i].version = now + 1
        /\ \A j \in Ids \ {i} : source'[j] = source[j]
    BY <1>1, <1>4, ChangeEffect DEF DataInv
  <2>2. ListsAhead' /\ RowsGoForward
    BY <1>1, <2>1 DEF ListsAhead, RowsGoForward, Pending, InHand
  <2>3. ASSUME NEW j \in Ids
        PROVE  source'[j].version \in Nat /\ source[j].version <= source'[j].version
    <3>1. CASE j = i
      BY <1>1, <2>1, <3>1
    <3>2. CASE j # i
      BY <1>1, <2>1, <3>2
    <3> QED BY <3>1, <3>2
  <2>4. DetailsBehind'
    <3> SUFFICES ASSUME NEW j \in Ids PROVE place[j].data <= source'[j].version
      BY <2>1 DEF DetailsBehind
    <3>1. place[j].data <= source[j].version
      BY DEF DetailsBehind
    <3>2. source'[j].version \in Nat /\ source[j].version <= source'[j].version
      BY <2>3
    <3>3. place[j].data \in Nat /\ source[j].version \in Nat
      BY <1>1
    <3> HIDE DEF ForwardInv
    <3> QED BY <3>1, <3>2, <3>3
  <2>5. DetailsBetween'
    <3> SUFFICES ASSUME NEW s \in Runs, run[s].pc = "save"
                 PROVE  run[s].data <= source'[run[s].item.id].version
      BY <2>1 DEF DetailsBetween
    <3>1. run[s].item.id \in Ids /\ run[s].data <= source[run[s].item.id].version
      BY <1>2 DEF DetailsBetween, Pending, InHand
    <3> DEFINE key == run[s].item.id
    <3>2. run[s].data \in Nat /\ source[key].version \in Nat /\ source'[key].version \in Nat
          /\ source[key].version <= source'[key].version
      BY <1>1, <2>3, <3>1
    <3> QED BY <3>1, <3>2
  <2> QED BY <2>2, <2>4, <2>5
<1>5. ASSUME NEW r \in Runs, Start(r) \/ Step(r) \/ Fault(r)
      PROVE  DetailsBehind' /\ ListsAhead' /\ DetailsBetween' /\ RowsGoForward
  <2>1. Does(r) /\ UNCHANGED source
    BY <1>1, <1>5, StepEffect
  <2>2. \A s \in Runs : s = r
    OBVIOUS
  <2>3. \A i \in Ids :
           \/ /\ place'[i].exists = place[i].exists /\ place'[i].mtime = place[i].mtime
              /\ place'[i].data = place[i].data
           \/ run[r].pc = "save" /\ run[r].item.id = i /\ place'[i] = Stored(r)
    BY <1>1, <2>1, PlaceEffect
  <2>4. run[r].pc = "save" =>
           /\ run[r].item \in Pending(r)
           /\ place[run[r].item.id].exists
                  => place[run[r].item.id].mtime <= run[r].item.version
           /\ place[run[r].item.id].data <= run[r].data
           /\ run[r].data <= source[run[r].item.id].version
    BY DEF ListsAhead, DetailsBetween, Pending, InHand
  <2>5. RowsGoForward
    <3> SUFFICES ASSUME NEW i \in Ids, place[i].exists
                 PROVE  /\ place'[i].exists
                        /\ place[i].mtime <= place'[i].mtime /\ place[i].data <= place'[i].data
      BY DEF RowsGoForward
    <3>1. CASE run[r].pc = "save" /\ run[r].item.id = i /\ place'[i] = Stored(r)
      BY <2>4, <3>1 DEF Stored
    <3> QED BY <1>1, <2>3, <3>1
  <2>6. DetailsBehind'
    <3> SUFFICES ASSUME NEW i \in Ids PROVE place'[i].data <= source[i].version
      BY <2>1 DEF DetailsBehind
    <3>1. CASE run[r].pc = "save" /\ run[r].item.id = i /\ place'[i] = Stored(r)
      BY <2>4, <3>1 DEF Stored
    <3> QED BY <2>3, <3>1 DEF DetailsBehind
  <2>7. DetailsBetween'
    <3>1. CASE Fetches(r)
      <4>1. run[r].item.id \in Ids
        BY <1>2, <3>1 DEF Fetches, Pending, InHand
      <4>2. /\ run'[r].item.id = run[r].item.id /\ place' = place /\ source' = source
            /\ run'[r].data = source[run[r].item.id].version
        BY <2>1, <3>1 DEF Fetches
      <4>3. /\ place[run[r].item.id].data <= source[run[r].item.id].version
            /\ source[run[r].item.id].version \in Nat
        BY <1>1, <4>1 DEF DetailsBehind
      <4>4. /\ place'[run'[r].item.id].data <= run'[r].data
            /\ run'[r].data <= source'[run'[r].item.id].version
        BY <4>2, <4>3
      <4> QED BY <2>2, <4>4 DEF DetailsBetween
    <3>2. CASE ~Fetches(r)
      <4>1. run'[r].pc # "save"
        BY <2>1, <3>2 DEF Does, Drops, Deactivates, Lists, Takes, Saves, NotInHand
      <4> QED BY <2>2, <4>1 DEF DetailsBetween
    <3> QED BY <3>1, <3>2
  <2>8. ListsAhead'
    <3> SUFFICES ASSUME NEW x \in Pending(r)', place'[x.id].exists
                 PROVE  place'[x.id].mtime <= x.version
      BY <2>2 DEF ListsAhead
    <3>1. CASE Lists(r)
      <4>1. PICK i \in Ids : x = AsItem(i)
        BY <3>1 DEF Lists, NotInHand, Pending, InHand
      <4>2. x.id = i /\ x.version = source[i].version /\ place' = place
        BY <3>1, <4>1 DEF AsItem, Lists
      <4> QED BY <3>1, <4>2 DEF BackInv, RowsBehind
    <3>2. CASE Saves(r)
      <4>1. x \in run[r].items /\ run[r].pc = "save"
        BY <3>2 DEF Saves, NotInHand, Pending, InHand
      <4>2. x \in Pending(r) /\ x.id \in Ids
        BY <1>2, <4>1 DEF Pending
      <4>3. run[r].item.id # x.id
        BY <4>1, <4>2 DEF BackInv, OneItem, Pending, InHand
      <4> QED BY <2>3, <4>2, <4>3 DEF ListsAhead
    <3>3. CASE Drops(r) \/ Deactivates(r) \/ Takes(r) \/ Fetches(r)
      <4>1. x \in Pending(r) /\ x.id \in Ids
        BY <1>2, <3>3 DEF Drops, Deactivates, Takes, Fetches, NotInHand, Pending, InHand
      <4>2. place'[x.id].exists = place[x.id].exists /\ place'[x.id].mtime = place[x.id].mtime
        <5>1. CASE Deactivates(r)
          <6>1. run[r].pc # "save"
            BY <5>1 DEF Deactivates
          <6> QED BY <2>3, <4>1, <6>1
        <5>2. CASE Drops(r) \/ Takes(r) \/ Fetches(r)
          BY <5>2 DEF Drops, Takes, Fetches
        <5> QED BY <3>3, <5>1, <5>2
      <4> QED BY <4>1, <4>2 DEF ListsAhead
    <3> QED BY <2>1, <3>1, <3>2, <3>3 DEF Does
  <2> QED BY <2>5, <2>6, <2>7, <2>8
<1> QED BY <1>3, <1>4, <1>5, NextCases

(* When no two runs overlap, a row that has been stored stays and neither its *)
(* modifiedtime nor its details ever go back to an older version, whatever fails *)
(* and is taken up again.  Two overlapping runs may turn both back. *)
THEOREM OnlyForward ==
    ASSUME \A r, s \in Runs : r = s
    PROVE  Spec => [][RowsGoForward]_vars
<1>1. Init => ForwardInv
  <2> SUFFICES ASSUME Init PROVE ForwardInv
    OBVIOUS
  <2>1. \A r \in Runs : run[r].pc = "idle" /\ run[r].items = {}
    BY DEF Init, Idle
  <2>2. ListsAhead /\ DetailsBetween
    BY <2>1 DEF ListsAhead, DetailsBetween, Pending, InHand
  <2>3. DetailsBehind
    BY DEF Init, NoRow, DetailsBehind
  <2> QED BY <2>2, <2>3, BackInit DEF ForwardInv
<1>2. ForwardInv /\ [Next]_vars => ForwardInv' /\ [RowsGoForward]_vars
  BY DataStep, BackStep, ForwardStep DEF ForwardInv, BackInv
<1> QED BY <1>1, <1>2, PTL DEF Spec

-----------------------------------------------------------------------------
(* A run that walks a type to its end has seen all of it *)

(* What an incremental run has not been shown yet lies behind the first n pages: contents *)
(* come into its list while it walks, and never leave it. *)
Behind(R, n) ==
    \A i \in R.missing : /\ i \in Listed("sync", R.type)
                         /\ n * Rows < Rank(i, Listed("sync", R.type))

SeenSoFar(R) == R.mode = "sync" =>
    /\ R.pc = "page" => Behind(R, R.page - 1)
    /\ R.pc \in {"items", "details", "save"} => Behind(R, R.page) /\ (R.full \/ R.missing = {})
    /\ R.pc = "done" => R.missing = {}

SeenInv == DataInv /\ \A r \in Runs : SeenSoFar(run[r])

(* The place of a content in a list. *)
LEMMA RankKnown ==
    ASSUME NEW ids \in SUBSET Ids, NEW i \in ids
    PROVE  /\ IsFiniteSet({j \in ids : j <= i})
           /\ Rank(i, ids) \in Nat /\ 0 < Rank(i, ids) /\ Rank(i, ids) <= Cardinality(ids)
           /\ IsFiniteSet(ids) /\ Cardinality(ids) \in Nat
<1> DEFINE ahead == {j \in ids : j <= i}
<1>1. IsFiniteSet(ids) /\ Cardinality(ids) \in Nat
  BY FS_Subset, FS_CardinalityType
<1>2. IsFiniteSet(ahead) /\ Cardinality(ahead) \in Nat /\ Cardinality(ahead) <= Cardinality(ids)
  BY <1>1, FS_Subset, FS_CardinalityType
<1>3. i \in ahead
  <2>1. i \in Nat
    OBVIOUS
  <2> QED BY <2>1
<1>4. Cardinality(ahead) # 0
  BY <1>2, <1>3, FS_EmptySet
<1>5. Rank(i, ids) = Cardinality(ahead)
  BY DEF Rank
<1> HIDE DEF ahead
<1> QED BY <1>1, <1>2, <1>4, <1>5 DEF ahead

(* No two contents have the same place. *)
LEMMA OneForRank ==
    ASSUME NEW ids \in SUBSET Ids, NEW i \in ids, NEW j \in ids, Rank(i, ids) = Rank(j, ids)
    PROVE  i = j
<1>1. ASSUME NEW a \in ids, NEW b \in ids, a < b PROVE Rank(a, ids) # Rank(b, ids)
  <2> DEFINE A == {k \in ids : k <= a}
             B == {k \in ids : k <= b}
  <2>1. a \in Nat /\ b \in Nat /\ \A k \in ids : k \in Nat
    OBVIOUS
  <2>2. \A k \in ids : k <= a => k <= b
    BY <1>1, <2>1
  <2>3. b <= b /\ ~(b <= a)
    BY <1>1, <2>1
  <2>4. A \subseteq B /\ b \in B /\ b \notin A
    BY <2>2, <2>3
  <2>5. IsFiniteSet(B)
    BY RankKnown
  <2> HIDE DEF A, B
  <2>6. Cardinality(A) # Cardinality(B)
    BY <2>4, <2>5, FS_Subset
  <2> QED BY <2>6 DEF Rank, A, B
<1>2. i \in Nat /\ j \in Nat
  OBVIOUS
<1> QED BY <1>1, <1>2

(* Between two places there are no more contents than places. *)
Between(ids, a, b) == {i \in ids : a < Rank(i, ids) /\ Rank(i, ids) <= b}

LEMMA RanksBetween ==
    ASSUME NEW ids \in SUBSET Ids, NEW a \in Nat, NEW b \in Nat, a <= b
    PROVE  /\ IsFiniteSet(Between(ids, a, b)) /\ Cardinality(Between(ids, a, b)) \in Nat
           /\ Cardinality(Between(ids, a, b)) <= b - a
<1> DEFINE S == Between(ids, a, b)
           f == [i \in S |-> Rank(i, ids)]
<1>1. S \subseteq ids
  BY DEF Between
<1>2. IsFiniteSet(S) /\ Cardinality(S) \in Nat
  <2>1. IsFiniteSet(ids)
    BY FS_Subset
  <2> QED BY <1>1, <2>1, FS_Subset, FS_CardinalityType
<1>3. \A i \in S : Rank(i, ids) \in a + 1 .. b
  <2>1. \A i \in S : Rank(i, ids) \in Nat /\ a < Rank(i, ids) /\ Rank(i, ids) <= b
    BY RankKnown DEF Between
  <2> QED BY <2>1
<1>4. \A i, j \in S : Rank(i, ids) = Rank(j, ids) => i = j
  BY <1>1, OneForRank
<1> HIDE DEF S
<1>5. f \in Injection(S, a + 1 .. b)
  BY <1>3, <1>4 DEF Injection, IsInjective
<1>6. IsFiniteSet(a + 1 .. b) /\ Cardinality(a + 1 .. b) = IF a + 1 > b THEN 0 ELSE b - (a + 1) + 1
  <2>1. a + 1 \in Int /\ b \in Int
    OBVIOUS
  <2> QED BY <2>1, FS_Interval
<1> HIDE DEF f
<1>7. Cardinality(S) <= Cardinality(a + 1 .. b)
  BY <1>5, <1>6, FS_Injection
<1>8. Cardinality(S) <= b - a
  BY <1>2, <1>6, <1>7
<1> QED BY <1>2, <1>8 DEF S

(* The one in the middle fills what the other two leave. *)
LEMMA MiddleFills ==
    ASSUME NEW a \in Nat, NEW p \in Nat, NEW b \in Nat, NEW low \in Nat, NEW high \in Nat,
           NEW all \in Nat, a <= low, p <= high - low, b <= all - high, all = a + p + b
    PROVE  p = high - low
OBVIOUS

(* A page with contents behind it is full. *)
LEMMA FullPage ==
    ASSUME NEW ids \in SUBSET Ids, NEW n \in Nat \ {0}, NEW i \in ids, n * Rows < Rank(i, ids)
    PROVE  Cardinality(Page(ids, n)) = Rows
<1> DEFINE low == (n - 1) * Rows
           high == n * Rows
           all == Cardinality(ids)
           A == Between(ids, 0, low)
           P == Between(ids, low, high)
           B == Between(ids, high, all)
<1>1. low \in Nat /\ high \in Nat /\ high = low + Rows
  <2>1. \A k \in Nat : k * Rows \in Nat /\ (k + 1) * Rows = k * Rows + Rows
    OBVIOUS
  <2>2. n - 1 \in Nat /\ n = (n - 1) + 1
    OBVIOUS
  <2> QED BY <2>1, <2>2
<1>2. Page(ids, n) = P
  BY DEF Page, Between
<1> HIDE DEF low, high
<1>3. \A j \in ids : Rank(j, ids) \in Nat /\ 0 < Rank(j, ids) /\ Rank(j, ids) <= all
  BY RankKnown
<1>4. all \in Nat /\ high <= all
  <2>1. high < Rank(i, ids)
    BY DEF high
  <2>2. all \in Nat
    BY RankKnown
  <2> HIDE DEF all
  <2> QED BY <1>1, <1>3, <2>1, <2>2
<1>5. IsFiniteSet(A) /\ Cardinality(A) \in Nat /\ Cardinality(A) <= low
  BY <1>1, RanksBetween
<1>6. IsFiniteSet(P) /\ Cardinality(P) \in Nat /\ Cardinality(P) <= high - low
  BY <1>1, RanksBetween
<1>7. IsFiniteSet(B) /\ Cardinality(B) \in Nat /\ Cardinality(B) <= all - high
  <2> HIDE DEF all
  <2> QED BY <1>1, <1>4, RanksBetween
<1>8. ids = (A \cup P) \cup B /\ A \cap P = {} /\ (A \cup P) \cap B = {}
  <2> HIDE DEF all
  <2>1. \A j \in ids : j \in (A \cup P) \cup B
    BY <1>1, <1>3 DEF Between
  <2>2. \A j \in A : j \notin P
    BY <1>1, <1>3 DEF Between
  <2>3. \A j \in A \cup P : j \notin B
    BY <1>1, <1>3 DEF Between
  <2>4. A \subseteq ids /\ P \subseteq ids /\ B \subseteq ids
    BY DEF Between
  <2> HIDE DEF A, P, B
  <2> QED BY <2>1, <2>2, <2>3, <2>4
<1> HIDE DEF A, P, B
<1>9. IsFiniteSet(A \cup P) /\ Cardinality(A \cup P) = Cardinality(A) + Cardinality(P)
  <2>1. IsFiniteSet(A \cup P)
        /\ Cardinality(A \cup P) = Cardinality(A) + Cardinality(P) - Cardinality(A \cap P)
    BY <1>5, <1>6, FS_Union
  <2>2. Cardinality(A \cap P) = 0
    BY <1>8, FS_EmptySet
  <2> QED BY <1>5, <1>6, <2>1, <2>2
<1>10. all = Cardinality(A) + Cardinality(P) + Cardinality(B)
  <2>1. Cardinality((A \cup P) \cup B)
           = Cardinality(A \cup P) + Cardinality(B) - Cardinality((A \cup P) \cap B)
    BY <1>7, <1>9, FS_Union
  <2>2. Cardinality((A \cup P) \cap B) = 0
    BY <1>8, FS_EmptySet
  <2>3. all = Cardinality((A \cup P) \cup B)
    BY <1>8
  <2> HIDE DEF all
  <2> QED BY <1>5, <1>6, <1>7, <1>9, <2>1, <2>2, <2>3
<1> HIDE DEF all
<1>11. Cardinality(P) = high - low
  BY <1>1, <1>4, <1>5, <1>6, <1>7, <1>10, MiddleFills
<1>12. high - low = Rows
  BY <1>1
<1> QED BY <1>2, <1>11, <1>12

(* A content that is published comes into the list, and pushes others back. *)
LEMMA RankGrows ==
    ASSUME NEW more \in SUBSET Ids, NEW ids \in SUBSET more, NEW i \in ids
    PROVE  Rank(i, ids) <= Rank(i, more)
<1> DEFINE A == {j \in ids : j <= i}
           B == {j \in more : j <= i}
<1>1. A \subseteq B
  OBVIOUS
<1>2. IsFiniteSet(B)
  BY RankKnown
<1> HIDE DEF A, B
<1>3. Cardinality(A) <= Cardinality(B)
  BY <1>1, <1>2, FS_Subset
<1> QED BY <1>3 DEF Rank, A, B

LEMMA SeenThroughChange ==
    ASSUME SeenInv, NEW c \in Ids, Change(c)
    PROVE  \A r \in Runs : SeenSoFar(run[r])'
<1>1. run' = run /\ TypeOK
  BY DEF Change, SeenInv, DataInv
<1>2. \A t : Listed("sync", t) \subseteq Listed("sync", t)' /\ Listed("sync", t)' \subseteq Ids
             /\ Listed("sync", t) \subseteq Ids
  <2>1. \A i \in Ids : source'[i] = source[i] \/ source'[i].state \in {"hidden", "bare", "pictured"}
    BY <1>1 DEF Change, TypeOK
  <2> QED BY <2>1 DEF Listed, Shown
<1>3. ASSUME NEW R \in RunState, NEW n \in Nat, Behind(R, n) PROVE Behind(R, n)'
  <2> DEFINE L == Listed("sync", R.type)
             M == Listed("sync", R.type)'
             low == n * Rows
  <2>1. L \subseteq M /\ M \subseteq Ids
    BY <1>2
  <2>2. \A i \in L : Rank(i, L) <= Rank(i, M) /\ Rank(i, L) \in Nat /\ Rank(i, M) \in Nat
    BY <2>1, RankGrows, RankKnown
  <2>3. \A i \in R.missing : i \in L /\ low < Rank(i, L)
    BY <1>3 DEF Behind
  <2>4. low \in Nat
    OBVIOUS
  <2> HIDE DEF L, M, low
  <2>5. ASSUME NEW i \in R.missing PROVE i \in M /\ low < Rank(i, M)
    <3>1. i \in L /\ low < Rank(i, L) /\ i \in M
      BY <2>1, <2>3
    <3>2. Rank(i, L) <= Rank(i, M) /\ Rank(i, L) \in Nat /\ Rank(i, M) \in Nat
      BY <2>2, <3>1
    <3> QED BY <2>4, <3>1, <3>2
  <2>6. \A i \in R.missing : /\ i \in Listed("sync", R.type)'
                             /\ n * Rows < Rank(i, Listed("sync", R.type)')
    BY <2>5 DEF M, low
  <2>7. \A i \in R.missing : /\ (i \in Listed("sync", R.type))'
                             /\ (n * Rows < Rank(i, Listed("sync", R.type)))'
    BY <2>6 DEF Rank
  <2> QED BY <2>7 DEF Behind
<1>4. ASSUME NEW r \in Runs PROVE SeenSoFar(run[r])'
  <2>1. run[r] \in RunState /\ SeenSoFar(run[r])
    BY <1>1 DEF SeenInv, TypeOK
  <2>2. run[r].page \in Nat /\ (run[r].pc = "page" => run[r].page - 1 \in Nat)
    <3>1. run[r].page \in 0..(Cardinality(Ids) + 1) /\ (run[r].pc = "page" => run[r].page # 0)
      BY <2>1 DEF RunState, SeenInv, DataInv, PageBound
    <3>2. Cardinality(Ids) \in Nat
      BY FS_CardinalityType
    <3> QED BY <3>1, <3>2
  <2>3. run[r].pc = "page" => (Behind(run[r], run[r].page - 1) => Behind(run[r], run[r].page - 1)')
    BY <1>1, <1>3, <2>1, <2>2
  <2>4. Behind(run[r], run[r].page) => Behind(run[r], run[r].page)'
    BY <1>1, <1>3, <2>1, <2>2
  <2> QED BY <1>1, <2>1, <2>3, <2>4 DEF SeenSoFar
<1> QED BY <1>4

(* A page shows what lies in it, and if nothing lies in it, nothing lies behind it. *)
LEMMA PageShows ==
    ASSUME DataInv, NEW r \in Runs, SeenSoFar(run[r]), FetchPage(r)
    PROVE  SeenSoFar(run'[r])
<1> SUFFICES ASSUME run[r].mode = "sync" PROVE SeenSoFar(run'[r])
  <2>1. run[r] \in RunState /\ TypeOK
    BY DEF DataInv, TypeOK
  <2>2. run'[r].mode = run[r].mode
    BY <2>1 DEF FetchPage, TypeOK, RunState
  <2> QED BY <2>2 DEF SeenSoFar
<1> DEFINE L == Listed("sync", run[r].type)
           n == run[r].page
           ids == Page(L, n)
           low == (n - 1) * Rows
           high == n * Rows
<1>1. TypeOK /\ run[r] \in RunState /\ L \subseteq Ids /\ run[r].pc = "page"
  BY DEF DataInv, TypeOK, Listed, FetchPage
<1>2. n \in Nat \ {0}
  <2>1. n \in 0..(Cardinality(Ids) + 1) /\ n # 0
    BY <1>1 DEF RunState, DataInv, PageBound
  <2>2. Cardinality(Ids) \in Nat
    BY FS_CardinalityType
  <2> QED BY <2>1, <2>2
<1>3. \A i \in run[r].missing : i \in L /\ low < Rank(i, L)
  BY <1>1 DEF SeenSoFar, Behind
<1>4. \A i \in L : Rank(i, L) \in Nat
  BY <1>1, RankKnown
<1>5. low \in Int /\ high \in Nat
  BY <1>2
<1> HIDE DEF L, n, low, high
<1>6. \A i \in L : low < Rank(i, L) => i \in ids \/ high < Rank(i, L)
  <2>1. ids = {i \in L : low < Rank(i, L) /\ Rank(i, L) <= high}
    BY DEF Page, low, high
  <2> HIDE DEF ids
  <2> QED BY <1>4, <1>5, <2>1
<1>7. ASSUME NEW i \in L, high < Rank(i, L) PROVE Cardinality(ids) = Rows
  BY <1>1, <1>2, <1>7, FullPage DEF high
<1> HIDE DEF ids
<1>8. run' = [run EXCEPT ![r] =
                 IF ids = {} THEN [run[r] EXCEPT !.pc = "done"]
                 ELSE [run[r] EXCEPT !.pc = "items", !.items = {AsItem(i) : i \in ids},
                                !.full = (Cardinality(ids) = Rows),
                                !.missing = run[r].missing \ ids]]
  BY DEF FetchPage, ids, L, n
<1>9. CASE ids = {}
  <2>1. run[r].missing = {}
    <3>1. Cardinality(ids) = 0 /\ Rows # 0
      BY <1>9, FS_EmptySet
    <3> QED BY <1>3, <1>6, <1>7, <1>9, <3>1
  <2>2. run'[r].pc = "done" /\ run'[r].missing = run[r].missing
    BY <1>1, <1>8, <1>9 DEF TypeOK, RunState
  <2> QED BY <2>1, <2>2 DEF SeenSoFar
<1>10. CASE ids # {}
  <2> DEFINE full == Cardinality(ids) = Rows
             shows == {AsItem(i) : i \in ids}
             gone == run[r].missing \ ids
  <2>1. run' = [run EXCEPT ![r] = [run[r] EXCEPT !.pc = "items", !.items = shows, !.full = full,
                                                 !.missing = gone]]
    BY <1>8, <1>10
  <2> HIDE DEF full, shows, gone
  <2>2. /\ run'[r].pc = "items" /\ run'[r].full = full /\ run'[r].missing = gone
        /\ run'[r].page = run[r].page /\ run'[r].type = run[r].type
    BY <1>1, <2>1 DEF TypeOK, RunState
  <2>3. \A i \in gone : i \in L /\ high < Rank(i, L)
    BY <1>3, <1>6 DEF gone
  <2>4. full \/ gone = {}
    BY <1>7, <2>3 DEF full
  <2>5. Behind(run'[r], run'[r].page)
    BY <2>2, <2>3 DEF Behind, L, high, n
  <2> QED BY <2>2, <2>4, <2>5 DEF SeenSoFar
<1> QED BY <1>9, <1>10

(* Every other step of a run. *)
LEMMA SeenThroughStep ==
    ASSUME DataInv, NEW r \in Runs, SeenSoFar(run[r]), Start(r) \/ Step(r) \/ Fault(r)
    PROVE  SeenSoFar(run'[r])
<1>1. TypeOK /\ run[r] \in RunState /\ run \in [Runs -> RunState]
  BY DEF DataInv, TypeOK
<1>2. ASSUME NEW new, run' = [run EXCEPT ![r] = new], new.pc \in {"idle", "types"}
      PROVE  SeenSoFar(run'[r])
  BY <1>1, <1>2 DEF SeenSoFar
\* A run that goes on with its page.
<1>3. ASSUME NEW new, run' = [run EXCEPT ![r] = new], new.mode = run[r].mode,
             new.page = run[r].page, new.full = run[r].full, new.missing = run[r].missing,
             new.type = run[r].type,
             run[r].pc \in {"items", "details", "save"}, new.pc \in {"items", "details", "save"}
      PROVE  SeenSoFar(run'[r])
  <2>1. run'[r] = new
    BY <1>1, <1>3
  <2>2. Behind(run[r], run[r].page) => Behind(new, new.page)
    BY <1>3 DEF Behind
  <2> QED BY <1>3, <2>1, <2>2 DEF SeenSoFar
<1>4. CASE Start(r) \/ EndRun(r) \/ Abort(r)
  <2>1. CASE EndRun(r) \/ Abort(r)
    <3>1. run' = [run EXCEPT ![r] = Idle] /\ Idle.pc = "idle"
      BY <2>1 DEF EndRun, Abort, Idle
    <3> QED BY <1>2, <3>1
  <2>2. CASE Start(r)
    <3>1. PICK mode \in Modes, types \in {Types} \cup {{t} : t \in Types}, pages \in PageLimits :
             StartRun(r, mode, types, pages)
      BY <2>2 DEF Start
    <3> DEFINE new == [Idle EXCEPT !.pc = "types", !.mode = mode, !.types = types, !.pages = pages]
    <3>2. run' = [run EXCEPT ![r] = new]
      BY <3>1 DEF StartRun
    <3>3. new.pc = "types"
      BY DEF Idle
    <3> HIDE DEF new
    <3> QED BY <1>2, <3>2, <3>3
  <2> QED BY <1>4, <2>1, <2>2
<1>5. CASE PageFails(r) \/ EndType(r)
  <2> DEFINE new == [run[r] EXCEPT !.pc = "types"]
  <2>1. run' = [run EXCEPT ![r] = Idle] \/ run' = [run EXCEPT ![r] = new]
    BY <1>5 DEF PageFails, EndType
  <2>2. Idle.pc = "idle" /\ new.pc = "types"
    BY <1>1 DEF Idle, RunState
  <2> HIDE DEF new
  <2> QED BY <1>2, <2>1, <2>2
<1>6. CASE BeginType(r)
  <2>1. PICK t \in run[r].types :
             run' = [run EXCEPT ![r] =
                       [run[r] EXCEPT !.pc = "page", !.type = t, !.types = @ \ {t}, !.page = 1,
                                 !.existing = Existing(t), !.missing = Listed(run[r].mode, t)]]
    BY <1>6 DEF BeginType
  <2> DEFINE listed == Listed(run[r].mode, t)
             rows == Existing(t)
             new == [run[r] EXCEPT !.pc = "page", !.type = t, !.types = @ \ {t}, !.page = 1,
                                   !.existing = rows, !.missing = listed]
  <2>2. run'[r] = new
    BY <1>1, <2>1
  <2>3. Listed("sync", t) \subseteq Ids
    BY DEF Listed
  <2> HIDE DEF listed, rows
  <2>4. /\ new.pc = "page" /\ new.type = t /\ new.page = 1 /\ new.missing = listed
        /\ new.mode = run[r].mode
    BY <1>1 DEF RunState
  <2> HIDE DEF new
  <2>5. new.mode = "sync" => Behind(new, 0)
    <3>1. \A i \in Listed("sync", t) : 0 * Rows < Rank(i, Listed("sync", t))
      <4>1. 0 * Rows = 0
        OBVIOUS
      <4> QED BY <2>3, <4>1, RankKnown
    <3> QED BY <2>4, <3>1 DEF Behind, listed
  <2>6. new.page - 1 = 0
    BY <2>4
  <2> QED BY <2>2, <2>4, <2>5, <2>6 DEF SeenSoFar
<1>7. CASE FetchPage(r)
  BY <1>7, PageShows
<1>8. CASE EndPage(r)
  <2> DEFINE done == [run[r] EXCEPT !.pc = "done"]
             types == [run[r] EXCEPT !.pc = "types"]
             next == [run[r] EXCEPT !.pc = "page", !.page = run[r].page + 1]
  <2>1. run[r].pc = "items" /\ \/ LastPage(r) /\ run' = [run EXCEPT ![r] = done]
                               \/ run' = [run EXCEPT ![r] = types]
                               \/ run' = [run EXCEPT ![r] = next]
    BY <1>8 DEF EndPage
  <2>2. /\ done.pc = "done" /\ done.missing = run[r].missing /\ done.mode = run[r].mode
        /\ types.pc = "types"
        /\ next.pc = "page" /\ next.missing = run[r].missing /\ next.page = run[r].page + 1
        /\ next.mode = run[r].mode /\ next.type = run[r].type
    BY <1>1 DEF RunState
  <2> HIDE DEF done, types, next
  <2>3. CASE LastPage(r) /\ run' = [run EXCEPT ![r] = done]
    <3>1. run'[r] = done
      BY <1>1, <2>3
    <3>2. ~run[r].full
      BY <2>3 DEF LastPage
    <3> QED BY <2>1, <2>2, <3>1, <3>2 DEF SeenSoFar
  <2>4. CASE run' = [run EXCEPT ![r] = next]
    <3>1. run'[r] = next
      BY <1>1, <2>4
    <3>2. next.page - 1 = run[r].page
      <4>1. run[r].page \in Int
        BY <1>1, FS_CardinalityType DEF RunState
      <4> QED BY <2>2, <4>1
    <3>3. Behind(run[r], run[r].page) => Behind(next, run[r].page)
      BY <2>2 DEF Behind
    <3> QED BY <2>1, <2>2, <3>1, <3>2, <3>3 DEF SeenSoFar
  <2> QED BY <1>2, <2>1, <2>2, <2>3, <2>4
<1>9. CASE TakeItem(r)
  <2>1. PICK x \in run[r].items :
          run' = [run EXCEPT ![r] =
                     IF x.state = "pictured" /\ Wanted(r, x)
                     THEN [run[r] EXCEPT !.items = @ \ {x}, !.pc = "details", !.item = x]
                     ELSE [run[r] EXCEPT !.items = @ \ {x}]]
    BY <1>9 DEF TakeItem
  <2> DEFINE taken == [run[r] EXCEPT !.items = @ \ {x}, !.pc = "details", !.item = x]
             left == [run[r] EXCEPT !.items = @ \ {x}]
  <2>2. run[r].pc = "items" /\ (run' = [run EXCEPT ![r] = taken] \/ run' = [run EXCEPT ![r] = left])
    BY <1>9, <2>1 DEF TakeItem
  <2>3. /\ taken.pc = "details" /\ taken.mode = run[r].mode /\ taken.page = run[r].page
        /\ taken.full = run[r].full /\ taken.missing = run[r].missing /\ taken.type = run[r].type
        /\ left.pc = run[r].pc /\ left.mode = run[r].mode /\ left.page = run[r].page
        /\ left.full = run[r].full /\ left.missing = run[r].missing /\ left.type = run[r].type
    BY <1>1 DEF RunState
  <2> HIDE DEF taken, left
  <2> QED BY <1>3, <2>2, <2>3
<1>10. CASE FetchDetails(r)
  <2> DEFINE data == source[run[r].item.id].version
             new == [run[r] EXCEPT !.pc = "save", !.data = data]
  <2>1. run[r].pc = "details" /\ run' = [run EXCEPT ![r] = new]
    BY <1>10 DEF FetchDetails
  <2> HIDE DEF data
  <2>2. /\ new.pc = "save" /\ new.mode = run[r].mode /\ new.page = run[r].page
        /\ new.full = run[r].full /\ new.missing = run[r].missing /\ new.type = run[r].type
    BY <1>1 DEF RunState
  <2> HIDE DEF new
  <2> QED BY <1>3, <2>1, <2>2
<1>11. CASE SkipItem(r) \/ Save(r)
  <2> DEFINE new == [run[r] EXCEPT !.pc = "items", !.item = NoItem, !.data = 0]
  <2>1. run[r].pc \in {"details", "save"} /\ run' = [run EXCEPT ![r] = new]
    BY <1>11 DEF SkipItem, Save
  <2>2. /\ new.pc = "items" /\ new.mode = run[r].mode /\ new.page = run[r].page
        /\ new.full = run[r].full /\ new.missing = run[r].missing /\ new.type = run[r].type
    BY <1>1 DEF RunState
  <2> HIDE DEF new
  <2> QED BY <1>3, <2>1, <2>2
<1> QED BY <1>4, <1>5, <1>6, <1>7, <1>8, <1>9, <1>10, <1>11 DEF Step, Fault

(* Pages are fetched one by one while contents are published, edited and hidden: an *)
(* incremental run that walks a type to its end has been shown everything that was *)
(* listed when it began, for pages of any size. *)
THEOREM AlwaysAllSeen == Spec => []AllSeen
<1>1. Init => SeenInv
  <2>1. Init => \A r \in Runs : run[r].pc = "idle"
    BY DEF Init, Idle
  <2> QED BY <2>1, DataInit DEF SeenInv, SeenSoFar
<1>2. SeenInv /\ [Next]_vars => SeenInv'
  <2> SUFFICES ASSUME SeenInv, [Next]_vars PROVE SeenInv'
    OBVIOUS
  <2>1. DataInv /\ DataInv'
    BY DataStep DEF SeenInv
  <2>2. CASE UNCHANGED vars
    <3>1. run' = run /\ source' = source
      BY <2>2 DEF vars
    <3>2. \A r \in Runs : SeenSoFar(run[r])' <=> SeenSoFar(run[r])
      BY <3>1 DEF SeenSoFar, Behind, Listed
    <3> QED BY <2>1, <3>2 DEF SeenInv
  <2>3. ASSUME NEW c \in Ids, Change(c) PROVE SeenInv'
    BY <2>1, <2>3, SeenThroughChange DEF SeenInv
  <2>4. ASSUME NEW r \in Runs, Start(r) \/ Step(r) \/ Fault(r) PROVE SeenInv'
    <3>1. (\A s \in Runs \ {r} : run'[s] = run[s]) /\ source' = source
      BY <2>1, <2>4, StepEffect
    <3>2. \A s \in Runs : SeenSoFar(run'[s])
      <4>1. SeenSoFar(run'[r])
        BY <2>1, <2>4, SeenThroughStep DEF SeenInv
      <4> QED BY <3>1, <4>1 DEF SeenInv
    <3>3. \A s \in Runs : SeenSoFar(run[s])' <=> SeenSoFar(run'[s])
      BY <3>1 DEF SeenSoFar, Behind, Listed
    <3> QED BY <2>1, <3>2, <3>3 DEF SeenInv
  <2> QED BY <2>2, <2>3, <2>4, NextCases
<1>3. SeenInv => AllSeen
  BY DEF SeenInv, SeenSoFar, AllSeen
<1> QED BY <1>1, <1>2, <1>3, PTL DEF Spec
=============================================================================
