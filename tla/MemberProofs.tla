----------------------------- MODULE MemberProofs ------------------------------
(***************************************************************************)
(* What the rows of one member promise, for any number of members,         *)
(* requests, tabs and files: a bookmark is there at most once and its log  *)
(* agrees with it, a browser stays signed in until it signs out, and the   *)
(* image in a profile exists.                                              *)
(*                                                                         *)
(* None of these invariants is inductive. Each section names what it adds  *)
(* to one: what a request that has read but not yet written still relies   *)
(* on.                                                                     *)
(***************************************************************************)
EXTENDS Bookmarks, Sessions, Profile, FiniteSetTheorems, SequenceTheorems, TLAPS

--------------------------------------------------------------------------------
(* Bookmarks *)

(***************************************************************************)
(* MarkTypeOK is not inductive: that an insert finds no row is known only  *)
(* when it runs, and must still be so when it commits. MarkInv adds that   *)
(* an insert which has not committed is alone, and that the table stays    *)
(* empty until then.                                                       *)
(***************************************************************************)

States == {"idle", "adding", "inserted", "removing", "deleted"}
CallRecord == [at : States, key : 0 .. MaxRows]

MarkTypes ==
    /\ lastKey \in 0 .. MaxRows
    /\ marks \subseteq 1 .. lastKey
    /\ click \in [Calls -> CallRecord]
    /\ made \in Nat /\ removed \in Nat /\ vain \in Nat

\* At most one row.
OneRow == \A k, l \in marks : k = l

\* An insert that is not committed is the only one, found the table empty, and has a key.
Inserting ==
    \A c \in Calls : click[c].at = "inserted" =>
        /\ marks = {}
        /\ click[c].key \in 1 .. lastKey
        /\ \A d \in Calls : click[d].at = "inserted" => d = c

\* The balance without cardinalities.
Balance == made - removed + vain = IF marks = {} THEN 0 ELSE 1

MarkInv == MarkTypes /\ OneRow /\ Inserting /\ Balance

\* The records that requests become.
LEMMA CallTypes ==
    ASSUME NEW at \in States, NEW key \in 0 .. MaxRows
    PROVE  [at |-> at, key |-> key] \in CallRecord
BY DEF CallRecord

LEMMA NoCallType == NoCall \in CallRecord
BY RowAssumption DEF NoCall, CallRecord, States

\* A request that is over is not inserting; nothing of the others changes.
LEMMA EndKeeps ==
    ASSUME MarkTypes, NEW c \in Calls, End(c)
    PROVE  /\ click' \in [Calls -> CallRecord]
           /\ \A d \in Calls : click'[d].at = "inserted" =>
                 d # c /\ click'[d] = click[d] /\ click[d].at = "inserted"
BY NoCallType DEF MarkTypes, End, NoCall

LEMMA AskKeeps ==
    ASSUME MarkTypes, NEW c \in Calls, NEW at \in States, NEW key \in 0 .. MaxRows,
           AskAt(c, at, key)
    PROVE  /\ click' \in [Calls -> CallRecord]
           /\ click'[c] = [at |-> at, key |-> key]
           /\ \A d \in Calls : d # c => click'[d] = click[d]
BY CallTypes DEF MarkTypes, AskAt

-----------------------------------------------------------------------------
LEMMA InitMark == MarkInit => MarkInv
<1>1. SUFFICES ASSUME MarkInit PROVE MarkInv
  OBVIOUS
<1>2. MarkTypes
  BY <1>1, RowAssumption, NoCallType DEF MarkInit, MarkTypes
<1>3. OneRow /\ Balance
  BY <1>1 DEF MarkInit, OneRow, Balance
<1>4. Inserting
  BY <1>1 DEF MarkInit, Inserting, NoCall
<1> QED BY <1>2, <1>3, <1>4 DEF MarkInv

\* A step that changes requests only, none of them to an insert.
LEMMA MemberQuiet ==
    ASSUME MarkInv, UNCHANGED <<marks, lastKey, made, removed, vain>>,
           click' \in [Calls -> CallRecord],
           \A d \in Calls : click'[d].at = "inserted" => click'[d] = click[d]
    PROVE  MarkInv'
<1>1. MarkTypes' /\ OneRow' /\ Balance'
  BY DEF MarkInv, MarkTypes, OneRow, Balance
<1>2. Inserting'
  BY DEF MarkInv, Inserting
<1> QED BY <1>1, <1>2 DEF MarkInv

LEMMA AddStep ==
    ASSUME MarkInv, NEW c \in Calls, Add(c)
    PROVE  MarkInv'
<1>1. AskAt(c, "adding", 0) /\ UNCHANGED <<marks, lastKey, made, removed, vain>>
  BY DEF Add
<1>2. "adding" \in States /\ 0 \in 0 .. MaxRows /\ MarkTypes
  BY RowAssumption DEF States, MarkInv
<1>3. /\ click' \in [Calls -> CallRecord] /\ click'[c] = [at |-> "adding", key |-> 0]
      /\ \A d \in Calls : d # c => click'[d] = click[d]
  BY <1>1, <1>2, AskKeeps
<1> QED BY <1>1, <1>3, MemberQuiet

LEMMA FindMarkStep ==
    ASSUME MarkInv, NEW c \in Calls, FindMark(c)
    PROVE  MarkInv'
<1>1. PICK k \in marks : AskAt(c, "removing", k)
  BY DEF FindMark
<1>2. "removing" \in States /\ k \in 0 .. MaxRows /\ MarkTypes
  BY RowAssumption DEF States, MarkInv, MarkTypes
<1>3. /\ click' \in [Calls -> CallRecord] /\ click'[c] = [at |-> "removing", key |-> k]
      /\ \A d \in Calls : d # c => click'[d] = click[d]
  BY <1>1, <1>2, AskKeeps
<1>4. UNCHANGED <<marks, lastKey, made, removed, vain>>
  BY DEF FindMark
<1> QED BY <1>3, <1>4, MemberQuiet

LEMMA DeleteStep ==
    ASSUME MarkInv, NEW c \in Calls, Delete(c)
    PROVE  MarkInv'
<1>1. AskAt(c, "deleted", click[c].key) /\ UNCHANGED <<marks, lastKey, made, removed, vain>>
  BY DEF Delete
<1>2. "deleted" \in States /\ click[c].key \in 0 .. MaxRows /\ MarkTypes
  BY DEF States, MarkInv, MarkTypes, CallRecord
<1>3. /\ click' \in [Calls -> CallRecord] /\ click'[c] = [at |-> "deleted", key |-> click[c].key]
      /\ \A d \in Calls : d # c => click'[d] = click[d]
  BY <1>1, <1>2, AskKeeps
<1> QED BY <1>1, <1>3, MemberQuiet

LEMMA RollbackStep ==
    ASSUME MarkInv, NEW c \in Calls, Rollback(c)
    PROVE  MarkInv'
<1>1. End(c) /\ UNCHANGED <<marks, lastKey, made, removed, vain>> /\ MarkTypes
  BY DEF Rollback, MarkInv
<1> QED BY <1>1, EndKeeps, MemberQuiet

\* The insert is refused, or it runs where there is no row and no other insert.
LEMMA InsertStep ==
    ASSUME MarkInv, NEW c \in Calls, Insert(c)
    PROVE  MarkInv'
<1>0. MarkTypes
  BY DEF MarkInv
<1>1. CASE RowThere
  <2>1. End(c) /\ UNCHANGED <<marks, lastKey, made, removed, vain>>
    BY <1>1 DEF Insert
  <2> QED BY <1>0, <2>1, EndKeeps, MemberQuiet
<1>2. CASE ~RowThere
  <2>1. /\ marks = {} /\ lastKey < MaxRows /\ lastKey' = lastKey + 1
        /\ AskAt(c, "inserted", lastKey') /\ UNCHANGED <<marks, made, removed, vain>>
    BY <1>2 DEF Insert, RowThere
  <2>2. \A d \in Calls : click[d].at # "inserted"
    BY DEF Insert, Holding
  <2>3. "inserted" \in States /\ lastKey' \in 0 .. MaxRows /\ lastKey' \in 1 .. lastKey'
    BY <1>0, <2>1, RowAssumption DEF States, MarkTypes
  <2>4. /\ click' \in [Calls -> CallRecord] /\ click'[c] = [at |-> "inserted", key |-> lastKey']
        /\ \A d \in Calls : d # c => click'[d] = click[d]
    BY <1>0, <2>1, <2>3, AskKeeps
  <2>5. MarkTypes' /\ OneRow' /\ Balance'
    BY <1>0, <2>1, <2>3, <2>4 DEF MarkInv, MarkTypes, OneRow, Balance
  <2>6. Inserting'
    BY <2>1, <2>2, <2>3, <2>4 DEF Inserting
  <2> QED BY <2>5, <2>6 DEF MarkInv
<1> QED BY <1>1, <1>2

\* The table was empty, so that there is one row and one log more.
LEMMA CommitAddStep ==
    ASSUME MarkInv, NEW c \in Calls, CommitAdd(c)
    PROVE  MarkInv'
<1>1. /\ click[c].at = "inserted" /\ marks' = marks \cup {click[c].key} /\ made' = made + 1
      /\ End(c) /\ UNCHANGED <<lastKey, removed, vain>>
  BY DEF CommitAdd
<1>2. MarkTypes /\ Inserting /\ Balance
  BY DEF MarkInv
<1>3. /\ marks = {} /\ click[c].key \in 1 .. lastKey
      /\ \A d \in Calls : click[d].at = "inserted" => d = c
  BY <1>1, <1>2 DEF Inserting
<1>4. marks' = {click[c].key}
  BY <1>1, <1>3
<1>5. /\ click' \in [Calls -> CallRecord]
      /\ \A d \in Calls : click'[d].at # "inserted"
  BY <1>1, <1>2, <1>3, EndKeeps
<1>6. MarkTypes'
  BY <1>1, <1>2, <1>3, <1>4, <1>5 DEF MarkTypes
<1>7. OneRow' /\ Inserting'
  BY <1>4, <1>5 DEF OneRow, Inserting
<1>8. Balance'
  BY <1>1, <1>2, <1>3, <1>4 DEF Balance, MarkTypes
<1> QED BY <1>6, <1>7, <1>8 DEF MarkInv

\* The row goes and is logged, or it is gone and the log is the excess.
LEMMA CommitRemoveStep ==
    ASSUME MarkInv, NEW c \in Calls, CommitRemove(c)
    PROVE  MarkInv'
<1>1. /\ removed' = removed + 1 /\ marks' = marks \ {click[c].key} /\ End(c)
      /\ vain' = (IF click[c].key \in marks THEN vain ELSE vain + 1)
      /\ UNCHANGED <<lastKey, made>>
  BY DEF CommitRemove
<1>2. MarkTypes /\ OneRow /\ Inserting /\ Balance
  BY DEF MarkInv
<1>3. /\ click' \in [Calls -> CallRecord]
      /\ \A d \in Calls : click'[d].at = "inserted" =>
            click'[d] = click[d] /\ click[d].at = "inserted"
  BY <1>1, <1>2, EndKeeps
<1>0. /\ marks \in SUBSET (1 .. lastKey)
      /\ lastKey \in 0 .. MaxRows /\ made \in Nat /\ removed \in Nat /\ vain \in Nat
  BY <1>2 DEF MarkTypes
<1>4. MarkTypes'
  <2>1. lastKey' \in 0 .. MaxRows /\ made' \in Nat /\ removed' \in Nat
    BY <1>0, <1>1
  <2>2. vain' \in Nat
    BY <1>0, <1>1
  <2>3. marks' \in SUBSET (1 .. lastKey')
    BY <1>0, <1>1
  <2> QED BY <1>3, <2>1, <2>2, <2>3 DEF MarkTypes
<1>5. OneRow' /\ Inserting'
  BY <1>1, <1>2, <1>3 DEF OneRow, Inserting
<1>6. Balance'
  <2>1. CASE click[c].key \in marks
    <3>1. marks' = {} /\ marks # {} /\ vain' = vain
      BY <1>1, <1>2, <2>1 DEF OneRow
    <3>2. made - removed + vain = 1 /\ made' = made /\ removed' = removed + 1
      BY <1>1, <1>2, <3>1 DEF Balance
    <3>3. made' - removed' + vain' = 0
      BY <1>0, <3>1, <3>2
    <3> QED BY <3>1, <3>3 DEF Balance
  <2>2. CASE click[c].key \notin marks
    <3>1. marks' = marks /\ vain' = vain + 1
      BY <1>1, <2>2
    <3>2. made' = made /\ removed' = removed + 1
      BY <1>1
    <3>3. made' - removed' + vain' = made - removed + vain
      BY <1>0, <3>1, <3>2
    <3> QED BY <1>2, <3>1, <3>3 DEF Balance
  <2> QED BY <2>1, <2>2
<1> QED BY <1>4, <1>5, <1>6 DEF MarkInv

LEMMA MarkInvInductive == MarkInv /\ [MarkNext]_markVars => MarkInv'
<1>1. SUFFICES ASSUME MarkInv, [MarkNext]_markVars PROVE MarkInv'
  OBVIOUS
<1>2. CASE MarkNext
  <2>1. PICK c \in Calls : \/ Add(c) \/ Insert(c) \/ CommitAdd(c)
                           \/ FindMark(c) \/ Delete(c) \/ CommitRemove(c) \/ Rollback(c)
    BY <1>2 DEF MarkNext
  <2> QED BY <1>1, <2>1, AddStep, InsertStep, CommitAddStep, FindMarkStep, DeleteStep,
             CommitRemoveStep, RollbackStep
<1>3. CASE UNCHANGED markVars
  BY <1>1, <1>3 DEF markVars, MarkInv, MarkTypes, OneRow, Inserting, Balance
<1> QED BY <1>1, <1>2, <1>3

\* The cardinality of a table with at most one row.
LEMMA RowCount == ASSUME OneRow PROVE Cardinality(marks) = IF marks = {} THEN 0 ELSE 1
<1>1. CASE marks = {}
  BY <1>1, FS_EmptySet
<1>2. CASE marks # {}
  <2>1. PICK k \in marks : TRUE
    BY <1>2
  <2>2. marks = {k}
    BY <2>1 DEF OneRow
  <2> QED BY <1>2, <2>2, FS_Singleton
<1> QED BY <1>1, <1>2

LEMMA MarkInvImplies == MarkInv => MarkTypeOK /\ LogsBalance
BY RowCount DEF MarkInv, MarkTypes, Balance, MarkTypeOK, LogsBalance, CallRecord, States

-----------------------------------------------------------------------------
LEMMA MarkInvAlways == MarkSpec => []MarkInv
BY InitMark, MarkInvInductive, PTL DEF MarkSpec

\* However requests overlap and fail, a user has at most one bookmark at a place.
THEOREM OneBookmark == MarkSpec => []MarkTypeOK
BY MarkInvAlways, MarkInvImplies, PTL

\* However requests overlap and fail, a bookmark that was set is logged once, and one that
\* was taken back once more for each delete that another one overtook.
THEOREM LogsAgree == MarkSpec => []LogsBalance
BY MarkInvAlways, MarkInvImplies, PTL

--------------------------------------------------------------------------------
(* Sessions: a token that is refused once is refused for ever *)

(***************************************************************************)
(* An entry leaves the cache by itself. That its token stays refused rests *)
(* on EntriesExact: an entry which is not gone before its token can be     *)
(* used no longer. ReplyCarriesPair says what a reply is about, which the  *)
(* types of the browser's tokens need.                                     *)
(***************************************************************************)

Ops == {"none", "login", "refresh", "logout"}
Places == {"idle", "sent", "checked", "retired", "checked out", "half out", "reply"}

\* The requests that carry tokens of the first n pairs.
RequestsUpTo(n) ==
    [op : Ops, at : Places, cookie : 0 .. n, bearer : 0 .. n, new : 0 .. n]

ClockTypes ==
    /\ clock \in 1 .. MaxTime
    /\ issued \in Seq(1 .. MaxTime)
    /\ Len(issued) \in 0 .. MaxPairs
    /\ outages \in Nat /\ lost \in Nat /\ outages + lost <= MaxFaults
    /\ ended \in BOOLEAN

BrowserTypes ==
    /\ jar \in 0 .. Len(issued) /\ page \in 0 .. Len(issued)
    /\ held \subseteq 1 .. Len(issued)
    /\ strays \subseteq 1 .. Len(issued)

RequestTypes == request \in [Tabs -> RequestsUpTo(Len(issued))]

\* A step of a logout belongs to a logout; the reply to anything else carries a pair.
ReplyCarriesPair ==
    \A t \in Tabs :
        /\ request[t].at \in {"checked out", "half out"} => request[t].op = "logout"
        /\ (request[t].at = "reply" /\ request[t].op \in {"login", "refresh"})
              => request[t].new # 0

EntryTypes == entries \in [TokenKinds -> [Pairs -> Int]]

\* An entry lasts as long as its token lives.
EntriesExact ==
    \A k \in TokenKinds, n \in Pairs :
        entries[k][n] # 0 => n \in 1 .. Len(issued) /\ entries[k][n] = Expiry(k, n)

SessionInv ==
    /\ ClockTypes /\ BrowserTypes /\ RequestTypes
    /\ ReplyCarriesPair /\ EntryTypes /\ EntriesExact

-----------------------------------------------------------------------------
\* What a step does to the pairs, the clock and the entries of the cache.
PairsGrow == issued' = issued \/ (Len(issued) < MaxPairs /\ issued' = Append(issued, clock))
ClockMoves == clock' = clock \/ (clock' = clock + 1 /\ entries' = entries /\ clock < MaxTime)
EntriesMove ==
    \/ entries' = entries
    \/ /\ issued' = issued
       /\ \E k \in TokenKinds, n \in 1 .. Len(issued) : entries' = EntryAdded(k, n)

\* A request that is refused or moved on keeps the others and its own type.
LEMMA RequestMoves ==
    ASSUME NEW m \in Nat, NEW n \in Nat, m <= n,
           NEW f \in [Tabs -> RequestsUpTo(m)], NEW t \in Tabs,
           NEW x \in RequestsUpTo(n)
    PROVE  [f EXCEPT ![t] = x] \in [Tabs -> RequestsUpTo(n)]
  <1>1. 0 .. m \subseteq 0 .. n
    OBVIOUS
  <1>2. \A u \in Tabs : f[u] \in RequestsUpTo(n)
    BY <1>1 DEF RequestsUpTo
  <1> QED BY <1>2

\* The record that a request becomes.
LEMMA Moved ==
    ASSUME NEW m \in Nat, NEW n \in Nat, m <= n, NEW x \in RequestsUpTo(m),
           NEW at \in Places, NEW new \in 0 .. n
    PROVE  /\ MovedTo(x, at, new) \in RequestsUpTo(n)
           /\ MovedTo(x, at, new).op = x.op
           /\ MovedTo(x, at, new).at = at
           /\ MovedTo(x, at, new).new = new
  BY DEF MovedTo, SessionRequest, RequestsUpTo

\* The record of a request that has been answered or refused.
LEMMA NoneSent ==
    ASSUME NEW n \in Nat
    PROVE  /\ NoRequest \in RequestsUpTo(n)
           /\ NoRequest.at = "idle"
  BY DEF NoRequest, SessionRequest, RequestsUpTo, Ops, Places

\* A request that is refused.
LEMMA RefusedSession ==
    ASSUME SessionInv, NEW t \in Tabs, Refuse(t), issued' = issued
    PROVE  RequestTypes' /\ ReplyCarriesPair'
  <1> DEFINE n == Len(issued)
  <1>0. n \in Nat /\ n <= n /\ request \in [Tabs -> RequestsUpTo(n)]
    BY DEF SessionInv, ClockTypes, RequestTypes
  <1>1. NoRequest \in RequestsUpTo(n) /\ NoRequest.at = "idle"
    BY <1>0, NoneSent
  <1>2. request' = [request EXCEPT ![t] = NoRequest]
    BY DEF Refuse
  <1>3. RequestTypes'
    BY <1>0, <1>1, <1>2, RequestMoves DEF RequestTypes
  <1>4. ReplyCarriesPair'
    BY <1>0, <1>1, <1>2 DEF SessionInv, ReplyCarriesPair
  <1> QED BY <1>3, <1>4

\* A request that goes on without a pair.
LEMMA WentOn ==
    ASSUME SessionInv, NEW t \in Tabs, NEW at \in Places, Proceed(t, at), issued' = issued,
           at \in {"checked", "retired"} \/ request[t].op = "logout"
    PROVE  RequestTypes' /\ ReplyCarriesPair'
  <1> DEFINE n == Len(issued)
             x == request[t]
             y == MovedTo(x, at, 0)
  <1>0. n \in Nat /\ n <= n /\ request \in [Tabs -> RequestsUpTo(n)]
    BY DEF SessionInv, ClockTypes, RequestTypes
  <1>1. x \in RequestsUpTo(n)
    BY <1>0
  <1>2. request' = [request EXCEPT ![t] = y]
    BY DEF Proceed
  <1>3. y \in RequestsUpTo(n) /\ y.op = x.op /\ y.at = at
    <2> HIDE DEF n, x
    <2>1. 0 \in 0 .. n
      BY <1>0
    <2>2. /\ MovedTo(x, at, 0) \in RequestsUpTo(n)
          /\ MovedTo(x, at, 0).op = x.op
          /\ MovedTo(x, at, 0).at = at
      <3> HIDE DEF y
      <3> QED BY <1>0, <1>1, <2>1, Moved
    <2> QED BY <2>2
  <1>4. RequestTypes'
    <2>1. request' \in [Tabs -> RequestsUpTo(n)]
      <3> HIDE DEF n, y
      <3> QED BY <1>0, <1>2, <1>3, RequestMoves
    <2> QED BY <2>1 DEF RequestTypes
  <1>5. ReplyCarriesPair'
    <2> HIDE DEF n, y
    <2> QED BY <1>0, <1>2, <1>3 DEF SessionInv, ReplyCarriesPair
  <1> QED BY <1>4, <1>5

\* A reply with a new pair.
LEMMA Issued ==
    ASSUME SessionInv, NEW t \in Tabs, Issue(t)
    PROVE  /\ RequestTypes' /\ ReplyCarriesPair'
           /\ Len(issued) < MaxPairs
           /\ issued' = Append(issued, clock)
           /\ issued' \in Seq(1 .. MaxTime)
           /\ Len(issued') = Len(issued) + 1
           /\ \A n \in 1 .. Len(issued) : issued'[n] = issued[n]
  <1> DEFINE n == Len(issued)
             x == request[t]
             y == MovedTo(x, "reply", n + 1)
  <1>0. /\ n \in Nat /\ n <= n + 1 /\ n + 1 \in Nat /\ n + 1 \in 0 .. (n + 1)
        /\ request \in [Tabs -> RequestsUpTo(n)] /\ n + 1 # 0
    BY DEF SessionInv, ClockTypes, RequestTypes
  <1>1. x \in RequestsUpTo(n)
    BY <1>0
  <1>2. /\ request' = [request EXCEPT ![t] = y]
        /\ issued' = Append(issued, clock) /\ Len(issued) < MaxPairs
    BY DEF Issue
  <1>3. y \in RequestsUpTo(n + 1) /\ y.at = "reply" /\ y.new = n + 1
    <2>1. "reply" \in Places
      BY DEF Places
    <2> HIDE DEF n, x
    <2> QED BY <1>0, <1>1, <2>1, Moved
  <1>4. /\ issued' \in Seq(1 .. MaxTime) /\ Len(issued') = n + 1
        /\ \A k \in 1 .. n : issued'[k] = issued[k]
    <2>1. issued \in Seq(1 .. MaxTime) /\ clock \in 1 .. MaxTime
      BY DEF SessionInv, ClockTypes
    <2> QED BY <1>2, <2>1, AppendProperties
  <1>5. RequestTypes'
    <2>1. request' \in [Tabs -> RequestsUpTo(n + 1)]
      <3> HIDE DEF n, y
      <3> QED BY <1>0, <1>2, <1>3, RequestMoves
    <2> QED BY <2>1, <1>4 DEF RequestTypes
  <1>6. ReplyCarriesPair'
    <2> HIDE DEF n, y
    <2> QED BY <1>0, <1>2, <1>3 DEF SessionInv, ReplyCarriesPair
  <1> QED BY <1>2, <1>4, <1>5, <1>6

\* An entry that is made, or not.
LEMMA EntryMade ==
    ASSUME SessionInv, NEW k \in TokenKinds, NEW n \in Int, NEW reached \in BOOLEAN,
           Retire(k, n, reached), issued' = issued
    PROVE  EntryTypes' /\ EntriesExact' /\ EntriesMove
  <1>1. CASE ~(reached /\ Lives(k, n))
    <2>1. entries' = entries
      BY <1>1 DEF Retire
    <2> QED BY <2>1 DEF SessionInv, EntryTypes, EntriesExact, EntriesMove, Expiry
  <1>2. CASE reached /\ Lives(k, n)
    <2>1. entries' = EntryAdded(k, n) /\ n \in 1 .. Len(issued)
      BY <1>2 DEF Retire, Lives
    <2>2. issued \in Seq(1 .. MaxTime) /\ Len(issued) \in 0 .. MaxPairs /\ issued[n] \in Int
      BY <2>1, LifeAssumption DEF SessionInv, ClockTypes
    <2>3. Life[k] \in Int
      BY LifeAssumption DEF Life, TokenKinds
    <2>4. Until(k, n) = Expiry(k, n) /\ Expiry(k, n) \in Int
      BY <2>2, <2>3 DEF Until, Expiry
    <2>5. EntryTypes'
      BY <2>1, <2>4 DEF EntryAdded, EntryTypes, SessionInv
    <2>6. EntriesExact'
      <3> SUFFICES ASSUME NEW j \in TokenKinds, NEW m \in Pairs, entries'[j][m] # 0
                   PROVE  m \in 1 .. Len(issued') /\ entries'[j][m] = Expiry(j, m)'
        BY DEF EntriesExact
      <3>1. entries'[j][m] = IF j = k /\ m = n THEN Until(k, n) ELSE entries[j][m]
        BY <2>1 DEF EntryAdded
      <3>2. Expiry(j, m)' = Expiry(j, m)
        BY DEF Expiry
      <3> QED BY <2>1, <2>4, <3>1, <3>2 DEF SessionInv, EntriesExact
    <2>7. EntriesMove
      BY <2>1 DEF EntriesMove
    <2> QED BY <2>5, <2>6, <2>7
  <1> QED BY <1>1, <1>2

\* An operation on the cache costs no more than the outages that are left.
LEMMA OutagesBounded ==
    ASSUME SessionInv, NEW reached \in Reached,
           outages' = (IF reached THEN outages ELSE outages + 1), lost' = lost
    PROVE  /\ reached \in BOOLEAN
           /\ outages' \in Nat /\ lost' \in Nat /\ outages' + lost' <= MaxFaults
  <1>1. reached \in BOOLEAN
    BY DEF Reached
  <1>2. CASE reached
    BY <1>1, <1>2 DEF SessionInv, ClockTypes
  <1>3. CASE ~reached
    <2>1. outages + lost < MaxFaults
      BY <1>3 DEF Reached
    <2> QED BY <1>1, <1>3, <2>1, LifeAssumption DEF SessionInv, ClockTypes
  <1> QED BY <1>1, <1>2, <1>3

-----------------------------------------------------------------------------
\* The first state, in which nothing has been issued.
THEOREM InitSession == SessionInit => SessionInv
  <1> SUFFICES ASSUME SessionInit PROVE SessionInv
    OBVIOUS
  <1>1. ClockTypes /\ BrowserTypes /\ EntryTypes /\ EntriesExact
    <2>1. issued = <<>> /\ <<>> \in Seq(1 .. MaxTime) /\ Len(<<>>) = 0
      BY DEF SessionInit
    <2>2. ClockTypes
      <3>1. clock = 1 /\ outages = 0 /\ lost = 0 /\ ended = FALSE
        BY DEF SessionInit
      <3>2. clock \in 1 .. MaxTime /\ outages + lost <= MaxFaults
        BY <3>1, LifeAssumption
      <3>3. 0 \in 0 .. MaxPairs
        BY LifeAssumption
      <3> QED BY <2>1, <3>1, <3>2, <3>3 DEF ClockTypes
    <2>3. BrowserTypes
      BY <2>1 DEF SessionInit, BrowserTypes
    <2>4. EntryTypes /\ EntriesExact
      BY DEF SessionInit, EntryTypes, EntriesExact
    <2> QED BY <2>2, <2>3, <2>4
  <1>2. Len(issued) = 0 /\ NoRequest \in RequestsUpTo(0) /\ NoRequest.at = "idle"
    BY NoneSent DEF SessionInit
  <1>3. RequestTypes /\ ReplyCarriesPair
    BY <1>2 DEF SessionInit, RequestTypes, ReplyCarriesPair
  <1> QED BY <1>1, <1>3 DEF SessionInv

\* What is left when a step issues no pair and leaves the clock alone.
LEMMA OldPairs ==
    ASSUME SessionInv, UNCHANGED <<clock, issued>>,
           outages' \in Nat, lost' \in Nat, outages' + lost' <= MaxFaults,
           ended' \in BOOLEAN
    PROVE  ClockTypes' /\ PairsGrow /\ ClockMoves
  BY DEF SessionInv, ClockTypes, PairsGrow, ClockMoves

\* What is left when a step issues a pair.
LEMMA NewPair ==
    ASSUME SessionInv, NEW t \in Tabs, Issue(t),
           UNCHANGED <<clock, entries, jar, page, held, strays, outages, lost, ended>>
    PROVE  SessionInv' /\ PairsGrow /\ ClockMoves /\ EntriesMove
  <1>1. /\ RequestTypes' /\ ReplyCarriesPair'
        /\ Len(issued) < MaxPairs
        /\ issued' = Append(issued, clock) /\ issued' \in Seq(1 .. MaxTime)
        /\ Len(issued') = Len(issued) + 1
        /\ \A n \in 1 .. Len(issued) : issued'[n] = issued[n]
    BY Issued
  <1>2. ClockTypes'
    BY <1>1, LifeAssumption DEF SessionInv, ClockTypes
  <1>3. BrowserTypes'
    <2>1. Len(issued) \in Nat /\ Len(issued') = Len(issued) + 1
      BY <1>1 DEF SessionInv, ClockTypes
    <2>2. /\ 0 .. Len(issued) \subseteq 0 .. Len(issued')
          /\ 1 .. Len(issued) \subseteq 1 .. Len(issued')
      BY <2>1
    <2> QED BY <2>2 DEF SessionInv, BrowserTypes
  <1>4. EntryTypes'
    BY DEF SessionInv, EntryTypes
  <1>5. EntriesExact'
    <2> SUFFICES ASSUME NEW k \in TokenKinds, NEW n \in Pairs, entries[k][n] # 0
                 PROVE  n \in 1 .. Len(issued') /\ entries[k][n] = Expiry(k, n)'
      BY DEF EntriesExact
    <2>1. n \in 1 .. Len(issued) /\ entries[k][n] = Expiry(k, n)
      BY DEF SessionInv, EntriesExact
    <2>2. n \in 1 .. Len(issued')
      BY <1>1, <2>1 DEF SessionInv, ClockTypes
    <2>3. Expiry(k, n)' = Expiry(k, n)
      BY <1>1, <2>1 DEF Expiry
    <2> QED BY <2>1, <2>2, <2>3
  <1> QED BY <1>1, <1>2, <1>3, <1>4, <1>5
          DEF SessionInv, PairsGrow, ClockMoves, EntriesMove

\* What is left when a step touches neither the entries nor the pairs.
LEMMA EntriesLeft ==
    ASSUME SessionInv, UNCHANGED <<issued, entries>>
    PROVE  EntryTypes' /\ EntriesExact' /\ EntriesMove
  BY DEF SessionInv, EntryTypes, EntriesExact, EntriesMove, Expiry

\* What is left when a step touches nothing that the browser holds.
LEMMA BrowserLeft ==
    ASSUME SessionInv, UNCHANGED <<issued, jar, page, held, strays>>
    PROVE  BrowserTypes'
  BY DEF SessionInv, BrowserTypes

\* What is proved of each action.
Step == SessionInv' /\ PairsGrow /\ ClockMoves /\ EntriesMove

\* A tab sends a request.
LEMMA SendStep ==
    ASSUME SessionInv, NEW t \in Tabs, NEW op \in Ops \ {"none"}, Send(t, op)
    PROVE  Step
  <1> DEFINE n == Len(issued)
             y == SessionRequest(op, "sent", jar, page, 0)
  <1>1. /\ n \in Nat /\ n <= n /\ request \in [Tabs -> RequestsUpTo(n)]
    BY DEF SessionInv, ClockTypes, RequestTypes
  <1>2. y \in RequestsUpTo(n) /\ y.at = "sent"
    <2>1. jar \in 0 .. n /\ page \in 0 .. n
      BY DEF SessionInv, BrowserTypes
    <2>2. op \in Ops /\ "sent" \in Places /\ 0 \in 0 .. n
      BY <1>1 DEF Places
    <2> HIDE DEF n
    <2> QED BY <2>1, <2>2 DEF SessionRequest, RequestsUpTo
  <1>3. /\ request' = [request EXCEPT ![t] = y]
        /\ UNCHANGED <<clock, issued, entries, jar, page, held, strays, outages, lost>>
        /\ ended' \in BOOLEAN
    BY DEF Send
  <1>4. RequestTypes'
    <2>1. request' \in [Tabs -> RequestsUpTo(n)]
      <3> HIDE DEF n, y
      <3> QED BY <1>1, <1>2, <1>3, RequestMoves
    <2> QED BY <2>1, <1>3 DEF RequestTypes
  <1>5. ReplyCarriesPair'
    <2> HIDE DEF n, y
    <2> QED BY <1>1, <1>2, <1>3 DEF SessionInv, ReplyCarriesPair
  <1>6. ClockTypes' /\ PairsGrow /\ ClockMoves
    <2>1. outages' \in Nat /\ lost' \in Nat /\ outages' + lost' <= MaxFaults
      BY <1>3 DEF SessionInv, ClockTypes
    <2> QED BY <2>1, <1>3, OldPairs
  <1>7. EntryTypes' /\ EntriesExact' /\ EntriesMove /\ BrowserTypes'
    BY <1>3, EntriesLeft, BrowserLeft
  <1> QED BY <1>4, <1>5, <1>6, <1>7 DEF Step, SessionInv

\* A request checks a token: it goes on or is refused.
LEMMA CheckStep ==
    ASSUME SessionInv, NEW t \in Tabs, CheckRefresh(t) \/ CheckLogout(t)
    PROVE  Step
  <1>1. UNCHANGED <<clock, issued, entries, jar, page, held, strays, lost, ended>>
    BY DEF CheckRefresh, CheckLogout
  <1>2. PICK reached \in Reached : outages' = IF reached THEN outages ELSE outages + 1
    BY DEF CheckRefresh, CheckLogout
  <1>3. outages' \in Nat /\ lost' \in Nat /\ outages' + lost' <= MaxFaults
    BY <1>1, <1>2, OutagesBounded
  <1>4. /\ "checked" \in Places /\ "checked out" \in Places
    BY DEF Places
  <1>5. \/ Refuse(t)
        \/ Proceed(t, "checked")
        \/ Proceed(t, "checked out") /\ request[t].op = "logout"
    BY DEF CheckRefresh, CheckLogout
  <1>6. RequestTypes' /\ ReplyCarriesPair'
    BY <1>1, <1>4, <1>5, RefusedSession, WentOn
  <1>7. ClockTypes' /\ PairsGrow /\ ClockMoves
    <2>1. ended' \in BOOLEAN
      BY <1>1 DEF SessionInv, ClockTypes
    <2> QED BY <2>1, <1>1, <1>3, OldPairs
  <1>8. EntryTypes' /\ EntriesExact' /\ EntriesMove /\ BrowserTypes'
    BY <1>1, EntriesLeft, BrowserLeft
  <1> QED BY <1>6, <1>7, <1>8 DEF Step, SessionInv

\* A request retires a token.
LEMMA RetireStep ==
    ASSUME SessionInv, NEW t \in Tabs,
           RetireOld(t) \/ RetireAccess(t) \/ RetireCookie(t)
    PROVE  Step
  <1>1. UNCHANGED <<clock, issued, jar, page, held, strays, lost, ended>>
    BY DEF RetireOld, RetireAccess, RetireCookie
  <1>2. PICK reached \in Reached :
            /\ outages' = IF reached THEN outages ELSE outages + 1
            /\ \/ Retire("refresh", request[t].cookie, reached)
               \/ Retire("access", request[t].bearer, reached)
               \/ UNCHANGED entries
    BY DEF RetireOld, RetireAccess, RetireCookie
  <1>3. /\ reached \in BOOLEAN
        /\ outages' \in Nat /\ lost' \in Nat /\ outages' + lost' <= MaxFaults
    BY <1>1, <1>2, OutagesBounded
  <1>4. EntryTypes' /\ EntriesExact' /\ EntriesMove
    <2>1. request[t] \in RequestsUpTo(Len(issued)) /\ Len(issued) \in Nat
      BY DEF SessionInv, RequestTypes, ClockTypes
    <2>2. request[t].cookie \in Int /\ request[t].bearer \in Int
      BY <2>1 DEF RequestsUpTo
    <2>3. "refresh" \in TokenKinds /\ "access" \in TokenKinds
      BY DEF TokenKinds
    <2>4. CASE UNCHANGED entries
      BY <1>1, <2>4, EntriesLeft
    <2>5. CASE Retire("refresh", request[t].cookie, reached)
      BY <1>1, <1>3, <2>2, <2>3, <2>5, EntryMade
    <2>6. CASE Retire("access", request[t].bearer, reached)
      BY <1>1, <1>3, <2>2, <2>3, <2>6, EntryMade
    <2> QED BY <1>2, <2>4, <2>5, <2>6
  <1>5. "retired" \in Places /\ "half out" \in Places /\ "reply" \in Places
    BY DEF Places
  <1>6. \/ Proceed(t, "retired")
        \/ (Proceed(t, "half out") \/ Proceed(t, "reply")) /\ request[t].op = "logout"
    BY DEF RetireOld, RetireAccess, RetireCookie, SessionInv, ReplyCarriesPair
  <1>7. RequestTypes' /\ ReplyCarriesPair'
    BY <1>1, <1>5, <1>6, WentOn
  <1>8. ClockTypes' /\ PairsGrow /\ BrowserTypes'
    <2>1. ended' \in BOOLEAN
      BY <1>1 DEF SessionInv, ClockTypes
    <2> QED BY <2>1, <1>1, <1>3, OldPairs, BrowserLeft
  <1>9. ClockMoves
    BY <1>1 DEF ClockMoves
  <1> QED BY <1>4, <1>7, <1>8, <1>9 DEF Step, SessionInv

\* A reply reaches the browser, or does not.
LEMMA ReplyStep ==
    ASSUME SessionInv, NEW t \in Tabs, ReceivePair(t) \/ ReceiveLogout(t) \/ LoseReply(t)
    PROVE  Step
  <1>1. UNCHANGED <<clock, issued, entries, outages>> /\ Refuse(t)
    BY DEF ReceivePair, ReceiveLogout, LoseReply
  <1>2. RequestTypes' /\ ReplyCarriesPair'
    BY <1>1, RefusedSession
  <1>3. EntryTypes' /\ EntriesExact' /\ EntriesMove
    BY <1>1, EntriesLeft
  <1>4. BrowserTypes'
    <2> DEFINE n == Len(issued)
    <2>1. /\ n \in Nat /\ jar \in 0 .. n /\ page \in 0 .. n
          /\ held \subseteq 1 .. n /\ strays \subseteq 1 .. n
          /\ request[t] \in RequestsUpTo(n)
      BY DEF SessionInv, ClockTypes, BrowserTypes, RequestTypes
    <2>2. request[t].new \in 0 .. n /\ {jar} \ {0} \subseteq 1 .. n
      BY <2>1 DEF RequestsUpTo
    <2>3. Len(issued') = n
      BY <1>1
    <2>4. CASE ReceivePair(t)
      <3>1. request[t].new \in 1 .. n
        <4>1. request[t].at = "reply" /\ request[t].op \in {"login", "refresh"}
          BY <2>4 DEF ReceivePair
        <4>2. request[t].new # 0
          BY <4>1 DEF SessionInv, ReplyCarriesPair
        <4> QED BY <2>1, <2>2, <4>2
      <3> HIDE DEF n
      <3> QED BY <2>1, <2>2, <2>3, <2>4, <3>1 DEF ReceivePair, BrowserTypes
    <2>5. CASE ReceiveLogout(t)
      <3>1. 0 \in 0 .. n
        BY <2>1
      <3> HIDE DEF n
      <3> QED BY <2>1, <2>2, <2>3, <2>5, <3>1 DEF ReceiveLogout, BrowserTypes
    <2>6. CASE LoseReply(t)
      BY <2>6, <1>1, BrowserLeft DEF LoseReply
    <2> QED BY <2>4, <2>5, <2>6
  <1>5. ClockTypes' /\ PairsGrow /\ ClockMoves
    <2>1. outages' \in Nat /\ lost' \in Nat /\ outages' + lost' <= MaxFaults
      <3>1. /\ outages \in Nat /\ lost \in Nat /\ outages + lost <= MaxFaults
            /\ outages' = outages
        BY <1>1 DEF SessionInv, ClockTypes
      <3>2. CASE ReceivePair(t) \/ ReceiveLogout(t)
        <4>1. lost' = lost
          BY <3>2 DEF ReceivePair, ReceiveLogout
        <4> QED BY <3>1, <4>1
      <3>3. CASE LoseReply(t)
        <4>1. lost' = lost + 1 /\ outages + lost < MaxFaults
          BY <3>3 DEF LoseReply
        <4> QED BY <3>1, <4>1, LifeAssumption
      <3> QED BY <3>2, <3>3
    <2>2. ended' \in BOOLEAN
      <3>1. ended \in BOOLEAN
        BY DEF SessionInv, ClockTypes
      <3>2. CASE ReceivePair(t)
        BY <3>1, <3>2 DEF ReceivePair
      <3>3. CASE LoseReply(t)
        BY <3>1, <3>3 DEF LoseReply
      <3>4. CASE ReceiveLogout(t)
        <4>1. ended' = Alone(t)
          BY <3>4 DEF ReceiveLogout
        <4>2. (\A u \in Tabs \ {t} : request[u].at = "idle") \in BOOLEAN
          OBVIOUS
        <4> QED BY <4>1, <4>2 DEF Alone
      <3> QED BY <3>2, <3>3, <3>4
    <2> QED BY <1>1, <2>1, <2>2, OldPairs
  <1> QED BY <1>2, <1>3, <1>4, <1>5 DEF Step, SessionInv

\* Time passes.
LEMMA TickStep ==
    ASSUME SessionInv, Tick
    PROVE  Step
  <1>1. /\ clock' = clock + 1 /\ clock < MaxTime
        /\ UNCHANGED <<issued, entries, jar, page, request, held, strays, outages, lost, ended>>
    BY DEF Tick
  <1>2. ClockTypes'
    BY <1>1, LifeAssumption DEF SessionInv, ClockTypes
  <1>3. RequestTypes' /\ ReplyCarriesPair'
    BY <1>1 DEF SessionInv, RequestTypes, ReplyCarriesPair
  <1>4. EntryTypes' /\ EntriesExact' /\ EntriesMove /\ BrowserTypes'
    BY <1>1, EntriesLeft, BrowserLeft
  <1>5. PairsGrow /\ ClockMoves
    BY <1>1 DEF PairsGrow, ClockMoves
  <1> QED BY <1>2, <1>3, <1>4, <1>5 DEF Step, SessionInv

\* Every step keeps the invariant and is of one of the kinds above.
THEOREM NextSession ==
    ASSUME SessionInv, SessionNext
    PROVE  Step
  <1>1. CASE Tick
    BY <1>1, TickStep
  <1>2. ASSUME NEW t \in Tabs, SendLogin(t) \/ SendRefresh(t) \/ SendLogout(t) PROVE Step
    <2>1. {"login", "refresh", "logout"} \subseteq Ops \ {"none"}
      BY DEF Ops
    <2>2. \E op \in {"login", "refresh", "logout"} : Send(t, op)
      BY <1>2 DEF SendLogin, SendRefresh, SendLogout
    <2> QED BY <2>1, <2>2, SendStep
  <1>3. ASSUME NEW t \in Tabs, LogIn(t) \/ IssuePair(t) PROVE Step
    <2>1. /\ Issue(t)
          /\ UNCHANGED <<clock, entries, jar, page, held, strays, outages, lost, ended>>
      BY <1>3 DEF LogIn, IssuePair
    <2> QED BY <2>1, NewPair DEF Step
  <1>4. ASSUME NEW t \in Tabs, CheckRefresh(t) \/ CheckLogout(t) PROVE Step
    BY <1>4, CheckStep
  <1>5. ASSUME NEW t \in Tabs, RetireOld(t) \/ RetireAccess(t) \/ RetireCookie(t) PROVE Step
    BY <1>5, RetireStep
  <1>6. ASSUME NEW t \in Tabs, ReceivePair(t) \/ ReceiveLogout(t) \/ LoseReply(t) PROVE Step
    BY <1>6, ReplyStep
  <1> QED BY <1>1, <1>2, <1>3, <1>4, <1>5, <1>6 DEF SessionNext

\* A step that changes nothing.
LEMMA IdleSession ==
    ASSUME SessionInv, UNCHANGED sessionVars
    PROVE  Step
  <1>1. UNCHANGED <<clock, issued, entries, jar, page, request, held, strays, outages, lost, ended>>
    BY DEF sessionVars
  <1>2. ClockTypes' /\ PairsGrow /\ ClockMoves
    BY <1>1 DEF SessionInv, ClockTypes, PairsGrow, ClockMoves
  <1>3. RequestTypes' /\ ReplyCarriesPair'
    BY <1>1 DEF SessionInv, RequestTypes, ReplyCarriesPair
  <1>4. EntryTypes' /\ EntriesExact' /\ EntriesMove /\ BrowserTypes'
    BY <1>1, EntriesLeft, BrowserLeft
  <1> QED BY <1>2, <1>3, <1>4 DEF Step, SessionInv

\* The tokens that a step finds refused are refused after it.
THEOREM RefusedStays ==
    ASSUME SessionInv, Step,
           NEW k \in TokenKinds, NEW n \in 1 .. Len(issued), ~Accepted(k, n)
    PROVE  ~Accepted(k, n)'
  <1>1. /\ issued \in Seq(1 .. MaxTime) /\ Len(issued) \in Nat /\ Len(issued) <= MaxPairs
        /\ issued[n] \in Int /\ clock \in Int /\ clock >= 1 /\ n \in Pairs
    BY LifeAssumption DEF SessionInv, ClockTypes, Pairs
  <1>2. issued'[n] = issued[n]
    <2>1. CASE issued' = issued
      BY <2>1
    <2>2. CASE Len(issued) < MaxPairs /\ issued' = Append(issued, clock)
      <3>1. clock \in 1 .. MaxTime
        BY DEF SessionInv, ClockTypes
      <3> QED BY <1>1, <2>2, <3>1, AppendProperties
    <2> QED BY <2>1, <2>2 DEF Step, PairsGrow
  <1>3. Life[k] \in Int
    BY LifeAssumption DEF Life, TokenKinds
  <1>4. /\ Expiry(k, n)' = Expiry(k, n) /\ Expiry(k, n) \in Int
    BY <1>1, <1>2, <1>3 DEF Expiry
  <1>5. /\ entries[k][n] \in Int
        /\ entries[k][n] # 0 => entries[k][n] = Expiry(k, n)
    BY <1>1 DEF SessionInv, EntryTypes, EntriesExact
  <1>6. clock' = clock \/ (clock' = clock + 1 /\ entries' = entries)
    BY DEF Step, ClockMoves
  <1>7. entries'[k][n] = entries[k][n] \/ entries'[k][n] = Expiry(k, n)
    <2>1. CASE entries' = entries
      BY <2>1
    <2>2. ASSUME NEW j \in TokenKinds, NEW m \in 1 .. Len(issued), entries' = EntryAdded(j, m)
          PROVE  entries'[k][n] = entries[k][n] \/ entries'[k][n] = Expiry(k, n)
      BY <1>1, <2>2 DEF EntryAdded, Until
    <2> QED BY <2>1, <2>2 DEF Step, EntriesMove
  <1>8. CASE ~Lives(k, n)
    <2>1. clock >= Expiry(k, n)
      BY <1>1, <1>4, <1>8 DEF Lives
    <2>2. clock' >= Expiry(k, n)
      BY <1>1, <1>4, <1>6, <2>1
    <2> QED BY <1>1, <1>4, <1>6, <2>2 DEF Accepted, Lives
  <1>9. CASE Retired(k, n)
    <2>1. clock < entries[k][n] /\ entries[k][n] = Expiry(k, n)
      BY <1>1, <1>5, <1>9 DEF Retired
    <2>2. entries'[k][n] = Expiry(k, n)
      BY <1>7, <2>1
    <2>3. clock' \in Int
      BY <1>1, <1>6
    <2>4. clock' < entries'[k][n] \/ clock' >= Expiry(k, n)
      BY <1>4, <2>2, <2>3
    <2> QED BY <1>4, <2>3, <2>4 DEF Accepted, Lives, Retired
  <1> QED BY <1>8, <1>9 DEF Accepted

-----------------------------------------------------------------------------
\* Every variable keeps its type, and no entry outlives the use of its token.
THEOREM SessionTypeCorrect == SessionSpec => []SessionTypeOK
  <1>1. SessionInv /\ [SessionNext]_sessionVars => SessionInv'
    BY NextSession, IdleSession DEF Step
  <1>2. SessionInv => SessionTypeOK
    <2> SUFFICES ASSUME SessionInv PROVE SessionTypeOK
      OBVIOUS
    <2>1. request \in [Tabs -> SessionRequests]
      <3>1. /\ Len(issued) \in Nat /\ Len(issued) <= MaxPairs
            /\ request \in [Tabs -> RequestsUpTo(Len(issued))]
        BY LifeAssumption DEF SessionInv, ClockTypes, RequestTypes
      <3>2. 0 .. Len(issued) \subseteq 0 .. MaxPairs
        BY <3>1, LifeAssumption
      <3>3. RequestsUpTo(Len(issued)) \subseteq SessionRequests
        BY <3>2 DEF RequestsUpTo, SessionRequests, Ops, Places
      <3> QED BY <3>1, <3>3
    <2>2. ASSUME NEW k \in TokenKinds, NEW n \in Pairs, entries[k][n] # 0
          PROVE  n <= Len(issued) /\ entries[k][n] <= issued[n] + Life[k]
      <3>1. n \in 1 .. Len(issued) /\ entries[k][n] = Expiry(k, n)
        BY <2>2 DEF SessionInv, EntriesExact
      <3>2. entries[k][n] \in Int /\ Len(issued) \in Nat
        BY DEF SessionInv, EntryTypes, ClockTypes
      <3> QED BY <3>1, <3>2 DEF Expiry
    <2>3. /\ clock \in 1 .. MaxTime
          /\ issued \in Seq(1 .. MaxTime) /\ Len(issued) <= MaxPairs
          /\ outages \in Nat /\ lost \in Nat /\ outages + lost <= MaxFaults
          /\ ended \in BOOLEAN
      BY LifeAssumption DEF SessionInv, ClockTypes
    <2>4. /\ jar \in 0 .. Len(issued) /\ page \in 0 .. Len(issued)
          /\ held \cup strays \subseteq 1 .. Len(issued)
      BY DEF SessionInv, BrowserTypes
    <2> QED BY <2>1, <2>2, <2>3, <2>4 DEF SessionTypeOK
  <1> QED BY InitSession, <1>1, <1>2, PTL DEF SessionSpec

\* A token that is refused once, because it was retired or has expired, is
\* refused for ever.
THEOREM RetiredForEver == SessionSpec => RetiredStays
  <1>1. SessionInv /\ [SessionNext]_sessionVars => SessionInv'
    BY NextSession, IdleSession DEF Step
  <1>2. SessionInv /\ [SessionNext]_sessionVars
          => [\A k \in TokenKinds : \A n \in 1 .. Len(issued) :
                ~Accepted(k, n) => ~Accepted(k, n)']_sessionVars
    BY NextSession, RefusedStays
  <1> QED BY InitSession, <1>1, <1>2, PTL DEF SessionSpec, RetiredStays

--------------------------------------------------------------------------------
(* Sessions: signed in until signed out *)

(***************************************************************************)
(* A cookie is accepted as long as the pair that replaced it has not       *)
(* reached the browser. Which request holds the newest pair, and that a    *)
(* logout nothing overlapped took with it all that the browser ever held,  *)
(* is what has to be carried from the sending of a request to its reply.   *)
(***************************************************************************)

\* The places that a request of each kind passes through.
RequestPlaces ==
    \A t \in Tabs :
        /\ request[t].at = "idle" <=> request[t].op = "none"
        /\ request[t].at = "checked" \/ request[t].at = "retired" => request[t].op = "refresh"
        /\ request[t].at = "checked out" \/ request[t].at = "half out" => request[t].op = "logout"

\* The request has retired the cookie that it came with.
Spent(t) ==
    \/ /\ request[t].op = "refresh"
       /\ request[t].at = "retired" \/ request[t].at = "reply"
    \/ request[t].op = "logout" /\ request[t].at = "reply" /\ request[t].cookie # 0

CarriesNew(t) ==
    request[t].at = "reply" /\ (request[t].op = "login" \/ request[t].op = "refresh")

\* Only what was in the jar is sent, and only what was sent is retired.
HeldOnly ==
    /\ jar \in held \cup {0}
    /\ \A t \in Tabs : request[t].cookie \in held \cup {0}
    /\ \A n \in Pairs : entries["refresh"][n] # 0 => n \in held

\* A pair that is under way has not been in the jar, and goes to one tab.
NewIsNew ==
    \A t \in Tabs : CarriesNew(t) =>
        /\ request[t].new \notin held
        /\ \A u \in Tabs : u # t /\ CarriesNew(u) => request[u].new # request[t].new

\* Who retired the token in the jar has not answered yet.
JarSpent ==
    lost = 0 /\ jar # 0 /\ entries["refresh"][jar] # 0
        => \E t \in Tabs : Spent(t) /\ request[t].cookie = jar

EndedIdle == ended => jar = 0 /\ page = 0 /\ \A t \in Tabs : request[t].at = "idle"

\* With a cache that always answered, what was exchanged or logged out is refused.
SpentRefused ==
    outages = 0 =>
        /\ \A t \in Tabs : Spent(t) => ~Accepted("refresh", request[t].cookie)
        /\ \A n \in held \ strays : n = jar \/ ~Accepted("refresh", n)

SignInv ==
    /\ SessionInv /\ RequestPlaces /\ HeldOnly /\ NewIsNew
    /\ JarSpent /\ EndedIdle /\ SpentRefused

-----------------------------------------------------------------------------
LEMMA SignInvInit == SessionInit => SignInv
<1> SUFFICES ASSUME SessionInit PROVE SignInv
  OBVIOUS
<1>1. \A t \in Tabs : /\ request[t].at = "idle" /\ request[t].op = "none" /\ request[t].cookie = 0
  BY DEF SessionInit, NoRequest, SessionRequest
<1>2. RequestPlaces /\ NewIsNew
  BY <1>1 DEF RequestPlaces, NewIsNew, CarriesNew
<1>3. HeldOnly /\ JarSpent /\ EndedIdle
  BY <1>1 DEF SessionInit, HeldOnly, JarSpent, EndedIdle, TokenKinds
<1>4. SpentRefused
  BY <1>1 DEF SessionInit, SpentRefused, Spent
<1> QED
  BY <1>2, <1>3, <1>4, InitSession DEF SignInv

\* What a step finds refused stays so, the empty cookie included.
LEMMA OldRefused ==
    ASSUME SessionInv, Step, NEW n \in 0 .. Len(issued), ~Accepted("refresh", n)
    PROVE  ~Accepted("refresh", n)'
<1>1. CASE n = 0
  BY <1>1 DEF Accepted, Lives
<1>2. CASE n # 0
  <2>1. n \in 1 .. Len(issued) /\ "refresh" \in TokenKinds
    BY <1>2 DEF TokenKinds
  <2> QED
    BY <2>1, RefusedStays
<1> QED
  BY <1>1, <1>2

LEMMA SignTypes ==
    ASSUME SessionInv
    PROVE  /\ Len(issued) \in Nat /\ held \subseteq 1 .. Len(issued) /\ jar \in 0 .. Len(issued)
           /\ Len(issued) <= MaxPairs
           /\ request \in [Tabs -> RequestsUpTo(Len(issued))]
           /\ \A t \in Tabs : request[t].cookie \in 0 .. Len(issued)
           /\ \A t \in Tabs : request[t].new \in 0 .. Len(issued)
           /\ outages \in Nat /\ lost \in Nat
BY LifeAssumption DEF SessionInv, ClockTypes, BrowserTypes, RequestTypes, RequestsUpTo

\* Steps of one request that leave the jar and the retired refresh tokens alone.
LEMMA SignQuiet ==
    ASSUME SignInv, Step, NEW t \in Tabs,
           UNCHANGED <<jar, held, strays>>,
           \A n \in Pairs : entries'["refresh"][n] = entries["refresh"][n],
           outages' = 0 => outages = 0, lost' = 0 => lost = 0 /\ ~Spent(t),
           \A u \in Tabs : u # t => request'[u] = request[u],
           ~Spent(t)', ~CarriesNew(t)', request'[t].cookie \in held \cup {0},
           RequestPlaces', EndedIdle'
    PROVE  SignInv'
<1>1. HeldOnly'
  BY DEF SignInv, HeldOnly
<1>2. NewIsNew'
  BY DEF SignInv, NewIsNew, CarriesNew
<1>3. JarSpent'
  <2> SUFFICES ASSUME lost' = 0, jar # 0, entries'["refresh"][jar] # 0
               PROVE  \E u \in Tabs : Spent(u)' /\ request'[u].cookie = jar
    BY DEF JarSpent
  <2>1. jar \in Pairs
    BY SignTypes, LifeAssumption DEF SignInv, Pairs
  <2>2. PICK u \in Tabs : Spent(u) /\ request[u].cookie = jar
    BY <2>1 DEF SignInv, JarSpent
  <2>3. u # t
    BY <2>2
  <2> QED
    BY <2>2, <2>3 DEF Spent
<1>4. SpentRefused'
  <2> SUFFICES ASSUME outages' = 0
               PROVE  /\ \A u \in Tabs : Spent(u)' => ~Accepted("refresh", request[u].cookie)'
                      /\ \A n \in held \ strays : n = jar \/ ~Accepted("refresh", n)'
    BY DEF SpentRefused
  <2>1. ASSUME NEW u \in Tabs, Spent(u)'
        PROVE  ~Accepted("refresh", request[u].cookie)'
    <3>1. u # t /\ request'[u] = request[u]
      BY <2>1
    <3>2. Spent(u)
      BY <2>1, <3>1 DEF Spent
    <3>3. PICK n \in 0 .. Len(issued) : n = request[u].cookie
      BY SignTypes DEF SignInv
    <3>4. ~Accepted("refresh", n)
      BY <3>2, <3>3 DEF SignInv, SpentRefused
    <3>5. ~Accepted("refresh", n)'
      BY <3>4, OldRefused DEF SignInv
    <3> QED
      BY <3>1, <3>3, <3>5
  <2>2. ASSUME NEW n \in held \ strays, n # jar PROVE ~Accepted("refresh", n)'
    <3>1. n \in 0 .. Len(issued) /\ ~Accepted("refresh", n)
      BY <2>2, SignTypes DEF SignInv, SpentRefused
    <3> QED
      BY <3>1, OldRefused DEF SignInv
  <2> QED
    BY <2>1, <2>2
<1> QED
  BY <1>1, <1>2, <1>3, <1>4 DEF SignInv, Step

\* The other requests stay as they are.
LEMMA OneRequest ==
    ASSUME SessionInv, NEW t \in Tabs, NEW x, request' = [request EXCEPT ![t] = x]
    PROVE  request'[t] = x /\ \A u \in Tabs : u # t => request'[u] = request[u]
BY SignTypes

LEMMA NoRequestIs == /\ NoRequest.op = "none" /\ NoRequest.at = "idle" /\ NoRequest.cookie = 0
BY DEF NoRequest, SessionRequest

LEMMA SignSend ==
    ASSUME SignInv, Step, NEW t \in Tabs, SendLogin(t) \/ SendRefresh(t) \/ SendLogout(t)
    PROVE  SignInv'
<1>1. PICK op \in {"login", "refresh", "logout"} :
         Send(t, op) /\ (op = "refresh" => jar # 0) /\ (op = "logout" => page # 0)
  BY DEF SendLogin, SendRefresh, SendLogout
<1>2. /\ request[t].at = "idle"
      /\ request' = [request EXCEPT ![t] = SessionRequest(op, "sent", jar, page, 0)]
      /\ ended' = (ended /\ op # "login")
      /\ UNCHANGED <<clock, issued, entries, jar, page, held, strays, outages, lost>>
      /\ op = "refresh" => jar # 0
      /\ op = "logout" => page # 0
  BY <1>1 DEF Send
<1>3. /\ request'[t].op = op /\ request'[t].at = "sent" /\ request'[t].cookie = jar
      /\ \A u \in Tabs : u # t => request'[u] = request[u]
  <2> DEFINE x == SessionRequest(op, "sent", jar, page, 0)
  <2>1. x.op = op /\ x.at = "sent" /\ x.cookie = jar
    BY DEF SessionRequest
  <2> HIDE DEF x
  <2>2. request'[t] = x /\ \A u \in Tabs : u # t => request'[u] = request[u]
    BY <1>2, OneRequest DEF SignInv, x
  <2> QED
    BY <2>1, <2>2
<1>4. RequestPlaces'
  BY <1>3 DEF SignInv, RequestPlaces
<1>5. EndedIdle'
  BY <1>2 DEF SignInv, EndedIdle
<1>6. ~Spent(t) /\ ~Spent(t)' /\ ~CarriesNew(t)'
  BY <1>2, <1>3 DEF Spent, CarriesNew
<1>7. request'[t].cookie \in held \cup {0}
  BY <1>3 DEF SignInv, HeldOnly
<1> QED
  BY <1>2, <1>3, <1>4, <1>5, <1>6, <1>7, SignQuiet

\* Who has a request under way has not been logged out.
LEMMA NotEnded ==
    ASSUME SignInv, NEW t \in Tabs, request[t].at # "idle"
    PROVE  ~ended
BY DEF SignInv, EndedIdle

LEMMA OutagesGrow ==
    ASSUME SessionInv, NEW reached \in BOOLEAN,
           outages' = (IF reached THEN outages ELSE outages + 1)
    PROVE  outages' = 0 => outages = 0 /\ reached
BY SignTypes

LEMMA SignCheck ==
    ASSUME SignInv, Step, NEW t \in Tabs, CheckRefresh(t) \/ CheckLogout(t)
    PROVE  SignInv'
<1>1. /\ UNCHANGED <<clock, issued, entries, jar, page, held, strays, lost, ended>>
      /\ request[t].at = "sent"
  BY DEF CheckRefresh, CheckLogout
<1>2. PICK reached \in Reached : outages' = IF reached THEN outages ELSE outages + 1
  BY DEF CheckRefresh, CheckLogout
<1>3. outages' = 0 => outages = 0
  <2>1. reached \in BOOLEAN
    BY DEF Reached
  <2> QED
    BY <1>2, <2>1, OutagesGrow DEF SignInv
<1>4. PICK x : /\ request' = [request EXCEPT ![t] = x]
               /\ \/ x = NoRequest
                  \/ x = MovedTo(request[t], "checked", 0) /\ request[t].op = "refresh"
                  \/ x = MovedTo(request[t], "checked out", 0) /\ request[t].op = "logout"
  <2>1. CASE Refuse(t)
    BY <2>1 DEF Refuse
  <2>2. CASE Proceed(t, "checked") /\ request[t].op = "refresh"
    BY <2>2 DEF Proceed
  <2>3. CASE Proceed(t, "checked out") /\ request[t].op = "logout"
    BY <2>3 DEF Proceed
  <2> QED
    BY <2>1, <2>2, <2>3 DEF CheckRefresh, CheckLogout
<1>5. request'[t] = x /\ \A u \in Tabs : u # t => request'[u] = request[u]
  BY <1>4, OneRequest DEF SignInv
<1>6. \/ x.op = "none" /\ x.at = "idle" /\ x.cookie = 0
      \/ x.op = "refresh" /\ x.at = "checked" /\ x.cookie = request[t].cookie
      \/ x.op = "logout" /\ x.at = "checked out" /\ x.cookie = request[t].cookie
  <2>1. CASE x = NoRequest
    BY <2>1, NoRequestIs
  <2>2. CASE x = MovedTo(request[t], "checked", 0) /\ request[t].op = "refresh"
    BY <2>2 DEF MovedTo, SessionRequest
  <2>3. CASE x = MovedTo(request[t], "checked out", 0) /\ request[t].op = "logout"
    BY <2>3 DEF MovedTo, SessionRequest
  <2> QED
    BY <1>4, <2>1, <2>2, <2>3
<1>7. RequestPlaces'
  BY <1>5, <1>6 DEF SignInv, RequestPlaces
<1>8. EndedIdle'
  BY <1>1, NotEnded DEF EndedIdle
<1>9. ~Spent(t) /\ ~Spent(t)' /\ ~CarriesNew(t)'
  BY <1>1, <1>5, <1>6 DEF Spent, CarriesNew
<1>10. request'[t].cookie \in held \cup {0}
  BY <1>5, <1>6 DEF SignInv, HeldOnly
<1> QED
  BY <1>1, <1>3, <1>5, <1>7, <1>8, <1>9, <1>10, SignQuiet

LEMMA SignRetireAccess ==
    ASSUME SignInv, Step, NEW t \in Tabs, RetireAccess(t)
    PROVE  SignInv'
<1>1. /\ UNCHANGED <<clock, issued, jar, page, held, strays, lost, ended>>
      /\ request[t].at = "checked out"
      /\ request' = [request EXCEPT ![t] = MovedTo(request[t], "half out", 0)]
  BY DEF RetireAccess, Proceed
<1>2. PICK reached \in Reached : /\ outages' = IF reached THEN outages ELSE outages + 1
                                 /\ Retire("access", request[t].bearer, reached)
  BY DEF RetireAccess
<1>3. outages' = 0 => outages = 0
  <2>1. reached \in BOOLEAN
    BY DEF Reached
  <2> QED
    BY <1>2, <2>1, OutagesGrow DEF SignInv
<1>4. \A n \in Pairs : entries'["refresh"][n] = entries["refresh"][n]
  BY <1>2 DEF Retire, EntryAdded, TokenKinds
<1>5. /\ request'[t].at = "half out" /\ request'[t].cookie = request[t].cookie
      /\ request'[t].op = request[t].op
      /\ \A u \in Tabs : u # t => request'[u] = request[u]
  <2> DEFINE x == MovedTo(request[t], "half out", 0)
  <2>1. x.op = request[t].op /\ x.at = "half out" /\ x.cookie = request[t].cookie /\ x.new = 0
    BY DEF MovedTo, SessionRequest
  <2> HIDE DEF x
  <2>2. request'[t] = x /\ \A u \in Tabs : u # t => request'[u] = request[u]
    BY <1>1, OneRequest DEF SignInv, x
  <2> QED
    BY <2>1, <2>2
<1>6. RequestPlaces'
  BY <1>1, <1>5 DEF SignInv, RequestPlaces
<1>7. EndedIdle'
  BY <1>1, NotEnded DEF EndedIdle
<1>8. ~Spent(t) /\ ~Spent(t)' /\ ~CarriesNew(t)'
  BY <1>1, <1>5 DEF Spent, CarriesNew
<1>9. request'[t].cookie \in held \cup {0}
  BY <1>5 DEF SignInv, HeldOnly
<1> QED
  BY <1>1, <1>3, <1>4, <1>5, <1>6, <1>7, <1>8, <1>9, SignQuiet

LEMMA SignLose ==
    ASSUME SignInv, Step, NEW t \in Tabs, LoseReply(t)
    PROVE  SignInv'
<1>1. /\ UNCHANGED <<clock, issued, entries, jar, page, held, strays, outages, ended>>
      /\ request[t].at = "reply" /\ lost' = lost + 1
      /\ request' = [request EXCEPT ![t] = NoRequest]
  BY DEF LoseReply, Refuse
<1>2. lost' # 0
  BY <1>1, SignTypes DEF SignInv
<1>3. /\ request'[t].at = "idle" /\ request'[t].cookie = 0 /\ request'[t].op = "none"
      /\ \A u \in Tabs : u # t => request'[u] = request[u]
  BY <1>1, OneRequest, NoRequestIs DEF SignInv
<1>4. RequestPlaces'
  BY <1>3 DEF SignInv, RequestPlaces
<1>5. EndedIdle'
  BY <1>1, NotEnded DEF EndedIdle
<1>6. ~Spent(t)' /\ ~CarriesNew(t)'
  BY <1>3 DEF Spent, CarriesNew
<1> QED
  BY <1>1, <1>2, <1>3, <1>4, <1>5, <1>6, SignQuiet

\* A pair is issued: the request goes on carrying it.
LEMMA SignIssue ==
    ASSUME SignInv, Step, NEW t \in Tabs, LogIn(t) \/ IssuePair(t)
    PROVE  SignInv'
<1> DEFINE n == Len(issued) + 1
<1>1. /\ UNCHANGED <<clock, entries, jar, page, held, strays, outages, lost, ended>>
      /\ request' = [request EXCEPT ![t] = MovedTo(request[t], "reply", n)]
  BY DEF LogIn, IssuePair, Issue
<1>2. \/ request[t].at = "sent" /\ request[t].op = "login"
      \/ request[t].at = "retired" /\ request[t].op = "refresh"
  BY DEF LogIn, IssuePair, SignInv, RequestPlaces
<1>3. /\ request'[t].at = "reply" /\ request'[t].cookie = request[t].cookie
      /\ request'[t].op = request[t].op /\ request'[t].new = n
      /\ \A u \in Tabs : u # t => request'[u] = request[u]
  <2> DEFINE x == MovedTo(request[t], "reply", n)
  <2>1. x.op = request[t].op /\ x.at = "reply" /\ x.cookie = request[t].cookie /\ x.new = n
    BY DEF MovedTo, SessionRequest
  <2> HIDE DEF x
  <2>2. request'[t] = x /\ \A u \in Tabs : u # t => request'[u] = request[u]
    BY <1>1, OneRequest DEF SignInv, x
  <2> QED
    BY <2>1, <2>2
<1> HIDE DEF n
<1>4. /\ n \notin held
      /\ \A u \in Tabs : request[u].new # n
  BY SignTypes DEF SignInv, n
<1>5. RequestPlaces'
  BY <1>2, <1>3 DEF SignInv, RequestPlaces
<1>6. EndedIdle'
  BY <1>1, <1>2, NotEnded DEF EndedIdle
<1>7. HeldOnly'
  BY <1>1, <1>3 DEF SignInv, HeldOnly
<1>8. NewIsNew'
  <2>1. \A u \in Tabs : u # t => (CarriesNew(u)' <=> CarriesNew(u))
    BY <1>3 DEF CarriesNew
  <2> QED
    BY <1>1, <1>3, <1>4, <2>1 DEF SignInv, NewIsNew
<1>9. \A u \in Tabs : /\ Spent(u)' <=> Spent(u)
                      /\ request'[u].cookie = request[u].cookie
  BY <1>2, <1>3 DEF Spent
<1>10. JarSpent'
  BY <1>1, <1>9 DEF SignInv, JarSpent
<1>11. SpentRefused'
  <2> SUFFICES ASSUME outages = 0
               PROVE  /\ \A u \in Tabs : Spent(u) => ~Accepted("refresh", request[u].cookie)'
                      /\ \A k \in held \ strays : k = jar \/ ~Accepted("refresh", k)'
    BY <1>1, <1>9 DEF SpentRefused
  <2>1. ASSUME NEW u \in Tabs, Spent(u) PROVE ~Accepted("refresh", request[u].cookie)'
    <3>1. PICK k \in 0 .. Len(issued) : k = request[u].cookie
      BY SignTypes DEF SignInv
    <3>2. ~Accepted("refresh", k)'
      BY <2>1, <3>1, OldRefused DEF SignInv, SpentRefused
    <3> QED
      BY <1>9, <3>1, <3>2
  <2>2. ASSUME NEW k \in held \ strays, k # jar PROVE ~Accepted("refresh", k)'
    <3>1. k \in 0 .. Len(issued) /\ ~Accepted("refresh", k)
      BY <2>2, SignTypes DEF SignInv, SpentRefused
    <3> QED
      BY <3>1, OldRefused DEF SignInv
  <2> QED
    BY <2>1, <2>2
<1> QED
  BY <1>5, <1>6, <1>7, <1>8, <1>10, <1>11 DEF SignInv, Step

\* A refresh or a logout retires the cookie that it came with.
LEMMA SignSpend ==
    ASSUME SignInv, Step, NEW t \in Tabs, RetireOld(t) \/ RetireCookie(t)
    PROVE  SignInv'
<1>1. PICK c \in 0 .. Len(issued) : c = request[t].cookie
  BY SignTypes DEF SignInv
<1>2. UNCHANGED <<clock, issued, jar, page, held, strays, lost, ended>>
  BY DEF RetireOld, RetireCookie
<1>3. PICK reached \in Reached :
         /\ outages' = IF reached THEN outages ELSE outages + 1
         /\ (Retire("refresh", c, reached) \/ (c = 0 /\ UNCHANGED entries))
  BY <1>1 DEF RetireOld, RetireCookie
<1>4. reached \in BOOLEAN
  BY DEF Reached
<1>5. outages' = 0 => outages = 0 /\ reached
  BY <1>3, <1>4, OutagesGrow DEF SignInv
<1>6. \/ /\ request[t].op = "refresh" /\ request[t].at = "checked" /\ Proceed(t, "retired")
      \/ /\ request[t].op = "logout" /\ request[t].at = "half out" /\ Proceed(t, "reply")
  BY DEF RetireOld, RetireCookie, SignInv, RequestPlaces
<1>7. PICK x : request' = [request EXCEPT ![t] = x] /\ x.cookie = c /\ x.op = request[t].op
               /\ (\/ x.op = "refresh" /\ x.at = "retired"
                   \/ x.op = "logout" /\ x.at = "reply")
  <2>1. CASE request[t].op = "refresh" /\ Proceed(t, "retired")
    <3> DEFINE y == MovedTo(request[t], "retired", 0)
    <3>1. y.cookie = c /\ y.op = request[t].op /\ y.at = "retired"
      BY <1>1 DEF MovedTo, SessionRequest
    <3>2. request' = [request EXCEPT ![t] = y]
      BY <2>1 DEF Proceed
    <3> HIDE DEF y
    <3> QED
      BY <2>1, <3>1, <3>2
  <2>2. CASE request[t].op = "logout" /\ Proceed(t, "reply")
    <3> DEFINE y == MovedTo(request[t], "reply", 0)
    <3>1. y.cookie = c /\ y.op = request[t].op /\ y.at = "reply"
      BY <1>1 DEF MovedTo, SessionRequest
    <3>2. request' = [request EXCEPT ![t] = y]
      BY <2>2 DEF Proceed
    <3> HIDE DEF y
    <3> QED
      BY <2>2, <3>1, <3>2
  <2> QED
    BY <1>6, <2>1, <2>2
<1>8. request'[t] = x /\ \A u \in Tabs : u # t => request'[u] = request[u]
  BY <1>7, OneRequest DEF SignInv
<1>9. ~Spent(t) /\ ~CarriesNew(t)' /\ (c # 0 => Spent(t)')
  BY <1>6, <1>7, <1>8 DEF Spent, CarriesNew
<1>10. \A u \in Tabs : u # t => (Spent(u)' <=> Spent(u)) /\ (CarriesNew(u)' <=> CarriesNew(u))
  BY <1>8 DEF Spent, CarriesNew
<1>11. \A u \in Tabs : request'[u].cookie = request[u].cookie
  BY <1>1, <1>7, <1>8
<1>12. ~Lives("refresh", 0)
  BY DEF Lives
<1>13. \A m \in Pairs : \/ entries'["refresh"][m] = entries["refresh"][m]
                       \/ (m = c /\ Lives("refresh", c))
  <2>1. entries' = entries \/ (Lives("refresh", c) /\ entries' = EntryAdded("refresh", c))
    BY <1>3 DEF Retire
  <2>2. ASSUME NEW m \in Pairs, entries' = EntryAdded("refresh", c), m # c
        PROVE  entries'["refresh"][m] = entries["refresh"][m]
    BY <2>2 DEF EntryAdded, TokenKinds
  <2> QED
    BY <2>1, <2>2
<1>14. Lives("refresh", c) => c \in held
  BY <1>1, <1>12 DEF SignInv, HeldOnly
<1>15. RequestPlaces'
  BY <1>7, <1>8 DEF SignInv, RequestPlaces
<1>16. HeldOnly'
  BY <1>2, <1>11, <1>13, <1>14 DEF SignInv, HeldOnly
<1>17. NewIsNew'
  BY <1>2, <1>8, <1>9, <1>10 DEF SignInv, NewIsNew
<1>18. EndedIdle'
  BY <1>2, <1>6, NotEnded DEF EndedIdle
<1>19. JarSpent'
  <2> SUFFICES ASSUME lost = 0, jar # 0, entries'["refresh"][jar] # 0
               PROVE  \E u \in Tabs : Spent(u)' /\ request'[u].cookie = jar
    BY <1>2 DEF JarSpent
  <2>1. jar \in Pairs
    BY SignTypes, LifeAssumption DEF SignInv, Pairs
  <2>2. CASE jar = c
    BY <1>1, <1>9, <1>11, <2>2
  <2>3. CASE jar # c
    <3>1. PICK u \in Tabs : Spent(u) /\ request[u].cookie = jar
      BY <1>13, <2>1, <2>3 DEF SignInv, JarSpent
    <3> QED
      BY <1>9, <1>10, <1>11, <3>1
  <2> QED
    BY <2>2, <2>3
<1>20. ASSUME outages' = 0 PROVE ~Accepted("refresh", c)'
  <2>1. Lives("refresh", c)' <=> Lives("refresh", c)
    BY <1>2 DEF Lives, Expiry
  <2>2. CASE ~Lives("refresh", c)
    BY <2>1, <2>2 DEF Accepted
  <2>3. CASE Lives("refresh", c)
    <3>1. c # 0 /\ c \in Pairs
      BY <1>1, <1>12, <2>3, SignTypes, LifeAssumption DEF SignInv, Pairs
    <3>2. entries' = EntryAdded("refresh", c)
      BY <1>3, <1>5, <1>20, <2>3, <3>1 DEF Retire
    <3>3. entries'["refresh"][c] = Expiry("refresh", c)
      BY <3>1, <3>2 DEF EntryAdded, Until, TokenKinds
    <3>4. clock' < entries'["refresh"][c]
      BY <1>2, <2>3, <3>3 DEF Lives
    <3> QED
      BY <3>4 DEF Accepted, Retired
  <2> QED
    BY <2>2, <2>3
<1>21. SpentRefused'
  <2> SUFFICES ASSUME outages' = 0
               PROVE  /\ \A u \in Tabs : Spent(u)' => ~Accepted("refresh", request[u].cookie)'
                      /\ \A k \in held \ strays : k = jar \/ ~Accepted("refresh", k)'
    BY <1>2 DEF SpentRefused
  <2>1. ASSUME NEW u \in Tabs, Spent(u)' PROVE ~Accepted("refresh", request[u].cookie)'
    <3>1. CASE u = t
      <4>1. request'[u].cookie = c
        BY <1>1, <1>11, <3>1
      <4> QED
        BY <1>20, <4>1
    <3>2. CASE u # t
      <4>1. PICK k \in 0 .. Len(issued) : k = request[u].cookie
        BY SignTypes DEF SignInv
      <4>2. ~Accepted("refresh", k)
        BY <1>5, <1>10, <2>1, <3>2, <4>1 DEF SignInv, SpentRefused
      <4>3. ~Accepted("refresh", k)'
        BY <4>2, OldRefused DEF SignInv
      <4> QED
        BY <1>11, <4>1, <4>3
    <3> QED
      BY <3>1, <3>2
  <2>2. ASSUME NEW k \in held \ strays, k # jar PROVE ~Accepted("refresh", k)'
    <3>1. k \in 0 .. Len(issued) /\ ~Accepted("refresh", k)
      BY <1>5, <2>2, SignTypes DEF SignInv, SpentRefused
    <3> QED
      BY <3>1, OldRefused DEF SignInv
  <2> QED
    BY <2>1, <2>2
<1> QED
  BY <1>15, <1>16, <1>17, <1>18, <1>19, <1>21 DEF SignInv, Step

\* The browser takes a pair, or loses its cookie.
LEMMA SignReply ==
    ASSUME SignInv, Step, NEW t \in Tabs, ReceivePair(t) \/ ReceiveLogout(t)
    PROVE  SignInv'
<1>1. /\ UNCHANGED <<clock, issued, entries, outages, lost>>
      /\ request[t].at = "reply"
      /\ request' = [request EXCEPT ![t] = NoRequest]
  BY DEF ReceivePair, ReceiveLogout, Refuse
<1>2. \/ /\ CarriesNew(t) /\ jar' = request[t].new /\ held' = held \cup {request[t].new}
         /\ ended' = ended
      \/ /\ request[t].op = "logout" /\ jar' = 0 /\ page' = 0 /\ held' = held
         /\ ended' = Alone(t)
  BY DEF ReceivePair, ReceiveLogout, CarriesNew
<1>3. strays' = strays \cup ({jar} \ {0}) \/ (strays' = strays /\ request[t].cookie = jar
                                             /\ request[t].op # "login")
  BY DEF ReceivePair, ReceiveLogout
<1>4. /\ request'[t].at = "idle" /\ request'[t].cookie = 0 /\ request'[t].op = "none"
      /\ \A u \in Tabs : u # t => request'[u] = request[u]
  BY <1>1, OneRequest, NoRequestIs DEF SignInv
<1>5. ~Spent(t)' /\ ~CarriesNew(t)'
  BY <1>4 DEF Spent, CarriesNew
<1>6. \A u \in Tabs : u # t => (Spent(u)' <=> Spent(u)) /\ (CarriesNew(u)' <=> CarriesNew(u))
  BY <1>4 DEF Spent, CarriesNew
<1>7. RequestPlaces'
  BY <1>4 DEF SignInv, RequestPlaces
<1>8. held \subseteq held' /\ jar' \in held' \cup {0}
  BY <1>2
<1>9. HeldOnly'
  BY <1>1, <1>4, <1>8 DEF SignInv, HeldOnly
<1>10. NewIsNew'
  BY <1>2, <1>4, <1>5, <1>6 DEF SignInv, NewIsNew
<1>11. EndedIdle'
  <2>1. CASE ended' = ended
    BY <1>1, <2>1, NotEnded DEF EndedIdle
  <2>2. CASE jar' = 0 /\ page' = 0 /\ ended' = Alone(t)
    BY <1>4, <2>2 DEF EndedIdle, Alone
  <2> QED
    BY <1>2, <2>1, <2>2
<1>12. JarSpent'
  <2>1. CASE CarriesNew(t) /\ jar' = request[t].new
    <3>1. request[t].new \notin held
      BY <2>1 DEF SignInv, NewIsNew
    <3>2. jar' \in 0 .. MaxPairs
      BY <2>1, SignTypes, LifeAssumption DEF SignInv
    <3> QED
      BY <1>1, <2>1, <3>1, <3>2 DEF SignInv, HeldOnly, JarSpent, Pairs
  <2>2. CASE jar' = 0
    BY <2>2 DEF JarSpent
  <2> QED
    BY <1>2, <2>1, <2>2
<1>13. SpentRefused'
  <2> SUFFICES ASSUME outages = 0
               PROVE  /\ \A u \in Tabs : Spent(u)' => ~Accepted("refresh", request[u].cookie)'
                      /\ \A k \in held' \ strays' : k = jar' \/ ~Accepted("refresh", k)'
    BY <1>1 DEF SpentRefused
  <2>1. ASSUME NEW u \in Tabs, Spent(u)' PROVE ~Accepted("refresh", request[u].cookie)'
    <3>1. u # t /\ Spent(u) /\ request'[u].cookie = request[u].cookie
      BY <1>4, <1>5, <1>6, <2>1
    <3>2. PICK k \in 0 .. Len(issued) : k = request[u].cookie
      BY SignTypes DEF SignInv
    <3>3. ~Accepted("refresh", k)'
      BY <3>1, <3>2, OldRefused DEF SignInv, SpentRefused
    <3> QED
      BY <3>1, <3>2, <3>3
  <2>2. ASSUME NEW k \in held' \ strays', k # jar' PROVE ~Accepted("refresh", k)'
    <3>1. k \in held \ strays
      BY <1>2, <1>3, <2>2
    <3>2. k \in 0 .. Len(issued) /\ k # 0
      BY <3>1, SignTypes DEF SignInv
    <3>3. CASE k # jar
      BY <3>1, <3>2, <3>3, OldRefused DEF SignInv, SpentRefused
    <3>4. CASE k = jar
      <4>1. request[t].cookie = k /\ request[t].op # "login"
        BY <1>3, <2>2, <3>2, <3>4
      <4>2. Spent(t)
        BY <1>1, <1>2, <3>2, <4>1 DEF Spent, CarriesNew
      <4> QED
        BY <3>2, <4>1, <4>2, OldRefused DEF SignInv, SpentRefused
    <3> QED
      BY <3>3, <3>4
  <2> QED
    BY <2>1, <2>2
<1> QED
  BY <1>7, <1>9, <1>10, <1>11, <1>12, <1>13 DEF SignInv, Step

\* Time passes, or nothing happens.
LEMMA SignTick ==
    ASSUME SignInv, Step,
           UNCHANGED <<entries, jar, page, request, held, strays, outages, lost, ended>>
    PROVE  SignInv'
<1>1. \A u \in Tabs : (Spent(u)' <=> Spent(u)) /\ (CarriesNew(u)' <=> CarriesNew(u))
  BY DEF Spent, CarriesNew
<1>2. RequestPlaces' /\ HeldOnly' /\ EndedIdle'
  BY DEF SignInv, RequestPlaces, HeldOnly, EndedIdle
<1>3. NewIsNew' /\ JarSpent'
  BY <1>1 DEF SignInv, NewIsNew, JarSpent
<1>4. SpentRefused'
  <2> SUFFICES ASSUME outages = 0
               PROVE  /\ \A u \in Tabs : Spent(u) => ~Accepted("refresh", request[u].cookie)'
                      /\ \A k \in held \ strays : k = jar \/ ~Accepted("refresh", k)'
    BY <1>1 DEF SpentRefused
  <2>1. ASSUME NEW u \in Tabs, Spent(u) PROVE ~Accepted("refresh", request[u].cookie)'
    <3>1. PICK k \in 0 .. Len(issued) : k = request[u].cookie
      BY SignTypes DEF SignInv
    <3>2. ~Accepted("refresh", k)'
      BY <2>1, <3>1, OldRefused DEF SignInv, SpentRefused
    <3> QED
      BY <3>1, <3>2
  <2>2. ASSUME NEW k \in held \ strays, k # jar PROVE ~Accepted("refresh", k)'
    <3>1. k \in 0 .. Len(issued) /\ ~Accepted("refresh", k)
      BY <2>2, SignTypes DEF SignInv, SpentRefused
    <3> QED
      BY <3>1, OldRefused DEF SignInv
  <2> QED
    BY <2>1, <2>2
<1> QED
  BY <1>2, <1>3, <1>4 DEF SignInv, Step

LEMMA SignInvStep == SignInv /\ [SessionNext]_sessionVars => SignInv'
<1> SUFFICES ASSUME SignInv, [SessionNext]_sessionVars PROVE SignInv'
  OBVIOUS
<1>1. Step
  BY NextSession, IdleSession DEF SignInv
<1>2. ASSUME NEW t \in Tabs, SendLogin(t) \/ SendRefresh(t) \/ SendLogout(t) PROVE SignInv'
  BY <1>1, <1>2, SignSend
<1>3. ASSUME NEW t \in Tabs, LogIn(t) \/ IssuePair(t) PROVE SignInv'
  BY <1>1, <1>3, SignIssue
<1>4. ASSUME NEW t \in Tabs, CheckRefresh(t) \/ CheckLogout(t) PROVE SignInv'
  BY <1>1, <1>4, SignCheck
<1>5. ASSUME NEW t \in Tabs, RetireOld(t) \/ RetireCookie(t) PROVE SignInv'
  BY <1>1, <1>5, SignSpend
<1>6. ASSUME NEW t \in Tabs, RetireAccess(t) \/ LoseReply(t) PROVE SignInv'
  BY <1>1, <1>6, SignRetireAccess, SignLose
<1>7. ASSUME NEW t \in Tabs, ReceivePair(t) \/ ReceiveLogout(t) PROVE SignInv'
  BY <1>1, <1>7, SignReply
<1>8. CASE Tick
  BY <1>1, <1>8, SignTick DEF Tick
<1>9. CASE UNCHANGED sessionVars
  BY <1>1, <1>9, SignTick DEF sessionVars
<1> QED
  BY <1>2, <1>3, <1>4, <1>5, <1>6, <1>7, <1>8, <1>9 DEF SessionNext

\* For any number of tabs, pairs and overlaps: while no reply is lost, the cookie of a
\* browser at rest is accepted until it expires; and after a logout that nothing
\* overlapped every token the browser ever held is refused (auth_service.py:239, :256).
THEOREM SignedInThenOut == SessionSpec => []SignedInUntilLogout
<1>1. SignInv => StaysSignedIn
  <2> SUFFICES ASSUME SignInv, jar # 0, lost = 0, Lives("refresh", jar),
                      \A t \in Tabs : request[t].at = "idle" \/ request[t].at = "sent"
               PROVE  ~Retired("refresh", jar)
    BY DEF StaysSignedIn, Accepted
  <2>1. \A t \in Tabs : ~Spent(t)
    BY DEF Spent
  <2>2. entries["refresh"][jar] = 0
    BY <2>1 DEF SignInv, JarSpent
  <2>3. clock \in Nat
    BY DEF SignInv, SessionInv, ClockTypes
  <2> QED
    BY <2>2, <2>3 DEF Retired
<1>2. SignInv => LogoutEnds
  <2> SUFFICES ASSUME SignInv, ended, outages = 0
               PROVE  jar = 0 /\ \A n \in held \ strays : ~Accepted("refresh", n)
    BY DEF LogoutEnds
  <2>1. jar = 0
    BY DEF SignInv, EndedIdle
  <2>2. \A n \in held : n # 0
    BY SignTypes DEF SignInv
  <2> QED
    BY <2>1, <2>2 DEF SignInv, SpentRefused
<1> QED
  BY <1>1, <1>2, SignInvInit, SignInvStep, PTL DEF SessionSpec, SignedInUntilLogout

--------------------------------------------------------------------------------
(* Profiles *)

(***************************************************************************)
(* An edit decides on the row it read and deletes the image it replaced    *)
(* after its own commit. ProfileInv says what is left in the store at each *)
(* of these points, as long as no other edit of the same member fell       *)
(* between them.                                                           *)
(***************************************************************************)

EditRecord == [at : {"idle", "asked", "checked", "saved", "deleted"},
               member : Members, nickname : Nicknames \cup {NoNickname}, image : Images,
               nicknameThen : Nicknames \cup {NoNickname}, imageThen : Images]

\* The row of a user, its history or an edit of it names the key k.
Names(u, k) ==
    \/ k = profiles[u].image \/ k \in used[u]
    \/ \E e \in EditsOf(u) : k = edit[e].image \/ k = edit[e].imageThen

KeysKnown ==
    /\ \A u \in Members : profiles[u].image <= uploads
    /\ \A e \in Edits : /\ edit[e].image <= uploads /\ edit[e].imageThen <= uploads
                        /\ edit[e].at # "idle" => edit[e].nicknameThen \in Nicknames
    /\ unsent \subseteq objects

\* An uploaded image belongs to one user, once an edit has named it.
KeysApart ==
    \A k \in 1 .. uploads : \A u \in Members :
        Names(u, k) => k \notin unsent /\ \A v \in Members : v # u => ~Names(v, k)

\* What an edit read is still so, unless another one crossed it.
OneEdit ==
    \A u \in Members \ crossing : \A e \in EditsOf(u) :
        /\ edit[e].nicknameThen = profiles[u].nickname
        /\ edit[e].imageThen = profiles[u].image
        /\ \A f \in EditsOf(u) : f = e

\* A writer holds its row and its nickname.
WritersApart ==
    \A e \in Writers :
        /\ ~Taken(Nickname(e), edit[e].member)
        /\ \A f \in Writers : f # e => edit[f].member # edit[e].member /\ Nickname(f) # Nickname(e)

Stored(i) == i \in objects \cup {NoImage, TypeImage}

StoredSoFar ==
    \A u \in Members \ (crossing \cup undone) :
        /\ \A e \in EditsOf(u) : Stored(edit[e].image)
        /\ (\A e \in EditsOf(u) : ~(edit[e].at = "deleted" /\ Replaces(e)))
              => Stored(profiles[u].image)

DeletedGone ==
    ~undeleted => \A e \in Edits :
        edit[e].at = "deleted" /\ Replaces(e) => edit[e].imageThen \notin objects

LeftSoFar ==
    ~undeleted => \A u \in Members \ crossing : used[u] \cap objects \subseteq {profiles[u].image}

ProfileInv ==
    /\ ProfileTypeOK /\ KeysKnown /\ KeysApart /\ OneEdit /\ WritersApart
    /\ StoredSoFar /\ DeletedGone /\ LeftSoFar

LEMMA IdleEditRecord == IdleEdit \in EditRecord /\ IdleEdit.at = "idle"
<1>1. (CHOOSE u \in Members : TRUE) \in Members
  BY UploadAssumption
<1> QED
  BY <1>1, UploadAssumption DEF IdleEdit, EditRecord, NoImage, NoNickname, Images, TypeImage

LEMMA ProfileInvInit == ProfileInit => ProfileInv
<1> SUFFICES ASSUME ProfileInit PROVE ProfileInv
  OBVIOUS
<1> DEFINE given == CHOOSE f \in [Members -> Nicknames] :
                      \A u, v \in Members : f[u] = f[v] => u = v
<1>1. given \in [Members -> Nicknames] /\ \A u, v \in Members : given[u] = given[v] => u = v
  BY UploadAssumption
<1>2. profiles = [u \in Members |-> [nickname |-> given[u], image |-> NoImage]]
  BY DEF ProfileInit
<1> HIDE DEF given
<1>3. /\ objects = {} /\ uploads = 0 /\ edit = [e \in Edits |-> IdleEdit] /\ sent = 0
      /\ unsent = {} /\ used = [u \in Members |-> {}] /\ crossing = {} /\ undone = {}
      /\ undeleted = FALSE
  BY DEF ProfileInit
<1>4. \A e \in Edits : edit[e].at = "idle"
  BY <1>3, IdleEditRecord
<1>5. \A u \in Members : EditsOf(u) = {}
  BY <1>4 DEF EditsOf
<1>6. Writers = {}
  BY <1>4 DEF Writers
<1>7. edit \in [Edits -> EditRecord]
  BY <1>3, IdleEditRecord
<1>8. profiles \in [Members -> [nickname : Nicknames, image : Images]]
  BY <1>1, <1>2, UploadAssumption DEF Images, NoImage, TypeImage
<1>9. \A u, v \in Members : profiles[u].nickname = profiles[v].nickname => u = v
  BY <1>1, <1>2
<1>10. ProfileTypeOK
  <2>1. /\ uploads \in 0 .. MaxUploads /\ sent \in 0 .. MaxEdits
        /\ objects \cup unsent \subseteq 1 .. uploads /\ crossing \cup undone \subseteq Members
    BY <1>3, UploadAssumption
  <2>2. undeleted \in BOOLEAN
    BY <1>3
  <2>3. used \in [Members -> SUBSET (1 .. uploads)]
    BY <1>3
  <2> QED
    BY <2>1, <2>2, <2>3, <1>7, <1>8, <1>9 DEF ProfileTypeOK, EditRecord
<1>11. KeysKnown
  BY <1>2, <1>3, <1>4 DEF KeysKnown, IdleEdit, NoImage
<1>12. KeysApart /\ OneEdit /\ WritersApart
  BY <1>3, <1>5, <1>6 DEF KeysApart, OneEdit, WritersApart
<1>13. StoredSoFar /\ DeletedGone /\ LeftSoFar
  BY <1>2, <1>3, <1>4, <1>5 DEF StoredSoFar, DeletedGone, LeftSoFar, Stored
<1> QED
  BY <1>10, <1>11, <1>12, <1>13 DEF ProfileInv

LEMMA ProfileStutters == ProfileInv /\ UNCHANGED profileVars => ProfileInv'
<1> SUFFICES ASSUME ProfileInv, UNCHANGED profileVars PROVE ProfileInv'
  OBVIOUS
<1>1. /\ UNCHANGED <<profiles, objects, uploads, edit, sent>>
      /\ UNCHANGED <<unsent, used, crossing, undone, undeleted>>
  BY DEF profileVars
<1>2. ProfileTypeOK' /\ KeysKnown'
  BY <1>1 DEF ProfileInv, ProfileTypeOK, KeysKnown
<1>3. KeysApart' /\ OneEdit'
  BY <1>1 DEF ProfileInv, KeysApart, OneEdit, Names, EditsOf
<1>4. WritersApart'
  BY <1>1 DEF ProfileInv, WritersApart, Writers, Taken, Nickname
<1>5. StoredSoFar' /\ DeletedGone' /\ LeftSoFar'
  BY <1>1 DEF ProfileInv, StoredSoFar, DeletedGone, LeftSoFar, Stored, Replaces, Uploaded, EditsOf
<1> QED
  BY <1>2, <1>3, <1>4, <1>5 DEF ProfileInv

LEMMA EditPut ==
    ASSUME ProfileTypeOK, NEW e \in Edits, NEW new \in EditRecord,
           edit' = [edit EXCEPT ![e] = new]
    PROVE  /\ edit' \in [Edits -> EditRecord] /\ edit'[e] = new
           /\ \A f \in Edits : f # e => edit'[f] = edit[f]
BY DEF ProfileTypeOK, EditRecord

\* As long as no user names more, the keys stay apart.
LEMMA NamesShrink ==
    ASSUME KeysApart, uploads' = uploads, unsent' \subseteq unsent,
           \A u \in Members, k \in 1 .. uploads : Names(u, k)' => Names(u, k)
    PROVE  KeysApart'
BY DEF KeysApart

LEMMA EditNames ==
    ASSUME NEW e \in Edits, edit[e].at # "idle"
    PROVE  Names(edit[e].member, edit[e].image) /\ Names(edit[e].member, edit[e].imageThen)
<1>1. e \in EditsOf(edit[e].member)
  BY DEF EditsOf
<1> QED
  BY <1>1 DEF Names

\* The steps that only move an edit on, or end it: the checks, the first save and a
\* transaction that is undone.
LEMMA EditMoves ==
    ASSUME ProfileInv, NEW e \in Edits, NEW new \in EditRecord,
           edit' = [edit EXCEPT ![e] = new],
           UNCHANGED <<profiles, objects, uploads, sent, unsent, used, crossing, undeleted>>,
           undone \subseteq undone', undone' \subseteq Members,
           edit[e].at # "idle",
           \/ new = IdleEdit
           \/ /\ new.at \in {"checked", "saved"} /\ edit[e].at # "deleted"
              /\ new.member = edit[e].member /\ new.image = edit[e].image
              /\ new.nicknameThen = edit[e].nicknameThen /\ new.imageThen = edit[e].imageThen,
           edit[e].at = "deleted" => edit[e].member \in undone',
           WritersApart'
    PROVE  ProfileInv'
<1>1. ProfileTypeOK
  BY DEF ProfileInv
<1>2. /\ edit' \in [Edits -> EditRecord] /\ edit'[e] = new
      /\ \A f \in Edits : f # e => edit'[f] = edit[f]
  BY <1>1, EditPut
<1>3. ProfileTypeOK'
  BY <1>1, <1>2 DEF ProfileTypeOK, EditRecord
<1>4. \A f \in Edits : edit'[f].at # "idle" =>
         /\ edit[f].at # "idle" /\ edit'[f].member = edit[f].member
         /\ edit'[f].image = edit[f].image
         /\ edit'[f].nicknameThen = edit[f].nicknameThen /\ edit'[f].imageThen = edit[f].imageThen
  BY <1>2, IdleEditRecord
<1>5. \A u \in Members : EditsOf(u)' \subseteq EditsOf(u)
  BY <1>4 DEF EditsOf
<1>6. KeysKnown'
  <2>1. IdleEdit.image <= uploads /\ IdleEdit.imageThen <= uploads
    BY <1>1 DEF IdleEdit, NoImage, ProfileTypeOK
  <2>2. new.image <= uploads /\ new.imageThen <= uploads
    BY <2>1 DEF ProfileInv, KeysKnown
  <2> QED
    BY <1>2, <1>4, <2>2 DEF ProfileInv, KeysKnown
<1>7. KeysApart'
  <2>1. ASSUME NEW u \in Members, NEW k \in 1 .. uploads, Names(u, k)' PROVE Names(u, k)
    <3>1. CASE k = profiles'[u].image \/ k \in used'[u]
      BY <3>1 DEF Names
    <3>2. CASE \E f \in EditsOf(u)' : k = edit'[f].image \/ k = edit'[f].imageThen
      <4>1. PICK f \in EditsOf(u)' : k = edit'[f].image \/ k = edit'[f].imageThen
        BY <3>2
      <4>2. f \in Edits /\ edit'[f].at # "idle"
        BY DEF EditsOf
      <4>3. f \in EditsOf(u) /\ (k = edit[f].image \/ k = edit[f].imageThen)
        BY <1>4, <1>5, <4>1, <4>2
      <4> QED
        BY <4>3 DEF Names
    <3> QED
      BY <2>1, <3>1, <3>2 DEF Names
  <2> QED
    BY <2>1, NamesShrink DEF ProfileInv
<1>8. OneEdit'
  BY <1>4, <1>5 DEF ProfileInv, OneEdit, EditsOf
<1>9. StoredSoFar'
  <2> SUFFICES ASSUME NEW u \in Members \ (crossing \cup undone')
               PROVE  /\ \A f \in EditsOf(u)' : Stored(edit'[f].image)
                      /\ (\A f \in EditsOf(u)' : ~(edit'[f].at = "deleted" /\ Replaces(f)'))
                            => Stored(profiles[u].image)
    BY DEF StoredSoFar, Stored
  <2>1. u \in Members \ (crossing \cup undone)
    OBVIOUS
  <2>2. \A f \in EditsOf(u)' : Stored(edit'[f].image)
    BY <1>4, <1>5, <2>1 DEF ProfileInv, StoredSoFar, EditsOf
  <2>3. ASSUME NEW f \in EditsOf(u), edit[f].at = "deleted", Replaces(f)
        PROVE  f \in EditsOf(u)' /\ edit'[f].at = "deleted" /\ Replaces(f)'
    <3>1. f # e
      BY <2>3 DEF EditsOf
    <3> QED
      BY <1>2, <2>3, <3>1 DEF EditsOf, Replaces, Uploaded
  <2> QED
    BY <2>1, <2>2, <2>3 DEF ProfileInv, StoredSoFar
<1>10. DeletedGone'
  <2>1. \A f \in Edits : edit'[f].at = "deleted" => f # e
    BY <1>2, IdleEditRecord
  <2> QED
    BY <1>2, <2>1 DEF ProfileInv, DeletedGone, Replaces, Uploaded
<1>11. LeftSoFar'
  BY DEF ProfileInv, LeftSoFar
<1> QED
  BY <1>3, <1>6, <1>7, <1>8, <1>9, <1>10, <1>11 DEF ProfileInv

\* Of the two fields of a writer that others could want.
LEMMA NicknameKept ==
    ASSUME NEW f \in Edits, edit'[f].nickname = edit[f].nickname,
           edit'[f].nicknameThen = edit[f].nicknameThen
    PROVE  Nickname(f)' = Nickname(f)
BY DEF Nickname

\* Writers that stay, and rows that keep their nicknames.
LEMMA WritersStay ==
    ASSUME WritersApart, NEW e \in Edits,
           \A f \in Edits : f # e => edit'[f] = edit[f],
           e \in Writers' => e \in Writers /\ edit'[e].member = edit[e].member
                              /\ edit'[e].nickname = edit[e].nickname
                              /\ edit'[e].nicknameThen = edit[e].nicknameThen,
           \A u \in Members : profiles'[u].nickname = profiles[u].nickname
    PROVE  WritersApart'
<1>1. \A f \in Writers' : /\ f \in Writers /\ edit'[f].member = edit[f].member
                          /\ Nickname(f)' = Nickname(f)
  BY NicknameKept DEF Writers
<1>2. ASSUME NEW f \in Writers' PROVE ~Taken(Nickname(f), edit[f].member)'
  <2>1. ~Taken(Nickname(f), edit[f].member)
    BY <1>1 DEF WritersApart
  <2> QED
    BY <1>1, <2>1 DEF Taken
<1>3. ASSUME NEW f \in Writers', NEW g \in Writers', g # f
      PROVE  edit'[g].member # edit'[f].member /\ Nickname(g)' # Nickname(f)'
  <2>1. edit[g].member # edit[f].member /\ Nickname(g) # Nickname(f)
    BY <1>1, <1>3 DEF WritersApart
  <2> QED
    BY <1>1, <2>1
<1> QED
  BY <1>2, <1>3 DEF WritersApart

LEMMA ProfileCheck ==
    ASSUME ProfileInv, NEW e \in Edits, CheckNickname(e) PROVE ProfileInv'
<1> DEFINE moved == [at |-> "checked", member |-> edit[e].member, nickname |-> edit[e].nickname,
                     image |-> edit[e].image, nicknameThen |-> edit[e].nicknameThen,
                     imageThen |-> edit[e].imageThen]
<1>1. edit[e] \in EditRecord
  BY DEF ProfileInv, ProfileTypeOK, EditRecord
<1>2. /\ edit[e].at = "asked"
      /\ UNCHANGED <<profiles, objects, uploads, sent, unsent, used, crossing, undone, undeleted>>
      /\ edit' = [edit EXCEPT ![e] = IdleEdit] \/ edit' = [edit EXCEPT ![e] = moved]
  BY DEF CheckNickname, Finish, EditAt
<1>3. moved \in EditRecord
  BY <1>1 DEF EditRecord
<1>4. PICK new \in EditRecord :
         /\ edit' = [edit EXCEPT ![e] = new] /\ new.at \in {"idle", "checked"}
         /\ new = IdleEdit \/ new = moved
  BY <1>2, <1>3, IdleEditRecord
<1>5. /\ edit'[e] = new /\ \A f \in Edits : f # e => edit'[f] = edit[f]
  BY <1>4, EditPut DEF ProfileInv
<1>6. e \notin Writers'
  BY <1>4, <1>5 DEF Writers
<1>7. WritersApart'
  BY <1>2, <1>5, <1>6, WritersStay DEF ProfileInv
<1>8. undone' \subseteq Members /\ undone \subseteq undone'
  BY <1>2 DEF ProfileInv, ProfileTypeOK
<1> QED
  BY <1>2, <1>4, <1>7, <1>8, EditMoves

LEMMA ProfileSave ==
    ASSUME ProfileInv, NEW e \in Edits, SaveCopy(e) PROVE ProfileInv'
<1> DEFINE moved == [at |-> "saved", member |-> edit[e].member, nickname |-> edit[e].nickname,
                     image |-> edit[e].image, nicknameThen |-> edit[e].nicknameThen,
                     imageThen |-> edit[e].imageThen]
<1>1. edit[e] \in EditRecord
  BY DEF ProfileInv, ProfileTypeOK, EditRecord
<1>2. /\ edit[e].at = "checked"
      /\ UNCHANGED <<profiles, objects, uploads, sent, unsent, used, crossing, undone, undeleted>>
      /\ \A f \in Writers : edit[f].member # edit[e].member /\ Nickname(f) # Nickname(e)
      /\ \/ edit' = [edit EXCEPT ![e] = IdleEdit]
         \/ edit' = [edit EXCEPT ![e] = moved] /\ ~Taken(Nickname(e), edit[e].member)
  BY DEF SaveCopy, Finish, EditAt
<1>3. moved \in EditRecord
  BY <1>1 DEF EditRecord
<1>4. PICK new \in EditRecord :
         /\ edit' = [edit EXCEPT ![e] = new] /\ new.at \in {"idle", "saved"}
         /\ new = IdleEdit \/ (new = moved /\ ~Taken(Nickname(e), edit[e].member))
  <2>1. moved.at = "saved"
    OBVIOUS
  <2> HIDE DEF moved
  <2> QED
    BY <1>2, <1>3, <2>1, IdleEditRecord
<1>5. /\ edit'[e] = new /\ \A f \in Edits : f # e => edit'[f] = edit[f]
  BY <1>4, EditPut DEF ProfileInv
<1>6. WritersApart'
  <2>1. CASE new = IdleEdit
    <3>1. e \notin Writers'
      BY <2>1, <1>5, IdleEditRecord DEF Writers
    <3> QED
      BY <1>2, <1>5, <3>1, WritersStay DEF ProfileInv
  <2>2. CASE new = moved /\ ~Taken(Nickname(e), edit[e].member)
    <3>1. /\ Writers' \subseteq Writers \cup {e} /\ e \notin Writers
          /\ \A f \in Writers' : edit'[f].member = edit[f].member
      BY <1>2, <1>5, <2>2 DEF Writers
    <3>2. \A f \in Edits : Nickname(f)' = Nickname(f)
      BY <1>5, <2>2, NicknameKept
    <3>3. \A n, u : Taken(n, u)' = Taken(n, u)
      BY <1>2 DEF Taken
    <3>4. \A f \in Writers' : f \in Edits
      BY DEF Writers
    <3>5. \A f \in Writers' : ~Taken(Nickname(f), edit[f].member)
      BY <2>2, <3>1 DEF ProfileInv, WritersApart
    <3>6. \A f, g \in Writers' : f # g =>
             edit[f].member # edit[g].member /\ Nickname(f) # Nickname(g)
      BY <1>2, <3>1 DEF ProfileInv, WritersApart
    <3>7. ASSUME NEW f \in Writers' PROVE ~Taken(Nickname(f), edit[f].member)'
      <4>1. f \in Edits /\ edit'[f].member = edit[f].member /\ Nickname(f)' = Nickname(f)
        BY <3>1, <3>2, <3>4
      <4> QED
        BY <4>1, <3>5, <1>2 DEF Taken
    <3>8. ASSUME NEW f \in Writers', NEW g \in Writers', g # f
          PROVE  edit'[g].member # edit'[f].member /\ Nickname(g)' # Nickname(f)'
      BY <3>1, <3>2, <3>4, <3>6, <3>8
    <3> QED
      BY <3>7, <3>8 DEF WritersApart
  <2> QED
    BY <1>4, <2>1, <2>2
<1>7. undone' \subseteq Members /\ undone \subseteq undone'
  BY <1>2 DEF ProfileInv, ProfileTypeOK
<1> QED
  BY <1>2, <1>4, <1>6, <1>7, EditMoves

LEMMA ProfileUndo ==
    ASSUME ProfileInv, NEW e \in Edits, UndoEdit(e) PROVE ProfileInv'
<1>1. edit[e] \in EditRecord
  BY DEF ProfileInv, ProfileTypeOK, EditRecord
<1>2. /\ edit[e].at # "idle" /\ edit' = [edit EXCEPT ![e] = IdleEdit]
      /\ UNCHANGED <<profiles, objects, uploads, sent, unsent, used, crossing, undeleted>>
      /\ undone' = IF edit[e].at = "deleted" THEN undone \cup {edit[e].member} ELSE undone
  BY DEF UndoEdit, Finish
<1>3. undone \subseteq undone' /\ undone' \subseteq Members
  BY <1>1, <1>2 DEF ProfileInv, ProfileTypeOK, EditRecord
<1>4. /\ edit'[e] = IdleEdit /\ \A f \in Edits : f # e => edit'[f] = edit[f]
  BY <1>2, EditPut, IdleEditRecord DEF ProfileInv
<1>5. e \notin Writers'
  BY <1>4, IdleEditRecord DEF Writers
<1>6. WritersApart'
  BY <1>2, <1>4, <1>5, WritersStay DEF ProfileInv
<1> QED
  BY <1>2, <1>3, <1>6, IdleEditRecord, EditMoves

LEMMA ProfileUpload == ProfileInv /\ Upload => ProfileInv'
<1> SUFFICES ASSUME ProfileInv, Upload PROVE ProfileInv'
  OBVIOUS
<1> DEFINE n == uploads + 1
<1>1. ProfileTypeOK /\ uploads \in Nat /\ uploads < MaxUploads
  BY UploadAssumption DEF ProfileInv, ProfileTypeOK, Upload
<1>2. /\ uploads' = n /\ objects' = objects \cup {n} /\ unsent' = unsent \cup {n}
      /\ UNCHANGED <<profiles, edit, sent, used, crossing, undone, undeleted>>
  BY DEF Upload
<1>3. n \in 0 .. MaxUploads /\ 1 .. n = (1 .. uploads) \cup {n}
  BY <1>1, UploadAssumption
<1>4. ProfileTypeOK'
  <2>1. used' \in [Members -> SUBSET (1 .. uploads')]
    BY <1>1, <1>2, <1>3 DEF ProfileTypeOK
  <2>2. (objects \cup unsent)' \subseteq 1 .. uploads' /\ uploads' \in 0 .. MaxUploads
    BY <1>1, <1>2, <1>3 DEF ProfileTypeOK
  <2> QED
    BY <1>1, <1>2, <2>1, <2>2 DEF ProfileTypeOK
<1>5. KeysKnown'
  BY <1>1, <1>2 DEF ProfileInv, KeysKnown, ProfileTypeOK, Images, TypeImage
<1>6. \A u \in Members : EditsOf(u)' = EditsOf(u)
  BY <1>2 DEF EditsOf
<1>7. \A u \in Members : \A k \in 1 .. n : Names(u, k)' => k \in 1 .. uploads /\ Names(u, k)
  <2> SUFFICES ASSUME NEW u \in Members, NEW k \in 1 .. n, Names(u, k)'
               PROVE  k \in 1 .. uploads /\ Names(u, k)
    OBVIOUS
  <2>1. Names(u, k)
    BY <1>2, <1>6 DEF Names
  <2>2. used[u] \subseteq 1 .. uploads
    BY <1>1 DEF ProfileTypeOK
  <2>3. profiles[u].image \in Images /\ profiles[u].image <= uploads
    BY <1>1 DEF ProfileInv, KeysKnown, ProfileTypeOK
  <2>4. \A e \in EditsOf(u) : /\ edit[e].image \in Images /\ edit[e].image <= uploads
                             /\ edit[e].imageThen \in Images /\ edit[e].imageThen <= uploads
    BY <1>1 DEF ProfileInv, KeysKnown, ProfileTypeOK, EditsOf
  <2>5. k <= uploads
    BY <1>1, <2>1, <2>2, <2>3, <2>4 DEF Names
  <2> QED
    BY <1>1, <2>1, <2>5
<1>8. KeysApart'
  <2>1. \A k \in 1 .. uploads : k # n
    BY <1>1
  <2>2. \A k \in 1 .. n, u \in Members :
          Names(u, k)' => k \notin unsent' /\ \A v \in Members : v # u => ~Names(v, k)'
    BY <1>2, <1>7, <2>1 DEF ProfileInv, KeysApart
  <2> QED
    BY <1>2, <2>2 DEF KeysApart
<1>9. OneEdit'
  BY <1>2, <1>6 DEF ProfileInv, OneEdit
<1>10. WritersApart'
  BY <1>2 DEF ProfileInv, WritersApart, Writers, Taken, Nickname
<1>11. \A e \in Edits : Replaces(e)' /\ edit[e].at = "deleted" =>
          Replaces(e) /\ edit[e].imageThen # n
  BY <1>1, <1>2 DEF Replaces, Uploaded, ProfileInv, KeysKnown
<1>12. \A i : Stored(i) => Stored(i)'
  BY <1>2 DEF Stored
<1>13. StoredSoFar'
  <2>1. \A e \in Edits : Replaces(e) => Replaces(e)'
    BY <1>1, <1>2, <1>3 DEF Replaces, Uploaded
  <2>2. \A u \in Members : \A e \in EditsOf(u) : e \in Edits
    BY DEF EditsOf
  <2>3. ASSUME NEW u \in Members \ (crossing \cup undone), NEW e \in EditsOf(u)
        PROVE  Stored(edit[e].image)'
    BY <1>2, <1>12 DEF ProfileInv, StoredSoFar
  <2>4. ASSUME NEW u \in Members \ (crossing \cup undone),
               \A e \in EditsOf(u) : ~(edit[e].at = "deleted" /\ Replaces(e)')
        PROVE  Stored(profiles[u].image)'
    BY <1>2, <1>12, <2>1, <2>2, <2>4 DEF ProfileInv, StoredSoFar
  <2> QED
    BY <1>2, <1>6, <2>3, <2>4 DEF StoredSoFar
<1>14. DeletedGone'
  BY <1>2, <1>11 DEF ProfileInv, DeletedGone
<1>15. LeftSoFar'
  <2>1. \A u \in Members : n \notin used[u]
    BY <1>1 DEF ProfileTypeOK
  <2> QED
    BY <1>2, <2>1 DEF ProfileInv, LeftSoFar
<1> QED
  BY <1>4, <1>5, <1>8, <1>9, <1>10, <1>13, <1>14, <1>15 DEF ProfileInv

LEMMA ProfileArrival ==
    ASSUME ProfileInv, NEW e \in Edits, NEW u \in Members, Authenticate(e, u)
    PROVE  ProfileInv'
<1>1. PICK n \in Nicknames \cup {NoNickname}, i \in unsent \cup {profiles[u].image} :
         /\ edit' = [edit EXCEPT ![e] =
                       [at |-> "asked", member |-> u, nickname |-> n, image |-> i,
                        nicknameThen |-> profiles[u].nickname,
                        imageThen |-> profiles[u].image]]
         /\ unsent' = unsent \ {i}
  BY DEF Authenticate
<1> DEFINE new == [at |-> "asked", member |-> u, nickname |-> n, image |-> i,
                   nicknameThen |-> profiles[u].nickname, imageThen |-> profiles[u].image]
<1>2. /\ edit[e].at = "idle" /\ sent < MaxEdits /\ sent' = sent + 1
      /\ crossing' = IF EditsOf(u) = {} THEN crossing ELSE crossing \cup {u}
      /\ UNCHANGED <<profiles, objects, uploads, used, undone, undeleted>>
  BY DEF Authenticate
<1>3. ProfileTypeOK /\ profiles[u] \in [nickname : Nicknames, image : Images]
      /\ profiles[u].image <= uploads
  BY DEF ProfileInv, ProfileTypeOK, KeysKnown
<1>4. i \in Images /\ i <= uploads
  <2>1. unsent \subseteq 1 .. uploads /\ uploads \in 0 .. MaxUploads
    BY <1>3 DEF ProfileTypeOK
  <2> QED
    BY <1>3, <2>1, UploadAssumption DEF Images, TypeImage
<1>5. /\ new \in EditRecord /\ new.at = "asked" /\ new.member = u /\ new.image = i
      /\ new.nicknameThen = profiles[u].nickname /\ new.imageThen = profiles[u].image
  BY <1>3, <1>4 DEF EditRecord
<1>6. edit' = [edit EXCEPT ![e] = new]
  BY <1>1
<1> HIDE DEF new
<1>7. /\ edit' \in [Edits -> EditRecord] /\ edit'[e] = new
      /\ \A f \in Edits : f # e => edit'[f] = edit[f]
  BY <1>3, <1>5, <1>6, EditPut
<1>8. ProfileTypeOK'
  <2>1. sent' \in 0 .. MaxEdits
    BY <1>2, <1>3, UploadAssumption DEF ProfileTypeOK
  <2>2. (objects \cup unsent)' \subseteq 1 .. uploads' /\ (crossing \cup undone)' \subseteq Members
    BY <1>1, <1>2, <1>3 DEF ProfileTypeOK
  <2> QED
    BY <1>2, <1>3, <1>7, <2>1, <2>2 DEF ProfileTypeOK, EditRecord
<1>9. KeysKnown'
  BY <1>1, <1>2, <1>3, <1>4, <1>5, <1>7 DEF ProfileInv, KeysKnown
<1>10. EditsOf(u)' = EditsOf(u) \cup {e}
  BY <1>2, <1>5, <1>7 DEF EditsOf
<1>11. \A v \in Members : v # u => EditsOf(v)' = EditsOf(v)
  BY <1>2, <1>5, <1>7 DEF EditsOf
<1>12. \A v \in Members : e \notin EditsOf(v) /\ \A f \in EditsOf(v) : edit'[f] = edit[f]
  BY <1>2, <1>7 DEF EditsOf
<1>13. ASSUME NEW v \in Members, NEW k \in 1 .. uploads, Names(v, k)'
       PROVE  Names(v, k) \/ (v = u /\ k = i)
  BY <1>2, <1>5, <1>7, <1>10, <1>11, <1>12, <1>13 DEF Names
<1>14. KeysApart'
  <2> SUFFICES ASSUME NEW k \in 1 .. uploads, NEW v \in Members, Names(v, k)'
               PROVE  k \notin unsent' /\ \A w \in Members : w # v => ~Names(w, k)'
    BY <1>2 DEF KeysApart
  <2>1. CASE Names(v, k) /\ k \notin {i}
    <3>1. k \notin unsent' /\ \A w \in Members : w # v => ~Names(w, k)
      BY <1>1, <2>1 DEF ProfileInv, KeysApart
    <3> QED
      BY <1>13, <2>1, <3>1
  <2>2. CASE k = i
    <3>1. CASE i \in unsent
      <4>1. \A w \in Members : ~Names(w, k)
        BY <2>2, <3>1 DEF ProfileInv, KeysApart
      <4> QED
        BY <1>1, <1>13, <2>2, <4>1
    <3>2. CASE i = profiles[u].image
      <4>1. Names(u, k)
        BY <2>2, <3>2 DEF Names
      <4>2. k \notin unsent /\ \A w \in Members : w # u => ~Names(w, k)
        BY <4>1 DEF ProfileInv, KeysApart
      <4>3. \A w \in Members : w # u => ~Names(w, k)'
        BY <1>13, <4>2
      <4> QED
        BY <1>1, <4>2, <4>3
    <3> QED
      BY <3>1, <3>2
  <2> QED
    BY <1>13, <2>1, <2>2
<1>15. u \notin crossing' => EditsOf(u) = {}
  BY <1>2
<1>16. crossing \subseteq crossing'
  BY <1>2
<1>17. OneEdit'
  <2>1. ASSUME NEW v \in Members \ crossing', v # u
        PROVE  \A f \in EditsOf(v)' : /\ edit'[f].nicknameThen = profiles'[v].nickname
                                      /\ edit'[f].imageThen = profiles'[v].image
                                      /\ \A g \in EditsOf(v)' : g = f
    BY <1>2, <1>11, <1>12, <1>16, <2>1 DEF ProfileInv, OneEdit
  <2>2. ASSUME u \notin crossing'
        PROVE  \A f \in EditsOf(u)' : /\ edit'[f].nicknameThen = profiles'[u].nickname
                                      /\ edit'[f].imageThen = profiles'[u].image
                                      /\ \A g \in EditsOf(u)' : g = f
    BY <1>2, <1>5, <1>7, <1>10, <1>15, <2>2
  <2> QED
    BY <2>1, <2>2 DEF OneEdit
<1>18. WritersApart'
  <2>1. e \notin Writers'
    BY <1>5, <1>7 DEF Writers
  <2> QED
    BY <1>2, <1>7, <2>1, WritersStay DEF ProfileInv
<1>19. StoredSoFar'
  <2>1. \A v \in Members \ (crossing' \cup undone') : v \in Members \ (crossing \cup undone)
    BY <1>2, <1>16
  <2>2. \A x : Stored(x)' <=> Stored(x)
    BY <1>2 DEF Stored
  <2>3. ASSUME NEW v \in Members \ (crossing' \cup undone'), v # u
        PROVE  /\ \A f \in EditsOf(v)' : Stored(edit[f].image)'
               /\ (\A f \in EditsOf(v)' : ~(edit'[f].at = "deleted" /\ Replaces(f)'))
                     => Stored(profiles[v].image)'
    <3>1. \A f \in EditsOf(v) : Replaces(f)' <=> Replaces(f)
      BY <1>2, <1>12 DEF Replaces, Uploaded
    <3> QED
      BY <1>2, <1>11, <1>12, <2>1, <2>2, <2>3, <3>1 DEF ProfileInv, StoredSoFar
  <2>4. ASSUME u \notin crossing' \cup undone'
        PROVE  (\A f \in EditsOf(u)' : Stored(edit[f].image)') /\ Stored(profiles[u].image)'
    <3>1. Stored(profiles[u].image)
      BY <1>15, <2>1, <2>4 DEF ProfileInv, StoredSoFar
    <3>2. Stored(i)
      BY <3>1 DEF Stored, ProfileInv, KeysKnown
    <3> QED
      BY <1>2, <1>5, <1>7, <1>10, <1>15, <2>2, <2>4, <3>1, <3>2
  <2> QED
    BY <2>3, <2>4 DEF StoredSoFar
<1>20. DeletedGone'
  BY <1>2, <1>5, <1>7 DEF ProfileInv, DeletedGone, Replaces, Uploaded
<1>21. LeftSoFar'
  BY <1>2, <1>16 DEF ProfileInv, LeftSoFar
<1> QED
  BY <1>8, <1>9, <1>14, <1>17, <1>18, <1>19, <1>20, <1>21 DEF ProfileInv

LEMMA ProfileSetImage ==
    ASSUME ProfileInv, NEW e \in Edits, SetImage(e) PROVE ProfileInv'
<1> DEFINE new == [at |-> "deleted", member |-> edit[e].member, nickname |-> edit[e].nickname,
                   image |-> edit[e].image, nicknameThen |-> edit[e].nicknameThen,
                   imageThen |-> edit[e].imageThen]
           m == edit[e].member
           old == edit[e].imageThen
<1>1. ProfileTypeOK /\ edit[e] \in EditRecord /\ m \in Members
  BY DEF ProfileInv, ProfileTypeOK, EditRecord
<1>2. /\ new \in EditRecord /\ new.at = "deleted" /\ new.member = m
      /\ new.nickname = edit[e].nickname /\ new.nicknameThen = edit[e].nicknameThen
      /\ new.image = edit[e].image /\ new.imageThen = edit[e].imageThen
  BY <1>1 DEF EditRecord
<1>3. /\ edit[e].at = "saved" /\ edit' = [edit EXCEPT ![e] = new]
      /\ UNCHANGED <<profiles, uploads, sent, unsent, used, crossing, undone>>
  BY DEF SetImage, EditAt
<1>4. /\ objects' = objects \/ (Replaces(e) /\ objects' = objects \ {old})
      /\ undeleted' \in BOOLEAN
      /\ ~undeleted' => ~undeleted /\ (Replaces(e) => objects' = objects \ {old})
  <2>1. PICK deleted \in BOOLEAN :
          /\ objects' = IF Replaces(e) /\ deleted THEN objects \ {old} ELSE objects
          /\ undeleted' = (undeleted \/ (Replaces(e) /\ ~deleted))
    BY DEF SetImage
  <2> QED
    BY <2>1
<1> HIDE DEF new
<1>5. /\ edit' \in [Edits -> EditRecord] /\ edit'[e] = new
      /\ \A f \in Edits : f # e => edit'[f] = edit[f]
  BY <1>1, <1>2, <1>3, EditPut
<1>6. \A f \in Edits : /\ edit'[f].member = edit[f].member /\ edit'[f].image = edit[f].image
                       /\ edit'[f].imageThen = edit[f].imageThen
                       /\ edit'[f].nicknameThen = edit[f].nicknameThen
                       /\ edit'[f].at = "idle" <=> edit[f].at = "idle"
  BY <1>2, <1>3, <1>5
<1>7. \A u \in Members : EditsOf(u)' = EditsOf(u)
  BY <1>6 DEF EditsOf
<1>8. \A f \in Edits : Replaces(f)' <=> Replaces(f)
  BY <1>3, <1>6 DEF Replaces, Uploaded
<1>9. ProfileTypeOK'
  <2>1. objects' \subseteq objects
    BY <1>4
  <2> QED
    BY <1>1, <1>3, <1>4, <1>5, <2>1 DEF ProfileTypeOK, EditRecord
<1>10. Replaces(e) => old \in 1 .. uploads /\ Names(m, old)
  BY <1>3, EditNames DEF Replaces, Uploaded
<1>11. \A k \in 1 .. uploads, u \in Members :
          u # m /\ Names(u, k) => (k \in objects => k \in objects')
  BY <1>1, <1>4, <1>10 DEF ProfileInv, KeysApart
<1>12. KeysKnown'
  <2>1. \A k \in unsent : k \in objects'
    BY <1>1, <1>4, <1>10 DEF ProfileInv, KeysKnown, KeysApart
  <2> QED
    BY <1>3, <1>6, <2>1 DEF ProfileInv, KeysKnown
<1>13. KeysApart'
  <2>1. \A u \in Members, k \in 1 .. uploads : Names(u, k)' => Names(u, k)
    <3>1. \A u \in Members : \A f \in EditsOf(u) : f \in Edits
      BY DEF EditsOf
    <3> QED
      BY <1>3, <1>6, <1>7, <3>1 DEF Names
  <2> QED
    BY <1>3, <2>1, NamesShrink DEF ProfileInv
<1>14. OneEdit'
  BY <1>3, <1>6, <1>7 DEF ProfileInv, OneEdit, EditsOf
<1>15. WritersApart'
  <2>1. e \in Writers
    BY <1>3 DEF Writers
  <2> QED
    BY <1>2, <1>3, <1>5, <2>1, WritersStay DEF ProfileInv
<1>16. StoredSoFar'
  <2> SUFFICES ASSUME NEW u \in Members \ (crossing \cup undone)
               PROVE  /\ \A f \in EditsOf(u) : Stored(edit[f].image)'
                      /\ (\A f \in EditsOf(u) : ~(edit'[f].at = "deleted" /\ Replaces(f)'))
                            => Stored(profiles[u].image)'
    BY <1>3, <1>7 DEF StoredSoFar
  <2>1. \A f \in EditsOf(u) : f \in Edits /\ edit[f].image \in Images /\ edit[f].image <= uploads
                             /\ Names(u, edit[f].image)
    BY <1>1, EditNames DEF EditsOf, ProfileInv, KeysKnown, ProfileTypeOK
  <2>2. profiles[u].image \in Images /\ profiles[u].image <= uploads /\ Names(u, profiles[u].image)
    BY <1>1 DEF Names, ProfileInv, KeysKnown, ProfileTypeOK
  <2>3. uploads \in Nat
    BY <1>1 DEF ProfileTypeOK
  <2>4. ASSUME NEW i \in Images, i <= uploads, Stored(i), u # m, Names(u, i)
        PROVE  Stored(i)'
    <3>1. CASE i \in 1 .. uploads
      BY <1>11, <2>4, <3>1 DEF Stored, NoImage, TypeImage
    <3>2. CASE i \notin 1 .. uploads
      BY <2>3, <2>4, <3>2 DEF Stored, Images, NoImage, TypeImage
    <3> QED
      BY <3>1, <3>2
  <2>5. CASE u # m
    <3>1. \A f \in EditsOf(u) : f # e
      BY <2>5 DEF EditsOf
    <3>2. \A f \in EditsOf(u) : (edit'[f].at = "deleted" /\ Replaces(f)') <=>
                                 (edit[f].at = "deleted" /\ Replaces(f))
      BY <1>5, <1>8, <2>1, <3>1
    <3>3. \A f \in EditsOf(u) : Stored(edit[f].image)
      BY DEF ProfileInv, StoredSoFar
    <3>4. \A f \in EditsOf(u) : Stored(edit[f].image)'
      <4> SUFFICES ASSUME NEW f \in EditsOf(u) PROVE Stored(edit[f].image)'
        OBVIOUS
      <4>1. f \in Edits /\ edit'[f].image = edit[f].image
        BY <1>6, <2>1
      <4>2. edit[f].image \in objects' \cup {NoImage, TypeImage}
        BY <2>1, <2>4, <2>5, <3>3 DEF Stored
      <4> QED
        BY <4>1, <4>2 DEF Stored
    <3>5. ASSUME \A f \in EditsOf(u) : ~(edit'[f].at = "deleted" /\ Replaces(f)')
          PROVE  Stored(profiles[u].image)'
      <4>1. Stored(profiles[u].image)
        BY <3>2, <3>5 DEF ProfileInv, StoredSoFar
      <4>2. profiles[u].image \in objects' \cup {NoImage, TypeImage}
        BY <2>2, <2>4, <2>5, <4>1 DEF Stored
      <4> QED
        BY <1>3, <4>2 DEF Stored
    <3> QED
      BY <3>4, <3>5
  <2>6. CASE u = m
    <3>1. e \in EditsOf(u) /\ \A f \in EditsOf(u) : f = e
      BY <1>3, <2>6 DEF EditsOf, ProfileInv, OneEdit
    <3>2. Stored(edit[e].image)
      BY <3>1 DEF ProfileInv, StoredSoFar
    <3>3. Replaces(e) => edit[e].image # old
      BY DEF Replaces
    <3>4. edit[e].image \in objects' \cup {NoImage, TypeImage}
      BY <1>4, <3>2, <3>3 DEF Stored
    <3>5. Stored(profiles[u].image)
      BY <1>3, <3>1 DEF ProfileInv, StoredSoFar
    <3>6. ~Replaces(e) => Stored(profiles[u].image)'
      BY <1>3, <1>4, <3>5 DEF Stored
    <3> QED
      BY <1>2, <1>5, <1>6, <1>8, <3>1, <3>4, <3>6 DEF Stored
  <2> QED
    BY <2>5, <2>6
<1>17. DeletedGone'
  <2>1. ASSUME ~undeleted', NEW f \in Edits, edit'[f].at = "deleted", Replaces(f)'
        PROVE  edit'[f].imageThen \notin objects'
    BY <1>3, <1>4, <1>5, <1>6, <1>8, <2>1 DEF ProfileInv, DeletedGone
  <2> QED
    BY <2>1 DEF DeletedGone
<1>18. LeftSoFar'
  BY <1>3, <1>4 DEF ProfileInv, LeftSoFar
<1> QED
  BY <1>9, <1>12, <1>13, <1>14, <1>15, <1>16, <1>17, <1>18 DEF ProfileInv

LEMMA ProfileCommit ==
    ASSUME ProfileInv, NEW e \in Edits, Commit(e) PROVE ProfileInv'
<1>1. ProfileTypeOK /\ edit[e] \in EditRecord /\ edit[e].member \in Members
  BY DEF ProfileInv, ProfileTypeOK, EditRecord
<1>2. PICK m \in Members : m = edit[e].member
  BY <1>1
<1> DEFINE row == Edited(e)
<1>3. /\ edit[e].at = "deleted" /\ edit' = [edit EXCEPT ![e] = IdleEdit]
      /\ profiles' = [profiles EXCEPT ![m] = row]
      /\ used' = [used EXCEPT ![m] = used[m] \cup ({row.image} \cap Uploaded)]
      /\ UNCHANGED <<objects, uploads, sent, unsent, crossing, undone, undeleted>>
  BY <1>2 DEF Commit, Finish
<1>4. edit[e].nicknameThen \in Nicknames /\ edit[e].image <= uploads /\ edit[e].imageThen <= uploads
  BY <1>3 DEF ProfileInv, KeysKnown
<1>5. /\ row \in [nickname : Nicknames, image : Images] /\ row.nickname = Nickname(e)
      /\ row.image <= uploads
      /\ row.image = IF edit[e].image = NoImage THEN edit[e].imageThen ELSE edit[e].image
  BY <1>1, <1>4 DEF Edited, Nickname, EditRecord
<1> HIDE DEF row
<1>6. /\ edit' \in [Edits -> EditRecord] /\ edit'[e] = IdleEdit
      /\ \A f \in Edits : f # e => edit'[f] = edit[f]
  BY <1>1, <1>3, EditPut, IdleEditRecord
<1>7. /\ profiles' \in [Members -> [nickname : Nicknames, image : Images]] /\ profiles'[m] = row
      /\ \A u \in Members : u # m => profiles'[u] = profiles[u]
  BY <1>1, <1>3, <1>5 DEF ProfileTypeOK
<1>8. /\ used' \in [Members -> SUBSET (1 .. uploads)]
      /\ used'[m] = used[m] \cup ({row.image} \cap Uploaded)
      /\ \A u \in Members : u # m => used'[u] = used[u]
  <2>1. used \in [Members -> SUBSET (1 .. uploads)]
    BY <1>1 DEF ProfileTypeOK
  <2>2. used[m] \cup ({row.image} \cap Uploaded) \in SUBSET (1 .. uploads)
    BY <1>1, <2>1 DEF Uploaded
  <2> QED
    BY <1>1, <1>3, <2>1, <2>2
<1>9. e \in Writers /\ ~Taken(Nickname(e), m)
  BY <1>3, <1>2 DEF Writers, ProfileInv, WritersApart
<1>10. ProfileTypeOK'
  <2>1. \A v \in Members : v # m => profiles'[v].nickname # row.nickname
    BY <1>5, <1>7, <1>9 DEF Taken
  <2>2. \A u, v \in Members : profiles'[u].nickname = profiles'[v].nickname => u = v
    BY <1>1, <1>7, <2>1 DEF ProfileTypeOK
  <2> QED
    BY <1>1, <1>3, <1>6, <1>7, <1>8, <2>2 DEF ProfileTypeOK, EditRecord
<1>11. KeysKnown'
  <2>1. \A u \in Members : profiles'[u].image <= uploads
    BY <1>5, <1>7 DEF ProfileInv, KeysKnown
  <2>2. IdleEdit.image <= uploads /\ IdleEdit.imageThen <= uploads
    BY <1>1 DEF IdleEdit, NoImage, ProfileTypeOK
  <2>3. \A f \in Edits : /\ edit'[f].image <= uploads /\ edit'[f].imageThen <= uploads
                         /\ edit'[f].at # "idle" => edit'[f].nicknameThen \in Nicknames
    BY <1>6, <2>2, IdleEditRecord DEF ProfileInv, KeysKnown
  <2> QED
    BY <1>3, <2>1, <2>3 DEF ProfileInv, KeysKnown
<1>12. EditsOf(m)' = EditsOf(m) \ {e} /\ \A u \in Members : u # m => EditsOf(u)' = EditsOf(u)
  BY <1>6, <1>2, IdleEditRecord DEF EditsOf
<1>13. \A u \in Members : \A f \in EditsOf(u)' :
          f \in EditsOf(u) /\ f # e /\ f \in Edits /\ edit'[f] = edit[f]
  BY <1>6, IdleEditRecord DEF EditsOf
<1>14. e \in EditsOf(m)
  BY <1>3, <1>2 DEF EditsOf
<1>15. KeysApart'
  <2>1. ASSUME NEW u \in Members, NEW k \in 1 .. uploads, Names(u, k)' PROVE Names(u, k)
    <3>1. CASE u = m /\ k = row.image
      BY <1>5, <1>14, <3>1 DEF Names
    <3>2. CASE u # m /\ (k = profiles'[u].image \/ k \in used'[u])
      BY <1>7, <1>8, <3>2 DEF Names
    <3>3. CASE u = m /\ k \in used'[u] /\ k # row.image
      BY <1>8, <3>3 DEF Names
    <3>4. CASE \E f \in EditsOf(u)' : k = edit'[f].image \/ k = edit'[f].imageThen
      <4>1. PICK f \in EditsOf(u)' : k = edit'[f].image \/ k = edit'[f].imageThen
        BY <3>4
      <4>2. f \in EditsOf(u) /\ (k = edit[f].image \/ k = edit[f].imageThen)
        BY <1>13, <4>1
      <4> QED
        BY <4>2 DEF Names
    <3> QED
      BY <1>7, <2>1, <3>1, <3>2, <3>3, <3>4 DEF Names
  <2> QED
    BY <1>3, <2>1, NamesShrink DEF ProfileInv
<1>16. m \notin crossing => EditsOf(m)' = {} /\ edit[e].imageThen = profiles[m].image
  BY <1>12, <1>14 DEF ProfileInv, OneEdit
<1>17. OneEdit'
  <2>1. ASSUME NEW u \in Members \ crossing, NEW f \in EditsOf(u)'
        PROVE  /\ edit'[f].nicknameThen = profiles'[u].nickname
               /\ edit'[f].imageThen = profiles'[u].image
               /\ \A g \in EditsOf(u)' : g = f
    <3>1. u # m
      BY <1>16
    <3> QED
      BY <1>7, <1>12, <1>13, <3>1 DEF ProfileInv, OneEdit
  <2> QED
    BY <1>3, <2>1 DEF OneEdit
<1>18. WritersApart'
  <2>1. \A f \in Writers' : f \in Writers /\ f # e /\ f \in Edits /\ edit'[f] = edit[f]
    BY <1>6, IdleEditRecord DEF Writers
  <2>2. \A f \in Writers' : Nickname(f)' = Nickname(f)
    BY <2>1 DEF Nickname
  <2>3. ASSUME NEW f \in Writers' PROVE ~Taken(Nickname(f), edit[f].member)'
    <3>1. ~Taken(Nickname(f), edit[f].member) /\ Nickname(f) # Nickname(e)
      BY <1>9, <2>1 DEF ProfileInv, WritersApart
    <3>2. \A v \in Members \ {edit[f].member} : profiles'[v].nickname # Nickname(f)
      BY <1>5, <1>7, <3>1 DEF Taken
    <3> QED
      BY <2>1, <2>2, <3>2 DEF Taken
  <2>4. ASSUME NEW f \in Writers', NEW g \in Writers', g # f
        PROVE  edit'[g].member # edit'[f].member /\ Nickname(g)' # Nickname(f)'
    BY <2>1, <2>2, <2>4 DEF ProfileInv, WritersApart
  <2> QED
    BY <2>3, <2>4 DEF WritersApart
<1>19. \A f \in Edits : f # e => (Replaces(f)' <=> Replaces(f))
  BY <1>3, <1>6 DEF Replaces, Uploaded
<1>20. StoredSoFar'
  <2> SUFFICES ASSUME NEW u \in Members \ (crossing \cup undone)
               PROVE  /\ \A f \in EditsOf(u)' : edit'[f].image \in objects \cup {NoImage, TypeImage}
                      /\ (\A f \in EditsOf(u)' : ~(edit'[f].at = "deleted" /\ Replaces(f)'))
                            => profiles'[u].image \in objects \cup {NoImage, TypeImage}
    BY <1>3 DEF StoredSoFar, Stored
  <2>1. CASE u # m
    <3>1. \A f \in EditsOf(u)' : edit'[f].image \in objects \cup {NoImage, TypeImage}
      BY <1>13 DEF ProfileInv, StoredSoFar, Stored
    <3>2. ASSUME \A f \in EditsOf(u)' : ~(edit'[f].at = "deleted" /\ Replaces(f)')
          PROVE  profiles'[u].image \in objects \cup {NoImage, TypeImage}
      <4>1. \A f \in EditsOf(u) : ~(edit[f].at = "deleted" /\ Replaces(f))
        BY <1>12, <1>13, <1>19, <2>1, <3>2
      <4> QED
        BY <1>7, <2>1, <4>1 DEF ProfileInv, StoredSoFar, Stored
    <3> QED
      BY <3>1, <3>2
  <2>2. CASE u = m
    <3>1. EditsOf(u)' = {} /\ edit[e].imageThen = profiles[u].image /\ \A f \in EditsOf(u) : f = e
      BY <1>14, <1>16, <2>2 DEF ProfileInv, OneEdit
    <3>2. Stored(edit[e].image)
      BY <1>14, <2>2 DEF ProfileInv, StoredSoFar
    <3>3. edit[e].image = NoImage => Stored(profiles[u].image)
      BY <3>1 DEF ProfileInv, StoredSoFar, Replaces
    <3> QED
      BY <1>5, <1>7, <2>2, <3>1, <3>2, <3>3 DEF Stored
  <2> QED
    BY <2>1, <2>2
<1>21. DeletedGone'
  BY <1>3, <1>6, <1>19, IdleEditRecord DEF ProfileInv, DeletedGone
<1>22. LeftSoFar'
  <2> SUFFICES ASSUME ~undeleted, NEW u \in Members \ crossing
               PROVE  used'[u] \cap objects \subseteq {profiles'[u].image}
    BY <1>3 DEF LeftSoFar
  <2>1. used[u] \cap objects \subseteq {profiles[u].image}
    BY DEF ProfileInv, LeftSoFar
  <2>2. CASE u # m
    BY <1>7, <1>8, <2>1, <2>2
  <2>3. CASE u = m
    <3>1. edit[e].imageThen = profiles[m].image
      BY <1>16, <2>3
    <3>2. used[m] \subseteq Uploaded
      BY <1>1 DEF ProfileTypeOK, Uploaded
    <3>3. profiles[m].image \in used[m] \cap objects => row.image = profiles[m].image
      <4>1. CASE Replaces(e)
        <5>1. edit[e].imageThen \notin objects
          BY <1>3, <4>1 DEF ProfileInv, DeletedGone
        <5> QED
          BY <3>1, <5>1
      <4>2. CASE ~Replaces(e)
        BY <1>5, <3>1, <3>2, <4>2 DEF Replaces
      <4> QED
        BY <4>1, <4>2
    <3> QED
      BY <1>7, <1>8, <2>1, <2>3, <3>3
  <2> QED
    BY <2>2, <2>3
<1> QED
  BY <1>10, <1>11, <1>15, <1>17, <1>18, <1>20, <1>21, <1>22 DEF ProfileInv

LEMMA ProfileAvatar ==
    ASSUME ProfileInv, NEW u \in Members, ChooseAvatar(u) PROVE ProfileInv'
<1> DEFINE row == [nickname |-> profiles[u].nickname, image |-> TypeImage]
<1>1. ProfileTypeOK /\ profiles[u] \in [nickname : Nicknames, image : Images]
  BY DEF ProfileInv, ProfileTypeOK
<1>2. /\ sent < MaxEdits /\ sent' = sent + 1
      /\ profiles' = [profiles EXCEPT ![u] = row]
      /\ used' = [used EXCEPT ![u] = {}]
      /\ crossing' = IF EditsOf(u) = {} THEN crossing ELSE crossing \cup {u}
      /\ UNCHANGED <<objects, uploads, edit, unsent, undone, undeleted>>
  BY DEF ChooseAvatar
<1>3. /\ row \in [nickname : Nicknames, image : Images] /\ row.image = TypeImage
      /\ row.nickname = profiles[u].nickname
  BY <1>1, UploadAssumption DEF Images, TypeImage
<1> HIDE DEF row
<1>4. /\ profiles' \in [Members -> [nickname : Nicknames, image : Images]] /\ profiles'[u] = row
      /\ \A v \in Members : v # u => profiles'[v] = profiles[v]
  BY <1>1, <1>2, <1>3 DEF ProfileTypeOK
<1>5. /\ used' \in [Members -> SUBSET (1 .. uploads)] /\ used'[u] = {}
      /\ \A v \in Members : v # u => used'[v] = used[v]
  <2>1. used \in [Members -> SUBSET (1 .. uploads)]
    BY <1>1 DEF ProfileTypeOK
  <2> QED
    BY <1>2, <2>1
<1>6. \A v \in Members : profiles'[v].nickname = profiles[v].nickname
  BY <1>3, <1>4
<1>7. ProfileTypeOK'
  <2>1. sent' \in 0 .. MaxEdits /\ (crossing \cup undone)' \subseteq Members
    BY <1>1, <1>2, UploadAssumption DEF ProfileTypeOK
  <2> QED
    BY <1>1, <1>2, <1>4, <1>5, <1>6, <2>1 DEF ProfileTypeOK
<1>8. KeysKnown'
  <2>1. TypeImage <= uploads
    BY <1>1 DEF ProfileTypeOK, TypeImage
  <2> QED
    BY <1>2, <1>3, <1>4, <2>1 DEF ProfileInv, KeysKnown
<1>9. \A v \in Members : EditsOf(v)' = EditsOf(v)
  BY <1>2 DEF EditsOf
<1>10. KeysApart'
  <2>1. \A k \in 1 .. uploads : k # TypeImage
    BY DEF TypeImage
  <2>2. \A v \in Members, k \in 1 .. uploads : Names(v, k)' => Names(v, k)
    BY <1>2, <1>3, <1>4, <1>5, <1>9, <2>1 DEF Names
  <2> QED
    BY <1>2, <2>2, NamesShrink DEF ProfileInv
<1>11. crossing \subseteq crossing' /\ (u \notin crossing' => EditsOf(u) = {})
  BY <1>2
<1>12. OneEdit'
  BY <1>2, <1>4, <1>9, <1>11 DEF ProfileInv, OneEdit
<1>13. WritersApart'
  <2>1. Writers' = Writers /\ \A f \in Writers : Nickname(f)' = Nickname(f)
    BY <1>2 DEF Writers, Nickname
  <2>2. \A f \in Writers : ~Taken(Nickname(f), edit[f].member)'
    BY <1>2, <1>6, <2>1 DEF ProfileInv, WritersApart, Taken
  <2>3. \A f, g \in Writers : g # f =>
           edit'[g].member # edit'[f].member /\ Nickname(g)' # Nickname(f)'
    BY <1>2, <2>1 DEF ProfileInv, WritersApart
  <2> QED
    BY <2>1, <2>2, <2>3 DEF WritersApart
<1>14. StoredSoFar'
  <2> SUFFICES ASSUME NEW v \in Members \ (crossing' \cup undone)
               PROVE  /\ \A f \in EditsOf(v) : edit[f].image \in objects \cup {NoImage, TypeImage}
                      /\ (\A f \in EditsOf(v) : ~(edit[f].at = "deleted" /\ Replaces(f)'))
                            => profiles'[v].image \in objects \cup {NoImage, TypeImage}
    BY <1>2, <1>9 DEF StoredSoFar, Stored
  <2>1. v \in Members \ (crossing \cup undone)
    BY <1>11
  <2>2. \A f \in Edits : Replaces(f)' <=> Replaces(f)
    BY <1>2 DEF Replaces, Uploaded
  <2>3. \A f \in EditsOf(v) : f \in Edits
    BY DEF EditsOf
  <2>4. \A f \in EditsOf(v) : edit[f].image \in objects \cup {NoImage, TypeImage}
    BY <2>1 DEF ProfileInv, StoredSoFar, Stored
  <2>5. ASSUME \A f \in EditsOf(v) : ~(edit[f].at = "deleted" /\ Replaces(f)')
        PROVE  profiles'[v].image \in objects \cup {NoImage, TypeImage}
    <3>1. CASE v = u
      BY <1>3, <1>4, <3>1
    <3>2. CASE v # u
      BY <1>4, <2>1, <2>2, <2>3, <2>5, <3>2 DEF ProfileInv, StoredSoFar, Stored
    <3> QED
      BY <3>1, <3>2
  <2> QED
    BY <2>4, <2>5
<1>15. DeletedGone'
  BY <1>2 DEF ProfileInv, DeletedGone, Replaces, Uploaded
<1>16. LeftSoFar'
  BY <1>2, <1>4, <1>5, <1>11 DEF ProfileInv, LeftSoFar
<1> QED
  BY <1>7, <1>8, <1>10, <1>12, <1>13, <1>14, <1>15, <1>16 DEF ProfileInv

LEMMA ProfileInvStep == ProfileInv /\ [ProfileNext]_profileVars => ProfileInv'
<1> SUFFICES ASSUME ProfileInv, [ProfileNext]_profileVars PROVE ProfileInv'
  OBVIOUS
<1>1. CASE Upload
  BY <1>1, ProfileUpload
<1>2. ASSUME NEW e \in Edits, NEW u \in Members, Authenticate(e, u) PROVE ProfileInv'
  BY <1>2, ProfileArrival
<1>3. ASSUME NEW u \in Members, ChooseAvatar(u) PROVE ProfileInv'
  BY <1>3, ProfileAvatar
<1>4. ASSUME NEW e \in Edits,
             CheckNickname(e) \/ SaveCopy(e) \/ SetImage(e) \/ Commit(e) \/ UndoEdit(e)
      PROVE  ProfileInv'
  BY <1>4, ProfileCheck, ProfileSave, ProfileSetImage, ProfileCommit, ProfileUndo
<1>5. CASE UNCHANGED profileVars
  BY <1>5, ProfileStutters
<1> QED
  BY <1>1, <1>2, <1>3, <1>4, <1>5 DEF ProfileNext

\* For any number of users and edits no two users ever have one nickname, however their
\* edits overlap (models.py:62), and every variable keeps its type.
THEOREM NicknamesDiffer == ProfileSpec => []ProfileTypeOK
<1>1. ProfileInv => ProfileTypeOK
  BY DEF ProfileInv
<1> QED
  BY <1>1, ProfileInvInit, ProfileInvStep, PTL DEF ProfileSpec

\* For any number of users, edits and uploads the image in a row exists and one that left
\* its row does not, unless two edits of the user overlapped, one failed after its delete
\* or S3 refused one (profile_service.py:57-64).
THEOREM EveryImageAccounted == ProfileSpec => []ImagesAccounted
<1>1. ProfileInv => ImagesAccounted
  <2>1. ProfileInv => ImageStored
    BY DEF ProfileInv, StoredSoFar, Stored, ImageStored
  <2>2. ProfileInv => NothingLeftOver
    BY DEF ProfileInv, LeftSoFar, NothingLeftOver
  <2> QED
    BY <2>1, <2>2 DEF ImagesAccounted
<1> QED
  BY <1>1, ProfileInvInit, ProfileInvStep, PTL DEF ProfileSpec
================================================================================
