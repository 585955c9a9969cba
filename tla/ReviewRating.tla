---------------------------- MODULE ReviewRating ----------------------------
(***************************************************************************)
(* Reviews and the rating that every place row carries a copy of.          *)
(*                                                                         *)
(* Review rows are the truth; Place.rating_avg and Place.rating_count are  *)
(* a denormalised copy that update_place_rating recomputes at the end of   *)
(* every review transaction, after locking the place row.  Requests run    *)
(* concurrently, each one a PostgreSQL transaction at READ COMMITTED:      *)
(*   - a statement sees the committed rows and the transaction's own       *)
(*     writes (View);                                                      *)
(*   - an UPDATE or DELETE of a row that another open transaction wrote,   *)
(*     SELECT ... FOR UPDATE of a locked row and an INSERT whose unique    *)
(*     key another open transaction wrote all wait, which here means that  *)
(*     the step is not enabled;                                            *)
(*   - Django declares foreign keys DEFERRABLE INITIALLY DEFERRED, so they *)
(*     are checked by COMMIT and an INSERT takes no lock on its place.     *)
(*                                                                         *)
(* Two writers of the place row do not go through update_place_rating:     *)
(* admin_update_place, which saves the whole row it read earlier, and      *)
(* purge_withdrawn_users, whose cascade deletes review rows.  The history  *)
(* variable bypassed collects the places they have touched.                *)
(***************************************************************************)
EXTENDS Integers, FiniteSets

CONSTANTS
    Txns,        \* request handlers, one database connection each
    Users,
    Places,
    Ratings,     \* the ratings requests carry, a subset of 1..5
    MaxReviews,  \* bound: review ids handed out by the sequence
    None         \* no user, no place

ASSUME RatingsAssumption == Ratings \subseteq 1..5
ASSUME NoneAssumption == None \notin Users /\ None \notin Places
ASSUME MaxReviewsAssumption == MaxReviews \in Nat

VARIABLES
    reviews,     \* committed rows of Review
    places,      \* committed rows of Place, by primary key
    users,       \* committed rows of User
    rating,      \* the rating columns of each place
    actionLogs,  \* committed rows of UserActionLog written by create_review
    nextId,      \* the sequence behind Review.id: never rolled back
    txn,         \* the open transaction of each handler
    reply,       \* the answer each handler gave last
    bypassed     \* history: places written around update_place_rating

vars == <<reviews, places, users, rating, actionLogs, nextId, txn, reply, bypassed>>

-----------------------------------------------------------------------------
(* Data *)

Review == [id : Nat, user : Users, place : Places, rating : 1..5]
Rating == [avg : Int, count : Nat]
Log == [id : Nat, user : Users, place : Places]

ReviewOps == {"create", "update", "delete"}
\* refused: one of the API exceptions the handlers raise themselves (400, 403, 404,
\* 409); failed: an exception nobody handles (500).
Replies == {"none", "ok", "refused", "failed"}

ReviewsOf(rows, p) == {r \in rows : r.place = p}

\* Averages (2k+1)/20 are exact ties between k and k+1 tenths.  Python rounds
\* the nearest double, so the direction depends on its binary expansion: these
\* are the k for which round((2k+1)/20, 1) goes down.
TieDown == {11, 12, 14, 16, 19, 20, 21, 22, 25, 26, 30, 31, 32, 35, 36, 40, 42, 43, 45, 48}

\* round(s / n, 1), in tenths.
RoundTenths(s, n) ==
    LET k == (10 * s) \div n
        twice == 2 * ((10 * s) % n)
    IN IF twice < n \/ (twice = n /\ k \in TieDown) THEN k ELSE k + 1

\* The sum of the ratings, by how often each one occurs.
HowMany(rows, k) == Cardinality({x \in rows : x.rating = k})
SumRatings(rows) ==
    HowMany(rows, 1) + 2 * HowMany(rows, 2) + 3 * HowMany(rows, 3)
        + 4 * HowMany(rows, 4) + 5 * HowMany(rows, 5)

NoRating == [avg |-> 0, count |-> 0]

\* What update_place_rating stores for a set of review rows.
RatingOf(rows) ==
    IF rows = {}
    THEN NoRating
    ELSE [avg |-> RoundTenths(SumRatings(rows), Cardinality(rows)),
          count |-> Cardinality(rows)]

\* An open transaction: where its handler stands, what the request asks, the rows it
\* has written, the ids it has deleted or replaced, the rating columns it will store.
Transaction ==
    [op : ReviewOps \cup {"none", "drop", "edit"},
     pc : {"idle", "read", "wrote", "locked", "rated", "unrated"},
     user : Users \cup {None}, place : Places \cup {None}, id : Nat, rate : 0..5,
     add : SUBSET Review, del : SUBSET Nat, agg : Rating]

NoTxn == [op |-> "none", pc |-> "idle", user |-> None, place |-> None, id |-> 0,
          rate |-> 0, add |-> {}, del |-> {}, agg |-> NoRating]

\* A transaction that has read what it needs to start.
Opened(op, u, p, i, r, g) ==
    [op |-> op, pc |-> "read", user |-> u, place |-> p, id |-> i,
     rate |-> r, add |-> {}, del |-> {}, agg |-> g]

\* The rows transaction t sees: what is committed, less what it deleted or
\* replaced, plus what it wrote.
View(t) == {r \in reviews : r.id \notin txn[t].del} \cup txn[t].add

\* Transactions that hold the lock on the row of place p.
Holders(p) == {t \in Txns : txn[t].place = p /\ txn[t].pc \in {"locked", "rated"}}

\* Some other open transaction has written the review or log row with id i.
RowLocked(t, i) == \E o \in Txns \ {t} : i \in txn[o].del

-----------------------------------------------------------------------------
(* Initial state: places and users exist, nobody has reviewed anything *)

Init ==
    /\ reviews = {}
    /\ places = Places
    /\ users = Users
    /\ rating = [p \in Places |-> NoRating]
    /\ actionLogs = {}
    /\ nextId = 1
    /\ txn = [t \in Txns |-> NoTxn]
    /\ reply = [t \in Txns |-> "none"]
    /\ bypassed = {}

committed == <<reviews, places, users, rating, actionLogs, bypassed>>

\* Answer the request; the transaction is over, rolled back unless it committed.
Leave(t, answer) ==
    /\ txn' = [txn EXCEPT ![t] = NoTxn]
    /\ reply' = [reply EXCEPT ![t] = answer]

Begin(t, new) ==
    /\ txn' = [txn EXCEPT ![t] = new]
    /\ reply' = [reply EXCEPT ![t] = "none"]

Step(t, changed) ==
    /\ txn' = [txn EXCEPT ![t] = changed]
    /\ UNCHANGED reply

Idle(t) == txn[t].pc = "idle"
At(t, op, pc) == txn[t].op = op /\ txn[t].pc = pc

-----------------------------------------------------------------------------
(* create_review *)

\* Sequence values that requests in flight will still draw.
Reserved == Cardinality({t \in Txns : At(t, "create", "read")})

\* _get_place_or_404 and the exists() check, on what is committed now.
CreateReview(t, u, p, r) ==
    /\ Idle(t)
    /\ u \in users
    /\ \/ p \notin places /\ Leave(t, "refused")
       \/ /\ p \in places
          /\ \E x \in reviews : x.user = u /\ x.place = p
          /\ Leave(t, "refused")
       \/ /\ p \in places
          /\ ~ \E x \in reviews : x.user = u /\ x.place = p
          /\ nextId + Reserved <= MaxReviews
          /\ Begin(t, Opened("create", u, p, 0, r, NoRating))
    /\ UNCHANGED <<committed, nextId>>

\* _get_review_route refuses a route that is not the user's or misses the place.
RefuseRoute(t) ==
    /\ txn[t].op \in {"create", "update"} /\ txn[t].pc = "read"
    /\ Leave(t, "refused")
    /\ UNCHANGED <<committed, nextId>>

SameKey(x, y) == x.user = y.user /\ x.place = y.place

NewReview(t) ==
    [id |-> nextId, user |-> txn[t].user, place |-> txn[t].place, rating |-> txn[t].rate]

\* Rows whose key an INSERT into the unique index of t would have to wait for.
KeyPending(t) ==
    \E o \in Txns \ {t} :
        \/ \E x \in txn[o].add : SameKey(x, txn[t])
        \/ \E x \in reviews : x.id \in txn[o].del /\ SameKey(x, txn[t])

KeyTaken(t) == \E x \in reviews : SameKey(x, txn[t])

\* Review.objects.create under unique_together (user, place).
InsertReview(t) ==
    /\ At(t, "create", "read")
    /\ ~KeyPending(t)
    /\ \/ KeyTaken(t) /\ Leave(t, "failed")
       \/ ~KeyTaken(t) /\ Step(t, [txn[t] EXCEPT !.pc = "wrote", !.add = {NewReview(t)}])
    /\ nextId' = nextId + 1
    /\ UNCHANGED committed

-----------------------------------------------------------------------------
(* update_review, delete_review, admin_delete_review *)

\* The row with id i is loaded without a lock and the owner is checked.  An
\* update carries a new rating or, as 0, only other fields; the administrator's
\* delete has no owner check and no user.
OpenReview(t, op, u, i, r) ==
    /\ Idle(t)
    /\ u \in users \cup {None}
    /\ \/ (\A x \in reviews : x.id # i) /\ Leave(t, "refused")
       \/ \E x \in reviews :
            /\ x.id = i
            /\ \/ u \notin {None, x.user} /\ Leave(t, "refused")
               \/ /\ u \in {None, x.user}
                  /\ Begin(t, Opened(op, u, x.place, i, r, NoRating))
    /\ UNCHANGED <<committed, nextId>>

UpdateReview(t, u, i, r) == OpenReview(t, "update", u, i, r)
DeleteReview(t, u, i) == OpenReview(t, "delete", u, i, 0)
AdminDeleteReview(t, i) == OpenReview(t, "delete", None, i, 0)

\* review.save(update_fields=[...]): only the given columns are written.  When
\* the row has gone in between, save finds no row to update and raises.
SaveReview(t) ==
    /\ At(t, "update", "read")
    /\ ~RowLocked(t, txn[t].id)
    /\ \/ (\A x \in reviews : x.id # txn[t].id) /\ Leave(t, "failed")
       \/ \E x \in reviews :
            /\ x.id = txn[t].id
            /\ Step(t, [txn[t] EXCEPT
                 !.pc = "wrote", !.del = {x.id},
                 !.add = {IF txn[t].rate = 0 THEN x ELSE [x EXCEPT !.rating = txn[t].rate]}])
    /\ UNCHANGED <<committed, nextId>>

\* review.delete(): deleting a row that has gone is no error.
DeleteRow(t) ==
    /\ At(t, "delete", "read")
    /\ ~RowLocked(t, txn[t].id)
    /\ Step(t, [txn[t] EXCEPT !.pc = "wrote",
                              !.del = {x.id : x \in {y \in reviews : y.id = txn[t].id}}])
    /\ UNCHANGED <<committed, nextId>>

-----------------------------------------------------------------------------
(* update_place_rating *)

\* Mutated form of LockPlace: the place is read without select_for_update.
LockPlaceUnlocked(t) ==
    /\ txn[t].op \in ReviewOps /\ txn[t].pc = "wrote"
    /\ \/ txn[t].place \in places /\ Step(t, [txn[t] EXCEPT !.pc = "locked"])
       \/ txn[t].place \notin places /\ Step(t, [txn[t] EXCEPT !.pc = "unrated"])
    /\ UNCHANGED <<committed, nextId>>

\* Mutated form of LockPlace: foreign keys checked by the INSERT, whose lock on the
\* place row makes SELECT FOR UPDATE wait for every uncommitted new review.
LockPlaceEagerKeys(t) ==
    /\ txn[t].op \in ReviewOps /\ txn[t].pc = "wrote"
    /\ Holders(txn[t].place) = {}
    /\ ~ \E o \in Txns \ {t} : At(o, "create", "wrote") /\ txn[o].place = txn[t].place
    /\ Step(t, [txn[t] EXCEPT !.pc = IF txn[t].place \in places THEN "locked" ELSE "unrated"])
    /\ UNCHANGED <<committed, nextId>>

\* select_for_update().get(): waits for the lock; returns early without a place.
LockPlace(t) ==
    /\ txn[t].op \in ReviewOps /\ txn[t].pc = "wrote"
    /\ \/ /\ txn[t].place \in places
          /\ Holders(txn[t].place) = {}
          /\ Step(t, [txn[t] EXCEPT !.pc = "locked"])
       \/ txn[t].place \notin places /\ Step(t, [txn[t] EXCEPT !.pc = "unrated"])
    /\ UNCHANGED <<committed, nextId>>

\* The aggregate over the visible reviews, and the save of the two columns.
RecomputeRating(t) ==
    /\ txn[t].op \in ReviewOps /\ txn[t].pc = "locked"
    /\ Step(t, [txn[t] EXCEPT !.pc = "rated",
                              !.agg = RatingOf(ReviewsOf(View(t), txn[t].place))])
    /\ UNCHANGED <<committed, nextId>>

-----------------------------------------------------------------------------
(* COMMIT of a review transaction *)

\* Mutated form of KeysHold: only the author is a database foreign key.
KeysHoldUserOnly(t) == txn[t].op = "create" => txn[t].user \in users

\* The deferred foreign keys of an inserted review.
KeysHold(t) == txn[t].op = "create" => txn[t].place \in places /\ txn[t].user \in users

\* record_action: a new review whose rating is not neutral leaves a log row.
NewLogs(t) ==
    {[id |-> x.id, user |-> x.user, place |-> x.place] :
        x \in {y \in txn[t].add : txn[t].op = "create" /\ y.rating # 3}}

CommitReview(t) ==
    /\ txn[t].op \in ReviewOps /\ txn[t].pc \in {"rated", "unrated"}
    /\ \/ /\ ~KeysHold(t)
          /\ Leave(t, "failed")
          /\ UNCHANGED committed
       \/ /\ KeysHold(t)
          /\ reviews' = View(t)
          /\ rating' = IF txn[t].pc = "rated"
                       THEN [rating EXCEPT ![txn[t].place] = txn[t].agg] ELSE rating
          /\ actionLogs' = actionLogs \cup NewLogs(t)
          /\ Leave(t, "ok")
          /\ UNCHANGED <<places, users, bypassed>>
    /\ UNCHANGED nextId

-----------------------------------------------------------------------------
(* admin_delete_place: Place.delete() and its cascade *)

IdsOfPlace(p) == {x.id : x \in ReviewsOf(reviews, p)} \cup {l.id : l \in ReviewsOf(actionLogs, p)}

DropPlace(t, p) ==
    /\ Idle(t)
    /\ \/ p \notin places /\ Leave(t, "refused")
       \/ p \in places /\ Begin(t, Opened("drop", None, p, 0, 0, NoRating))
    /\ UNCHANGED <<committed, nextId>>

\* The dependent rows are deleted first.
CascadeRows(t) ==
    /\ At(t, "drop", "read")
    /\ \A i \in IdsOfPlace(txn[t].place) : ~RowLocked(t, i)
    /\ Step(t, [txn[t] EXCEPT !.pc = "wrote", !.del = IdsOfPlace(txn[t].place)])
    /\ UNCHANGED <<committed, nextId>>

\* Then the place row, when its lock is free; it may have gone meanwhile.
DropRow(t) ==
    /\ At(t, "drop", "wrote")
    /\ \/ /\ txn[t].place \in places
          /\ Holders(txn[t].place) = {}
          /\ Step(t, [txn[t] EXCEPT !.pc = "locked"])
       \/ txn[t].place \notin places /\ Step(t, [txn[t] EXCEPT !.pc = "unrated"])
    /\ UNCHANGED <<committed, nextId>>

\* COMMIT fails when a row inserted since the cascade still refers to the place.
CommitDrop(t) ==
    /\ At(t, "drop", "locked") \/ At(t, "drop", "unrated")
    /\ \/ /\ txn[t].pc = "locked"
          /\ ~(IdsOfPlace(txn[t].place) \subseteq txn[t].del)
          /\ Leave(t, "failed")
          /\ UNCHANGED <<reviews, places, rating, actionLogs>>
       \/ /\ txn[t].pc = "locked"
          /\ IdsOfPlace(txn[t].place) \subseteq txn[t].del
          /\ reviews' = View(t)
          /\ actionLogs' = {l \in actionLogs : l.id \notin txn[t].del}
          /\ places' = places \ {txn[t].place}
          /\ rating' = [rating EXCEPT ![txn[t].place] = NoRating]
          /\ Leave(t, "ok")
       \/ /\ txn[t].pc = "unrated"
          /\ Leave(t, "ok")
          /\ UNCHANGED <<reviews, places, rating, actionLogs>>
    /\ UNCHANGED <<users, nextId, bypassed>>

-----------------------------------------------------------------------------
(* The two writers that bypass update_place_rating *)

\* admin_update_place reads the whole row without a lock ...
EditPlace(t, p) ==
    /\ Idle(t)
    /\ \/ p \notin places /\ Leave(t, "refused")
       \/ /\ p \in places
          /\ Begin(t, Opened("edit", None, p, 0, 0, rating[p]))
    /\ UNCHANGED <<committed, nextId>>

\* ... and place.save() later writes every column back.
SaveEdit(t) ==
    /\ At(t, "edit", "read")
    /\ Holders(txn[t].place) = {}
    /\ Step(t, [txn[t] EXCEPT !.pc = "rated"])
    /\ UNCHANGED <<committed, nextId>>

\* save() without update_fields inserts the row again when it finds none.
CommitEdit(t) ==
    LET p == txn[t].place
    IN /\ At(t, "edit", "rated")
       /\ rating' = [rating EXCEPT ![p] = txn[t].agg]
       /\ places' = places \cup {p}
       /\ bypassed' = IF p \in places /\ rating[p] = txn[t].agg
                      THEN bypassed ELSE bypassed \cup {p}
       /\ Leave(t, "ok")
       /\ UNCHANGED <<reviews, users, actionLogs, nextId>>

\* purge_withdrawn_users deletes a user who has been inactive for two weeks, so
\* none of the user's requests is open, and cascades to the review and log rows.
PurgeUser(u) ==
    LET mine == {x \in reviews : x.user = u}
        logs == {l \in actionLogs : l.user = u}
    IN /\ u \in users
       /\ \A t \in Txns : txn[t].user # u
       /\ \A x \in mine \cup logs, t \in Txns : x.id \notin txn[t].del
       /\ users' = users \ {u}
       /\ reviews' = reviews \ mine
       /\ actionLogs' = actionLogs \ logs
       /\ bypassed' = bypassed \cup {x.place : x \in mine}
       /\ UNCHANGED <<places, rating, nextId, txn, reply>>

\* The worker dies or a statement fails: the database rolls back.
Crash(t) ==
    /\ ~Idle(t)
    /\ Leave(t, "failed")
    /\ UNCHANGED <<committed, nextId>>

-----------------------------------------------------------------------------
(* Specification *)

Request(t) ==
    \/ \E u \in Users, p \in Places, r \in Ratings : CreateReview(t, u, p, r)
    \/ \E u \in Users, i \in 1..MaxReviews, r \in Ratings \cup {0} : UpdateReview(t, u, i, r)
    \/ \E u \in Users, i \in 1..MaxReviews : DeleteReview(t, u, i)
    \/ \E i \in 1..MaxReviews : AdminDeleteReview(t, i)
    \/ \E p \in Places : DropPlace(t, p)

\* The steps that carry an open transaction on.
Proceed(t) ==
    \/ InsertReview(t) \/ SaveReview(t) \/ DeleteRow(t)
    \/ LockPlace(t) \/ RecomputeRating(t) \/ CommitReview(t)
    \/ CascadeRows(t) \/ DropRow(t) \/ CommitDrop(t)
    \/ SaveEdit(t) \/ CommitEdit(t)

ReviewNext == \E t \in Txns : Request(t) \/ RefuseRoute(t) \/ Proceed(t) \/ Crash(t)

EditNext == \E t \in Txns, p \in Places : EditPlace(t, p)

PurgeNext == \E u \in Users : PurgeUser(u)

Next == ReviewNext \/ EditNext \/ PurgeNext

Spec == Init /\ [][Next]_vars

\* PostgreSQL grants a row lock to its waiters in the order they came, so a
\* transaction that can be let through again and again is let through.
Fairness == \A t \in Txns : SF_vars(Proceed(t))

FairSpec == Spec /\ Fairness

\* The review endpoints and the administrator's edit, without the purge.
EditSpec == Init /\ [][ReviewNext \/ EditNext]_vars

-----------------------------------------------------------------------------
(* Properties *)

TypeOK ==
    /\ reviews \subseteq Review
    /\ places \subseteq Places
    /\ users \subseteq Users
    /\ rating \in [Places -> Rating]
    /\ actionLogs \subseteq Log
    /\ nextId \in Nat
    /\ txn \in [Txns -> Transaction]
    /\ reply \in [Txns -> Replies]
    /\ bypassed \subseteq Places

\* In every committed state the rating columns of every place are what its
\* committed reviews give (place_services.py: rating_count is the number of
\* reviews, refreshed by every create, update and delete).
RatingMatchesReviews ==
    \A p \in Places : rating[p] = RatingOf(ReviewsOf(reviews, p))

\* The same for every place that neither a stale administrator save nor a purge
\* has touched: review transactions, place deletes, crashes and rejected requests
\* never make the copy drift, in any interleaving.
RatingExactUnlessBypassed ==
    \A p \in Places \ bypassed : rating[p] = RatingOf(ReviewsOf(reviews, p))

\* A user has at most one review of a place, whatever the exists() checks of
\* concurrent create_review calls saw.
OneReviewPerUserAndPlace ==
    \A x, y \in reviews : SameKey(x, y) => x = y

\* A review never outlives its place or its author, although an INSERT takes no
\* lock on either and the cascades of admin_delete_place and of the purge work
\* from the rows they saw.
NoOrphanReview ==
    \A x \in reviews : x.place \in places /\ x.user \in users

\* The reviews keep their keys, the unique one and the foreign ones: the two together.
ReviewKeysHold == OneReviewPerUserAndPlace /\ NoOrphanReview

\* No request waits for ever on another one's row locks: review rows are always
\* locked before the place row.
RequestsEnd == \A t \in Txns : ~Idle(t) ~> Idle(t)

-----------------------------------------------------------------------------
(***************************************************************************)
(* The inductive invariant behind RatingExactUnlessBypassed and            *)
(* OneReviewPerUserAndPlace.                                               *)
(***************************************************************************)

Finite == IsFiniteSet(reviews) /\ \A t \in Txns : IsFiniteSet(txn[t].add)

\* Rows that are committed or that an open transaction has written.
KnownRows == reviews \cup actionLogs \cup UNION {txn[t].add : t \in Txns}

\* The sequence never hands out an id again.
IdsFresh ==
    /\ \A x \in KnownRows : x.id < nextId
    /\ \A t \in Txns : \A i \in txn[t].del : i < nextId

\* An id belongs to one author and one place.
IdsNameKeys == \A x, y \in KnownRows : x.id = y.id => SameKey(x, y)

\* Which fields each kind of transaction uses.
Shape(t) ==
    /\ Idle(t) => txn[t] = NoTxn
    /\ ~Idle(t) => txn[t].op # "none" /\ txn[t].place \in Places
    /\ txn[t].pc = "read" => txn[t].add = {} /\ txn[t].del = {}
    /\ \A x, y \in txn[t].add : x = y
    /\ txn[t].op \in {"drop", "edit", "delete"} => txn[t].add = {}
    /\ txn[t].op \in {"create", "edit"} => txn[t].del = {}
    /\ txn[t].op = "create" => txn[t].user \in Users /\ txn[t].rate \in 1..5

TxnShape == \A t \in Txns : Shape(t)

\* A transaction writes and removes rows of its own place only, which for an update
\* or a delete is the place of the row it opened.
OwnPlace ==
    \A t \in Txns :
        /\ \A x \in txn[t].add : x.place = txn[t].place
        /\ \A x \in KnownRows : x.id \in txn[t].del => x.place = txn[t].place
        /\ txn[t].op = "create" => \A x \in txn[t].add : x.user = txn[t].user

OpenedRow ==
    \A t \in Txns : txn[t].op \in {"update", "delete"} =>
        /\ txn[t].id < nextId
        /\ \A x \in KnownRows : x.id = txn[t].id => x.place = txn[t].place

\* Row locks: a review under update or delete is still there, nobody else's.
RowsHeld ==
    /\ \A t, o \in Txns : t # o => txn[t].del \cap txn[o].del = {}
    /\ \A t \in Txns : txn[t].op \in {"update", "delete"} =>
         /\ \A x \in txn[t].add : x.id \in txn[t].del
         /\ \A i \in txn[t].del : \E x \in reviews : x.id = i

\* The unique index: the key of an uncommitted new review is nobody else's.
KeysHeld ==
    \A t \in Txns : txn[t].op = "create" => \A y \in txn[t].add :
        /\ \A x \in reviews : ~SameKey(x, y)
        /\ \A o \in Txns \ {t} : \A x \in txn[o].add : ~SameKey(x, y)

\* One holder of a place row's lock at a time.
OneHolder ==
    \A t, o \in Txns :
        t # o /\ {txn[t].pc, txn[o].pc} \subseteq {"locked", "rated"} => txn[t].place # txn[o].place

\* A transaction that found no place row finds none later, except an inserted one.
UnratedPlaceGone ==
    \A t \in Txns : txn[t].pc = "unrated" /\ txn[t].place \in places => txn[t].place \in bypassed

\* What a transaction is about to store is the rating of what it will commit.
AggregateExact ==
    \A t \in Txns :
        txn[t].op \in ReviewOps /\ txn[t].pc = "rated" /\ txn[t].place \notin bypassed
            => txn[t].agg = RatingOf(ReviewsOf(View(t), txn[t].place))

RatingInv ==
    /\ TypeOK /\ Finite /\ IdsFresh /\ IdsNameKeys /\ TxnShape /\ OwnPlace /\ OpenedRow
    /\ RowsHeld /\ KeysHeld /\ OneHolder /\ UnratedPlaceGone /\ AggregateExact
    /\ NoOrphanReview /\ OneReviewPerUserAndPlace /\ RatingExactUnlessBypassed
=============================================================================
