-------------------------- MODULE ReviewRatingProofs --------------------------
(***************************************************************************)
(* RatingInv is an inductive invariant of ReviewRating, for any number of  *)
(* handlers, users, places and reviews.  Most actions change one           *)
(* transaction and no committed row: QuietStep treats those that leave it  *)
(* without writes, PcStep those that only move it on.  The others have a   *)
(* lemma each.  The last section orders the transactions by how far they   *)
(* are, and proves that no circle of them waits for each other.            *)
(***************************************************************************)
EXTENDS ReviewRating, FiniteSetTheorems, TLAPS

USE RatingsAssumption, NoneAssumption, MaxReviewsAssumption

(* Rounding yields an integer, whatever the sum. *)
LEMMA RoundTenthsType ==
    ASSUME NEW s \in Nat, NEW n \in Nat \ {0}
    PROVE  RoundTenths(s, n) \in Int
BY DEF RoundTenths

(* The sum over a finite set of rows is a natural number. *)
LEMMA SumRatingsType ==
    ASSUME NEW R, IsFiniteSet(R)
    PROVE  SumRatings(R) \in Nat
<1>1. ASSUME NEW k PROVE HowMany(R, k) \in Nat
  <2>1. IsFiniteSet({x \in R : x.rating = k})
    BY FS_Subset
  <2> QED BY <2>1, FS_CardinalityType DEF HowMany
<1> QED BY <1>1 DEF SumRatings

(* What update_place_rating stores for a finite set of rows is a rating. *)
LEMMA RatingOfType ==
    ASSUME NEW R, IsFiniteSet(R)
    PROVE  RatingOf(R) \in Rating
<1>1. CASE R = {}
  BY <1>1 DEF RatingOf, NoRating, Rating
<1>2. CASE R # {}
  <2>1. Cardinality(R) \in Nat \ {0}
    BY <1>2, FS_CardinalityType, FS_EmptySet
  <2>2. RoundTenths(SumRatings(R), Cardinality(R)) \in Int
    BY <2>1, SumRatingsType, RoundTenthsType
  <2> QED BY <1>2, <2>1, <2>2 DEF RatingOf, Rating
<1> QED BY <1>1, <1>2

(* The invariant holds when nobody has reviewed anything. *)
LEMMA InitInv == Init => RatingInv
<1> SUFFICES ASSUME Init PROVE RatingInv
  OBVIOUS
<1> USE DEF Init, NoTxn
<1>1. TypeOK
  BY DEF TypeOK, Rating, NoRating, Transaction, ReviewOps, Replies
<1>2. Finite
  BY FS_EmptySet DEF Finite
<1>3. KnownRows = {}
  BY DEF KnownRows
<1>4. IdsFresh /\ IdsNameKeys /\ TxnShape /\ OwnPlace /\ OpenedRow
  BY <1>3 DEF IdsFresh, IdsNameKeys, TxnShape, Shape, OwnPlace, OpenedRow, Idle
<1>5. RowsHeld /\ KeysHeld /\ OneHolder /\ UnratedPlaceGone /\ AggregateExact
  BY DEF RowsHeld, KeysHeld, OneHolder, UnratedPlaceGone, AggregateExact
<1>6. NoOrphanReview /\ OneReviewPerUserAndPlace
  BY DEF NoOrphanReview, OneReviewPerUserAndPlace
<1>7. RatingExactUnlessBypassed
  BY DEF RatingExactUnlessBypassed, ReviewsOf, RatingOf
<1> QED BY <1>1, <1>2, <1>4, <1>5, <1>6, <1>7 DEF RatingInv

(* Every row written is of type Review or Log, with a natural id. *)
LEMMA KnownRowsType ==
    ASSUME TypeOK
    PROVE  /\ \A x \in KnownRows : x.id \in Nat /\ x.user \in Users /\ x.place \in Places
           /\ \A t \in Txns : txn[t].add \subseteq Review /\ txn[t].del \subseteq Nat
           /\ nextId \in Nat
BY DEF TypeOK, KnownRows, Transaction, Review, Log

(* A step of t that commits nothing and leaves t without writes. *)
LEMMA QuietStep ==
    ASSUME RatingInv, NEW t \in Txns, NEW new \in Transaction, NEW answer \in Replies,
           UNCHANGED committed, nextId' \in Nat, nextId' >= nextId,
           txn' = [txn EXCEPT ![t] = new], reply' = [reply EXCEPT ![t] = answer],
           new.add = {}, new.del = {}, new.pc \in {"idle", "read"},
           new.pc = "idle" => new = NoTxn,
           new.pc # "idle" => new.op # "none" /\ new.place \in Places,
           new.op \in {"update", "delete"} =>
               /\ new.id < nextId
               /\ \A x \in KnownRows : x.id = new.id => x.place = new.place,
           new.op = "create" => new.user \in Users /\ new.rate \in 1..5
    PROVE  RatingInv'
<1> USE DEF RatingInv, committed, Idle
<1>1. /\ txn'[t] = new
      /\ \A o \in Txns \ {t} : txn'[o] = txn[o]
      /\ DOMAIN txn' = Txns
  BY DEF TypeOK
<1>2. TypeOK'
  BY DEF TypeOK
<1>3. KnownRows' \subseteq KnownRows
  BY <1>1 DEF KnownRows
<1>4. Finite'
  BY <1>1, FS_EmptySet DEF Finite
<1>5. IdsFresh'
  <2>1. \A x \in KnownRows : x.id \in Nat
    BY DEF TypeOK, KnownRows, Transaction, Review, Log
  <2>2. \A o \in Txns : \A i \in txn[o].del : i \in Nat
    BY DEF TypeOK, Transaction
  <2>3. nextId \in Nat
    BY DEF TypeOK
  <2> QED BY <1>1, <1>3, <2>1, <2>2, <2>3 DEF IdsFresh
<1>6. IdsNameKeys'
  BY <1>3 DEF IdsNameKeys, SameKey
<1>7. TxnShape'
  <2>1. ASSUME NEW o \in Txns \ {t} PROVE Shape(o)'
    BY <1>1 DEF TxnShape, Shape
  <2>2. Shape(t)'
    BY <1>1 DEF Shape, NoTxn
  <2> QED BY <2>1, <2>2 DEF TxnShape
<1>8. OwnPlace'
  BY <1>1, <1>3 DEF OwnPlace
<1>15. OpenedRow'
  <2>1. nextId \in Nat /\ \A o \in Txns : txn'[o].id \in Nat
    BY <1>2, KnownRowsType DEF TypeOK, Transaction
  <2> QED BY <1>1, <1>3, <2>1 DEF OpenedRow
<1>9. RowsHeld'
  BY <1>1 DEF RowsHeld
<1>10. KeysHeld'
  BY <1>1 DEF KeysHeld, SameKey
<1>11. OneHolder'
  <2> SUFFICES ASSUME NEW a \in Txns, NEW b \in Txns, a # b,
                      txn'[a].pc \in {"locked", "rated"}, txn'[b].pc \in {"locked", "rated"}
               PROVE  txn'[a].place # txn'[b].place
    BY DEF OneHolder
  <2> QED BY <1>1 DEF OneHolder
<1>12. UnratedPlaceGone'
  BY <1>1 DEF UnratedPlaceGone
<1>13. AggregateExact'
  BY <1>1 DEF AggregateExact, View
<1>14. (NoOrphanReview /\ OneReviewPerUserAndPlace /\ RatingExactUnlessBypassed)'
  BY DEF NoOrphanReview, OneReviewPerUserAndPlace, RatingExactUnlessBypassed, SameKey
<1> QED BY <1>2, <1>4, <1>5, <1>6, <1>7, <1>8, <1>9, <1>10, <1>11, <1>12, <1>13, <1>14, <1>15

(* A step of t that only takes or refuses the place lock, or computes the columns. *)
LEMMA PcStep ==
    ASSUME RatingInv, NEW t \in Txns, NEW new \in Transaction,
           UNCHANGED <<committed, nextId, reply>>,
           txn' = [txn EXCEPT ![t] = new], ~Idle(t),
           new.op = txn[t].op, new.user = txn[t].user, new.place = txn[t].place,
           new.rate = txn[t].rate, new.id = txn[t].id,
           new.add = txn[t].add, new.del = txn[t].del,
           new.pc \in {"locked", "rated", "unrated"},
           new.pc # "unrated" => \A o \in Txns \ {t} :
               txn[o].pc \in {"locked", "rated"} => txn[o].place # txn[t].place,
           new.pc = "unrated" => txn[t].place \notin places,
           new.pc = "rated" /\ txn[t].op \in ReviewOps
               => new.agg = RatingOf(ReviewsOf(View(t), txn[t].place))
    PROVE  RatingInv'
<1> USE DEF RatingInv, committed
<1>1. /\ txn'[t] = new
      /\ \A o \in Txns \ {t} : txn'[o] = txn[o]
      /\ DOMAIN txn' = Txns
  BY DEF TypeOK
<1>2. \A o \in Txns : /\ txn'[o].op = txn[o].op
                      /\ txn'[o].user = txn[o].user
                      /\ txn'[o].place = txn[o].place
                      /\ txn'[o].rate = txn[o].rate
                      /\ txn'[o].id = txn[o].id
                      /\ txn'[o].add = txn[o].add
                      /\ txn'[o].del = txn[o].del
  BY <1>1
<1>4. TypeOK'
  BY <1>1 DEF TypeOK
<1>5. KnownRows' = KnownRows
  BY <1>2 DEF KnownRows
<1>6. Finite'
  BY <1>2 DEF Finite
<1>7. IdsFresh' /\ IdsNameKeys'
  BY <1>2, <1>5 DEF IdsFresh, IdsNameKeys, SameKey
<1>8. TxnShape'
  <2>1. ASSUME NEW o \in Txns \ {t} PROVE Shape(o)'
    BY <1>1 DEF TxnShape, Shape, Idle
  <2>2. Shape(t)'
    BY <1>1, <1>2 DEF TxnShape, Shape, Idle
  <2> QED BY <2>1, <2>2 DEF TxnShape
<1>9. OwnPlace' /\ OpenedRow' /\ RowsHeld' /\ KeysHeld'
  BY <1>2, <1>5 DEF OwnPlace, OpenedRow, RowsHeld, KeysHeld, SameKey
<1>10. OneHolder'
  <2> SUFFICES ASSUME NEW a \in Txns, NEW b \in Txns, a # b,
                      txn'[a].pc \in {"locked", "rated"}, txn'[b].pc \in {"locked", "rated"}
               PROVE  txn'[a].place # txn'[b].place
    BY DEF OneHolder
  <2> QED BY <1>1, <1>2 DEF OneHolder
<1>11. UnratedPlaceGone'
  BY <1>1, <1>2 DEF UnratedPlaceGone
<1>12. AggregateExact'
  <2>1. \A o \in Txns : View(o)' = View(o)
    BY <1>2 DEF View
  <2> QED BY <1>1, <1>2, <2>1 DEF AggregateExact
<1>13. (NoOrphanReview /\ OneReviewPerUserAndPlace /\ RatingExactUnlessBypassed)'
  BY DEF NoOrphanReview, OneReviewPerUserAndPlace, RatingExactUnlessBypassed, SameKey
<1> QED BY <1>4, <1>6, <1>7, <1>8, <1>9, <1>10, <1>11, <1>12, <1>13

(* The steps in which t, having only read so far, writes rows and removes ids. *)
LEMMA WriteStep ==
    ASSUME RatingInv, NEW t \in Txns, NEW new \in Transaction,
           UNCHANGED <<committed, reply>>, nextId' \in Nat, nextId' >= nextId,
           txn[t].pc = "read",
           txn' = [txn EXCEPT ![t] = new],
           new.op = txn[t].op, new.user = txn[t].user, new.place = txn[t].place,
           new.rate = txn[t].rate, new.id = txn[t].id,
           new.pc = "wrote",
           IsFiniteSet(new.add),
           \A y, z \in new.add : y = z,
           \A y \in new.add :
               /\ y.id < nextId'
               /\ y.place = txn[t].place
               /\ txn[t].op = "create" => y.user = txn[t].user
               /\ \A x \in KnownRows \cup new.add : x.id = y.id => SameKey(x, y),
           \A y \in new.add, o \in Txns \ {t} : y.id \notin txn[o].del,
           \A y \in new.add, o \in Txns : txn[o].op \in {"update", "delete"} /\ y.id = txn[o].id
               => y.place = txn[o].place,
           \A i \in new.del : i < nextId' /\ \A o \in Txns \ {t} : i \notin txn[o].del,
           \A x \in KnownRows : x.id \in new.del => x.place = txn[t].place,
           txn[t].op \in {"drop", "edit", "delete"} => new.add = {},
           txn[t].op \in {"create", "edit"} => new.del = {},
           txn[t].op \in {"update", "delete"} =>
               /\ \A y \in new.add : y.id \in new.del
               /\ \A i \in new.del : \E x \in reviews : x.id = i,
           txn[t].op = "create" => \A y \in new.add :
               /\ \A x \in reviews : ~SameKey(x, y)
               /\ \A o \in Txns \ {t} : \A x \in txn[o].add : ~SameKey(x, y),
           \A o \in Txns \ {t} : txn[o].op = "create" =>
               \A z \in txn[o].add, y \in new.add : ~SameKey(y, z)
    PROVE  RatingInv'
<1> USE DEF RatingInv, committed
<1>1. /\ txn'[t] = new
      /\ \A o \in Txns \ {t} : txn'[o] = txn[o]
      /\ DOMAIN txn' = Txns
  BY DEF TypeOK
<1>2. txn[t].op # "none" /\ txn[t].place \in Places
  BY DEF TxnShape, Shape, Idle
<1>3. TypeOK'
  BY <1>1 DEF TypeOK
<1>4. KnownRows' \subseteq KnownRows \cup new.add
  BY <1>1, <1>2 DEF KnownRows
<1>5. Finite'
  BY <1>1, <1>2 DEF Finite
<1>6. IdsFresh'
  <2>1. ASSUME NEW x \in KnownRows' PROVE x.id < nextId'
    BY <1>4, KnownRowsType DEF IdsFresh
  <2>2. ASSUME NEW o \in Txns, NEW i \in txn'[o].del PROVE i < nextId'
    <3>1. CASE o = t
      BY <1>1, <3>1
    <3>2. CASE o # t
      BY <1>1, <3>2, KnownRowsType DEF IdsFresh
    <3> QED BY <3>1, <3>2
  <2> QED BY <2>1, <2>2 DEF IdsFresh
<1>7. IdsNameKeys'
  BY <1>4 DEF IdsNameKeys, SameKey
<1>8. TxnShape'
  <2>1. txn[t].op = "create" => txn[t].user \in Users /\ txn[t].rate \in 1..5
    BY DEF TxnShape, Shape
  <2>2. /\ new.pc # "idle" /\ new.pc # "read"
        /\ new.op # "none" /\ new.place \in Places
        /\ \A y, z \in new.add : y = z
        /\ new.op \in {"drop", "edit", "delete"} => new.add = {}
        /\ new.op \in {"create", "edit"} => new.del = {}
        /\ new.op = "create" => new.user \in Users /\ new.rate \in 1..5
    BY <1>2, <2>1
  <2>3. ASSUME NEW o \in Txns \ {t} PROVE Shape(o)'
    BY <1>1 DEF TxnShape, Shape, Idle
  <2>4. Shape(t)'
    BY <1>1, <2>2 DEF Shape, Idle
  <2> QED BY <2>3, <2>4 DEF TxnShape
<1>9. OwnPlace'
  <2>1. \A x \in new.add : x.id \in new.del => x.place = txn[t].place
    OBVIOUS
  <2> QED BY <1>1, <1>2, <1>4, <2>1 DEF OwnPlace
<1>15. OpenedRow'
  <2>1. nextId \in Nat /\ \A o \in Txns : txn[o].id \in Nat
    BY KnownRowsType DEF TypeOK, Transaction
  <2>2. \A o \in Txns : txn'[o].id = txn[o].id /\ txn'[o].op = txn[o].op /\ txn'[o].place = txn[o].place
    BY <1>1
  <2> QED BY <1>4, <2>1, <2>2 DEF OpenedRow
<1>10. RowsHeld'
  <2>1. \A a, o \in Txns : a # o => txn'[a].del \cap txn'[o].del = {}
    <3> SUFFICES ASSUME NEW a \in Txns, NEW o \in Txns, a # o, NEW i \in txn'[a].del
                 PROVE  i \notin txn'[o].del
      OBVIOUS
    <3>1. CASE a = t
      BY <1>1, <1>2, <3>1
    <3>2. CASE o = t
      BY <1>1, <1>2, <3>2
    <3>3. CASE a # t /\ o # t
      BY <1>1, <3>3 DEF RowsHeld
    <3> QED BY <3>1, <3>2, <3>3
  <2>2. ASSUME NEW a \in Txns, txn'[a].op \in {"update", "delete"}
        PROVE  /\ \A x \in txn'[a].add : x.id \in txn'[a].del
               /\ \A i \in txn'[a].del : \E x \in reviews : x.id = i
    <3>1. CASE a = t
      BY <1>1, <2>2, <3>1
    <3>2. CASE a # t
      BY <1>1, <2>2, <3>2 DEF RowsHeld
    <3> QED BY <3>1, <3>2
  <2> QED BY <2>1, <2>2 DEF RowsHeld
<1>11. KeysHeld'
  <2> SUFFICES ASSUME NEW a \in Txns, txn'[a].op = "create", NEW y \in txn'[a].add
               PROVE  /\ \A x \in reviews : ~SameKey(x, y)
                      /\ \A o \in Txns \ {a} : \A x \in txn'[o].add : ~SameKey(x, y)
    BY DEF KeysHeld, SameKey
  <2>1. CASE a = t
    BY <1>1, <1>2, <2>1
  <2>2. CASE a # t
    BY <1>1, <1>2, <2>2 DEF KeysHeld
  <2> QED BY <2>1, <2>2
<1>12. OneHolder' /\ UnratedPlaceGone'
  BY <1>1, <1>2 DEF OneHolder, UnratedPlaceGone
<1>13. AggregateExact'
  <2>1. \A o \in Txns \ {t} : View(o)' = View(o)
    BY <1>1 DEF View
  <2> QED BY <1>1, <1>2, <2>1 DEF AggregateExact
<1>14. (NoOrphanReview /\ OneReviewPerUserAndPlace /\ RatingExactUnlessBypassed)'
  BY DEF NoOrphanReview, OneReviewPerUserAndPlace, RatingExactUnlessBypassed, SameKey
<1> QED BY <1>3, <1>5, <1>6, <1>7, <1>8, <1>9, <1>10, <1>11, <1>12, <1>13, <1>14, <1>15

-----------------------------------------------------------------------------
(* One lemma per kind of action *)

(* Leaving without a commit, for whatever reason. *)
LEMMA LeaveStep ==
    ASSUME RatingInv, NEW t \in Txns, NEW answer \in Replies, Leave(t, answer),
           UNCHANGED committed, nextId' \in Nat, nextId' >= nextId
    PROVE  RatingInv'
<1>1. NoTxn \in Transaction
  BY DEF NoTxn, Transaction, ReviewOps, Rating, NoRating
<1>2. NoTxn.add = {} /\ NoTxn.del = {} /\ NoTxn.pc = "idle" /\ NoTxn.op = "none"
  BY DEF NoTxn
<1> HIDE DEF NoTxn
<1> QED BY <1>1, <1>2, QuietStep DEF Leave

(* Opening a transaction that has only read so far. *)
LEMMA BeginStep ==
    ASSUME RatingInv, NEW t \in Txns, NEW op \in ReviewOps \cup {"drop", "edit"},
           NEW u \in Users \cup {None}, NEW p \in Places, NEW i \in Nat, NEW r \in 0..5,
           NEW g \in Rating, op = "create" => u \in Users /\ r \in 1..5,
           op \in {"update", "delete"} =>
               i < nextId /\ \A x \in KnownRows : x.id = i => x.place = p,
           Begin(t, Opened(op, u, p, i, r, g)), UNCHANGED <<committed, nextId>>
    PROVE  RatingInv'
<1> DEFINE new == Opened(op, u, p, i, r, g)
<1>1. new \in Transaction
  BY DEF Opened, Transaction, ReviewOps
<1>2. new.add = {} /\ new.del = {} /\ new.pc = "read" /\ new.op = op /\ new.place = p
      /\ new.user = u /\ new.rate = r /\ new.id = i
  BY DEF Opened
<1>3. nextId \in Nat /\ op # "none" /\ "none" \in Replies
  BY DEF RatingInv, TypeOK, ReviewOps, Replies
<1> HIDE DEF new
<1>4. txn' = [txn EXCEPT ![t] = new] /\ reply' = [reply EXCEPT ![t] = "none"]
  BY DEF Begin, new
<1>5. UNCHANGED committed /\ nextId' \in Nat /\ nextId' >= nextId
  BY <1>3
<1>6. /\ new.pc \in {"idle", "read"} /\ new.pc # "idle"
      /\ new.op # "none" /\ new.place \in Places
      /\ new.op = "create" => new.user \in Users /\ new.rate \in 1..5
      /\ new.op \in {"update", "delete"} =>
             new.id < nextId /\ \A x \in KnownRows : x.id = new.id => x.place = new.place
  BY <1>2, <1>3
<1> QED BY <1>1, <1>2, <1>3, <1>4, <1>5, <1>6, QuietStep

(* Every reading step of a request. *)
LEMMA RequestInv ==
    ASSUME RatingInv, NEW t \in Txns, Request(t)
    PROVE  RatingInv'
<1>1. /\ nextId \in Nat /\ nextId >= nextId
      /\ "refused" \in Replies /\ NoRating \in Rating
  BY DEF RatingInv, TypeOK, Replies, NoRating, Rating
<1>2. ASSUME NEW u \in Users, NEW p \in Places, NEW r \in Ratings, CreateReview(t, u, p, r)
      PROVE  RatingInv'
  <2>1. CASE Leave(t, "refused")
    <3>1. UNCHANGED <<committed, nextId>>
      BY <1>2 DEF CreateReview
    <3> QED BY <1>1, <2>1, <3>1, LeaveStep
  <2>2. CASE Begin(t, Opened("create", u, p, 0, r, NoRating))
    <3>1. r \in 0..5 /\ r \in 1..5 /\ "create" \in ReviewOps
      BY DEF ReviewOps
    <3>2. UNCHANGED <<committed, nextId>>
      BY <1>2 DEF CreateReview
    <3> QED BY <1>1, <2>2, <3>1, <3>2, BeginStep
  <2> QED BY <1>2, <2>1, <2>2 DEF CreateReview
<1>3. ASSUME NEW op \in {"update", "delete"}, NEW u \in Users \cup {None},
             NEW i \in 1..MaxReviews, NEW r \in 0..5, OpenReview(t, op, u, i, r)
      PROVE  RatingInv'
  <2>1. CASE Leave(t, "refused")
    BY <1>1, <1>3, <2>1, LeaveStep DEF OpenReview
  <2>2. ASSUME NEW x \in reviews, x.id = i, Begin(t, Opened(op, u, x.place, i, r, NoRating))
        PROVE  RatingInv'
    <3>1. x.place \in Places
      BY DEF RatingInv, TypeOK, Review
    <3>2. op \in ReviewOps \cup {"drop", "edit"} /\ op # "create" /\ i \in Nat
      BY DEF ReviewOps
    <3>3. x \in KnownRows
      BY DEF KnownRows
    <3>4. i < nextId /\ \A z \in KnownRows : z.id = i => z.place = x.place
      BY <2>2, <3>3 DEF RatingInv, IdsFresh, IdsNameKeys, SameKey
    <3>5. UNCHANGED <<committed, nextId>>
      BY <1>3 DEF OpenReview
    <3> QED BY <1>1, <2>2, <3>1, <3>2, <3>4, <3>5, BeginStep
  <2> QED BY <1>3, <2>1, <2>2 DEF OpenReview
<1>4. ASSUME NEW p \in Places, DropPlace(t, p)
      PROVE  RatingInv'
  <2>1. CASE Leave(t, "refused")
    BY <1>1, <1>4, <2>1, LeaveStep DEF DropPlace
  <2>2. CASE Begin(t, Opened("drop", None, p, 0, 0, NoRating))
    <3>1. UNCHANGED <<committed, nextId>>
      BY <1>4 DEF DropPlace
    <3>2. 0 \in Nat /\ 0 \in 0..5 /\ "drop" \notin {"create", "update", "delete"}
      OBVIOUS
    <3> QED BY <1>1, <2>2, <3>1, <3>2, BeginStep
  <2> QED BY <1>4, <2>1, <2>2 DEF DropPlace
<1>5. Ratings \cup {0} \subseteq 0..5
  OBVIOUS
<1> QED BY <1>2, <1>3, <1>4, <1>5 DEF Request, UpdateReview, DeleteReview, AdminDeleteReview

(* admin_update_place reads the row. *)
LEMMA EditPlaceInv ==
    ASSUME RatingInv, NEW t \in Txns, NEW p \in Places, EditPlace(t, p)
    PROVE  RatingInv'
<1>1. /\ nextId \in Nat /\ nextId >= nextId /\ "refused" \in Replies
      /\ rating[p] \in Rating
  BY DEF RatingInv, TypeOK, Replies
<1>2. CASE Leave(t, "refused")
  BY <1>1, <1>2, LeaveStep DEF EditPlace
<1>3. CASE Begin(t, Opened("edit", None, p, 0, 0, rating[p]))
  <2>1. UNCHANGED <<committed, nextId>>
    BY DEF EditPlace
  <2>2. 0 \in Nat /\ 0 \in 0..5 /\ "edit" \notin {"create", "update", "delete"}
    OBVIOUS
  <2> QED BY <1>1, <1>3, <2>1, <2>2, BeginStep
<1> QED BY <1>2, <1>3 DEF EditPlace

-----------------------------------------------------------------------------
(* Steps that write rows without committing them *)

(* Review.objects.create: the key is free, and the id is new. *)
LEMMA InsertReviewInv ==
    ASSUME RatingInv, NEW t \in Txns, InsertReview(t)
    PROVE  RatingInv'
<1> DEFINE y == NewReview(t)
           new == [txn[t] EXCEPT !.pc = "wrote", !.add = {y}]
<1>1. /\ nextId \in Nat /\ nextId' = nextId + 1 /\ UNCHANGED committed
      /\ txn[t].op = "create" /\ txn[t].pc = "read" /\ "failed" \in Replies
      /\ txn[t] \in Transaction
  BY DEF RatingInv, TypeOK, InsertReview, At, Replies
<1>2. CASE Leave(t, "failed")
  BY <1>1, <1>2, LeaveStep
<1>3. CASE ~KeyPending(t) /\ ~KeyTaken(t) /\ Step(t, new)
  <2>1. /\ txn[t].user \in Users /\ txn[t].place \in Places /\ txn[t].rate \in 1..5
        /\ txn[t].add = {} /\ txn[t].del = {}
    BY <1>1 DEF RatingInv, TxnShape, Shape, Idle
  <2>2. /\ y \in Review /\ y.id = nextId
        /\ y.user = txn[t].user /\ y.place = txn[t].place
    BY <1>1, <2>1 DEF NewReview, Review
  <2> HIDE DEF y
  <2>3. /\ new \in Transaction /\ new.op = txn[t].op /\ new.user = txn[t].user
        /\ new.place = txn[t].place /\ new.rate = txn[t].rate /\ new.id = txn[t].id
        /\ new.pc = "wrote" /\ new.add = {y} /\ new.del = {}
    BY <1>1, <2>1, <2>2 DEF Transaction
  <2>4. txn' = [txn EXCEPT ![t] = new] /\ UNCHANGED reply
    BY <1>3 DEF Step
  <2> HIDE DEF new
  <2>5. IsFiniteSet(new.add) /\ \A a, b \in new.add : a = b
    BY <2>3, FS_Singleton
  <2>6. \A x \in KnownRows : x.id # y.id
    BY <1>1, <2>2, KnownRowsType DEF RatingInv, IdsFresh
  <2>7. \A z \in new.add :
            /\ z.id < nextId'
            /\ z.place = txn[t].place
            /\ txn[t].op = "create" => z.user = txn[t].user
            /\ \A x \in KnownRows \cup new.add : x.id = z.id => SameKey(x, z)
    BY <2>3, <1>1, <2>2, <2>6 DEF SameKey
  <2>8. \A z \in new.add, o \in Txns \ {t} : z.id \notin txn[o].del
    BY <2>3, <1>1, <2>2, KnownRowsType DEF RatingInv, IdsFresh
  <2>9. \A z \in new.add, o \in Txns : txn[o].op \in {"update", "delete"} /\ z.id = txn[o].id
            => z.place = txn[o].place
    BY <2>3, <1>1, <2>2 DEF RatingInv, OpenedRow
  <2>10. \A z \in new.add :
             /\ \A x \in reviews : ~SameKey(x, z)
             /\ \A o \in Txns \ {t} : \A x \in txn[o].add : ~SameKey(x, z)
    BY <2>3, <1>3, <2>2 DEF KeyTaken, KeyPending, SameKey
  <2>11. \A o \in Txns \ {t} : txn[o].op = "create" =>
             \A x \in txn[o].add, z \in new.add : ~SameKey(z, x)
    BY <2>3, <2>10 DEF SameKey
  <2>12. nextId' \in Nat /\ nextId' >= nextId
    BY <1>1
  <2> HIDE DEF SameKey
  <2> QED BY <1>1, <2>3, <2>4, <2>5, <2>7, <2>8, <2>9, <2>10, <2>11, <2>12, WriteStep
<1> QED BY <1>2, <1>3 DEF InsertReview

(* review.save: the row is there, unlocked, and keeps its key. *)
LEMMA SaveReviewInv ==
    ASSUME RatingInv, NEW t \in Txns, SaveReview(t)
    PROVE  RatingInv'
<1>1. /\ nextId \in Nat /\ nextId' = nextId /\ UNCHANGED committed
      /\ txn[t].op = "update" /\ txn[t].pc = "read" /\ "failed" \in Replies
      /\ txn[t] \in Transaction /\ txn[t].add = {} /\ txn[t].del = {}
  BY DEF RatingInv, TypeOK, SaveReview, At, Replies, TxnShape, Shape
<1>2. CASE Leave(t, "failed")
  BY <1>1, <1>2, LeaveStep
<1>3. ASSUME NEW x \in reviews, x.id = txn[t].id,
             Step(t, [txn[t] EXCEPT
                        !.pc = "wrote", !.del = {x.id},
                        !.add = {IF txn[t].rate = 0 THEN x ELSE [x EXCEPT !.rating = txn[t].rate]}])
      PROVE  RatingInv'
  <2> DEFINE y == IF txn[t].rate = 0 THEN x ELSE [x EXCEPT !.rating = txn[t].rate]
             new == [txn[t] EXCEPT !.pc = "wrote", !.del = {x.id}, !.add = {y}]
  <2>1. x \in Review /\ txn[t].rate \in 0..5
    BY <1>1 DEF RatingInv, TypeOK, Transaction
  <2>2. y \in Review /\ y.id = x.id /\ y.user = x.user /\ y.place = x.place
    BY <2>1 DEF Review
  <2> HIDE DEF y
  <2>3. /\ new \in Transaction /\ new.op = txn[t].op /\ new.user = txn[t].user
        /\ new.place = txn[t].place /\ new.rate = txn[t].rate /\ new.id = txn[t].id
        /\ new.pc = "wrote" /\ new.add = {y} /\ new.del = {x.id}
    BY <1>1, <2>1, <2>2 DEF Transaction, Review
  <2>4. txn' = [txn EXCEPT ![t] = new] /\ UNCHANGED reply
    BY <1>3 DEF Step, y
  <2> HIDE DEF new
  <2>5. IsFiniteSet(new.add) /\ \A a, b \in new.add : a = b
    BY <2>3, FS_Singleton
  <2>6. /\ x \in KnownRows /\ x.id < nextId /\ x.place = txn[t].place
        /\ \A z \in KnownRows : z.id = x.id => z.user = x.user /\ z.place = x.place
    BY <1>1, <1>3 DEF RatingInv, OpenedRow, KnownRows, IdsFresh, IdsNameKeys, SameKey
  <2>7. \A z \in new.add :
            /\ z.id < nextId'
            /\ z.place = txn[t].place
            /\ txn[t].op = "create" => z.user = txn[t].user
            /\ \A r \in KnownRows \cup new.add : r.id = z.id => SameKey(r, z)
    BY <2>3, <1>1, <2>2, <2>6 DEF SameKey
  <2>8. \A o \in Txns \ {t} : x.id \notin txn[o].del
    BY <1>3 DEF SaveReview, RowLocked
  <2>9. /\ \A z \in new.add, o \in Txns \ {t} : z.id \notin txn[o].del
        /\ \A i \in new.del : i < nextId' /\ \A o \in Txns \ {t} : i \notin txn[o].del
    BY <2>3, <1>1, <2>2, <2>6, <2>8
  <2>10. \A z \in new.add, o \in Txns : txn[o].op \in {"update", "delete"} /\ z.id = txn[o].id
             => z.place = txn[o].place
    BY <2>3, <2>2, <2>6 DEF RatingInv, OpenedRow
  <2>11. \A r \in KnownRows : r.id \in new.del => r.place = txn[t].place
    BY <2>3, <2>6
  <2>12. /\ \A z \in new.add : z.id \in new.del
         /\ \A i \in new.del : \E r \in reviews : r.id = i
    BY <2>3, <2>2
  <2>13. \A o \in Txns \ {t} : txn[o].op = "create" =>
             \A r \in txn[o].add, z \in new.add : ~SameKey(z, r)
    BY <2>3, <2>2 DEF RatingInv, KeysHeld, SameKey
  <2>14. nextId' \in Nat /\ nextId' >= nextId
    BY <1>1
  <2>15. /\ txn[t].op \in {"drop", "edit", "delete"} => new.add = {}
         /\ txn[t].op \in {"create", "edit"} => new.del = {}
         /\ txn[t].op \in {"update", "delete"} =>
                /\ \A z \in new.add : z.id \in new.del
                /\ \A i \in new.del : \E r \in reviews : r.id = i
         /\ txn[t].op = "create" => \A z \in new.add :
                /\ \A r \in reviews : ~SameKey(r, z)
                /\ \A o \in Txns \ {t} : \A r \in txn[o].add : ~SameKey(r, z)
    BY <1>1, <2>12
  <2>16. UNCHANGED <<committed, reply>> /\ txn[t].pc = "read"
    BY <1>1, <2>4
  <2> HIDE DEF SameKey
  <2> QED BY <2>3, <2>4, <2>5, <2>7, <2>9, <2>10, <2>11, <2>13, <2>14, <2>15, <2>16, WriteStep, ZenonT(180)
<1> QED BY <1>2, <1>3, Zenon DEF SaveReview

(* review.delete(): the id of a row that is there, or none. *)
LEMMA DeleteRowInv ==
    ASSUME RatingInv, NEW t \in Txns, DeleteRow(t)
    PROVE  RatingInv'
<1> DEFINE D == {x.id : x \in {z \in reviews : z.id = txn[t].id}}
           new == [txn[t] EXCEPT !.pc = "wrote", !.del = D]
<1>1. /\ nextId \in Nat /\ nextId' = nextId /\ UNCHANGED committed
      /\ txn[t].op = "delete" /\ txn[t].pc = "read"
      /\ txn[t] \in Transaction /\ txn[t].add = {} /\ txn[t].del = {}
      /\ Step(t, new)
  BY DEF RatingInv, TypeOK, DeleteRow, At, TxnShape, Shape
<1>2. \A i \in D : i = txn[t].id /\ \E x \in reviews : x.id = i
  OBVIOUS
<1>3. D \in SUBSET Nat
  BY DEF RatingInv, TypeOK, Review
<1> HIDE DEF D
<1>4. /\ new \in Transaction /\ new.op = txn[t].op /\ new.user = txn[t].user
      /\ new.place = txn[t].place /\ new.rate = txn[t].rate /\ new.id = txn[t].id
      /\ new.pc = "wrote" /\ new.add = {} /\ new.del = D
  BY <1>1, <1>3 DEF Transaction
<1>5. txn' = [txn EXCEPT ![t] = new] /\ UNCHANGED reply
  BY <1>1 DEF Step
<1> HIDE DEF new
<1>6. \A i \in D : i < nextId' /\ \A o \in Txns \ {t} : i \notin txn[o].del
  BY <1>1, <1>2 DEF DeleteRow, RowLocked, RatingInv, OpenedRow
<1>7. \A x \in KnownRows : x.id \in D => x.place = txn[t].place
  BY <1>1, <1>2 DEF RatingInv, OpenedRow
<1>8. IsFiniteSet(new.add) /\ nextId' \in Nat /\ nextId' >= nextId
  BY <1>1, <1>4, FS_EmptySet
<1> QED BY <1>1, <1>2, <1>3, <1>4, <1>5, <1>6, <1>7, <1>8, WriteStep

(* The cascade of Place.delete(): the rows of one place, none of them locked. *)
LEMMA CascadeRowsInv ==
    ASSUME RatingInv, NEW t \in Txns, CascadeRows(t)
    PROVE  RatingInv'
<1> DEFINE D == IdsOfPlace(txn[t].place)
           new == [txn[t] EXCEPT !.pc = "wrote", !.del = D]
<1>1. /\ nextId \in Nat /\ nextId' = nextId /\ UNCHANGED committed
      /\ txn[t].op = "drop" /\ txn[t].pc = "read"
      /\ txn[t] \in Transaction /\ txn[t].add = {} /\ txn[t].del = {}
      /\ Step(t, new)
  BY DEF RatingInv, TypeOK, CascadeRows, At, TxnShape, Shape
<1>2. \A i \in D : \E x \in KnownRows : x.id = i /\ x.place = txn[t].place
  BY DEF IdsOfPlace, ReviewsOf, KnownRows
<1>3. D \in SUBSET Nat
  BY <1>2, KnownRowsType DEF RatingInv
<1>4. \A i \in D, o \in Txns \ {t} : i \notin txn[o].del
  BY DEF CascadeRows, RowLocked
<1> HIDE DEF D
<1>5. /\ new \in Transaction /\ new.op = txn[t].op /\ new.user = txn[t].user
      /\ new.place = txn[t].place /\ new.rate = txn[t].rate /\ new.id = txn[t].id
      /\ new.pc = "wrote" /\ new.add = {} /\ new.del = D
  BY <1>1, <1>3 DEF Transaction
<1>6. txn' = [txn EXCEPT ![t] = new] /\ UNCHANGED reply
  BY <1>1 DEF Step
<1> HIDE DEF new
<1>7. \A i \in new.del : i < nextId' /\ \A o \in Txns \ {t} : i \notin txn[o].del
  BY <1>1, <1>2, <1>4, <1>5 DEF RatingInv, IdsFresh
<1>8. \A x \in KnownRows : x.id \in new.del => x.place = txn[t].place
  BY <1>2, <1>5 DEF RatingInv, IdsNameKeys, SameKey
<1>9. IsFiniteSet(new.add) /\ nextId' \in Nat /\ nextId' >= nextId
  BY <1>1, <1>5, FS_EmptySet
<1> QED BY <1>1, <1>3, <1>5, <1>6, <1>7, <1>8, <1>9, WriteStep

-----------------------------------------------------------------------------
(* The place row *)

(* Moving on with the same writes, and the same or new rating columns. *)
LEMMA NewPc ==
    ASSUME RatingInv, NEW t \in Txns, ~Idle(t), NEW pc \in {"locked", "rated", "unrated"},
           Step(t, [txn[t] EXCEPT !.pc = pc]), UNCHANGED <<committed, nextId>>,
           pc # "unrated" => \A o \in Txns \ {t} :
               txn[o].pc \in {"locked", "rated"} => txn[o].place # txn[t].place,
           pc = "unrated" => txn[t].place \notin places,
           pc = "rated" => txn[t].op \notin ReviewOps
    PROVE  RatingInv'
<1> DEFINE new == [txn[t] EXCEPT !.pc = pc]
<1>1. txn[t] \in Transaction
  BY DEF RatingInv, TypeOK
<1>2. /\ new \in Transaction /\ new.op = txn[t].op /\ new.user = txn[t].user
      /\ new.place = txn[t].place /\ new.rate = txn[t].rate /\ new.id = txn[t].id
      /\ new.pc = pc /\ new.add = txn[t].add /\ new.del = txn[t].del
  BY <1>1 DEF Transaction
<1>3. txn' = [txn EXCEPT ![t] = new] /\ UNCHANGED <<committed, nextId, reply>>
  BY DEF Step
<1> HIDE DEF new
<1> QED BY <1>2, <1>3, PcStep

(* A free lock: no other transaction holds the place row. *)
LEMMA FreeLock ==
    ASSUME NEW t \in Txns, Holders(txn[t].place) = {}
    PROVE  \A o \in Txns \ {t} :
               txn[o].pc \in {"locked", "rated"} => txn[o].place # txn[t].place
BY DEF Holders

(* select_for_update of a place that is there, or the early return. *)
LEMMA LockPlaceInv ==
    ASSUME RatingInv, NEW t \in Txns, LockPlace(t) \/ DropRow(t)
    PROVE  RatingInv'
<1>1. ~Idle(t) /\ UNCHANGED <<committed, nextId>>
  BY DEF LockPlace, DropRow, At, Idle
<1>2. CASE Holders(txn[t].place) = {} /\ Step(t, [txn[t] EXCEPT !.pc = "locked"])
  BY <1>1, <1>2, FreeLock, NewPc
<1>3. CASE txn[t].place \notin places /\ Step(t, [txn[t] EXCEPT !.pc = "unrated"])
  BY <1>1, <1>3, NewPc
<1> QED BY <1>2, <1>3 DEF LockPlace, DropRow

(* The UPDATE of admin_update_place, which takes the lock of the place row. *)
LEMMA SaveEditInv ==
    ASSUME RatingInv, NEW t \in Txns, SaveEdit(t)
    PROVE  RatingInv'
<1>1. /\ ~Idle(t) /\ txn[t].op \notin ReviewOps /\ UNCHANGED <<committed, nextId>>
      /\ Holders(txn[t].place) = {} /\ Step(t, [txn[t] EXCEPT !.pc = "rated"])
  BY DEF SaveEdit, At, Idle, ReviewOps
<1> QED BY <1>1, FreeLock, NewPc

(* What a transaction sees is finite. *)
LEMMA ViewFinite ==
    ASSUME RatingInv, NEW t \in Txns
    PROVE  IsFiniteSet(View(t))
<1>1. IsFiniteSet({r \in reviews : r.id \notin txn[t].del})
  BY FS_Subset DEF RatingInv, Finite
<1> QED BY <1>1, FS_Union DEF RatingInv, Finite, View

(* update_place_rating, with the place row locked. *)
LEMMA RecomputeRatingInv ==
    ASSUME RatingInv, NEW t \in Txns, RecomputeRating(t)
    PROVE  RatingInv'
<1> DEFINE g == RatingOf(ReviewsOf(View(t), txn[t].place))
           new == [txn[t] EXCEPT !.pc = "rated", !.agg = g]
<1>1. /\ txn[t] \in Transaction /\ txn[t].pc = "locked" /\ ~Idle(t)
      /\ txn' = [txn EXCEPT ![t] = new] /\ UNCHANGED <<committed, nextId, reply>>
  BY DEF RatingInv, TypeOK, RecomputeRating, Step, Idle
<1>2. g \in Rating
  <2>1. IsFiniteSet(ReviewsOf(View(t), txn[t].place))
    BY ViewFinite, FS_Subset DEF ReviewsOf
  <2> QED BY <2>1, RatingOfType
<1> HIDE DEF g
<1>3. /\ new \in Transaction /\ new.op = txn[t].op /\ new.user = txn[t].user
      /\ new.place = txn[t].place /\ new.rate = txn[t].rate /\ new.id = txn[t].id
      /\ new.pc = "rated" /\ new.add = txn[t].add /\ new.del = txn[t].del /\ new.agg = g
  BY <1>1, <1>2 DEF Transaction
<1> HIDE DEF new
<1>4. \A o \in Txns \ {t} :
          txn[o].pc \in {"locked", "rated"} => txn[o].place # txn[t].place
  BY <1>1 DEF RatingInv, OneHolder
<1> QED BY <1>1, <1>3, <1>4, PcStep DEF g

-----------------------------------------------------------------------------
(* Commits.  The transactions in Ended are over; the others stand where they *)
(* stood.  The first lemma is about rows and locks, the second about the     *)
(* rating columns.                                                           *)

(* What a commit does to the rows leaves the other transactions' locks alone. *)
LEMMA RowsStep ==
    ASSUME RatingInv, NEW Ended \in SUBSET Txns,
           \A o \in Ended : txn'[o] = NoTxn,
           \A o \in Txns \ Ended : txn'[o] = txn[o],
           nextId' = nextId, IsFiniteSet(reviews'),
           \A x \in reviews' : x \in reviews \/ \E e \in Ended : x \in txn[e].add,
           \A x \in reviews \ reviews', o \in Txns \ Ended : x.id \notin txn[o].del,
           \A l \in actionLogs' : \E x \in KnownRows : x.id = l.id /\ SameKey(x, l)
    PROVE  /\ Finite' /\ IdsFresh' /\ IdsNameKeys' /\ TxnShape' /\ OwnPlace'
           /\ OpenedRow' /\ RowsHeld' /\ KeysHeld' /\ OneHolder'
<1> USE DEF RatingInv
<1>1. /\ NoTxn.add = {} /\ NoTxn.del = {} /\ NoTxn.op = "none" /\ NoTxn.pc = "idle"
  BY DEF NoTxn
<1>2. \A o \in Txns : (txn'[o].add = {} /\ txn'[o].del = {}) \/ o \notin Ended
  BY <1>1
<1>3. \A x \in KnownRows' : \E z \in KnownRows : z.id = x.id /\ SameKey(z, x)
  <2>1. ASSUME NEW x \in reviews' PROVE x \in KnownRows
    BY <2>1 DEF KnownRows
  <2>2. ASSUME NEW o \in Txns, NEW x \in txn'[o].add PROVE x \in KnownRows
    BY <1>2, <2>2 DEF KnownRows
  <2> QED BY <2>1, <2>2 DEF KnownRows, SameKey
<1>4. Finite'
  BY <1>2, FS_EmptySet DEF Finite
<1>5. IdsFresh'
  BY <1>2, <1>3 DEF IdsFresh
<1>6. IdsNameKeys'
  BY <1>3 DEF IdsNameKeys, SameKey
<1>7. TxnShape'
  <2>1. ASSUME NEW o \in Txns \ Ended PROVE Shape(o)'
    BY DEF TxnShape, Shape, Idle
  <2>2. ASSUME NEW o \in Ended PROVE Shape(o)'
    BY <1>1 DEF Shape, Idle
  <2> QED BY <2>1, <2>2 DEF TxnShape
<1>8. OwnPlace'
  BY <1>1, <1>2, <1>3 DEF OwnPlace, SameKey
<1>9. OpenedRow'
  BY <1>1, <1>3 DEF OpenedRow, SameKey
<1>10. RowsHeld'
  BY <1>1, <1>2 DEF RowsHeld
<1>11. KeysHeld'
  <2> SUFFICES ASSUME NEW a \in Txns \ Ended, txn[a].op = "create", NEW y \in txn[a].add
               PROVE  /\ \A x \in reviews' : ~SameKey(x, y)
                      /\ \A o \in Txns \ {a} : \A x \in txn'[o].add : ~SameKey(x, y)
    BY <1>1 DEF KeysHeld, SameKey
  <2>1. \A x \in reviews' : ~SameKey(x, y)
    BY DEF KeysHeld
  <2>2. \A o \in Txns \ {a} : \A x \in txn'[o].add : ~SameKey(x, y)
    BY <1>2 DEF KeysHeld
  <2> QED BY <2>1, <2>2
<1>12. OneHolder'
  <2> SUFFICES ASSUME NEW a \in Txns, NEW b \in Txns, a # b,
                      txn'[a].pc \in {"locked", "rated"}, txn'[b].pc \in {"locked", "rated"}
               PROVE  txn'[a].place # txn'[b].place
    BY DEF OneHolder
  <2> QED BY <1>1 DEF OneHolder
<1> QED BY <1>4, <1>5, <1>6, <1>7, <1>8, <1>9, <1>10, <1>11, <1>12

(* The copy stays exact where the commit stores the rating of what it commits. *)
LEMMA RatingStep ==
    ASSUME RatingInv, NEW Ended \in SUBSET Txns,
           \A o \in Ended : txn'[o] = NoTxn,
           \A o \in Txns \ Ended : txn'[o] = txn[o],
           bypassed \subseteq bypassed',
           \A q \in Places \ bypassed' :
               \/ /\ rating'[q] = rating[q]
                  /\ ReviewsOf(reviews', q) = ReviewsOf(reviews, q)
               \/ /\ rating'[q] = RatingOf(ReviewsOf(reviews', q))
                  /\ \A o \in Txns \ Ended : txn[o].pc = "rated" => txn[o].place # q
    PROVE  RatingExactUnlessBypassed' /\ AggregateExact'
<1> USE DEF RatingInv
<1>1. RatingExactUnlessBypassed'
  <2> SUFFICES ASSUME NEW q \in Places \ bypassed'
               PROVE  rating'[q] = RatingOf(ReviewsOf(reviews', q))
    BY DEF RatingExactUnlessBypassed, RatingOf, RoundTenths, SumRatings, HowMany, ReviewsOf, NoRating
  <2> QED BY DEF RatingExactUnlessBypassed
<1>2. AggregateExact'
  <2> SUFFICES ASSUME NEW o \in Txns \ Ended, txn[o].op \in ReviewOps, txn[o].pc = "rated",
                      txn[o].place \notin bypassed'
               PROVE  txn[o].agg = RatingOf(ReviewsOf(View(o)', txn[o].place))
    BY DEF AggregateExact, NoTxn, ReviewOps
  <2> DEFINE q == txn[o].place
  <2>1. q \in Places
    BY DEF TxnShape, Shape, Idle
  <2>2. ReviewsOf(reviews', q) = ReviewsOf(reviews, q)
    BY <2>1
  <2>3. ReviewsOf(View(o)', q) = ReviewsOf(View(o), q)
    BY <2>2 DEF ReviewsOf, View
  <2>4. txn[o].agg = RatingOf(ReviewsOf(View(o), q))
    BY DEF AggregateExact
  <2> QED BY <2>3, <2>4
<1> QED BY <1>1, <1>2

(* What a review transaction commits: rows of its place, authors and places that *)
(* exist, no second row for a key; nothing at all when the place has gone.       *)
LEMMA ReviewCommit ==
    ASSUME RatingInv, NEW t \in Txns, txn[t].op \in ReviewOps, KeysHold(t),
           txn[t].pc \in {"rated", "unrated"}
    PROVE  /\ \A x \in View(t) : x \in reviews \/ x \in txn[t].add
           /\ \A x \in reviews \ View(t) : x.id \in txn[t].del
           /\ View(t) \subseteq Review
           /\ \A x \in View(t) : x.place \in places /\ x.user \in users
           /\ \A x, y \in View(t) : SameKey(x, y) => x = y
           /\ \A q \in Places : q # txn[t].place => ReviewsOf(View(t), q) = ReviewsOf(reviews, q)
           /\ txn[t].place \notin places => View(t) = reviews
<1> USE DEF RatingInv
<1>1. /\ \A x \in View(t) : x \in reviews \/ x \in txn[t].add
      /\ \A x \in View(t) : x \in txn[t].add \/ x.id \notin txn[t].del
      /\ \A x \in reviews \ View(t) : x.id \in txn[t].del
  BY DEF View
<1>2. View(t) \subseteq Review
  BY <1>1, KnownRowsType DEF TypeOK
<1>3. \A x \in txn[t].add : x \in KnownRows
  BY DEF KnownRows
<1>4. \A x \in reviews : x \in KnownRows
  BY DEF KnownRows
<1>5. CASE txn[t].op = "create"
  <2>1. /\ txn[t].del = {} /\ txn[t].place \in places /\ txn[t].user \in users
        /\ \A x \in txn[t].add : x.place = txn[t].place /\ x.user = txn[t].user
    BY <1>5 DEF TxnShape, Shape, KeysHold, OwnPlace
  <2>2. \A x \in View(t) : x.place \in places /\ x.user \in users
    BY <1>1, <2>1 DEF NoOrphanReview
  <2>3. ASSUME NEW x \in View(t), NEW y \in View(t), SameKey(x, y) PROVE x = y
    <3>1. ~(x \in reviews /\ y \in txn[t].add) /\ ~(y \in reviews /\ x \in txn[t].add)
      BY <1>5, <2>3 DEF KeysHeld, SameKey
    <3>2. CASE x \in reviews /\ y \in reviews
      BY <2>3, <3>2 DEF OneReviewPerUserAndPlace
    <3>3. CASE x \in txn[t].add /\ y \in txn[t].add
      BY <3>3 DEF TxnShape, Shape
    <3> QED BY <1>1, <3>1, <3>2, <3>3
  <2>4. ASSUME NEW q \in Places, q # txn[t].place
        PROVE  ReviewsOf(View(t), q) = ReviewsOf(reviews, q)
    BY <2>1, <2>4 DEF View, ReviewsOf
  <2> QED BY <1>1, <1>2, <2>1, <2>2, <2>3, <2>4
<1>6. CASE txn[t].op \in {"update", "delete"}
  <2>1. /\ \A x \in txn[t].add : x.place = txn[t].place
        /\ \A x \in reviews : x.id \in txn[t].del => x.place = txn[t].place
    BY <1>4 DEF OwnPlace
  <2>2. ASSUME NEW y \in txn[t].add
        PROVE  \E z \in reviews : z.id = y.id /\ SameKey(z, y) /\ z.id \in txn[t].del
    BY <1>3, <1>4, <1>6 DEF RowsHeld, IdsNameKeys
  <2>3. \A x \in View(t) : x.place \in places /\ x.user \in users
    BY <1>1, <2>2 DEF NoOrphanReview, SameKey
  <2>4. ASSUME NEW x \in View(t), NEW y \in View(t), SameKey(x, y) PROVE x = y
    <3>1. ASSUME NEW a \in reviews, a.id \notin txn[t].del, NEW b \in txn[t].add
          PROVE  ~SameKey(a, b) /\ ~SameKey(b, a)
      <4>1. PICK z \in reviews : SameKey(z, b) /\ z.id \in txn[t].del
        BY <2>2
      <4>2. SameKey(a, b) \/ SameKey(b, a) => SameKey(a, z)
        BY <4>1 DEF SameKey
      <4> QED BY <3>1, <4>1, <4>2 DEF OneReviewPerUserAndPlace
    <3>2. CASE x \in reviews /\ y \in reviews
      BY <2>4, <3>2 DEF OneReviewPerUserAndPlace
    <3>3. CASE x \in txn[t].add /\ y \in txn[t].add
      BY <3>3 DEF TxnShape, Shape
    <3>4. CASE x \notin txn[t].add
      BY <1>1, <2>4, <3>1, <3>2, <3>4
    <3>5. CASE y \notin txn[t].add
      BY <1>1, <2>4, <3>1, <3>2, <3>5
    <3> QED BY <3>3, <3>4, <3>5
  <2>5. ASSUME NEW q \in Places, q # txn[t].place
        PROVE  ReviewsOf(View(t), q) = ReviewsOf(reviews, q)
    BY <2>1, <2>5 DEF View, ReviewsOf
  <2>6. ASSUME txn[t].place \notin places PROVE View(t) = reviews
    <3>1. \A x \in reviews : x.id \notin txn[t].del
      BY <2>1, <2>6 DEF NoOrphanReview
    <3>2. txn[t].add = {}
      BY <2>2, <3>1
    <3> QED BY <3>1, <3>2 DEF View
  <2> QED BY <1>1, <1>2, <2>3, <2>4, <2>5, <2>6
<1> QED BY <1>5, <1>6 DEF ReviewOps

(* COMMIT of create_review, update_review, delete_review, admin_delete_review. *)
LEMMA CommitReviewInv ==
    ASSUME RatingInv, NEW t \in Txns, CommitReview(t)
    PROVE  RatingInv'
<1> USE DEF RatingInv
<1>1. /\ txn[t].op \in ReviewOps /\ txn[t].pc \in {"rated", "unrated"} /\ nextId' = nextId
      /\ "ok" \in Replies /\ "failed" \in Replies /\ nextId \in Nat /\ txn[t].place \in Places
  BY DEF CommitReview, Replies, TypeOK, TxnShape, Shape, Idle
<1>2. CASE Leave(t, "failed") /\ UNCHANGED committed
  BY <1>1, <1>2, LeaveStep
<1>3. CASE /\ KeysHold(t)
           /\ reviews' = View(t)
           /\ rating' = IF txn[t].pc = "rated"
                        THEN [rating EXCEPT ![txn[t].place] = txn[t].agg] ELSE rating
           /\ actionLogs' = actionLogs \cup NewLogs(t)
           /\ Leave(t, "ok")
           /\ UNCHANGED <<places, users, bypassed>>
  <2> DEFINE p == txn[t].place
  <2>1. /\ txn'[t] = NoTxn /\ \A o \in Txns \ {t} : txn'[o] = txn[o]
        /\ reply' = [reply EXCEPT ![t] = "ok"]
    BY <1>3 DEF Leave, TypeOK
  <2>2. /\ \A x \in reviews' : x \in reviews \/ x \in txn[t].add
        /\ \A x \in reviews \ reviews' : x.id \in txn[t].del
        /\ reviews' \subseteq Review
        /\ \A x \in reviews' : x.place \in places /\ x.user \in users
        /\ \A x, y \in reviews' : SameKey(x, y) => x = y
        /\ \A q \in Places : q # p => ReviewsOf(reviews', q) = ReviewsOf(reviews, q)
        /\ p \notin places => reviews' = reviews
    BY <1>1, <1>3, ReviewCommit
  <2>3. \A l \in NewLogs(t) : l \in Log /\ \E x \in txn[t].add : x.id = l.id /\ SameKey(x, l)
    BY KnownRowsType DEF NewLogs, SameKey, Log, Review
  <2>4. TypeOK'
    <3>1. rating' \in [Places -> Rating]
      BY <1>1, <1>3 DEF TypeOK, Transaction
    <3>2. txn' \in [Txns -> Transaction]
      BY <1>3 DEF Leave, TypeOK, NoTxn, Transaction, ReviewOps, Rating, NoRating
    <3>3. actionLogs' \subseteq Log /\ reply' \in [Txns -> Replies]
      BY <1>1, <1>3, <2>1, <2>3 DEF TypeOK
    <3> QED BY <1>1, <1>3, <2>2, <3>1, <3>2, <3>3 DEF TypeOK
  <2> DEFINE Ended == {t}
  <2>9. /\ Ended \in SUBSET Txns
        /\ \A o \in Ended : txn'[o] = NoTxn
        /\ \A o \in Txns \ Ended : txn'[o] = txn[o] /\ o \in Txns \ {t}
        /\ \A x \in reviews' : x \in reviews \/ \E e \in Ended : x \in txn[e].add
    BY <2>1, <2>2
  <2> HIDE DEF Ended
  <2>5. /\ Finite' /\ IdsFresh' /\ IdsNameKeys' /\ TxnShape' /\ OwnPlace'
        /\ OpenedRow' /\ RowsHeld' /\ KeysHeld' /\ OneHolder'
    <3>1. IsFiniteSet(reviews')
      BY <1>3, ViewFinite
    <3>2. \A x \in reviews \ reviews', o \in Txns \ Ended : x.id \notin txn[o].del
      BY <2>2, <2>9 DEF RowsHeld
    <3>3. \A l \in actionLogs' : \E x \in KnownRows : x.id = l.id /\ SameKey(x, l)
      BY <1>3, <2>3 DEF KnownRows, SameKey
    <3> QED BY <1>1, <2>9, <3>1, <3>2, <3>3, RowsStep
  <2>6. UnratedPlaceGone'
    BY <1>3, <2>1 DEF UnratedPlaceGone, NoTxn
  <2>7. RatingExactUnlessBypassed' /\ AggregateExact'
    <3>1. ASSUME NEW q \in Places \ bypassed'
          PROVE  \/ /\ rating'[q] = rating[q]
                    /\ ReviewsOf(reviews', q) = ReviewsOf(reviews, q)
                 \/ /\ rating'[q] = RatingOf(ReviewsOf(reviews', q))
                    /\ \A o \in Txns \ Ended : txn[o].pc = "rated" => txn[o].place # q
      <4>1. CASE q # p
        BY <1>1, <1>3, <2>2, <4>1 DEF TypeOK
      <4>2. CASE q = p /\ txn[t].pc = "rated"
        <5>1. rating'[q] = txn[t].agg
          BY <1>1, <1>3, <4>2 DEF TypeOK
        <5>2. txn[t].agg = RatingOf(ReviewsOf(reviews', q))
          BY <1>1, <1>3, <3>1, <4>2 DEF AggregateExact
        <5>3. \A o \in Txns \ Ended : txn[o].pc = "rated" => txn[o].place # q
          BY <2>9, <4>2 DEF OneHolder
        <5> QED BY <5>1, <5>2, <5>3
      <4>3. CASE q = p /\ txn[t].pc = "unrated"
        <5>1. p \notin places
          BY <1>3, <3>1, <4>3 DEF UnratedPlaceGone
        <5> QED BY <1>3, <2>2, <4>3, <5>1
      <4> QED BY <1>1, <4>1, <4>2, <4>3
    <3>2. bypassed \subseteq bypassed'
      BY <1>3
    <3> QED BY <2>9, <3>1, <3>2, RatingStep
  <2>8. NoOrphanReview' /\ OneReviewPerUserAndPlace'
    BY <1>3, <2>2 DEF NoOrphanReview, OneReviewPerUserAndPlace, SameKey
  <2> QED BY <2>4, <2>5, <2>6, <2>7, <2>8
<1> QED BY <1>2, <1>3 DEF CommitReview

(* COMMIT of admin_delete_place, once its cascade has covered every row. *)
LEMMA CommitDropInv ==
    ASSUME RatingInv, NEW t \in Txns, CommitDrop(t)
    PROVE  RatingInv'
<1> USE DEF RatingInv
<1>1. /\ txn[t].op = "drop" /\ txn[t].add = {} /\ nextId' = nextId
      /\ "ok" \in Replies /\ "failed" \in Replies /\ nextId \in Nat /\ txn[t].place \in Places
      /\ UNCHANGED <<users, bypassed>>
  BY DEF CommitDrop, At, Replies, TypeOK, TxnShape, Shape, Idle
<1>2. CASE /\ Leave(t, "failed") \/ Leave(t, "ok")
           /\ UNCHANGED <<reviews, places, rating, actionLogs>>
  BY <1>1, <1>2, LeaveStep DEF committed
<1>3. CASE /\ txn[t].pc = "locked"
           /\ IdsOfPlace(txn[t].place) \subseteq txn[t].del
           /\ reviews' = View(t)
           /\ actionLogs' = {l \in actionLogs : l.id \notin txn[t].del}
           /\ places' = places \ {txn[t].place}
           /\ rating' = [rating EXCEPT ![txn[t].place] = NoRating]
           /\ Leave(t, "ok")
  <2> DEFINE p == txn[t].place
             Ended == {t}
  <2>1. /\ Ended \in SUBSET Txns
        /\ \A o \in Ended : txn'[o] = NoTxn
        /\ \A o \in Txns \ Ended : txn'[o] = txn[o] /\ o \in Txns \ {t}
        /\ reply' = [reply EXCEPT ![t] = "ok"]
    BY <1>3 DEF Leave, TypeOK
  <2>2. reviews' = {x \in reviews : x.id \notin txn[t].del}
    BY <1>1, <1>3 DEF View
  <2>3. \A x \in reviews : x.place = p => x.id \in txn[t].del
    BY <1>3 DEF IdsOfPlace, ReviewsOf
  <2>4. \A x \in reviews : x.id \in txn[t].del => x.place = p
    BY DEF OwnPlace, KnownRows
  <2>5. TypeOK'
    <3>1. rating' \in [Places -> Rating]
      BY <1>1, <1>3 DEF TypeOK, NoRating, Rating
    <3>2. txn' \in [Txns -> Transaction]
      BY <1>3 DEF Leave, TypeOK, NoTxn, Transaction, ReviewOps, Rating, NoRating
    <3>3. reply' \in [Txns -> Replies]
      BY <1>1, <2>1 DEF TypeOK
    <3> QED BY <1>1, <1>3, <2>2, <3>1, <3>2, <3>3 DEF TypeOK
  <2> HIDE DEF Ended
  <2>6. /\ Finite' /\ IdsFresh' /\ IdsNameKeys' /\ TxnShape' /\ OwnPlace'
        /\ OpenedRow' /\ RowsHeld' /\ KeysHeld' /\ OneHolder'
    <3>1. IsFiniteSet(reviews')
      BY <1>3, ViewFinite
    <3>2. \A x \in reviews' : x \in reviews \/ \E e \in Ended : x \in txn[e].add
      BY <2>2
    <3>3. \A x \in reviews \ reviews', o \in Txns \ Ended : x.id \notin txn[o].del
      BY <2>1, <2>2 DEF RowsHeld
    <3>4. \A l \in actionLogs' : \E x \in KnownRows : x.id = l.id /\ SameKey(x, l)
      BY <1>3 DEF KnownRows, SameKey
    <3> QED BY <1>1, <2>1, <3>1, <3>2, <3>3, <3>4, RowsStep
  <2>7. UnratedPlaceGone'
    BY <1>1, <1>3, <2>1 DEF UnratedPlaceGone, NoTxn
  <2>8. RatingExactUnlessBypassed' /\ AggregateExact'
    <3>1. ASSUME NEW q \in Places \ bypassed'
          PROVE  \/ /\ rating'[q] = rating[q]
                    /\ ReviewsOf(reviews', q) = ReviewsOf(reviews, q)
                 \/ /\ rating'[q] = RatingOf(ReviewsOf(reviews', q))
                    /\ \A o \in Txns \ Ended : txn[o].pc = "rated" => txn[o].place # q
      <4>1. CASE q # p
        BY <1>1, <1>3, <2>2, <2>4, <4>1 DEF TypeOK, ReviewsOf
      <4>2. CASE q = p
        <5>1. rating'[q] = NoRating
          BY <1>1, <1>3, <4>2 DEF TypeOK
        <5>2. ReviewsOf(reviews', q) = {}
          BY <2>2, <2>3, <4>2 DEF ReviewsOf
        <5>3. \A o \in Txns \ Ended : txn[o].pc = "rated" => txn[o].place # q
          BY <1>3, <2>1, <4>2 DEF OneHolder
        <5> QED BY <5>1, <5>2, <5>3 DEF RatingOf
      <4> QED BY <4>1, <4>2
    <3>2. bypassed \subseteq bypassed'
      BY <1>1
    <3> QED BY <2>1, <3>1, <3>2, RatingStep
  <2>9. NoOrphanReview'
    BY <1>1, <1>3, <2>2, <2>3 DEF NoOrphanReview
  <2>10. OneReviewPerUserAndPlace'
    BY <2>2 DEF OneReviewPerUserAndPlace, SameKey
  <2> QED BY <2>5, <2>6, <2>7, <2>8, <2>9, <2>10
<1> QED BY <1>2, <1>3 DEF CommitDrop

(* COMMIT of admin_update_place: the columns may be stale, the place is marked. *)
LEMMA CommitEditInv ==
    ASSUME RatingInv, NEW t \in Txns, CommitEdit(t)
    PROVE  RatingInv'
<1> USE DEF RatingInv
<1> DEFINE p == txn[t].place
           Ended == {t}
<1>1. /\ txn[t].op = "edit" /\ txn[t].pc = "rated" /\ p \in Places /\ "ok" \in Replies
      /\ txn[t].add = {} /\ txn[t].del = {} /\ nextId' = nextId
      /\ UNCHANGED <<reviews, users, actionLogs>> /\ Leave(t, "ok")
      /\ rating' = [rating EXCEPT ![p] = txn[t].agg] /\ places' = places \cup {p}
      /\ bypassed' = IF p \in places /\ rating[p] = txn[t].agg
                     THEN bypassed ELSE bypassed \cup {p}
  BY DEF CommitEdit, At, TxnShape, Shape, Idle, Replies
<1>2. /\ Ended \in SUBSET Txns
      /\ \A o \in Ended : txn'[o] = NoTxn
      /\ \A o \in Txns \ Ended : txn'[o] = txn[o] /\ o \in Txns \ {t}
  BY <1>1 DEF Leave, TypeOK
<1>3. TypeOK'
  <2>1. rating' \in [Places -> Rating]
    BY <1>1 DEF TypeOK, Transaction
  <2>2. txn' \in [Txns -> Transaction]
    BY <1>1 DEF Leave, TypeOK, NoTxn, Transaction, ReviewOps, Rating, NoRating
  <2>3. reply' \in [Txns -> Replies]
    BY <1>1 DEF Leave, TypeOK
  <2> QED BY <1>1, <2>1, <2>2, <2>3 DEF TypeOK
<1> HIDE DEF Ended
<1>4. /\ Finite' /\ IdsFresh' /\ IdsNameKeys' /\ TxnShape' /\ OwnPlace'
      /\ OpenedRow' /\ RowsHeld' /\ KeysHeld' /\ OneHolder'
  <2>1. IsFiniteSet(reviews')
    BY <1>1 DEF Finite
  <2>2. \A l \in actionLogs' : \E x \in KnownRows : x.id = l.id /\ SameKey(x, l)
    BY <1>1 DEF KnownRows, SameKey
  <2>3. /\ \A x \in reviews' : x \in reviews \/ \E e \in Ended : x \in txn[e].add
        /\ \A x \in reviews \ reviews', o \in Txns \ Ended : x.id \notin txn[o].del
    BY <1>1
  <2> QED BY <1>1, <1>2, <2>1, <2>2, <2>3, RowsStep
<1>5. UnratedPlaceGone'
  BY <1>1, <1>2 DEF UnratedPlaceGone, NoTxn
<1>6. RatingExactUnlessBypassed' /\ AggregateExact'
  <2>1. ASSUME NEW q \in Places \ bypassed'
        PROVE  /\ rating'[q] = rating[q]
               /\ ReviewsOf(reviews', q) = ReviewsOf(reviews, q)
    BY <1>1, <2>1 DEF TypeOK
  <2>2. bypassed \subseteq bypassed'
    BY <1>1
  <2> QED BY <1>2, <2>1, <2>2, RatingStep
<1>7. NoOrphanReview' /\ OneReviewPerUserAndPlace'
  BY <1>1 DEF NoOrphanReview, OneReviewPerUserAndPlace, SameKey
<1> QED BY <1>3, <1>4, <1>5, <1>6, <1>7

(* purge_withdrawn_users: its places are marked, and the user has nothing open. *)
LEMMA PurgeUserInv ==
    ASSUME RatingInv, NEW u \in Users, PurgeUser(u)
    PROVE  RatingInv'
<1> USE DEF RatingInv
<1> DEFINE mine == {x \in reviews : x.user = u}
           Ended == {}
<1>1. /\ \A x \in mine, o \in Txns : x.id \notin txn[o].del
      /\ reviews' = reviews \ mine /\ users' = users \ {u}
      /\ actionLogs' \subseteq actionLogs
      /\ bypassed' = bypassed \cup {x.place : x \in mine}
      /\ UNCHANGED <<places, rating, nextId, txn, reply>>
  BY DEF PurgeUser
<1>2. TypeOK'
  BY <1>1 DEF TypeOK, Review
<1>3. \A o \in Ended : txn'[o] = NoTxn
  OBVIOUS
<1>4. Ended \in SUBSET Txns /\ \A o \in Txns \ Ended : txn'[o] = txn[o]
  BY <1>1
<1> HIDE DEF Ended
<1>5. /\ Finite' /\ IdsFresh' /\ IdsNameKeys' /\ TxnShape' /\ OwnPlace'
      /\ OpenedRow' /\ RowsHeld' /\ KeysHeld' /\ OneHolder'
  <2>1. IsFiniteSet(reviews')
    BY <1>1, FS_Subset DEF Finite
  <2>2. \A l \in actionLogs' : \E x \in KnownRows : x.id = l.id /\ SameKey(x, l)
    BY <1>1 DEF KnownRows, SameKey
  <2>3. /\ \A x \in reviews' : x \in reviews \/ \E e \in Ended : x \in txn[e].add
        /\ \A x \in reviews \ reviews', o \in Txns \ Ended : x.id \notin txn[o].del
    BY <1>1
  <2> QED BY <1>1, <1>3, <1>4, <2>1, <2>2, <2>3, RowsStep
<1>6. UnratedPlaceGone'
  BY <1>1 DEF UnratedPlaceGone
<1>7. RatingExactUnlessBypassed' /\ AggregateExact'
  <2>1. ASSUME NEW q \in Places \ bypassed'
        PROVE  /\ rating'[q] = rating[q]
               /\ ReviewsOf(reviews', q) = ReviewsOf(reviews, q)
    BY <1>1, <2>1 DEF ReviewsOf
  <2>2. bypassed \subseteq bypassed'
    BY <1>1
  <2> QED BY <1>3, <1>4, <2>1, <2>2, RatingStep
<1>8. NoOrphanReview' /\ OneReviewPerUserAndPlace'
  BY <1>1 DEF NoOrphanReview, OneReviewPerUserAndPlace, SameKey
<1> QED BY <1>2, <1>5, <1>6, <1>7, <1>8

-----------------------------------------------------------------------------
(* The invariant *)

(* Every step of the program preserves the invariant. *)
LEMMA NextInv == RatingInv /\ [Next]_vars => RatingInv'
<1> SUFFICES ASSUME RatingInv, [Next]_vars PROVE RatingInv'
  OBVIOUS
<1>1. /\ nextId \in Nat /\ nextId >= nextId
      /\ "refused" \in Replies /\ "failed" \in Replies
  BY DEF RatingInv, TypeOK, Replies
<1>2. ASSUME NEW t \in Txns, Request(t) PROVE RatingInv'
  BY <1>2, RequestInv
<1>3. ASSUME NEW t \in Txns, RefuseRoute(t) \/ Crash(t) PROVE RatingInv'
  BY <1>1, <1>3, LeaveStep DEF RefuseRoute, Crash
<1>4. ASSUME NEW t \in Txns, Proceed(t) PROVE RatingInv'
  BY <1>4, InsertReviewInv, SaveReviewInv, DeleteRowInv, LockPlaceInv, RecomputeRatingInv,
     CommitReviewInv, CascadeRowsInv, CommitDropInv, SaveEditInv, CommitEditInv DEF Proceed
<1>5. CASE UNCHANGED vars
  <2> USE <1>5 DEF vars, RatingInv
  <2>1. (TypeOK /\ Finite /\ UnratedPlaceGone /\ OneHolder)'
    BY DEF TypeOK, Finite, UnratedPlaceGone, OneHolder
  <2>2. KnownRows' = KnownRows
    BY DEF KnownRows
  <2>3. (IdsFresh /\ IdsNameKeys /\ OwnPlace /\ OpenedRow)'
    BY <2>2 DEF IdsFresh, IdsNameKeys, OwnPlace, OpenedRow, SameKey
  <2>4. (RowsHeld /\ KeysHeld)'
    BY DEF RowsHeld, KeysHeld, SameKey
  <2>5. TxnShape'
    BY DEF TxnShape, Shape, Idle
  <2>6. AggregateExact'
    BY DEF AggregateExact, View
  <2>7. (NoOrphanReview /\ OneReviewPerUserAndPlace /\ RatingExactUnlessBypassed)'
    BY DEF NoOrphanReview, OneReviewPerUserAndPlace, RatingExactUnlessBypassed, SameKey
  <2> QED BY <2>1, <2>3, <2>4, <2>5, <2>6, <2>7
<1> QED BY <1>2, <1>3, <1>4, <1>5, EditPlaceInv, PurgeUserInv
     DEF Next, ReviewNext, EditNext, PurgeNext

(* RatingInv holds in every reachable state. *)
THEOREM Invariance == Spec => []RatingInv
BY InitInv, NextInv, PTL DEF Spec

(* Every variable keeps its type, under any interleaving of requests, *)
(* administrator edits, purges and crashes. *)
THEOREM TypeCorrect == Spec => []TypeOK
<1>1. RatingInv => TypeOK
  BY DEF RatingInv
<1> QED BY <1>1, Invariance, PTL

(* update_place_rating under the place lock keeps rating_avg and rating_count *)
(* exact for every place that no stale save and no purge has touched. *)
THEOREM RatingExact == Spec => []RatingExactUnlessBypassed
<1>1. RatingInv => RatingExactUnlessBypassed
  BY DEF RatingInv
<1> QED BY <1>1, Invariance, PTL

(* The unique index, the row locks and the deferred foreign keys leave one *)
(* review per user and place, and none that outlives its place or its author. *)
THEOREM KeysAlwaysHold == Spec => []ReviewKeysHold
<1>1. RatingInv => ReviewKeysHold
  BY DEF RatingInv, ReviewKeysHold
<1> QED BY <1>1, Invariance, PTL

-----------------------------------------------------------------------------
(***************************************************************************)
(* Waiting.  A transaction writes review rows first and locks the place    *)
(* row afterwards, so whoever waits waits for one that is further on.      *)
(***************************************************************************)

(* Which steps each kind of transaction takes. *)
StepsFit ==
    \A t \in Txns : /\ txn[t].op = "edit" => txn[t].pc \in {"read", "rated"}
                    /\ txn[t].op = "drop" => txn[t].pc # "rated"

(* Transaction t waits for a key, a row or the lock of the place that o holds. *)
WaitsFor(t, o) ==
    \/ /\ At(t, "create", "read") /\ o # t
       /\ \/ \E x \in txn[o].add : SameKey(x, txn[t])
          \/ \E x \in reviews : x.id \in txn[o].del /\ SameKey(x, txn[t])
    \/ /\ At(t, "update", "read") \/ At(t, "delete", "read")
       /\ o # t /\ txn[t].id \in txn[o].del
    \/ /\ At(t, "drop", "read")
       /\ o # t /\ IdsOfPlace(txn[t].place) \cap txn[o].del # {}
    \/ /\ At(t, "edit", "read") \/ (txn[t].pc = "wrote" /\ txn[t].place \in places)
       /\ o \in Holders(txn[t].place)

(* The guard of Proceed(t), without the row and the place that are waited for. *)
Under(t, op, pcs) == txn[t].op = op /\ txn[t].pc \in pcs

HasNext(t) ==
    \/ txn[t].op \in ReviewOps /\ txn[t].pc \in {"read", "wrote", "locked", "rated", "unrated"}
    \/ Under(t, "drop", {"read", "wrote", "locked", "unrated"})
    \/ Under(t, "edit", {"read", "rated"})

CanGo(t) == HasNext(t) /\ \A o \in Txns : ~WaitsFor(t, o)

(* How far on a transaction is. *)
Phase(t) ==
    CASE txn[t].pc = "idle" -> 0
      [] txn[t].pc = "read" -> 1
      [] txn[t].pc = "wrote" -> 2
      [] OTHER -> 3

(* A handler only waits for one that is further on, and somebody can go on. *)
WaitsAhead == \A t, o \in Txns : WaitsFor(t, o) => Phase(t) < Phase(o)
SomeoneGoesOn == (\E t \in Txns : ~Idle(t)) => \E t \in Txns : CanGo(t)

(* Proceed(t) is a step of a transaction that waits for nobody. *)
LEMMA ProceedGoes == ASSUME NEW t \in Txns, Proceed(t) PROVE CanGo(t)
<1> USE DEF CanGo, HasNext, Under, WaitsFor, At
<1>1. CASE InsertReview(t)
  BY <1>1 DEF InsertReview, KeyPending, ReviewOps
<1>2. CASE SaveReview(t) \/ DeleteRow(t)
  <2>1. (At(t, "update", "read") \/ At(t, "delete", "read")) /\ ~RowLocked(t, txn[t].id)
    BY <1>2, Zenon DEF SaveReview, DeleteRow
  <2> QED BY <2>1 DEF RowLocked, ReviewOps
<1>3. CASE LockPlace(t)
  BY <1>3 DEF LockPlace
<1>4. CASE RecomputeRating(t) \/ CommitReview(t)
  BY <1>4 DEF RecomputeRating, CommitReview, ReviewOps
<1>5. CASE CascadeRows(t)
  BY <1>5 DEF CascadeRows, RowLocked
<1>6. CASE DropRow(t)
  BY <1>6 DEF DropRow
<1>7. CASE CommitDrop(t)
  BY <1>7 DEF CommitDrop
<1>8. CASE SaveEdit(t) \/ CommitEdit(t)
  BY <1>8 DEF SaveEdit, CommitEdit
<1> QED BY <1>1, <1>2, <1>3, <1>4, <1>5, <1>6, <1>7, <1>8 DEF Proceed

(* A transaction of each kind takes its own steps only. *)
LEMMA StepsFitNext == RatingInv /\ StepsFit /\ [Next]_vars => StepsFit'
<1> SUFFICES ASSUME RatingInv, StepsFit, [Next]_vars PROVE StepsFit'
  OBVIOUS
<1>1. txn \in [Txns -> Transaction]
  BY DEF RatingInv, TypeOK
<1>2. ASSUME NEW t \in Txns, NEW new, txn' = [txn EXCEPT ![t] = new],
             /\ new.op = "edit" => new.pc \in {"read", "rated"}
             /\ new.op = "drop" => new.pc # "rated"
      PROVE  StepsFit'
  BY <1>1, <1>2 DEF StepsFit
<1>3. CASE UNCHANGED txn
  BY <1>3 DEF StepsFit
<1>4. ASSUME NEW t \in Txns, NEW answer, Leave(t, answer) PROVE StepsFit'
  BY <1>2, <1>4 DEF Leave, NoTxn
<1>5. ASSUME NEW t \in Txns, NEW op, NEW u, NEW p, NEW i, NEW r, NEW g,
             Begin(t, Opened(op, u, p, i, r, g))
      PROVE  StepsFit'
  BY <1>2, <1>5 DEF Begin, Opened
<1>6. ASSUME NEW t \in Txns, Request(t) PROVE StepsFit'
  BY <1>4, <1>5, <1>6
  DEF Request, CreateReview, UpdateReview, DeleteReview, AdminDeleteReview, OpenReview, DropPlace
<1>7. ASSUME NEW t \in Txns, NEW p \in Places, EditPlace(t, p) PROVE StepsFit'
  BY <1>4, <1>5, <1>7 DEF EditPlace
<1>8. ASSUME NEW t \in Txns, Proceed(t) PROVE StepsFit'
  <2> DEFINE old == txn[t]
  <2>1. old \in Transaction
    BY <1>1
  <2>2. ASSUME NEW new, Step(t, new), new.op = old.op, new.op \in ReviewOps PROVE StepsFit'
    BY <1>2, <2>2 DEF Step, ReviewOps
  <2>3. CASE InsertReview(t)
    BY <1>4, <2>1, <2>2, <2>3 DEF InsertReview, At, Transaction, ReviewOps
  <2>4. CASE DeleteRow(t)
    BY <2>1, <2>2, <2>4 DEF DeleteRow, At, Transaction, ReviewOps
  <2>10. CASE SaveReview(t)
    <3>1. ASSUME NEW D, NEW A, Step(t, [txn[t] EXCEPT !.pc = "wrote", !.del = D, !.add = A])
          PROVE  StepsFit'
      <4>1. old.op = "update"
        BY <2>10, Zenon DEF SaveReview, At
      <4>2. [txn[t] EXCEPT !.pc = "wrote", !.del = D, !.add = A].op = "update"
        BY <2>1, <4>1 DEF Transaction
      <4> QED BY <2>2, <3>1, <4>1, <4>2 DEF ReviewOps
    <3> QED BY <1>4, <2>10, <3>1, Zenon DEF SaveReview
  <2>5. CASE LockPlace(t) \/ RecomputeRating(t)
    BY <2>1, <2>2, <2>5 DEF LockPlace, RecomputeRating, Transaction
  <2>6. CASE CommitReview(t) \/ CommitDrop(t) \/ CommitEdit(t)
    BY <1>4, <2>6 DEF CommitReview, CommitDrop, CommitEdit
  <2>7. ASSUME NEW new, Step(t, new), new.op = "drop", new.pc # "rated" PROVE StepsFit'
    BY <1>2, <2>7 DEF Step
  <2>8. CASE CascadeRows(t) \/ DropRow(t)
    BY <2>1, <2>7, <2>8 DEF CascadeRows, DropRow, At, Transaction
  <2>9. CASE SaveEdit(t)
    <3>1. [txn[t] EXCEPT !.pc = "rated"].op = "edit" /\ [txn[t] EXCEPT !.pc = "rated"].pc = "rated"
      BY <2>1, <2>9 DEF SaveEdit, At, Transaction
    <3> QED BY <1>2, <2>9, <3>1 DEF SaveEdit, Step
  <2> QED BY <1>8, <2>3, <2>4, <2>5, <2>6, <2>8, <2>9, <2>10 DEF Proceed
<1>9. ASSUME NEW t \in Txns, RefuseRoute(t) \/ Crash(t) PROVE StepsFit'
  BY <1>4, <1>9 DEF RefuseRoute, Crash
<1>10. CASE PurgeNext \/ UNCHANGED vars
  BY <1>3, <1>10 DEF PurgeNext, PurgeUser, vars
<1> QED BY <1>6, <1>7, <1>8, <1>9, <1>10 DEF Next, ReviewNext, EditNext

(* Whoever waits has written nothing, or waits for the lock of a place; who is *)
(* waited for has written something, or holds such a lock. *)
LEMMA WaitersBehind == RatingInv => WaitsAhead
<1> SUFFICES ASSUME RatingInv, NEW t \in Txns, NEW o \in Txns, WaitsFor(t, o)
             PROVE  Phase(t) < Phase(o)
  BY DEF WaitsAhead
<1>1. txn[o] \in Transaction /\ txn[t] \in Transaction /\ Shape(o)
  BY DEF RatingInv, TypeOK, TxnShape
<1>2. ASSUME txn[o].add # {} \/ txn[o].del # {} PROVE Phase(o) \in {2, 3}
  <2>1. txn[o].pc \notin {"idle", "read"}
    BY <1>1, <1>2 DEF Shape, Idle, NoTxn
  <2> QED BY <1>1, <2>1 DEF Phase, Transaction
<1>3. ASSUME o \in Holders(txn[t].place) PROVE Phase(o) = 3
  BY <1>3 DEF Holders, Phase
<1>4. CASE txn[t].pc = "read" /\ (txn[o].add # {} \/ txn[o].del # {})
  BY <1>2, <1>4 DEF Phase
<1>5. CASE txn[t].pc \in {"read", "wrote"} /\ o \in Holders(txn[t].place)
  BY <1>3, <1>5 DEF Phase
<1> QED BY <1>4, <1>5 DEF WaitsFor, At

(* Somebody who holds a lock of a place goes on; if nobody does, whoever has *)
(* written goes on; if nobody has, everybody does. *)
LEMMA OneGoesOn == RatingInv /\ StepsFit => SomeoneGoesOn
<1> SUFFICES ASSUME RatingInv, StepsFit, NEW a \in Txns, ~Idle(a)
             PROVE  \E t \in Txns : CanGo(t)
  BY DEF SomeoneGoesOn
<1>1. ASSUME NEW t \in Txns, ~Idle(t) PROVE HasNext(t)
  BY <1>1 DEF RatingInv, TypeOK, Transaction, TxnShape, Shape, StepsFit, HasNext, Under, Idle
<1>2. ASSUME NEW t \in Txns, ~Idle(t),
             \A o \in Txns : ~Idle(o) => Phase(o) <= Phase(t)
      PROVE  CanGo(t)
  <2>1. ASSUME NEW o \in Txns, WaitsFor(t, o) PROVE FALSE
    <3>1. Phase(t) < Phase(o)
      BY <2>1, WaitersBehind DEF WaitsAhead
    <3>2. Phase(t) \in 0..3 /\ Phase(o) \in 0..3 /\ (Idle(o) => Phase(o) = 0)
      BY DEF Phase, Idle
    <3> QED BY <1>2, <3>1, <3>2
  <2> QED BY <1>1, <1>2, <2>1 DEF CanGo
<1>3. \A t \in Txns : Phase(t) \in 0..3 /\ (~Idle(t) => Phase(t) \in 1..3)
  <2>1. \A t \in Txns : txn[t] \in Transaction
    BY DEF RatingInv, TypeOK
  <2> QED BY <2>1 DEF Phase, Idle
<1>4. CASE \E t \in Txns : Phase(t) = 3
  <2> PICK t \in Txns : Phase(t) = 3
    BY <1>4
  <2>1. ~Idle(t)
    BY DEF Phase, Idle
  <2> QED BY <1>2, <1>3, <2>1
<1>5. CASE (\E t \in Txns : Phase(t) = 2) /\ ~(\E t \in Txns : Phase(t) = 3)
  <2> PICK t \in Txns : Phase(t) = 2
    BY <1>5
  <2>1. ~Idle(t)
    BY DEF Phase, Idle
  <2>2. \A o \in Txns : Phase(o) <= 2
    BY <1>3, <1>5
  <2> QED BY <1>2, <2>1, <2>2
<1>6. CASE \A t \in Txns : Phase(t) \notin {2, 3}
  BY <1>2, <1>3, <1>6
<1> QED BY <1>4, <1>5, <1>6

(* However many handlers wait for keys, rows and place locks, whoever waits *)
(* waits for one that is further on, and while a request is open one of them *)
(* can go on: review rows are locked before the place row (review_services.py). *)
THEOREM NoDeadlock == Spec => [](WaitsAhead /\ SomeoneGoesOn)
<1>1. Init => StepsFit
  BY DEF Init, StepsFit, NoTxn
<1>2. RatingInv /\ StepsFit => WaitsAhead /\ SomeoneGoesOn
  BY WaitersBehind, OneGoesOn
<1> QED BY <1>1, <1>2, StepsFitNext, Invariance, PTL DEF Spec

(* How many steps a transaction has behind it. *)
StepsDone(q) ==
    CASE q.pc = "idle" -> 0
      [] q.pc = "read" -> 1
      [] q.pc = "wrote" -> 2
      [] q.pc \in {"locked", "unrated"} -> 3
      [] OTHER -> 4

\* A transaction that is open stays as it is, ends or goes on.
MovesOn == \A t \in Txns : \/ Idle(t) \/ txn'[t] = txn[t] \/ txn'[t].pc = "idle"
                           \/ StepsDone(txn[t]) < StepsDone(txn'[t])

LEMMA MovesOnStep == TypeOK /\ [Next]_vars => MovesOn
<1> SUFFICES ASSUME TypeOK, [Next]_vars PROVE MovesOn
  OBVIOUS
<1>1. txn \in [Txns -> Transaction]
  BY DEF TypeOK
<1>2. ASSUME NEW t \in Txns, NEW new, txn' = [txn EXCEPT ![t] = new],
             Idle(t) \/ new.pc = "idle" \/ StepsDone(txn[t]) < StepsDone(new)
      PROVE  MovesOn
  <2>1. txn'[t] = new /\ \A o \in Txns \ {t} : txn'[o] = txn[o]
    BY <1>1, <1>2
  <2> QED BY <1>2, <2>1 DEF MovesOn
<1>3. CASE UNCHANGED txn
  BY <1>3 DEF MovesOn
<1>4. ASSUME NEW t \in Txns, NEW answer, Leave(t, answer) PROVE MovesOn
  BY <1>2, <1>4 DEF Leave, NoTxn
<1>5. ASSUME NEW t \in Txns, NEW new, Idle(t), Begin(t, new) PROVE MovesOn
  BY <1>2, <1>5 DEF Begin
<1>6. ASSUME NEW t \in Txns, NEW new, NEW from, NEW to, Step(t, new),
             txn[t].pc = from, new.pc = to,
             <<from, to>> \in {<<"read", "wrote">>, <<"wrote", "locked">>, <<"wrote", "unrated">>,
                               <<"locked", "rated">>, <<"read", "rated">>}
      PROVE  MovesOn
  <2>1. StepsDone(txn[t]) < StepsDone(new)
    BY <1>6 DEF StepsDone
  <2> QED BY <1>2, <1>6, <2>1 DEF Step
<1>7. ASSUME NEW t \in Txns, Request(t) PROVE MovesOn
  BY <1>4, <1>5, <1>7
  DEF Request, CreateReview, UpdateReview, DeleteReview, AdminDeleteReview, OpenReview, DropPlace
<1>8. ASSUME NEW t \in Txns, NEW p \in Places, EditPlace(t, p) PROVE MovesOn
  BY <1>4, <1>5, <1>8 DEF EditPlace
<1>9. ASSUME NEW t \in Txns, Proceed(t) PROVE MovesOn
  <2>1. txn[t] \in Transaction
    BY <1>1
  <2>2. \A D, A : [txn[t] EXCEPT !.pc = "wrote", !.del = D, !.add = A].pc = "wrote"
    BY <2>1 DEF Transaction
  <2>3. \A A : [txn[t] EXCEPT !.pc = "wrote", !.add = A].pc = "wrote"
    BY <2>1 DEF Transaction
  <2>4. \A D : [txn[t] EXCEPT !.pc = "wrote", !.del = D].pc = "wrote"
    BY <2>1 DEF Transaction
  <2>5. \A g : [txn[t] EXCEPT !.pc = "rated", !.agg = g].pc = "rated"
    BY <2>1 DEF Transaction
  <2>6. \A c : [txn[t] EXCEPT !.pc = c].pc = c
    BY <2>1 DEF Transaction
  <2>7. CASE InsertReview(t)
    <3>1. txn[t].pc = "read" /\ (Leave(t, "failed") \/
             Step(t, [txn[t] EXCEPT !.pc = "wrote", !.add = {NewReview(t)}]))
      BY <2>7, Zenon DEF InsertReview, At
    <3> QED BY <1>4, <1>6, <2>3, <3>1
  <2>8. CASE SaveReview(t)
    <3>1. txn[t].pc = "read" /\ (Leave(t, "failed") \/
             \E D, A : Step(t, [txn[t] EXCEPT !.pc = "wrote", !.del = D, !.add = A]))
      BY <2>8, Zenon DEF SaveReview, At
    <3>2. ASSUME NEW D, NEW A, Step(t, [txn[t] EXCEPT !.pc = "wrote", !.del = D, !.add = A])
          PROVE  MovesOn
      BY <1>6, <2>2, <3>1, <3>2
    <3> QED BY <1>4, <3>1, <3>2
  <2>9. CASE DeleteRow(t) \/ CascadeRows(t)
    <3>1. txn[t].pc = "read" /\ \E D : Step(t, [txn[t] EXCEPT !.pc = "wrote", !.del = D])
      BY <2>9, Zenon DEF DeleteRow, CascadeRows, At
    <3>2. ASSUME NEW D, Step(t, [txn[t] EXCEPT !.pc = "wrote", !.del = D]) PROVE MovesOn
      BY <1>6, <2>4, <3>1, <3>2
    <3> QED BY <3>1, <3>2
  <2>10. CASE LockPlace(t) \/ DropRow(t)
    <3>1. txn[t].pc = "wrote" /\ \E c \in {"locked", "unrated"} :
              Step(t, [txn[t] EXCEPT !.pc = c])
      BY <2>10, Zenon DEF LockPlace, DropRow, At
    <3>2. ASSUME NEW c \in {"locked", "unrated"}, Step(t, [txn[t] EXCEPT !.pc = c]) PROVE MovesOn
      BY <1>6, <2>6, <3>1, <3>2
    <3> QED BY <3>1, <3>2
  <2>11. CASE RecomputeRating(t)
    <3>1. txn[t].pc = "locked" /\ \E g : Step(t, [txn[t] EXCEPT !.pc = "rated", !.agg = g])
      BY <2>11, Zenon DEF RecomputeRating
    <3>2. ASSUME NEW g, Step(t, [txn[t] EXCEPT !.pc = "rated", !.agg = g]) PROVE MovesOn
      BY <1>6, <2>5, <3>1, <3>2
    <3> QED BY <3>1, <3>2
  <2>12. CASE SaveEdit(t)
    <3>1. txn[t].pc = "read" /\ Step(t, [txn[t] EXCEPT !.pc = "rated"])
      BY <2>12, Zenon DEF SaveEdit, At
    <3> QED BY <1>6, <2>6, <3>1
  <2>13. CASE CommitReview(t) \/ CommitDrop(t) \/ CommitEdit(t)
    BY <1>4, <2>13 DEF CommitReview, CommitDrop, CommitEdit
  <2> QED BY <1>9, <2>7, <2>8, <2>9, <2>10, <2>11, <2>12, <2>13 DEF Proceed
<1>10. ASSUME NEW t \in Txns, RefuseRoute(t) \/ Crash(t) PROVE MovesOn
  BY <1>4, <1>10 DEF RefuseRoute, Crash
<1>11. CASE PurgeNext \/ UNCHANGED vars
  BY <1>3, <1>11 DEF PurgeNext, PurgeUser, vars
<1> QED BY <1>7, <1>8, <1>9, <1>10, <1>11 DEF Next, ReviewNext, EditNext

(* No step of its own or of others sets an open transaction back: it goes on to its *)
(* end in at most four steps, whatever it waits for in between (nothing retries). *)
THEOREM NeverSetBack == Spec => [][MovesOn]_vars
<1>1. RatingInv /\ [Next]_vars => [MovesOn]_vars
  BY MovesOnStep DEF RatingInv
<1> QED BY <1>1, Invariance, PTL DEF Spec
=============================================================================
