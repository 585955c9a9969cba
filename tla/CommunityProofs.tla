---------------------------- MODULE CommunityProofs ----------------------------
(***************************************************************************)
(* What members see of each other, for any number of members, rows and     *)
(* page sizes: the demo data is whole after any crash, a follower is       *)
(* listed once, a search shows one list in one order, a shared quiz result *)
(* fits together, and a route is shown as it was at one time.              *)
(*                                                                         *)
(* The reads take several queries. Each invariant says what an earlier     *)
(* answer still guarantees when a later one is asked.                      *)
(***************************************************************************)
EXTENDS MCCommunity, ReviewRatingProofs, FiniteSetTheorems, SequenceTheorems,
        WellFoundedInduction, TLAPS

--------------------------------------------------------------------------------
(* Demo data *)

(***************************************************************************)
(* The command runs without a transaction. SeedInv says for each of its    *)
(* steps which rows must be there by then.                                 *)
(***************************************************************************)

SeedRows ==
    [people : SUBSET DemoUsers, tagged : SUBSET DemoUsers, socials : SUBSET DemoUsers,
     results : SUBSET DemoUsers, follows : SUBSET (DemoUsers \X DemoUsers),
     marks : SUBSET (DemoUsers \X SeedPlaces)]
SeedPcs == {"idle", "clear_tours", "clear_users", "clear_count", "types", "users", "socials",
            "results", "follows", "reviews", "ratings", "marks", "route", "stops", "likes",
            "like_count", "done"}
SeedJobs == [pc : SeedPcs, mode : {"seed", "clear", "delete"}, touched : SUBSET SeedPlaces,
             fresh : SUBSET DemoUsers]
Tours == [there : BOOLEAN, stops : SUBSET SeedPlaces, likes : SUBSET DemoUsers, counted : Nat]

SeedTypes ==
    /\ demo \in SeedRows
    /\ written \subseteq (DemoUsers \cup RealUsers) \X SeedPlaces
    /\ shown = [p \in SeedPlaces |-> shown[p]]
    /\ tours \in [1 .. MaxRuns -> Tours]
    /\ job \in SeedJobs
    /\ runs \in 0 .. MaxRuns /\ crashes \in Nat
    /\ lost \subseteq SeedPlaces

CountedSoFar ==
    \A p \in SeedPlaces \ lost :
        \/ p \in job.touched /\ (SeedAt("clear_count") \/ SeedAt("ratings"))
        \/ shown[p] = CountOf(p)

\* What --clear and --delete have done so far.
ClearedSoFar ==
    /\ SeedAt("clear_users") =>
          tours = NoTours /\ \A w \in written : w[1] \in DemoUsers => w[2] \in job.touched
    /\ SeedAt("clear_count") => tours = NoTours /\ demo = NoRows
    /\ SeedAt("done") /\ job.mode = "delete" => tours = NoTours /\ demo = NoRows

\* A deletion ends with its clearing.
Clearing == SeedAt("clear_tours") \/ SeedAt("clear_users") \/ SeedAt("clear_count")
DeletesOnly == job.mode = "delete" => SeedAt("idle") \/ Clearing \/ SeedAt("done")

FreshTagged ==
    /\ ~SeedAt("users") => job.fresh = {}
    /\ job.fresh \subseteq demo.people
    /\ crashes = 0 => demo.people \subseteq demo.tagged \cup job.fresh

\* How far a run that fills the database has come.
Finished == SeedAt("done") /\ job.mode # "delete"
PastMarks ==
    SeedAt("route") \/ SeedAt("stops") \/ SeedAt("likes") \/ SeedAt("like_count") \/ Finished
PastReviews == SeedAt("ratings") \/ SeedAt("marks") \/ PastMarks
PastResults == SeedAt("follows") \/ SeedAt("reviews") \/ PastReviews
PastSocials == SeedAt("results") \/ PastResults
PastUsers == SeedAt("socials") \/ PastSocials

FilledSoFar ==
    /\ PastUsers => demo.people = DemoUsers
    /\ PastSocials => demo.socials = DemoUsers
    /\ PastResults => demo.results = DemoUsers
    /\ PastReviews => \A u \in DemoUsers : \E w \in written : w[1] = u
    /\ PastMarks => \A u \in DemoUsers : \E w \in demo.marks : w[1] = u
    /\ ~SeedAt("idle") => runs \in 1 .. MaxRuns
    /\ Finished => tours[runs].counted = Cardinality(tours[runs].likes)

SeedInv ==
    /\ SeedTypes /\ SeedTypeOK /\ CountedSoFar /\ ClearedSoFar /\ DeletesOnly
    /\ FreshTagged /\ FilledSoFar

-----------------------------------------------------------------------------
LEMMA LikesFinite == \A l \in SUBSET DemoUsers : IsFiniteSet(l) /\ Cardinality(l) \in Nat
BY SeedAssumption, FS_Subset, FS_CardinalityType

LEMMA NoRowsType == NoRows \in SeedRows /\ NoTours \in [1 .. MaxRuns -> Tours]
BY DEF NoRows, SeedRows, NoTours, NoTour, Tours

LEMMA DrawnRows ==
    ASSUME SeedInv, NEW d \in Draws
    PROVE  /\ Drawn(d) \subseteq DemoUsers \X SeedPlaces
           /\ \A w \in Drawn(d) : w[1] \in demo.people
           /\ {w[2] : w \in Drawn(d)} \subseteq SeedPlaces
           /\ demo.people = DemoUsers => \A u \in DemoUsers : \E w \in Drawn(d) : w[1] = u
<1>1. ASSUME NEW u \in DemoUsers PROVE d[u] \subseteq SeedPlaces /\ d[u] # {}
  <2>1. d[u] \in (SUBSET SeedPlaces) \ {{}}
    BY SeedAssumption
  <2> QED
    BY <2>1
<1>2. ASSUME demo.people = DemoUsers, NEW u \in DemoUsers
      PROVE  \E w \in Drawn(d) : w[1] = u
  <2>1. PICK p \in SeedPlaces : p \in d[u]
    BY <1>1
  <2>2. <<u, p>> \in Drawn(d)
    BY <1>2, <2>1 DEF Drawn
  <2> QED
    BY <2>2
<1> QED
  BY <1>2 DEF Drawn

LEMMA RouteTyped ==
    ASSUME SeedInv, ~SeedAt("idle")
    PROVE  runs \in 1 .. MaxRuns /\ tours[runs] \in Tours
BY DEF SeedInv, SeedTypes, FilledSoFar

LEMMA SeedInvInit == SeedInit => SeedInv
<1> SUFFICES ASSUME SeedInit PROVE SeedInv
  OBVIOUS
<1>1. SeedTypes
  BY SeedAssumption, NoRowsType DEF SeedInit, SeedTypes, SeedJobs, SeedPcs
<1>2. SeedTypeOK
  BY DEF SeedInit, SeedTypeOK, NoRows, NoTours, NoTour
<1>3. CountedSoFar
  <2>1. \A p : {w \in written : w[2] = p} = {}
    BY DEF SeedInit
  <2>2. Cardinality({}) = 0
    BY FS_EmptySet
  <2> QED
    BY <2>1, <2>2 DEF SeedInit, CountedSoFar, CountOf
<1>4. ClearedSoFar /\ DeletesOnly
  BY DEF SeedInit, ClearedSoFar, DeletesOnly, SeedAt
<1>5. FreshTagged
  BY DEF SeedInit, FreshTagged, SeedAt, NoRows
<1>6. FilledSoFar
  BY DEF SeedInit, FilledSoFar, SeedAt, PastUsers, PastSocials, PastResults, PastReviews,
         PastMarks, Finished
<1> QED
  BY <1>1, <1>2, <1>3, <1>4, <1>5, <1>6 DEF SeedInv

LEMMA SeedBegin ==
    ASSUME SeedInv, NEW mode \in {"seed", "clear", "delete"}, BeginRun(mode)
    PROVE  SeedInv'
<1> USE DEF BeginRun, Goto, SeedAt
<1>1. SeedTypes'
  BY SeedAssumption DEF SeedInv, SeedTypes, SeedJobs, SeedPcs
<1>2. SeedTypeOK'
  BY DEF SeedInv, SeedTypeOK
<1>3. CountedSoFar'
  BY DEF SeedInv, CountedSoFar, CountOf
<1>4. ClearedSoFar'
  BY DEF SeedInv, ClearedSoFar
<1>5. DeletesOnly'
  BY DEF SeedInv, SeedTypes, SeedJobs, DeletesOnly, Clearing
<1>6. FreshTagged'
  BY DEF SeedInv, FreshTagged
<1>7. FilledSoFar'
  <2>1. runs' \in 1 .. MaxRuns
    BY SeedAssumption DEF SeedInv, SeedTypes
  <2>2. ~PastUsers' /\ ~PastSocials' /\ ~PastResults'
    BY DEF PastUsers, PastSocials, PastResults, PastReviews,
           PastMarks, Finished
  <2>3. ~PastReviews' /\ ~PastMarks' /\ ~Finished'
    BY DEF PastUsers, PastSocials, PastResults, PastReviews,
           PastMarks, Finished
  <2> QED
    BY <2>1, <2>2, <2>3 DEF FilledSoFar
<1> QED
  BY <1>1, <1>2, <1>3, <1>4, <1>5, <1>6, <1>7 DEF SeedInv

LEMMA SeedClearTours ==
    ASSUME SeedInv, ClearTours
    PROVE  SeedInv'
<1> USE DEF ClearTours, Goto, SeedAt
<1>1. SeedTypes'
  BY NoRowsType DEF SeedInv, SeedTypes, SeedJobs, SeedPcs
<1>2. SeedTypeOK'
  BY DEF SeedInv, SeedTypeOK, NoTours, NoTour
<1>3. CountedSoFar'
  BY DEF SeedInv, CountedSoFar, CountOf
<1>4. ClearedSoFar'
  BY DEF SeedInv, SeedTypes, SeedJobs, ClearedSoFar
<1>5. DeletesOnly'
  BY DEF SeedInv, SeedTypes, SeedJobs, DeletesOnly, Clearing
<1>6. FreshTagged'
  BY DEF SeedInv, FreshTagged
<1>7. FilledSoFar'
  BY DEF SeedInv, FilledSoFar, PastUsers, PastSocials, PastResults, PastReviews, PastMarks,
           Finished
<1> QED
  BY <1>1, <1>2, <1>3, <1>4, <1>5, <1>6, <1>7 DEF SeedInv

LEMMA SeedClearUsers ==
    ASSUME SeedInv, ClearUsers
    PROVE  SeedInv'
<1> USE DEF ClearUsers, Goto, SeedAt
<1>1. SeedTypes'
  BY NoRowsType DEF SeedInv, SeedTypes, SeedJobs, SeedPcs
<1>2. SeedTypeOK'
  BY DEF SeedInv, SeedTypeOK, ClearedSoFar, NoRows, NoTours, NoTour
<1>3. CountedSoFar'
  BY DEF SeedInv, SeedTypes, SeedJobs, CountedSoFar, ClearedSoFar, CountOf
<1>4. ClearedSoFar'
  BY DEF SeedInv, ClearedSoFar
<1>5. DeletesOnly'
  BY DEF SeedInv, SeedTypes, SeedJobs, DeletesOnly, Clearing
<1>6. FreshTagged'
  BY DEF SeedInv, SeedTypes, SeedJobs, FreshTagged, NoRows
<1>7. FilledSoFar'
  BY DEF SeedInv, FilledSoFar, PastUsers, PastSocials, PastResults, PastReviews, PastMarks,
           Finished
<1> QED
  BY <1>1, <1>2, <1>3, <1>4, <1>5, <1>6, <1>7 DEF SeedInv

LEMMA SeedClearCount ==
    ASSUME SeedInv, ClearCount
    PROVE  SeedInv'
<1> USE DEF ClearCount, Recount, Goto, SeedAt
<1>1. SeedTypes'
  BY DEF SeedInv, SeedTypes, SeedJobs, SeedPcs
<1>2. SeedTypeOK'
  BY DEF SeedInv, SeedTypeOK
<1>3. CountedSoFar'
  BY DEF SeedInv, CountedSoFar, CountOf
<1>4. ClearedSoFar'
  BY DEF SeedInv, ClearedSoFar
<1>5. DeletesOnly'
  BY DEF SeedInv, SeedTypes, SeedJobs, DeletesOnly, Clearing
<1>6. FreshTagged'
  BY DEF SeedInv, FreshTagged
<1>7. FilledSoFar'
  BY DEF SeedInv, FilledSoFar, PastUsers, PastSocials, PastResults, PastReviews, PastMarks,
           Finished
<1> QED
  BY <1>1, <1>2, <1>3, <1>4, <1>5, <1>6, <1>7 DEF SeedInv

LEMMA SeedLoadTypes ==
    ASSUME SeedInv, LoadTypes
    PROVE  SeedInv'
<1> USE DEF LoadTypes, Goto, SeedAt
<1>1. SeedTypes'
  BY DEF SeedInv, SeedTypes, SeedJobs, SeedPcs
<1>2. SeedTypeOK'
  BY DEF SeedInv, SeedTypeOK
<1>3. CountedSoFar'
  BY DEF SeedInv, CountedSoFar, CountOf
<1>4. ClearedSoFar'
  BY DEF SeedInv, ClearedSoFar
<1>5. DeletesOnly'
  BY DEF SeedInv, SeedTypes, SeedJobs, DeletesOnly, Clearing
<1>6. FreshTagged'
  BY DEF SeedInv, FreshTagged
<1>7. FilledSoFar'
  BY DEF SeedInv, FilledSoFar, PastUsers, PastSocials, PastResults, PastReviews, PastMarks,
           Finished
<1> QED
  BY <1>1, <1>2, <1>3, <1>4, <1>5, <1>6, <1>7 DEF SeedInv

LEMMA SeedCreateUser ==
    ASSUME SeedInv, NEW u \in DemoUsers, CreateUser(u)
    PROVE  SeedInv'
<1> USE DEF CreateUser, Goto, SeedAt
<1>1. SeedTypes'
  BY DEF SeedInv, SeedTypes, SeedJobs, SeedPcs, SeedRows
<1>2. SeedTypeOK'
  BY DEF SeedInv, SeedTypeOK
<1>3. CountedSoFar'
  BY DEF SeedInv, CountedSoFar, CountOf
<1>4. ClearedSoFar'
  BY DEF SeedInv, ClearedSoFar
<1>5. DeletesOnly'
  BY DEF SeedInv, SeedTypes, SeedJobs, DeletesOnly, Clearing
<1>6. FreshTagged'
  BY DEF SeedInv, FreshTagged
<1>7. FilledSoFar'
  BY DEF SeedInv, FilledSoFar, PastUsers, PastSocials, PastResults, PastReviews, PastMarks,
           Finished
<1> QED
  BY <1>1, <1>2, <1>3, <1>4, <1>5, <1>6, <1>7 DEF SeedInv

LEMMA SeedCreateSocial ==
    ASSUME SeedInv, NEW u \in DemoUsers, CreateSocial(u)
    PROVE  SeedInv'
<1> USE DEF CreateSocial, Goto, SeedAt
<1>1. SeedTypes'
  BY DEF SeedInv, SeedTypes, SeedJobs, SeedPcs, SeedRows
<1>2. SeedTypeOK'
  BY DEF SeedInv, SeedTypeOK
<1>3. CountedSoFar'
  BY DEF SeedInv, CountedSoFar, CountOf
<1>4. ClearedSoFar'
  BY DEF SeedInv, ClearedSoFar
<1>5. DeletesOnly'
  BY DEF SeedInv, SeedTypes, SeedJobs, DeletesOnly, Clearing
<1>6. FreshTagged'
  BY DEF SeedInv, FreshTagged
<1>7. FilledSoFar'
  BY DEF SeedInv, FilledSoFar, PastUsers, PastSocials, PastResults, PastReviews, PastMarks,
           Finished
<1> QED
  BY <1>1, <1>2, <1>3, <1>4, <1>5, <1>6, <1>7 DEF SeedInv

LEMMA SeedCreatePreference ==
    ASSUME SeedInv, NEW u \in DemoUsers, CreatePreference(u)
    PROVE  SeedInv'
<1> USE DEF CreatePreference, Goto, SeedAt
<1>1. SeedTypes'
  BY DEF SeedInv, SeedTypes, SeedJobs, SeedPcs, SeedRows
<1>2. SeedTypeOK'
  BY DEF SeedInv, SeedTypeOK
<1>3. CountedSoFar'
  BY DEF SeedInv, CountedSoFar, CountOf
<1>4. ClearedSoFar'
  BY DEF SeedInv, ClearedSoFar
<1>5. DeletesOnly'
  BY DEF SeedInv, SeedTypes, SeedJobs, DeletesOnly, Clearing
<1>6. FreshTagged'
  BY DEF SeedInv, FreshTagged
<1>7. FilledSoFar'
  BY DEF SeedInv, FilledSoFar, PastUsers, PastSocials, PastResults, PastReviews, PastMarks,
           Finished
<1> QED
  BY <1>1, <1>2, <1>3, <1>4, <1>5, <1>6, <1>7 DEF SeedInv

LEMMA SeedTagUser ==
    ASSUME SeedInv, TagUser
    PROVE  SeedInv'
<1> USE DEF TagUser, Goto, SeedAt
<1>1. SeedTypes'
  BY DEF SeedInv, SeedTypes, SeedJobs, SeedPcs, SeedRows
<1>2. SeedTypeOK'
  <2>1. demo' = [demo EXCEPT !.tagged = demo.tagged \cup job.fresh]
    OBVIOUS
  <2> QED
    BY <2>1 DEF SeedInv, SeedTypes, SeedTypeOK, SeedRows, FreshTagged
<1>3. CountedSoFar'
  BY DEF SeedInv, CountedSoFar, CountOf
<1>4. ClearedSoFar'
  BY DEF SeedInv, ClearedSoFar
<1>5. DeletesOnly'
  BY DEF SeedInv, SeedTypes, SeedJobs, DeletesOnly, Clearing
<1>6. FreshTagged'
  BY DEF SeedInv, FreshTagged
<1>7. FilledSoFar'
  BY DEF SeedInv, FilledSoFar, PastUsers, PastSocials, PastResults, PastReviews, PastMarks,
           Finished
<1> QED
  BY <1>1, <1>2, <1>3, <1>4, <1>5, <1>6, <1>7 DEF SeedInv

LEMMA SeedEndLoop ==
    ASSUME SeedInv, EndLoop
    PROVE  SeedInv'
<1> USE DEF EndLoop, Goto, SeedAt
<1>1. SeedTypes'
  BY DEF SeedInv, SeedTypes, SeedJobs, SeedPcs
<1>2. SeedTypeOK'
  BY DEF SeedInv, SeedTypeOK
<1>3. CountedSoFar'
  BY DEF SeedInv, CountedSoFar, CountOf
<1>4. ClearedSoFar'
  BY DEF SeedInv, SeedTypes, SeedJobs, ClearedSoFar
<1>5. DeletesOnly'
  BY DEF SeedInv, SeedTypes, SeedJobs, DeletesOnly, Clearing
<1>6. FreshTagged'
  BY DEF SeedInv, SeedTypes, SeedJobs, FreshTagged
<1>7. FilledSoFar'
  BY DEF SeedInv, SeedTypes, SeedJobs, FilledSoFar, PastUsers, PastSocials, PastResults,
           PastReviews, PastMarks, Finished
<1> QED
  BY <1>1, <1>2, <1>3, <1>4, <1>5, <1>6, <1>7 DEF SeedInv

LEMMA SeedCreateFollows ==
    ASSUME SeedInv, NEW f \in FollowDraws, CreateFollows(f)
    PROVE  SeedInv'
<1> USE DEF CreateFollows, Goto, SeedAt
<1>1. SeedTypes'
  BY SeedAssumption, NoRowsType, LikesFinite DEF SeedInv, SeedTypes, SeedJobs, SeedPcs, SeedRows,
         Tours
<1>2. SeedTypeOK'
  BY SeedAssumption, NoRowsType DEF SeedInv, SeedTypes, SeedTypeOK, SeedJobs, SeedRows, Tours,
         ClearedSoFar, FilledSoFar, PastUsers, PastSocials, PastResults, PastReviews, PastMarks,
         Finished, NoTours, NoTour, NoRows
<1>3. CountedSoFar'
  BY DEF SeedInv, CountedSoFar, CountOf
<1>4. ClearedSoFar'
  BY DEF SeedInv, ClearedSoFar
<1>5. DeletesOnly'
  BY DEF SeedInv, SeedTypes, SeedJobs, DeletesOnly, Clearing
<1>6. FreshTagged'
  BY DEF SeedInv, FreshTagged
<1>7. FilledSoFar'
  BY DEF SeedInv, FilledSoFar, PastUsers, PastSocials, PastResults, PastReviews, PastMarks,
           Finished
<1> QED
  BY <1>1, <1>2, <1>3, <1>4, <1>5, <1>6, <1>7 DEF SeedInv

LEMMA SeedCreateReviews ==
    ASSUME SeedInv, NEW d \in Draws, CreateReviews(d)
    PROVE  SeedInv'
<1> USE DEF CreateReviews, Goto, SeedAt
<1>1. SeedTypes'
  <2>1. written' \subseteq (DemoUsers \cup RealUsers) \X SeedPlaces
    BY DrawnRows DEF SeedInv, SeedTypes
  <2>2. job' \in SeedJobs
    BY DrawnRows DEF SeedInv, SeedTypes, SeedJobs, SeedPcs
  <2> QED
    BY <2>1, <2>2 DEF SeedInv, SeedTypes
<1>2. SeedTypeOK'
  BY DrawnRows DEF SeedInv, SeedTypes, SeedTypeOK
<1>3. CountedSoFar'
  BY DEF SeedInv, CountedSoFar, CountOf
<1>4. ClearedSoFar'
  BY DEF SeedInv, ClearedSoFar
<1>5. DeletesOnly'
  BY DEF SeedInv, SeedTypes, SeedJobs, DeletesOnly, Clearing
<1>6. FreshTagged'
  BY DEF SeedInv, FreshTagged
<1>7. FilledSoFar'
  <2>1. job'.pc = "ratings" /\ job'.mode = job.mode
    BY DEF SeedInv, SeedTypes, SeedJobs
  <2>2. PastResults /\ demo.people = DemoUsers /\ runs \in 1 .. MaxRuns
    BY DEF SeedInv, FilledSoFar, PastUsers, PastSocials, PastResults, PastReviews,
           PastMarks, Finished
  <2>3. \A u \in DemoUsers : \E w \in written' : w[1] = u
    BY <2>2, DrawnRows
  <2>4. ~PastMarks' /\ ~Finished'
    BY <2>1 DEF PastUsers, PastSocials, PastResults, PastReviews,
           PastMarks, Finished
  <2> QED
    BY <2>1, <2>2, <2>3, <2>4 DEF SeedInv, FilledSoFar, PastUsers, PastSocials
<1> QED
  BY <1>1, <1>2, <1>3, <1>4, <1>5, <1>6, <1>7 DEF SeedInv

LEMMA SeedRateReviews ==
    ASSUME SeedInv, RateReviews
    PROVE  SeedInv'
<1> USE DEF RateReviews, Recount, Goto, SeedAt
<1>1. SeedTypes'
  BY DEF SeedInv, SeedTypes, SeedJobs, SeedPcs
<1>2. SeedTypeOK'
  BY DEF SeedInv, SeedTypeOK
<1>3. CountedSoFar'
  BY DEF SeedInv, CountedSoFar, CountOf
<1>4. ClearedSoFar'
  BY DEF SeedInv, ClearedSoFar
<1>5. DeletesOnly'
  BY DEF SeedInv, SeedTypes, SeedJobs, DeletesOnly, Clearing
<1>6. FreshTagged'
  BY DEF SeedInv, FreshTagged
<1>7. FilledSoFar'
  BY DEF SeedInv, FilledSoFar, PastUsers, PastSocials, PastResults, PastReviews, PastMarks,
           Finished
<1> QED
  BY <1>1, <1>2, <1>3, <1>4, <1>5, <1>6, <1>7 DEF SeedInv

LEMMA SeedCreateBookmarks ==
    ASSUME SeedInv, NEW d \in Draws, CreateBookmarks(d)
    PROVE  SeedInv'
<1> USE DEF CreateBookmarks, Goto, SeedAt
<1>1. SeedTypes'
  <2>1. demo' \in SeedRows
    BY DrawnRows DEF SeedInv, SeedTypes, SeedRows
  <2>2. job' \in SeedJobs
    BY DEF SeedInv, SeedTypes, SeedJobs, SeedPcs
  <2> QED
    BY <2>1, <2>2 DEF SeedInv, SeedTypes
<1>2. SeedTypeOK'
  BY DrawnRows DEF SeedInv, SeedTypes, SeedRows, SeedTypeOK
<1>3. CountedSoFar'
  BY DEF SeedInv, CountedSoFar, CountOf
<1>4. ClearedSoFar'
  BY DEF SeedInv, ClearedSoFar
<1>5. DeletesOnly'
  BY DEF SeedInv, SeedTypes, SeedJobs, DeletesOnly, Clearing
<1>6. FreshTagged'
  BY DEF SeedInv, FreshTagged
<1>7. FilledSoFar'
  <2>1. job'.pc = "route" /\ job'.mode = job.mode
    BY DEF SeedInv, SeedTypes, SeedJobs
  <2>2. PastReviews /\ PastResults /\ PastSocials /\ PastUsers
    BY DEF PastUsers, PastSocials, PastResults, PastReviews,
           PastMarks, Finished
  <2>3. demo' = [demo EXCEPT !.marks = demo.marks \cup Drawn(d)]
    OBVIOUS
  <2>4. /\ demo'.people = demo.people /\ demo'.socials = demo.socials
        /\ demo'.results = demo.results /\ demo'.marks = demo.marks \cup Drawn(d)
    BY <2>3 DEF SeedInv, SeedTypes, SeedRows
  <2>5. \A u \in DemoUsers : \E w \in demo'.marks : w[1] = u
    BY <2>2, <2>4, DrawnRows DEF SeedInv, FilledSoFar
  <2>6. ~Finished'
    BY <2>1 DEF Finished
  <2> QED
    BY <2>1, <2>2, <2>4, <2>5, <2>6 DEF SeedInv, FilledSoFar
<1> QED
  BY <1>1, <1>2, <1>3, <1>4, <1>5, <1>6, <1>7 DEF SeedInv

LEMMA SeedCreateRoute ==
    ASSUME SeedInv, CreateRoute
    PROVE  SeedInv'
<1> USE DEF CreateRoute, Goto, SeedAt
<1>1. SeedTypes'
  <2>1. tours' \in [1 .. MaxRuns -> Tours]
    BY RouteTyped DEF SeedInv, SeedTypes, Tours
  <2>2. job' \in SeedJobs
    BY DEF SeedInv, SeedTypes, SeedJobs, SeedPcs
  <2> QED
    BY <2>1, <2>2 DEF SeedInv, SeedTypes
<1>2. SeedTypeOK'
  BY DEF SeedInv, SeedTypeOK
<1>3. CountedSoFar'
  BY DEF SeedInv, CountedSoFar, CountOf
<1>4. ClearedSoFar'
  BY DEF SeedInv, ClearedSoFar
<1>5. DeletesOnly'
  BY DEF SeedInv, SeedTypes, SeedJobs, DeletesOnly, Clearing
<1>6. FreshTagged'
  BY DEF SeedInv, FreshTagged
<1>7. FilledSoFar'
  BY DEF SeedInv, FilledSoFar, PastUsers, PastSocials, PastResults, PastReviews, PastMarks,
           Finished
<1> QED
  BY <1>1, <1>2, <1>3, <1>4, <1>5, <1>6, <1>7 DEF SeedInv

LEMMA SeedCreateStops ==
    ASSUME SeedInv, NEW s \in (SUBSET SeedPlaces) \ {{}}, CreateStops(s)
    PROVE  SeedInv'
<1> USE DEF CreateStops, Goto, SeedAt
<1>1. SeedTypes'
  <2>1. tours' \in [1 .. MaxRuns -> Tours]
    BY RouteTyped DEF SeedInv, SeedTypes, Tours
  <2>2. job' \in SeedJobs
    BY DEF SeedInv, SeedTypes, SeedJobs, SeedPcs
  <2> QED
    BY <2>1, <2>2 DEF SeedInv, SeedTypes
<1>2. SeedTypeOK'
  BY DEF SeedInv, SeedTypeOK
<1>3. CountedSoFar'
  BY DEF SeedInv, CountedSoFar, CountOf
<1>4. ClearedSoFar'
  BY DEF SeedInv, ClearedSoFar
<1>5. DeletesOnly'
  BY DEF SeedInv, SeedTypes, SeedJobs, DeletesOnly, Clearing
<1>6. FreshTagged'
  BY DEF SeedInv, FreshTagged
<1>7. FilledSoFar'
  BY DEF SeedInv, FilledSoFar, PastUsers, PastSocials, PastResults, PastReviews, PastMarks,
           Finished
<1> QED
  BY <1>1, <1>2, <1>3, <1>4, <1>5, <1>6, <1>7 DEF SeedInv

LEMMA SeedCreateLikes ==
    ASSUME SeedInv, NEW l \in SUBSET DemoUsers, CreateLikes(l)
    PROVE  SeedInv'
<1> USE DEF CreateLikes, Goto, SeedAt
<1>1. SeedTypes'
  <2>1. tours' \in [1 .. MaxRuns -> Tours]
    BY RouteTyped DEF SeedInv, SeedTypes, Tours
  <2>2. job' \in SeedJobs
    BY DEF SeedInv, SeedTypes, SeedJobs, SeedPcs
  <2> QED
    BY <2>1, <2>2 DEF SeedInv, SeedTypes
<1>2. SeedTypeOK'
  BY DEF SeedInv, SeedTypeOK
<1>3. CountedSoFar'
  BY DEF SeedInv, CountedSoFar, CountOf
<1>4. ClearedSoFar'
  BY DEF SeedInv, ClearedSoFar
<1>5. DeletesOnly'
  BY DEF SeedInv, SeedTypes, SeedJobs, DeletesOnly, Clearing
<1>6. FreshTagged'
  BY DEF SeedInv, FreshTagged
<1>7. FilledSoFar'
  BY DEF SeedInv, FilledSoFar, PastUsers, PastSocials, PastResults, PastReviews, PastMarks,
           Finished
<1> QED
  BY <1>1, <1>2, <1>3, <1>4, <1>5, <1>6, <1>7 DEF SeedInv

LEMMA SeedCountLikes ==
    ASSUME SeedInv, CountLikes
    PROVE  SeedInv'
<1> USE DEF CountLikes, Goto, SeedAt
<1>1. SeedTypes'
  <2>1. tours' \in [1 .. MaxRuns -> Tours]
    BY RouteTyped, LikesFinite DEF SeedInv, SeedTypes, Tours
  <2>2. job' \in SeedJobs
    BY DEF SeedInv, SeedTypes, SeedJobs, SeedPcs
  <2> QED
    BY <2>1, <2>2 DEF SeedInv, SeedTypes
<1>2. SeedTypeOK'
  BY DEF SeedInv, SeedTypeOK
<1>3. CountedSoFar'
  BY DEF SeedInv, CountedSoFar, CountOf
<1>4. ClearedSoFar'
  BY DEF SeedInv, SeedTypes, SeedJobs, ClearedSoFar, DeletesOnly, Clearing
<1>5. DeletesOnly'
  BY DEF SeedInv, SeedTypes, SeedJobs, DeletesOnly, Clearing
<1>6. FreshTagged'
  BY DEF SeedInv, FreshTagged
<1>7. FilledSoFar'
  BY DEF SeedInv, SeedTypes, SeedJobs, FilledSoFar, PastUsers, PastSocials, PastResults,
           PastReviews, PastMarks, Finished
<1> QED
  BY <1>1, <1>2, <1>3, <1>4, <1>5, <1>6, <1>7 DEF SeedInv

LEMMA SeedCrashRun ==
    ASSUME SeedInv, CrashRun
    PROVE  SeedInv'
<1> USE DEF CrashRun, Goto, SeedAt
<1>1. SeedTypes'
  <2>1. job' \in SeedJobs
    BY DEF SeedInv, SeedTypes, SeedJobs, SeedPcs
  <2>2. lost' \subseteq SeedPlaces /\ crashes' \in Nat
    BY DEF SeedInv, SeedTypes, SeedJobs
  <2> QED
    BY <2>1, <2>2 DEF SeedInv, SeedTypes
<1>2. SeedTypeOK'
  BY DEF SeedInv, SeedTypeOK
<1>3. CountedSoFar'
  BY DEF SeedInv, CountedSoFar, CountOf
<1>4. ClearedSoFar'
  BY DEF SeedInv, ClearedSoFar
<1>5. DeletesOnly'
  BY DEF SeedInv, SeedTypes, SeedJobs, DeletesOnly, Clearing
<1>6. FreshTagged'
  BY DEF SeedInv, SeedTypes, SeedJobs, FreshTagged
<1>7. FilledSoFar'
  BY DEF SeedInv, FilledSoFar, PastUsers, PastSocials, PastResults, PastReviews, PastMarks,
           Finished
<1> QED
  BY <1>1, <1>2, <1>3, <1>4, <1>5, <1>6, <1>7 DEF SeedInv

LEMMA SeedRealReview ==
    ASSUME SeedInv, NEW u \in RealUsers, NEW p \in SeedPlaces, RealReview(u, p)
    PROVE  SeedInv'
<1> USE DEF RealReview, Goto, SeedAt
<1>1. SeedTypes'
  <2>1. shown' = [q \in SeedPlaces |-> shown'[q]]
    BY DEF SeedInv, SeedTypes
  <2>2. written' \subseteq (DemoUsers \cup RealUsers) \X SeedPlaces
    BY DEF SeedInv, SeedTypes
  <2>3. lost' \subseteq SeedPlaces
    BY DEF SeedInv, SeedTypes
  <2> QED
    BY <2>1, <2>2, <2>3 DEF SeedInv, SeedTypes
<1>2. SeedTypeOK'
  BY DEF SeedInv, SeedTypeOK
<1>3. CountedSoFar'
  <2>1. CountOf(p)' = shown'[p]
    BY DEF SeedInv, SeedTypes, CountOf
  <2>2. \A q \in SeedPlaces \ {p} : {w \in written' : w[2] = q} = {w \in written : w[2] = q}
    OBVIOUS
  <2>3. \A q \in SeedPlaces \ {p} : CountOf(q)' = CountOf(q) /\ shown'[q] = shown[q]
    BY <2>2 DEF SeedInv, SeedTypes, CountOf
  <2> QED
    BY <2>1, <2>3 DEF SeedInv, CountedSoFar
<1>4. ClearedSoFar'
  <2>1. \A w \in written' : w[1] \in DemoUsers => w \in written
    BY SeedAssumption
  <2> QED
    BY <2>1 DEF SeedInv, ClearedSoFar
<1>5. DeletesOnly'
  BY DEF SeedInv, SeedTypes, SeedJobs, DeletesOnly, Clearing
<1>6. FreshTagged'
  BY DEF SeedInv, FreshTagged
<1>7. FilledSoFar'
  <2>1. \A w \in written : w[1] \in DemoUsers => w \in written'
    BY SeedAssumption
  <2>2. ASSUME PastReviews, NEW v \in DemoUsers
        PROVE  \E w \in written' : w[1] = v
    BY <2>1, <2>2 DEF SeedInv, FilledSoFar
  <2>3. UNCHANGED <<PastUsers, PastSocials, PastResults, PastReviews, PastMarks, Finished>>
    BY DEF PastUsers, PastSocials, PastResults, PastReviews,
           PastMarks, Finished
  <2> QED
    BY <2>2, <2>3 DEF SeedInv, FilledSoFar
<1> QED
  BY <1>1, <1>2, <1>3, <1>4, <1>5, <1>6, <1>7 DEF SeedInv

LEMMA SeedStutters == SeedInv /\ UNCHANGED seedVars => SeedInv'
<1> SUFFICES ASSUME SeedInv, UNCHANGED seedVars PROVE SeedInv'
  OBVIOUS
<1> USE DEF seedVars
<1>1. SeedTypes' /\ SeedTypeOK'
  BY DEF SeedInv, SeedTypes, SeedTypeOK
<1>2. CountedSoFar'
  BY DEF SeedInv, CountedSoFar, CountOf, SeedAt
<1>3. ClearedSoFar' /\ DeletesOnly' /\ FreshTagged'
  BY DEF SeedInv, ClearedSoFar, DeletesOnly, Clearing, FreshTagged, SeedAt
<1>4. FilledSoFar'
  BY DEF SeedInv, FilledSoFar, SeedAt, PastUsers, PastSocials, PastResults, PastReviews,
         PastMarks, Finished
<1> QED
  BY <1>1, <1>2, <1>3, <1>4 DEF SeedInv

LEMMA SeedInvStep == SeedInv /\ [SeedNext]_seedVars => SeedInv'
<1> SUFFICES ASSUME SeedInv, [SeedNext]_seedVars PROVE SeedInv'
  OBVIOUS
<1>1. ASSUME NEW mode \in {"seed", "clear", "delete"}, BeginRun(mode) PROVE SeedInv'
  BY <1>1, SeedBegin
<1>2. CASE ClearTours
  BY <1>2, SeedClearTours
<1>3. CASE ClearUsers
  BY <1>3, SeedClearUsers
<1>4. CASE ClearCount
  BY <1>4, SeedClearCount
<1>5. CASE LoadTypes
  BY <1>5, SeedLoadTypes
<1>6. ASSUME NEW u \in DemoUsers, CreateUser(u) \/ CreateSocial(u) \/ CreatePreference(u)
      PROVE  SeedInv'
  BY <1>6, SeedCreateUser, SeedCreateSocial, SeedCreatePreference
<1>7. CASE TagUser
  BY <1>7, SeedTagUser
<1>8. CASE EndLoop
  BY <1>8, SeedEndLoop
<1>9. ASSUME NEW f \in FollowDraws, CreateFollows(f) PROVE SeedInv'
  BY <1>9, SeedCreateFollows
<1>10. ASSUME NEW d \in Draws, CreateReviews(d) \/ CreateBookmarks(d) PROVE SeedInv'
  BY <1>10, SeedCreateReviews, SeedCreateBookmarks
<1>11. CASE RateReviews
  BY <1>11, SeedRateReviews
<1>12. CASE CreateRoute
  BY <1>12, SeedCreateRoute
<1>13. ASSUME NEW s \in (SUBSET SeedPlaces) \ {{}}, CreateStops(s) PROVE SeedInv'
  BY <1>13, SeedCreateStops
<1>14. ASSUME NEW l \in SUBSET DemoUsers, CreateLikes(l) PROVE SeedInv'
  BY <1>14, SeedCreateLikes
<1>15. CASE CountLikes
  BY <1>15, SeedCountLikes
<1>16. CASE CrashRun
  BY <1>16, SeedCrashRun
<1>17. ASSUME NEW u \in RealUsers, NEW p \in SeedPlaces, RealReview(u, p) PROVE SeedInv'
  BY <1>17, SeedRealReview
<1>18. CASE UNCHANGED seedVars
  BY <1>18, SeedStutters
<1> QED
  BY <1>1, <1>2, <1>3, <1>4, <1>5, <1>6, <1>7, <1>8, <1>9, <1>10, <1>11, <1>12, <1>13, <1>14,
     <1>15, <1>16, <1>17, <1>18 DEF SeedNext

\* Whatever dies when, the rows of demo users belong to demo users that exist.
THEOREM SeedTypesKept == SeedSpec => []SeedTypeOK
<1>1. SeedInv => SeedTypeOK
  BY DEF SeedInv
<1> QED
  BY <1>1, SeedInvInit, SeedInvStep, PTL DEF SeedSpec

LEMMA SeedInvCounts == SeedInv => RatingsCounted
<1> SUFFICES ASSUME SeedInv, NEW p \in SeedPlaces \ (job.touched \cup lost)
             PROVE  shown[p] = Cardinality({w \in written : w[2] = p})
  BY DEF RatingsCounted
<1> QED
  BY DEF SeedInv, CountedSoFar, CountOf

LEMMA SeedInvComplete == SeedInv => RunComplete
<1> SUFFICES ASSUME SeedInv, SeedAt("done")
             PROVE  IF job.mode = "delete" THEN demo = NoRows /\ tours = NoTours
                    ELSE /\ \A u \in DemoUsers :
                              /\ u \in demo.people \cap demo.socials \cap demo.results
                              /\ \E w \in written : w[1] = u
                              /\ \E w \in demo.marks : w[1] = u
                              /\ crashes = 0 => u \in demo.tagged
                         /\ tours[runs].counted = Cardinality(tours[runs].likes)
  BY DEF RunComplete
<1>1. CASE job.mode = "delete"
  BY <1>1 DEF SeedInv, ClearedSoFar
<1>2. CASE job.mode # "delete"
  <2>1. /\ PastUsers /\ PastSocials /\ PastResults /\ PastReviews /\ PastMarks /\ Finished
        /\ ~SeedAt("users")
    BY <1>2 DEF SeedAt, PastUsers, PastSocials, PastResults, PastReviews,
           PastMarks, Finished
  <2>2. crashes = 0 => DemoUsers \subseteq demo.tagged
    BY <2>1 DEF SeedInv, FilledSoFar, FreshTagged
  <2> QED
    BY <1>2, <2>1, <2>2 DEF SeedInv, FilledSoFar
<1> QED
  BY <1>1, <1>2

\* A run that ends leaves every demo user whole and every rating counted but
\* those that a dead run left behind, for any users, places and draws
\* (seed_demo_data.py:8, :131 and :220).
THEOREM SeedAlwaysSound == SeedSpec => []SeedSound
<1>1. SeedInv => SeedSound
  BY SeedInvCounts, SeedInvComplete DEF SeedSound
<1> QED
  BY <1>1, SeedInvInit, SeedInvStep, PTL DEF SeedSpec

--------------------------------------------------------------------------------
(* Followers *)

(***************************************************************************)
(* A cursor is the creation time of the last row of a page. FollowInv says *)
(* that all who are older than the cursor are still to come and that       *)
(* nobody else is.                                                         *)
(***************************************************************************)

Sides == {"followers", "following"}
AskNames == People \cup {"nobody"}
Readers == [at : {"idle", "next", "end"}, of : AskNames, side : Sides, cursor : 0 .. clock,
            seen : SUBSET People, twice : SUBSET People, steady : SUBSET People]

FollowTypes ==
    /\ account \in [People -> {"active", "withdrawn", "gone"}]
    /\ follows \subseteq [from : People, to : People, at : 1 .. clock]
    /\ IsFiniteSet(follows)
    /\ clock \in Nat
    /\ ask \in [Clicks -> [from : AskNames, to : AskNames]]
    /\ \A c \in Clicks :
          ask[c] # NoAsk =>
              ask[c].from \in People /\ ask[c].to \in People /\ ask[c].from # ask[c].to
    /\ reader \in Readers

\* What the reader has still to see shows nobody again, and everybody who was
\* there all along and was not shown yet is among it.
Rest == After(reader.of, reader.side)
ScrollInv ==
    /\ reader.cursor = 0 => reader.seen = {}
    /\ \A g \in Rest : Shows(g, reader.side) \notin reader.seen
    /\ reader.steady \subseteq reader.seen \cup {Shows(g, reader.side) : g \in Rest}
    /\ EachSeenOnce

FollowInv == FollowTypes /\ FollowTypeOK /\ ScrollInv

-----------------------------------------------------------------------------
LEMMA FollowInvInit == FollowInit => FollowInv
<1> SUFFICES ASSUME FollowInit PROVE FollowInv
  OBVIOUS
<1>1. FollowTypes
  BY FS_EmptySet DEF FollowInit, FollowTypes, Readers, AskNames, Sides, NoAsk, NoReader
<1>2. FollowTypeOK
  BY DEF FollowInit, FollowTypeOK
<1>3. ScrollInv
  BY DEF FollowInit, ScrollInv, Rest, After, Rows, NoReader, EachSeenOnce
<1> QED
  BY <1>1, <1>2, <1>3 DEF FollowInv

LEMMA FollowChecks ==
    ASSUME FollowInv, NEW c \in Clicks, NEW from \in People, NEW to \in People,
           CheckTarget(c, from, to)
    PROVE  FollowInv'
<1> USE DEF CheckTarget
<1>1. FollowTypes'
  BY DEF FollowInv, FollowTypes, AskNames, NoAsk, Readers
<1>2. FollowTypeOK'
  BY DEF FollowInv, FollowTypeOK
<1>3. ScrollInv'
  BY DEF FollowInv, ScrollInv, Rest, After, Rows, InList, EachSeenOnce
<1> QED
  BY <1>1, <1>2, <1>3 DEF FollowInv

\* A withdrawal and its reversal change nothing that the lists depend on.
LEMMA FollowAccount ==
    ASSUME FollowInv, NEW u \in People, account[u] # "gone",
           NEW state \in {"active", "withdrawn"},
           account' = [account EXCEPT ![u] = state],
           UNCHANGED <<follows, clock, ask, reader>>
    PROVE  FollowInv'
<1>1. FollowTypes'
  BY DEF FollowInv, FollowTypes, AskNames, NoAsk, Readers
<1>2. FollowTypeOK'
  <2>1. \A f \in follows : f.from \in People /\ f.to \in People
    BY DEF FollowInv, FollowTypes
  <2>2. \A v \in People : account'[v] = "gone" <=> account[v] = "gone"
    BY DEF FollowInv, FollowTypes
  <2> QED
    BY <1>1, <2>1, <2>2 DEF FollowInv, FollowTypeOK, FollowTypes
<1>3. ScrollInv'
  BY DEF FollowInv, ScrollInv, Rest, After, Rows, InList, EachSeenOnce
<1> QED
  BY <1>1, <1>2, <1>3 DEF FollowInv

\* A new row is newer than every row that was shown.
LEMMA FollowCreates ==
    ASSUME FollowInv, NEW c \in Clicks, CreateFollow(c)
    PROVE  FollowInv'
<1> DEFINE new == [from |-> ask[c].from, to |-> ask[c].to, at |-> clock + 1]
<1>1. /\ follows' = Inserted(new)
      /\ clock' = IF follows' = follows THEN clock ELSE clock + 1
      /\ ask' = [ask EXCEPT ![c] = NoAsk]
      /\ UNCHANGED <<account, reader>>
  BY DEF CreateFollow
<1>2. /\ new \in [from : People, to : People, at : 1 .. (clock + 1)]
      /\ new.from # new.to /\ new.at = clock + 1
  BY DEF CreateFollow, FollowInv, FollowTypes
<1>3. clock' \in Nat /\ clock <= clock'
  BY <1>1 DEF FollowInv, FollowTypes
<1>4. reader' \in Readers' /\ ask' \in [Clicks -> [from : AskNames, to : AskNames]]
  BY <1>1, <1>3 DEF FollowInv, FollowTypes, Readers, AskNames, Sides, NoAsk
<1>5. \A d \in Clicks : ask'[d] # NoAsk =>
         ask'[d].from \in People /\ ask'[d].to \in People /\ ask'[d].from # ask'[d].to
  BY <1>1 DEF FollowInv, FollowTypes
<1>6. CASE follows' = follows
  <2>1. FollowTypes'
    BY <1>1, <1>4, <1>5, <1>6 DEF FollowInv, FollowTypes
  <2>2. FollowTypeOK'
    BY <1>1, <1>6 DEF FollowInv, FollowTypeOK
  <2>3. ScrollInv'
    BY <1>1, <1>6 DEF FollowInv, ScrollInv, Rest, After, Rows, InList, EachSeenOnce
  <2> QED
    BY <2>1, <2>2, <2>3 DEF FollowInv
<1>7. CASE follows' # follows
  <2>1. /\ follows' = follows \cup {new} /\ clock' = clock + 1
        /\ \A g \in follows : Pair(g) # Pair(new)
        /\ account[new.from] # "gone" /\ account[new.to] # "gone"
    BY <1>1, <1>7 DEF Inserted
  <2> HIDE DEF new
  <2>2. FollowTypes'
    <3>1. follows' \subseteq [from : People, to : People, at : 1 .. clock']
      BY <1>2, <2>1 DEF FollowInv, FollowTypes
    <3>2. IsFiniteSet(follows')
      BY <2>1, FS_AddElement DEF FollowInv, FollowTypes
    <3> QED
      BY <1>1, <1>3, <1>4, <1>5, <3>1, <3>2 DEF FollowInv, FollowTypes
  <2>3. FollowTypeOK'
    BY <1>1, <1>2, <1>3, <2>1 DEF FollowInv, FollowTypes, FollowTypeOK, Pair
  <2>4. ASSUME reader.cursor # 0 PROVE Rest' = Rest
    BY <1>1, <1>2, <2>1, <2>4 DEF FollowInv, FollowTypes, Readers, Rest, After, Rows, InList
  <2>5. Rest \subseteq Rest'
    BY <1>1, <2>1 DEF Rest, After, Rows, InList
  <2>6. ScrollInv'
    BY <1>1, <2>4, <2>5 DEF FollowInv, ScrollInv, EachSeenOnce, Shows
  <2> QED
    BY <2>2, <2>3, <2>6 DEF FollowInv
<1> QED
  BY <1>6, <1>7

\* Rows that go take the members they showed out of those who stayed.
LEMMA FollowDrops ==
    ASSUME FollowInv, NEW gone \in SUBSET follows, Drop(gone), UNCHANGED clock
    PROVE  /\ reader' \in Readers' /\ ScrollInv'
           /\ follows' = follows \ gone /\ IsFiniteSet(follows')
<1> DEFINE left == {Shows(f, reader.side) : f \in {g \in gone : InList(g, reader.of, reader.side)}}
<1>1. /\ follows' = follows \ gone
      /\ reader' = [reader EXCEPT !.steady = reader.steady \ left]
  BY DEF Drop
<1>2. /\ reader' \in Readers' /\ reader'.steady = reader.steady \ left
      /\ reader'.at = reader.at /\ reader'.of = reader.of /\ reader'.side = reader.side
      /\ reader'.cursor = reader.cursor /\ reader'.seen = reader.seen
      /\ reader'.twice = reader.twice
  BY <1>1 DEF FollowInv, FollowTypes, Readers, AskNames
<1>3. Rest' = Rest \ gone
  BY <1>1, <1>2 DEF Rest, After, Rows, InList
<1>4. \A g \in Rest : g \in gone => Shows(g, reader.side) \in left
  BY DEF Rest, After, Rows
<1> HIDE DEF left
<1>5. ScrollInv'
  BY <1>2, <1>3, <1>4 DEF FollowInv, ScrollInv, EachSeenOnce, Shows
<1>6. IsFiniteSet(follows')
  BY <1>1, FS_Subset DEF FollowInv, FollowTypes
<1> QED
  BY <1>1, <1>2, <1>5, <1>6

LEMMA FollowUndone ==
    ASSUME FollowInv, NEW from \in People, NEW to \in People, Unfollow(from, to)
    PROVE  FollowInv'
<1>1. PICK f \in follows : Drop({f})
  BY DEF Unfollow
<1>2. UNCHANGED <<account, clock, ask>>
  BY DEF Unfollow
<1>3. /\ reader' \in Readers' /\ ScrollInv'
      /\ follows' = follows \ {f} /\ IsFiniteSet(follows')
  BY <1>1, <1>2, FollowDrops
<1>4. FollowTypes'
  BY <1>2, <1>3 DEF FollowInv, FollowTypes
<1>5. FollowTypeOK'
  BY <1>2, <1>3 DEF FollowInv, FollowTypeOK
<1> QED
  BY <1>3, <1>4, <1>5 DEF FollowInv

LEMMA FollowPurges ==
    ASSUME FollowInv, NEW u \in People, PurgeMember(u)
    PROVE  FollowInv'
<1> DEFINE gone == {f \in follows : u \in {f.from, f.to}}
<1>1. Drop(gone) /\ account' = [account EXCEPT ![u] = "gone"] /\ UNCHANGED <<clock, ask>>
  BY DEF PurgeMember
<1>2. /\ reader' \in Readers' /\ ScrollInv'
      /\ follows' = follows \ gone /\ IsFiniteSet(follows')
  BY <1>1, FollowDrops
<1>3. FollowTypes'
  BY <1>1, <1>2 DEF FollowInv, FollowTypes
<1>4. FollowTypeOK'
  BY <1>1, <1>2 DEF FollowInv, FollowTypes, FollowTypeOK
<1> QED
  BY <1>2, <1>3, <1>4 DEF FollowInv

LEMMA FollowOpens ==
    ASSUME FollowInv, NEW u \in Owners, NEW side \in Sides, OpenList(u, side)
    PROVE  FollowInv'
<1>1. /\ reader' = [at |-> "next", of |-> u, side |-> side, cursor |-> 0, seen |-> {},
                    twice |-> {}, steady |-> Shown(u, side)]
      /\ UNCHANGED <<account, follows, clock, ask>>
  BY DEF OpenList, NoReader
<1>2. Shown(u, side) \subseteq People
  BY DEF FollowInv, FollowTypes, Shown, Shows, Rows
<1>3. FollowTypes'
  BY <1>1, <1>2, FollowAssumption DEF FollowInv, FollowTypes, Readers, AskNames
<1>4. FollowTypeOK'
  BY <1>1 DEF FollowInv, FollowTypeOK
<1>5. Rest' = Rows(u, side)
  BY <1>1 DEF Rest, After, Rows, InList
<1>6. ScrollInv'
  BY <1>1, <1>5 DEF ScrollInv, EachSeenOnce, Shown
<1> QED
  BY <1>3, <1>4, <1>6 DEF FollowInv

-----------------------------------------------------------------------------
\* A set of numbers that is not empty has a smallest one.
LEMMA SmallestTime ==
    ASSUME NEW T \in SUBSET Nat, T # {}
    PROVE  \E t \in T : \A s \in T : t <= s
<1>1. PICK t \in T : \A s \in T : ~(<<s, t>> \in OpToRel(<, Nat))
  BY WFMin, NatLessThanWellFounded
<1>2. ASSUME NEW s \in T PROVE t <= s
  <2>1. s < t => <<s, t>> \in OpToRel(<, Nat)
    BY DEF OpToRel
  <2>2. ~(s < t)
    BY <1>1, <2>1, Zenon
  <2> QED
    BY <2>2
<1> QED
  BY <1>2

\* The rows that a page leaves behind are older than all rows on it.
LEMMA PageCuts ==
    ASSUME NEW rows, IsFiniteSet(rows), \A f \in rows : f.at \in Nat,
           NEW f \in rows \ Newest(rows), NEW h \in Newest(rows)
    PROVE  f.at < h.at
<1> SUFFICES ASSUME f.at >= h.at PROVE FALSE
  BY DEF Newest
<1>1. NewerThan(f, rows) \subseteq NewerThan(h, rows)
  BY DEF NewerThan, Newest
<1>2. IsFiniteSet(NewerThan(h, rows)) /\ IsFiniteSet(NewerThan(f, rows))
  BY FS_Subset DEF NewerThan
<1>3. Cardinality(NewerThan(f, rows)) <= Cardinality(NewerThan(h, rows))
  BY <1>1, <1>2, FS_Subset
<1>4. Cardinality(NewerThan(f, rows)) \in Nat /\ Cardinality(NewerThan(h, rows)) \in Nat
  BY <1>2, FS_CardinalityType
<1> QED
  BY <1>3, <1>4, FollowAssumption DEF Newest

LEMMA FollowReads ==
    ASSUME FollowInv, ReadPage
    PROVE  FollowInv'
<1> DEFINE page == Newest(Rest)
           times == {f.at : f \in page}
           oldest == CHOOSE t \in times : \A f \in page : t <= f.at
<1>1. /\ reader' = IF ~Active(reader.of) THEN NoReader
                   ELSE [reader EXCEPT !.at = IF Rest = page THEN "end" ELSE "next",
                                       !.cursor = IF page = {} THEN reader.cursor ELSE oldest,
                                       !.seen = reader.seen \cup ShownOn(page),
                                       !.twice = reader.twice \cup SeenAgain(page)]
      /\ UNCHANGED <<account, follows, clock, ask>>
  BY DEF ReadPage, Rest
<1>2. FollowTypeOK'
  BY <1>1 DEF FollowInv, FollowTypeOK
<1>3. CASE ~Active(reader.of)
  <2>1. reader' = NoReader
    BY <1>1, <1>3
  <2>2. FollowTypes'
    <3>1. NoReader \in Readers
      BY DEF FollowInv, FollowTypes, Readers, NoReader, AskNames, Sides
    <3> QED
      BY <1>1, <2>1, <3>1 DEF FollowInv, FollowTypes, Readers, AskNames
  <2>3. ScrollInv'
    BY <2>1 DEF ScrollInv, EachSeenOnce, NoReader
  <2> QED
    BY <1>2, <2>2, <2>3 DEF FollowInv
<1>4. CASE Active(reader.of)
  <2> SUFFICES ASSUME Active(reader.of) PROVE FollowInv'
    BY <1>4
  <2>1. /\ Rest \subseteq follows /\ page \subseteq Rest /\ IsFiniteSet(Rest)
        /\ \A f \in Rest : f.at \in 1 .. clock /\ Shows(f, reader.side) \in People
    BY FS_Subset DEF FollowInv, FollowTypes, Rest, After, Rows, Newest, Shows
  <2>2. ASSUME page # {}
        PROVE  oldest \in times /\ oldest \in 1 .. clock /\ \A f \in page : oldest <= f.at
    <3>1. times \subseteq Nat /\ times \subseteq 1 .. clock /\ times # {}
      BY <2>1, <2>2
    <3>2. PICK t \in times : \A s \in times : t <= s
      BY <3>1, SmallestTime
    <3>3. \A f \in page : t <= f.at
      BY <3>2
    <3> QED
      BY <3>1, <3>2, <3>3
  <2>3. reader \in Readers
    BY DEF FollowInv, FollowTypes
  <2>4. /\ reader'.at = IF Rest = page THEN "end" ELSE "next"
        /\ reader'.of = reader.of /\ reader'.side = reader.side
        /\ reader'.cursor = IF page = {} THEN reader.cursor ELSE oldest
        /\ reader'.seen = reader.seen \cup ShownOn(page)
        /\ reader'.twice = reader.twice \cup SeenAgain(page)
        /\ reader'.steady = reader.steady
    BY <1>1, <2>3 DEF Readers
  <2>5. ShownOn(page) \subseteq People /\ SeenAgain(page) \subseteq People
    BY <2>1 DEF ShownOn, SeenAgain
  <2>6. reader'.cursor \in 0 .. clock
    BY <2>2, <2>3, <2>4 DEF Readers
  <2>7. FollowTypes'
    <3>1. reader' \in Readers
      BY <1>1, <2>3, <2>4, <2>5, <2>6 DEF Readers
    <3> QED
      BY <1>1, <3>1 DEF FollowInv, FollowTypes, Readers, AskNames
  \* Nobody on the page was shown before, or is on it twice.
  <2>8. SeenAgain(page) = {}
    <3>1. \A f, g \in Rest : Shows(f, reader.side) = Shows(g, reader.side) => f = g
      BY <2>1 DEF FollowInv, FollowTypeOK, Rest, After, Rows, InList, Shows, Pair
    <3>2. \A f \in page : Shows(f, reader.side) \notin reader.seen
      BY <2>1 DEF FollowInv, ScrollInv
    <3> QED
      BY <2>1, <3>1, <3>2 DEF SeenAgain, ShownOn
  <2>9. Rest' = Rest \ page
    <3>1. Rest' = {f \in Rows(reader.of, reader.side) : reader'.cursor = 0 \/ f.at < reader'.cursor}
      BY <1>1, <2>4 DEF Rest, After, Rows, InList
    <3>2. CASE page = {}
      BY <2>4, <3>1, <3>2 DEF Rest, After
    <3>3. CASE page # {}
      <4>1. PICK h \in page : h.at = oldest
        BY <2>2, <3>3
      <4>2. ASSUME NEW f \in Rest \ page PROVE f.at < oldest
        <5>1. \A g \in Rest : g.at \in Nat
          BY <2>1
        <5>2. f.at < h.at
          BY <2>1, <5>1, PageCuts
        <5> QED
          BY <4>1, <5>2
      <4>3. oldest \in Nat /\ \A f \in page : oldest <= f.at
        BY <2>2, <3>3
      <4> HIDE DEF page, oldest
      <4>4. \A f \in page : ~(f.at < oldest)
        BY <2>1, <4>3
      <4>5. ASSUME NEW f \in Rows(reader.of, reader.side), f.at < oldest PROVE f \in Rest
        <5>1. h \in Rest /\ h.at = oldest
          BY <2>1, <4>1
        <5>2. reader.cursor = 0 \/ oldest < reader.cursor
          BY <5>1 DEF Rest, After
        <5>3. f.at \in Nat /\ reader.cursor \in Nat
          BY <2>3 DEF FollowInv, FollowTypes, Readers, Rows
        <5> QED
          BY <4>3, <4>5, <5>2, <5>3 DEF Rest, After
      <4>6. reader'.cursor = oldest /\ oldest # 0
        BY <2>2, <2>4, <3>3
      <4> QED
        BY <2>1, <3>1, <4>2, <4>4, <4>5, <4>6 DEF Rest, After
    <3> QED
      BY <3>2, <3>3
  <2>10. ScrollInv'
    <3> HIDE DEF page, oldest
    <3>1. reader'.cursor = 0 => reader'.seen = {}
      <4>1. reader'.cursor = 0 => page = {} /\ reader.cursor = 0
        BY <2>2, <2>4
      <4> QED
        BY <2>4, <4>1 DEF FollowInv, ScrollInv, ShownOn
    <3>2. \A g \in Rest' : Shows(g, reader.side) \notin reader'.seen
      <4>1. \A f, g \in Rest : Shows(f, reader.side) = Shows(g, reader.side) => f = g
        BY <2>1 DEF FollowInv, FollowTypeOK, Rest, After, Rows, InList, Shows, Pair
      <4> QED
        BY <2>1, <2>4, <2>9, <4>1 DEF FollowInv, ScrollInv, ShownOn
    <3>3. reader'.steady \subseteq reader'.seen \cup {Shows(g, reader.side) : g \in Rest'}
      BY <2>4, <2>9 DEF FollowInv, ScrollInv, ShownOn
    <3>4. EachSeenOnce'
      BY <2>4, <2>8, <2>9, <3>3 DEF FollowInv, ScrollInv, EachSeenOnce
    <3> QED
      BY <2>4, <3>1, <3>2, <3>3, <3>4 DEF ScrollInv, Shows
  <2> QED
    BY <1>2, <2>7, <2>10 DEF FollowInv
<1> QED
  BY <1>3, <1>4
-----------------------------------------------------------------------------
LEMMA FollowStutters == FollowInv /\ UNCHANGED followVars => FollowInv'
<1> SUFFICES ASSUME FollowInv, UNCHANGED followVars PROVE FollowInv'
  OBVIOUS
<1>1. FollowTypes' /\ FollowTypeOK'
  BY DEF FollowInv, FollowTypes, FollowTypeOK, followVars, Readers, AskNames
<1>2. ScrollInv'
  BY DEF FollowInv, ScrollInv, Rest, After, Rows, InList, EachSeenOnce, followVars
<1> QED
  BY <1>1, <1>2 DEF FollowInv

LEMMA FollowInvStep == FollowInv /\ [FollowNext]_followVars => FollowInv'
<1> SUFFICES ASSUME FollowInv, [FollowNext]_followVars PROVE FollowInv'
  OBVIOUS
<1>1. ASSUME NEW c \in Clicks, CreateFollow(c) PROVE FollowInv'
  BY <1>1, FollowCreates
<1>2. ASSUME NEW c \in Clicks, NEW u \in People, NEW v \in People, CheckTarget(c, u, v)
      PROVE  FollowInv'
  BY <1>2, FollowChecks
<1>3. ASSUME NEW u \in People, NEW v \in People, Unfollow(u, v) PROVE FollowInv'
  BY <1>3, FollowUndone
<1>4. ASSUME NEW u \in People, Withdraw(u) \/ Recover(u) PROVE FollowInv'
  BY <1>4, FollowAccount DEF Withdraw, Recover, Active
<1>5. ASSUME NEW u \in People, PurgeMember(u) PROVE FollowInv'
  BY <1>5, FollowPurges
<1>6. ASSUME NEW u \in Owners, NEW side \in Sides, OpenList(u, side) PROVE FollowInv'
  BY <1>6, FollowOpens
<1>7. CASE ReadPage
  BY <1>7, FollowReads
<1>8. CASE UNCHANGED followVars
  BY <1>8, FollowStutters
<1> QED
  BY <1>1, <1>2, <1>3, <1>4, <1>5, <1>6, <1>7, <1>8 DEF FollowNext, Sides

\* Every pair of members follows once, nobody follows himself, and both
\* exist (follow_service.py:24).
THEOREM FollowTypesKept == FollowSpec => []FollowTypeOK
<1>1. FollowInv => FollowTypeOK
  BY DEF FollowInv
<1> QED
  BY <1>1, FollowInvInit, FollowInvStep, PTL DEF FollowSpec

\* Pages behind the creation time show nobody twice and miss nobody who was
\* there all along, for pages of any size (follow_service.py:9).
THEOREM AlwaysSeenOnce == FollowSpec => []EachSeenOnce
<1>1. FollowInv => EachSeenOnce
  BY DEF FollowInv, ScrollInv
<1> QED
  BY <1>1, FollowInvInit, FollowInvStep, PTL DEF FollowSpec

--------------------------------------------------------------------------------
(* The lists of one member *)

(***************************************************************************)
(* A page leaves out as many rows as were on the pages before it, whatever *)
(* they are by then. OwnInv counts what this can still do: the rows that   *)
(* were seen and have been pushed behind the pages read will be shown      *)
(* again, and the rows not seen that have moved up into them are missed.   *)
(***************************************************************************)

\* A list by the creation times of its rows: those before t, and those with at least k and
\* with fewer than k before them.
Ats(l) == {row.at : row \in ownRows[l]}
Ahead(A, t) == {u \in A : u > t}
Beyond(A, k) == {t \in A : Cardinality(Ahead(A, t)) >= k}
Within(A, k) == {t \in A : Cardinality(Ahead(A, t)) < k}

OwnRow == [place : OwnPlaces, at : Nat, changed : Nat]
Scrolls == [pc : {"idle", "asked", "counted", "shown", "ended"}, list : Lists, page : Nat \ {0},
            count : Nat, seen : SUBSET Nat, total : Nat, whole : SUBSET Nat]

OwnTypes ==
    /\ ownRows \in [Lists -> SUBSET OwnRow] /\ present \in BOOLEAN /\ ticks \in Nat
    /\ added \in Nat /\ removed \in Nat /\ scroll \in Scrolls
    /\ \A l \in Lists : /\ IsFiniteSet(ownRows[l]) /\ \A row \in ownRows[l] : row.at <= ticks
                        /\ \A row, other \in ownRows[l] : row.at = other.at => row = other
    /\ IsFiniteSet(scroll.seen) /\ \A t \in scroll.seen : t <= ticks
    /\ IsFiniteSet(scroll.whole) /\ scroll.whole \subseteq Ats(scroll.list)

\* How many rows the pages read so far have left behind.
Passed == (IF scroll.pc = "shown" THEN scroll.page ELSE scroll.page - 1) * OwnPage

\* What may still be shown again are the rows that were seen and have been pushed behind
\* the pages read; what is missed are those that have moved up into them.
Shifts(A, k) ==
    /\ Cardinality(scroll.seen \cap Beyond(A, k)) + scroll.total
          <= Cardinality(scroll.seen) + added
    /\ Cardinality((scroll.whole \ scroll.seen) \cap Within(A, k)) <= removed

OwnInv ==
    /\ OwnTypes
    /\ scroll.pc = "idle" => scroll.seen = {} /\ scroll.total = 0 /\ scroll.whole = {}
    /\ scroll.pc \in {"asked", "counted", "shown"} => Shifts(Ats(scroll.list), Passed)
    /\ scroll.pc = "counted" => /\ Passed <= scroll.count
                                 /\ Cardinality(Ats(scroll.list)) <= scroll.count + added
    /\ scroll.pc = "ended" =>
          /\ scroll.total <= Cardinality(scroll.seen) + added
          /\ Cardinality(scroll.whole \ scroll.seen) <= removed + added

-----------------------------------------------------------------------------
(* Places in a list *)

LEMMA AheadKnown ==
    ASSUME NEW A \in SUBSET Nat, IsFiniteSet(A), NEW t
    PROVE  IsFiniteSet(Ahead(A, t)) /\ Cardinality(Ahead(A, t)) \in Nat
<1>1. Ahead(A, t) \subseteq A
  BY DEF Ahead
<1>2. IsFiniteSet(Ahead(A, t))
  BY <1>1, FS_Subset
<1> QED
  BY <1>2, FS_CardinalityType

\* A later row has fewer before it.
LEMMA LaterFirst ==
    ASSUME NEW A \in SUBSET Nat, IsFiniteSet(A), NEW t \in A, NEW u \in A, t < u
    PROVE  Cardinality(Ahead(A, u)) < Cardinality(Ahead(A, t))
<1>1. Ahead(A, u) \subseteq Ahead(A, t) /\ u \in Ahead(A, t) /\ u \notin Ahead(A, u)
  <2>1. t \in Nat /\ u \in Nat /\ \A w \in A : w \in Nat
    OBVIOUS
  <2>2. \A w \in A : w > u => w > t
    BY <2>1
  <2>3. u > t /\ ~(u > u)
    BY <2>1
  <2> QED
    BY <2>2, <2>3 DEF Ahead
<1>2. IsFiniteSet(Ahead(A, t)) /\ Ahead(A, u) # Ahead(A, t)
  BY <1>1, AheadKnown
<1>3. /\ Cardinality(Ahead(A, u)) <= Cardinality(Ahead(A, t))
      /\ Cardinality(Ahead(A, u)) # Cardinality(Ahead(A, t))
  BY <1>1, <1>2, FS_Subset
<1>4. Cardinality(Ahead(A, u)) \in Nat /\ Cardinality(Ahead(A, t)) \in Nat
  BY AheadKnown
<1> QED
  BY <1>3, <1>4

\* No two rows have the same number of rows before them.
LEMMA OnePlaceEach ==
    ASSUME NEW A \in SUBSET Nat, IsFiniteSet(A), NEW t \in A, NEW u \in A,
           Cardinality(Ahead(A, t)) = Cardinality(Ahead(A, u))
    PROVE  t = u
<1>1. t \in Nat /\ u \in Nat
  OBVIOUS
<1>2. Cardinality(Ahead(A, u)) \in Nat /\ Cardinality(Ahead(A, t)) \in Nat
  BY AheadKnown
<1>3. CASE t < u
  BY <1>2, <1>3, LaterFirst
<1>4. CASE u < t
  BY <1>2, <1>4, LaterFirst
<1> QED
  BY <1>1, <1>3, <1>4

\* At most one row has k rows before it.
LEMMA OneAt ==
    ASSUME NEW A \in SUBSET Nat, IsFiniteSet(A), NEW k
    PROVE  LET P == {t \in A : Cardinality(Ahead(A, t)) = k} IN
           IsFiniteSet(P) /\ Cardinality(P) \in Nat /\ Cardinality(P) <= 1
<1> DEFINE P == {t \in A : Cardinality(Ahead(A, t)) = k}
<1>1. \A t, u \in P : t = u
  BY OnePlaceEach
<1> HIDE DEF P
<1>2. CASE P = {}
  BY <1>2, FS_EmptySet DEF P
<1>3. CASE P # {}
  <2>1. PICK t \in P : TRUE
    BY <1>3
  <2>2. P = {t}
    BY <1>1, <2>1
  <2>3. IsFiniteSet(P) /\ Cardinality(P) = 1
    BY <2>2, FS_Singleton
  <2> QED
    BY <2>3 DEF P
<1> QED
  BY <1>2, <1>3

\* The rows behind the first k.
LEMMA BeyondCounted ==
    ASSUME NEW A \in SUBSET Nat, IsFiniteSet(A), NEW k \in Nat, NEW more \in Nat,
           Cardinality(A) <= k + more
    PROVE  IsFiniteSet(Beyond(A, k)) /\ Cardinality(Beyond(A, k)) <= more
<1> DEFINE B == Beyond(A, k)
           n == Cardinality(A)
           f == [t \in B |-> Cardinality(Ahead(A, t))]
<1>1. B \subseteq A /\ IsFiniteSet(B) /\ n \in Nat
  BY FS_Subset, FS_CardinalityType DEF Beyond
<1>2. \A t \in B : Cardinality(Ahead(A, t)) \in k .. n - 1
  <2>1. SUFFICES ASSUME NEW t \in B PROVE Cardinality(Ahead(A, t)) \in k .. n - 1
    OBVIOUS
  <2>2. t \in A /\ Cardinality(Ahead(A, t)) >= k /\ Cardinality(Ahead(A, t)) \in Nat
    BY AheadKnown DEF Beyond
  <2>3. Ahead(A, t) \subseteq A /\ Ahead(A, t) # A
    BY <2>2 DEF Ahead
  <2>4. Cardinality(Ahead(A, t)) <= n /\ Cardinality(Ahead(A, t)) # n
    BY <2>3, FS_Subset
  <2> HIDE DEF n, B
  <2> QED
    BY <1>1, <2>2, <2>4
<1>3. \A t, u \in B : f[t] = f[u] => t = u
  BY <1>1, OnePlaceEach
<1> HIDE DEF B, n
<1>4. f \in Injection(B, k .. n - 1)
  BY <1>2, <1>3 DEF Injection, IsInjective
<1>5. /\ IsFiniteSet(k .. n - 1)
      /\ Cardinality(k .. n - 1) = IF k > n - 1 THEN 0 ELSE n - 1 - k + 1
  <2>1. k \in Int /\ n - 1 \in Int
    BY <1>1
  <2> QED
    BY <2>1, FS_Interval
<1>6. Cardinality(B) <= Cardinality(k .. n - 1)
  BY <1>4, <1>5, FS_Injection
<1>7. Cardinality(B) \in Nat
  BY <1>1, FS_CardinalityType
<1>8. n <= k + more
  BY DEF n
<1> QED
  BY <1>1, <1>5, <1>6, <1>7, <1>8 DEF B

\* A row that comes in front pushes at most one row behind the first k.
LEMMA FrontGrows ==
    ASSUME NEW A \in SUBSET Nat, IsFiniteSet(A), NEW n \in Nat, \A t \in A : t < n,
           NEW k \in Nat, NEW S, IsFiniteSet(S), n \notin S
    PROVE  /\ Cardinality(S \cap Beyond(A \cup {n}, k)) <= Cardinality(S \cap Beyond(A, k)) + 1
           /\ S \cap Within(A \cup {n}, k) \subseteq S \cap Within(A, k)
<1> DEFINE A2 == A \cup {n}
           P == {t \in A : Cardinality(Ahead(A, t)) = k - 1}
<1>1. ASSUME NEW t \in A PROVE Cardinality(Ahead(A2, t)) = Cardinality(Ahead(A, t)) + 1
  <2>1. Ahead(A2, t) = Ahead(A, t) \cup {n} /\ n \notin Ahead(A, t)
    BY DEF Ahead
  <2> QED
    BY <2>1, AheadKnown, FS_AddElement
<1>2. \A t \in A : Cardinality(Ahead(A, t)) \in Nat
  BY AheadKnown
<1>3. S \cap Beyond(A2, k) \subseteq (S \cap Beyond(A, k)) \cup P
  <2>1. SUFFICES ASSUME NEW t \in A, Cardinality(Ahead(A2, t)) >= k,
                        Cardinality(Ahead(A, t)) # k - 1
                 PROVE  Cardinality(Ahead(A, t)) >= k
    BY DEF Beyond
  <2> QED
    BY <1>1, <1>2, <2>1
<1>4. S \cap Within(A2, k) \subseteq S \cap Within(A, k)
  <2>1. SUFFICES ASSUME NEW t \in A, Cardinality(Ahead(A2, t)) < k
                 PROVE  Cardinality(Ahead(A, t)) < k
    BY DEF Within
  <2> QED
    BY <1>1, <1>2, <2>1
<1>5. IsFiniteSet(P) /\ Cardinality(P) \in Nat /\ Cardinality(P) <= 1
  BY OneAt
<1> HIDE DEF A2, P
<1> DEFINE X == S \cap Beyond(A, k)
           Y == S \cap Beyond(A2, k)
<1>6. IsFiniteSet(X) /\ IsFiniteSet(Y)
  BY FS_Subset
<1>7. Y \subseteq X \cup P
  BY <1>3
<1> HIDE DEF X, Y
<1>8. IsFiniteSet(X \cup P) /\ Cardinality(X \cup P) <= Cardinality(X) + Cardinality(P)
  <2>1. IsFiniteSet(X \cap P) /\ IsFiniteSet(X \cup P)
    BY <1>5, <1>6, FS_Intersection, FS_Union
  <2>2. Cardinality(X \cup P) = Cardinality(X) + Cardinality(P) - Cardinality(X \cap P)
    BY <1>5, <1>6, FS_Union
  <2>3. Cardinality(X) \in Nat /\ Cardinality(X \cap P) \in Nat
    BY <1>6, <2>1, FS_CardinalityType
  <2> QED
    BY <1>5, <2>1, <2>2, <2>3
<1>9. Cardinality(Y) <= Cardinality(X \cup P)
  BY <1>7, <1>8, FS_Subset
<1>10. Cardinality(X) \in Nat /\ Cardinality(Y) \in Nat /\ Cardinality(X \cup P) \in Nat
  BY <1>6, <1>8, FS_CardinalityType
<1>11. Cardinality(Y) <= Cardinality(X) + 1
  BY <1>5, <1>8, <1>9, <1>10
<1> QED
  BY <1>4, <1>11 DEF A2, X, Y

\* A row that goes lets at most one row move up into the first k.
LEMMA OneMovesUp ==
    ASSUME NEW A \in SUBSET Nat, IsFiniteSet(A), NEW d \in A, NEW k \in Nat,
           NEW S, IsFiniteSet(S)
    PROVE  /\ S \cap Beyond(A \ {d}, k) \subseteq S \cap Beyond(A, k)
           /\ Cardinality((S \ {d}) \cap Within(A \ {d}, k))
                 <= Cardinality(S \cap Within(A, k)) + 1
<1> DEFINE A2 == A \ {d}
           P == {t \in A : Cardinality(Ahead(A, t)) = k}
<1>1. ASSUME NEW t \in A2
      PROVE  /\ Cardinality(Ahead(A2, t)) <= Cardinality(Ahead(A, t))
             /\ Cardinality(Ahead(A, t)) <= Cardinality(Ahead(A2, t)) + 1
  <2>1. Ahead(A2, t) = Ahead(A, t) \ {d}
    BY DEF Ahead
  <2>2. IsFiniteSet(Ahead(A, t)) /\ Cardinality(Ahead(A, t)) \in Nat
    BY AheadKnown
  <2>3. CASE d \in Ahead(A, t)
    <3>1. Cardinality(Ahead(A2, t)) = Cardinality(Ahead(A, t)) - 1
      <4>1. Cardinality(Ahead(A, t) \ {d}) = Cardinality(Ahead(A, t)) - 1
        BY <2>2, <2>3, FS_RemoveElement
      <4> QED
        BY <2>1, <4>1, Zenon
    <3> QED
      BY <2>2, <3>1
  <2>4. CASE d \notin Ahead(A, t)
    <3>1. Ahead(A2, t) = Ahead(A, t)
      BY <2>1, <2>4
    <3> QED
      BY <2>2, <3>1
  <2> QED
    BY <2>3, <2>4
<1>2. \A t \in A : Cardinality(Ahead(A, t)) \in Nat
  BY AheadKnown
<1>3. A2 \in SUBSET Nat /\ IsFiniteSet(A2)
  BY FS_Subset
<1>4. \A t \in A2 : Cardinality(Ahead(A2, t)) \in Nat
  BY <1>3, AheadKnown
<1>5. S \cap Beyond(A2, k) \subseteq S \cap Beyond(A, k)
  <2>1. SUFFICES ASSUME NEW t \in A2, Cardinality(Ahead(A2, t)) >= k
                 PROVE  Cardinality(Ahead(A, t)) >= k
    BY DEF Beyond
  <2> QED
    BY <1>1, <1>2, <1>4, <2>1
<1>6. (S \ {d}) \cap Within(A2, k) \subseteq (S \cap Within(A, k)) \cup P
  <2>1. SUFFICES ASSUME NEW t \in A2, Cardinality(Ahead(A2, t)) < k,
                        Cardinality(Ahead(A, t)) # k
                 PROVE  Cardinality(Ahead(A, t)) < k
    BY DEF Within
  <2> QED
    BY <1>1, <1>2, <1>4, <2>1
<1>7. IsFiniteSet(P) /\ Cardinality(P) \in Nat /\ Cardinality(P) <= 1
  BY OneAt
<1> HIDE DEF A2, P
<1> DEFINE X == S \cap Within(A, k)
           Y == (S \ {d}) \cap Within(A2, k)
<1>8. IsFiniteSet(X) /\ IsFiniteSet(Y)
  BY FS_Subset
<1>9. Y \subseteq X \cup P
  BY <1>6
<1> HIDE DEF X, Y
<1>10. IsFiniteSet(X \cup P) /\ Cardinality(X \cup P) <= Cardinality(X) + Cardinality(P)
  <2>1. IsFiniteSet(X \cap P) /\ IsFiniteSet(X \cup P)
    BY <1>7, <1>8, FS_Intersection, FS_Union
  <2>2. Cardinality(X \cup P) = Cardinality(X) + Cardinality(P) - Cardinality(X \cap P)
    BY <1>7, <1>8, FS_Union
  <2>3. Cardinality(X) \in Nat /\ Cardinality(X \cap P) \in Nat
    BY <1>8, <2>1, FS_CardinalityType
  <2> QED
    BY <1>7, <2>1, <2>2, <2>3
<1>11. Cardinality(Y) <= Cardinality(X \cup P)
  BY <1>9, <1>10, FS_Subset
<1>12. Cardinality(X) \in Nat /\ Cardinality(Y) \in Nat /\ Cardinality(X \cup P) \in Nat
  BY <1>8, <1>10, FS_CardinalityType
<1>13. Cardinality(Y) <= Cardinality(X) + 1
  BY <1>7, <1>10, <1>11, <1>12
<1> QED
  BY <1>5, <1>13 DEF A2, X, Y

-----------------------------------------------------------------------------
(* Rows and their creation times *)

\* Rows of one list have different creation times.
LEMMA TimesCounted ==
    ASSUME OwnTypes, NEW l \in Lists, NEW X, X \subseteq ownRows[l]
    PROVE  /\ IsFiniteSet(X) /\ IsFiniteSet({row.at : row \in X})
           /\ Cardinality({row.at : row \in X}) = Cardinality(X) /\ Cardinality(X) \in Nat
           /\ {row.at : row \in X} \subseteq Nat
<1> DEFINE T == {row.at : row \in X}
           f == [row \in X |-> row.at]
<1>1. /\ IsFiniteSet(ownRows[l]) /\ ownRows[l] \subseteq OwnRow
      /\ \A row, other \in ownRows[l] : row.at = other.at => row = other
  BY DEF OwnTypes
<1>2. IsFiniteSet(X) /\ Cardinality(X) \in Nat
  BY <1>1, FS_Subset, FS_CardinalityType
<1>3. \A row \in X : row.at \in T /\ f[row] = row.at
  OBVIOUS
<1>4. \A t \in T : \E row \in X : f[row] = t
  OBVIOUS
<1>5. \A row, other \in X : f[row] = f[other] => row = other
  BY <1>1
<1>6. f \in [X -> T]
  OBVIOUS
<1> HIDE DEF T, f
<1>7. f \in Bijection(X, T)
  BY <1>4, <1>5, <1>6 DEF Bijection, Injection, Surjection, IsInjective
<1>8. ExistsBijection(X, T)
  BY <1>7 DEF ExistsBijection
<1>9. IsFiniteSet(T) /\ Cardinality(T) = Cardinality(X)
  BY <1>2, <1>8, FS_Bijection
<1>10. T \subseteq Nat
  BY <1>1 DEF T, OwnRow
<1> QED
  BY <1>2, <1>9, <1>10 DEF T

LEMMA AtsKnown ==
    ASSUME OwnTypes, NEW l \in Lists
    PROVE  /\ Ats(l) \in SUBSET Nat /\ IsFiniteSet(Ats(l))
           /\ Cardinality(Ats(l)) = Cardinality(ownRows[l]) /\ Cardinality(Ats(l)) \in Nat
           /\ \A t \in Ats(l) : t <= ticks
<1>1. \A t \in Ats(l) : t <= ticks
  BY DEF OwnTypes, Ats
<1> QED
  BY <1>1, TimesCounted DEF Ats

\* Where the slice of a page ends: with the page or at the count.
Cut(page, count) == IF count > page * OwnPage THEN page * OwnPage ELSE count

\* A page is what lies behind the pages before it and not behind its end.
LEMMA PageTimes ==
    ASSUME OwnTypes, NEW l \in Lists, NEW page \in Nat, NEW count \in Nat
    PROVE  {row.at : row \in OnOwnPage(l, page, count)} =
              Beyond(Ats(l), (page - 1) * OwnPage) \cap Within(Ats(l), Cut(page, count))
<1>1. ASSUME NEW row \in ownRows[l]
      PROVE  Cardinality({other \in ownRows[l] : Later(other, row)})
                = Cardinality(Ahead(Ats(l), row.at))
  <2> DEFINE X == {other \in ownRows[l] : Later(other, row)}
  <2>1. Ahead(Ats(l), row.at) = {other.at : other \in X}
    BY DEF Ahead, Ats, Later
  <2>2. X \subseteq ownRows[l]
    OBVIOUS
  <2> HIDE DEF X
  <2>3. Cardinality({other.at : other \in X}) = Cardinality(X)
    BY <2>2, TimesCounted
  <2> QED
    BY <2>1, <2>3 DEF X
<1> DEFINE low == (page - 1) * OwnPage
           high == page * OwnPage
           cut == Cut(page, count)
           rows == OnOwnPage(l, page, count)
<1>2. \A row \in ownRows[l] :
         row \in rows <=> /\ low <= Cardinality(Ahead(Ats(l), row.at))
                         /\ Cardinality(Ahead(Ats(l), row.at)) < high
                         /\ Cardinality(Ahead(Ats(l), row.at)) < count
  BY <1>1 DEF OnOwnPage
<1>3. rows \subseteq ownRows[l]
  BY DEF OnOwnPage
<1>12. cut = IF count > high THEN high ELSE count
  BY DEF Cut
<1>13. high \in Int
  <2>1. OwnPage \in Nat
    BY OwnAssumption
  <2> QED
    BY <2>1
<1> HIDE DEF low, high, cut, rows
<1>4. \A t \in Ats(l) : /\ t \in Beyond(Ats(l), low) <=> Cardinality(Ahead(Ats(l), t)) >= low
                        /\ t \in Within(Ats(l), cut) <=> Cardinality(Ahead(Ats(l), t)) < cut
  BY DEF Beyond, Within
<1>5. Beyond(Ats(l), low) \cap Within(Ats(l), cut) \subseteq Ats(l)
  BY DEF Beyond
<1>6. \A row \in ownRows[l] : row.at \in Ats(l)
  BY DEF Ats
<1>7. \A row \in ownRows[l] : Cardinality(Ahead(Ats(l), row.at)) \in Nat
  BY AtsKnown, AheadKnown
<1>8. low \in Int
  <2>1. OwnPage \in Nat /\ page - 1 \in Int
    BY OwnAssumption
  <2> QED
    BY <2>1 DEF low
<1>9. \A row \in ownRows[l] :
         row \in rows <=> row.at \in Beyond(Ats(l), low) \cap Within(Ats(l), cut)
  <2>1. \A row \in ownRows[l] :
           row \in rows <=> /\ low <= Cardinality(Ahead(Ats(l), row.at))
                           /\ Cardinality(Ahead(Ats(l), row.at)) < cut
    BY <1>2, <1>7, <1>8, <1>12, <1>13
  <2> QED
    BY <1>4, <1>6, <1>7, <1>8, <2>1
<1>10. \A t \in Ats(l) : \E row \in ownRows[l] : t = row.at
  BY DEF Ats
<1>11. {row.at : row \in rows} = Beyond(Ats(l), low) \cap Within(Ats(l), cut)
  BY <1>3, <1>5, <1>9, <1>10
<1> QED
  BY <1>11 DEF low, cut, rows

LEMMA PassedKnown ==
    ASSUME OwnTypes
    PROVE  /\ Passed \in Nat /\ scroll.page * OwnPage \in Nat
           /\ scroll.pc # "shown" => /\ Passed = (scroll.page - 1) * OwnPage
                                     /\ Passed <= scroll.page * OwnPage
           /\ scroll.pc = "shown" => Passed = scroll.page * OwnPage
<1>1. scroll.page \in Nat \ {0} /\ OwnPage \in Nat
  BY OwnAssumption DEF OwnTypes, Scrolls
<1>2. \A k \in Nat : k * OwnPage \in Nat /\ (k + 1) * OwnPage = k * OwnPage + OwnPage
  BY <1>1
<1>3. scroll.page - 1 \in Nat /\ scroll.page = (scroll.page - 1) + 1
  BY <1>1
<1>4. /\ (scroll.page - 1) * OwnPage \in Nat /\ scroll.page * OwnPage \in Nat
      /\ scroll.page * OwnPage = (scroll.page - 1) * OwnPage + OwnPage
  BY <1>2, <1>3
<1> DEFINE before == (scroll.page - 1) * OwnPage
           after == scroll.page * OwnPage
<1>5. Passed = IF scroll.pc = "shown" THEN after ELSE before
  BY DEF Passed
<1> HIDE DEF before, after
<1>6. before \in Nat /\ after \in Nat /\ after = before + OwnPage
  BY <1>4 DEF before, after
<1>7. /\ Passed \in Nat /\ after \in Nat
      /\ scroll.pc # "shown" => Passed = before /\ Passed <= after
      /\ scroll.pc = "shown" => Passed = after
  BY <1>1, <1>5, <1>6
<1> QED
  BY <1>7 DEF before, after

\* The counts of parts of what was seen and of what was there.
LEMMA CountsKnown ==
    ASSUME OwnTypes, NEW B
    PROVE  /\ IsFiniteSet(scroll.seen \cap B) /\ Cardinality(scroll.seen \cap B) \in Nat
           /\ Cardinality(scroll.seen) \in Nat
           /\ IsFiniteSet((scroll.whole \ scroll.seen) \cap B)
           /\ Cardinality((scroll.whole \ scroll.seen) \cap B) \in Nat
           /\ IsFiniteSet(scroll.whole \ scroll.seen)
           /\ Cardinality(scroll.whole \ scroll.seen) \in Nat
<1>1. IsFiniteSet(scroll.seen) /\ IsFiniteSet(scroll.whole)
  BY DEF OwnTypes
<1>2. /\ IsFiniteSet(scroll.seen \cap B) /\ IsFiniteSet(scroll.whole \ scroll.seen)
      /\ IsFiniteSet((scroll.whole \ scroll.seen) \cap B)
  BY <1>1, FS_Subset
<1> QED
  BY <1>1, <1>2, FS_CardinalityType

-----------------------------------------------------------------------------
(* What a page shows and what it misses *)

LEMMA CoverCounted ==
    ASSUME NEW Y, NEW Z, IsFiniteSet(Y), IsFiniteSet(Z), NEW X, X \subseteq Y \cup Z
    PROVE  IsFiniteSet(X) /\ Cardinality(X) <= Cardinality(Y) + Cardinality(Z)
<1>1. IsFiniteSet(Y \cup Z) /\ IsFiniteSet(Y \cap Z)
  BY FS_Union, FS_Intersection
<1>2. Cardinality(Y \cup Z) = Cardinality(Y) + Cardinality(Z) - Cardinality(Y \cap Z)
  BY FS_Union
<1>3. IsFiniteSet(X) /\ Cardinality(X) <= Cardinality(Y \cup Z)
  BY <1>1, FS_Subset
<1>4. /\ Cardinality(X) \in Nat /\ Cardinality(Y) \in Nat /\ Cardinality(Z) \in Nat
      /\ Cardinality(Y \cap Z) \in Nat
  BY <1>1, <1>3, FS_CardinalityType
<1> QED
  BY <1>2, <1>3, <1>4

\* Whatever of a list has been seen in its first k rows and is not behind the first m has
\* not been missed by the page between them.
LEMMA PageMisses ==
    ASSUME NEW A \in SUBSET Nat, IsFiniteSet(A), NEW k \in Nat, NEW m \in Nat,
           NEW S, NEW W \in SUBSET A, NEW G,
           Beyond(A, k) \cap Within(A, m) \subseteq G
    PROVE  /\ (W \ (S \cup G)) \cap Within(A, m) \subseteq (W \ S) \cap Within(A, k)
           /\ W \ (S \cup G) \subseteq ((W \ S) \cap Within(A, k)) \cup Beyond(A, m)
<1>1. \A t \in A : Cardinality(Ahead(A, t)) \in Nat
  BY AheadKnown
<1>2. \A t \in A : (t \in Within(A, k) \/ t \in Beyond(A, k))
                   /\ (t \in Within(A, m) \/ t \in Beyond(A, m))
  BY <1>1 DEF Within, Beyond
<1>3. Within(A, m) \subseteq A
  BY DEF Within
<1> QED
  BY <1>2, <1>3

\* A page between the first k and the first m rows: each row it shows that had been seen is
\* one less that may be shown again.
LEMMA PageRepeats ==
    ASSUME NEW A \in SUBSET Nat, IsFiniteSet(A), NEW k \in Nat, NEW m \in Nat, k <= m,
           NEW S, IsFiniteSet(S), NEW G, G = Beyond(A, k) \cap Within(A, m)
    PROVE  /\ IsFiniteSet(G)
           /\ Cardinality((S \cup G) \cap Beyond(A, m)) + Cardinality(G) + Cardinality(S)
                 = Cardinality(S \cap Beyond(A, k)) + Cardinality(S \cup G)
<1>1. \A t \in A : Cardinality(Ahead(A, t)) \in Nat
  BY AheadKnown
<1>2. \A t \in A : t \in Within(A, m) <=> t \notin Beyond(A, m)
  BY <1>1 DEF Within, Beyond
<1>3. \A t \in A : t \in Beyond(A, m) => t \in Beyond(A, k)
  BY <1>1 DEF Beyond
<1>4. Beyond(A, k) \subseteq A /\ Beyond(A, m) \subseteq A
  BY DEF Beyond
<1>5. IsFiniteSet(G)
  <2>1. G \subseteq A
    BY <1>4
  <2> QED
    BY <2>1, FS_Subset
<1> DEFINE X == S \cap G
           Y == S \cap Beyond(A, m)
<1>6. (S \cup G) \cap Beyond(A, m) = Y
  BY <1>2, <1>4
<1>7. S \cap Beyond(A, k) = X \cup Y /\ X \cap Y = {}
  <2>1. S \cap Beyond(A, k) \subseteq X \cup Y
    BY <1>2, <1>4
  <2>2. X \cup Y \subseteq S \cap Beyond(A, k)
    BY <1>3, <1>4
  <2>3. X \cap Y = {}
    BY <1>2, <1>4
  <2> QED
    BY <2>1, <2>2, <2>3
<1>8. IsFiniteSet(X) /\ IsFiniteSet(Y)
  BY FS_Subset
<1> HIDE DEF Y
<1>9. Cardinality(X \cup Y) = Cardinality(X) + Cardinality(Y)
  <2>1. Cardinality(X \cup Y) = Cardinality(X) + Cardinality(Y) - Cardinality(X \cap Y)
    BY <1>8, FS_Union
  <2>2. Cardinality(X \cap Y) = 0
    BY <1>7, FS_EmptySet
  <2>3. Cardinality(X) \in Nat /\ Cardinality(Y) \in Nat
    BY <1>8, FS_CardinalityType
  <2> QED
    BY <2>1, <2>2, <2>3
<1>10. Cardinality(S \cup G) = Cardinality(S) + Cardinality(G) - Cardinality(X)
  BY <1>5, FS_Union
<1>11. /\ Cardinality(X) \in Nat /\ Cardinality(Y) \in Nat /\ Cardinality(S) \in Nat
       /\ Cardinality(G) \in Nat
  BY <1>5, <1>8, FS_CardinalityType
<1>12. Cardinality(Y) + Cardinality(G) + Cardinality(S)
          = Cardinality(X \cup Y) + Cardinality(S \cup G)
  BY <1>9, <1>10, <1>11
<1> QED
  BY <1>5, <1>6, <1>7, <1>12

-----------------------------------------------------------------------------
(* The invariant and the steps *)

LEMMA OwnStarts == OwnInit => OwnInv
<1> SUFFICES ASSUME OwnInit PROVE OwnInv
  OBVIOUS
<1>1. scroll.pc = "idle" /\ scroll.seen = {} /\ scroll.total = 0 /\ scroll.whole = {}
  BY DEF OwnInit, NoScroll
<1>2. scroll \in Scrolls
  BY DEF OwnInit, NoScroll, Scrolls, Lists
<1>3. \A l \in Lists : ownRows[l] = {}
  BY DEF OwnInit
<1>4. OwnTypes
  <2>1. /\ ownRows \in [Lists -> SUBSET OwnRow] /\ present \in BOOLEAN /\ ticks \in Nat
        /\ added \in Nat /\ removed \in Nat
    BY DEF OwnInit
  <2>2. \A l \in Lists : /\ IsFiniteSet(ownRows[l]) /\ \A row \in ownRows[l] : row.at <= ticks
                         /\ \A row, other \in ownRows[l] : row.at = other.at => row = other
    BY <1>3, FS_EmptySet
  <2> QED
    BY <1>1, <1>2, <2>1, <2>2, FS_EmptySet DEF OwnTypes
<1> QED
  BY <1>1, <1>4 DEF OwnInv

\* Who scrolls notices nothing of a step that leaves its list as it is.
LEMMA ScrollKept ==
    ASSUME OwnInv, OwnTypes', scroll' = scroll, added' = added, removed' = removed,
           Ats(scroll.list)' = Ats(scroll.list)
    PROVE  OwnInv'
<1>1. Passed' = Passed
  BY DEF Passed
<1>2. Shifts(Ats(scroll.list), Passed)' <=> Shifts(Ats(scroll.list), Passed)
  BY <1>1 DEF Shifts
<1> QED
  BY <1>1, <1>2 DEF OwnInv

LEMMA LeaveOrReturnKept == OwnInv /\ LeaveOrReturn => OwnInv'
<1> SUFFICES ASSUME OwnInv, LeaveOrReturn PROVE OwnInv'
  OBVIOUS
<1>1. /\ present' \in BOOLEAN /\ ticks' \in Nat /\ \A n \in Nat : n <= ticks => n <= ticks'
      /\ UNCHANGED <<ownRows, scroll, added, removed>>
  BY DEF LeaveOrReturn, OwnInv, OwnTypes
<1>2. \A l \in Lists : \A row \in ownRows[l] : row.at \in Nat
  BY DEF OwnInv, OwnTypes, OwnRow
<1>3. scroll.seen \subseteq Nat
  BY DEF OwnInv, OwnTypes, Scrolls
<1>4. Ats(scroll.list)' = Ats(scroll.list)
  BY <1>1 DEF Ats
<1>5. OwnTypes'
  BY <1>1, <1>2, <1>3, <1>4 DEF OwnInv, OwnTypes
<1> QED
  BY <1>1, <1>4, <1>5, ScrollKept

LEMMA OwnStutterKept == OwnInv /\ UNCHANGED ownVars => OwnInv'
<1> SUFFICES ASSUME OwnInv, UNCHANGED ownVars PROVE OwnInv'
  OBVIOUS
<1>1. Ats(scroll.list)' = Ats(scroll.list)
  BY DEF ownVars, Ats
<1>2. OwnTypes'
  BY <1>1 DEF ownVars, OwnInv, OwnTypes
<1> QED
  BY <1>1, <1>2, ScrollKept DEF ownVars

-----------------------------------------------------------------------------
(* Rows that come, go and change *)

\* What a list is after its rows became these.
LEMMA ListThen ==
    ASSUME OwnTypes, NEW l \in Lists, NEW rows, ListBecomes(l, rows)
    PROVE  /\ ownRows'[l] = rows /\ \A o \in Lists : o # l => ownRows'[o] = ownRows[o]
           /\ ticks' = ticks + 1 /\ present' = present
           /\ Ats(l)' = {entry.at : entry \in rows}
           /\ \A o \in Lists : o # l => Ats(o)' = Ats(o)
<1>1. /\ ownRows'[l] = rows /\ \A o \in Lists : o # l => ownRows'[o] = ownRows[o]
      /\ ticks' = ticks + 1 /\ present' = present
  BY DEF ListBecomes, OwnTypes
<1> QED
  BY <1>1 DEF Ats

LEMMA ListTypes ==
    ASSUME OwnTypes, NEW l \in Lists, NEW rows \in SUBSET OwnRow, ListBecomes(l, rows),
           IsFiniteSet(rows), \A entry \in rows : entry.at <= ticks + 1,
           \A entry, other \in rows : entry.at = other.at => entry = other,
           added' \in Nat, removed' \in Nat, scroll' \in Scrolls, scroll'.seen = scroll.seen,
           IsFiniteSet(scroll'.whole), scroll'.whole \subseteq Ats(scroll.list)'
    PROVE  OwnTypes'
<1>1. /\ ownRows'[l] = rows /\ \A o \in Lists : o # l => ownRows'[o] = ownRows[o]
      /\ ticks' = ticks + 1 /\ present' = present
  BY ListThen
<1>2. ticks \in Nat /\ \A n \in Nat : n <= ticks => n <= ticks + 1
  BY DEF OwnTypes
<1>3. ownRows' \in [Lists -> SUBSET OwnRow]
  BY DEF ListBecomes, OwnTypes
<1>4. \A o \in Lists : /\ IsFiniteSet(ownRows'[o])
                       /\ \A entry \in ownRows'[o] : entry.at <= ticks'
                       /\ \A entry, other \in ownRows'[o] : entry.at = other.at => entry = other
  <2>1. SUFFICES ASSUME NEW o \in Lists
                 PROVE  /\ IsFiniteSet(ownRows'[o])
                        /\ \A entry \in ownRows'[o] : entry.at <= ticks'
                        /\ \A entry, other \in ownRows'[o] : entry.at = other.at => entry = other
    OBVIOUS
  <2>2. CASE o = l
    BY <1>1, <2>2
  <2>3. CASE o # l
    <3>1. /\ IsFiniteSet(ownRows[o]) /\ \A entry \in ownRows[o] : entry.at <= ticks
          /\ \A entry, other \in ownRows[o] : entry.at = other.at => entry = other
      BY DEF OwnTypes
    <3>2. \A entry \in ownRows[o] : entry.at \in Nat
      BY DEF OwnTypes, OwnRow
    <3> QED
      BY <1>1, <1>2, <2>3, <3>1, <3>2
  <2> QED
    BY <2>2, <2>3
<1>5. IsFiniteSet(scroll.seen) /\ \A t \in scroll.seen : t <= ticks'
  <2>1. IsFiniteSet(scroll.seen) /\ \A t \in scroll.seen : t \in Nat /\ t <= ticks
    BY DEF OwnTypes, Scrolls
  <2> QED
    BY <1>1, <1>2, <2>1
<1>6. present \in BOOLEAN
  BY DEF OwnTypes
<1> QED
  BY <1>1, <1>2, <1>3, <1>4, <1>5, <1>6 DEF OwnTypes

LEMMA EditRowKept ==
    ASSUME OwnInv, NEW entry \in ownRows["reviews"], EditRow(entry)
    PROVE  OwnInv'
<1> DEFINE new == [place |-> entry.place, at |-> entry.at, changed |-> ticks + 1]
           rows == (ownRows["reviews"] \ {entry}) \cup {new}
<1>1. OwnTypes /\ "reviews" \in Lists /\ ListBecomes("reviews", rows)
      /\ UNCHANGED <<scroll, added, removed>>
  BY DEF OwnInv, EditRow, Lists
<1>2. /\ ownRows["reviews"] \subseteq OwnRow /\ IsFiniteSet(ownRows["reviews"])
      /\ ticks \in Nat
      /\ \A one \in ownRows["reviews"] : one.at \in Nat /\ one.at <= ticks
      /\ \A one, other \in ownRows["reviews"] : one.at = other.at => one = other
  BY <1>1 DEF OwnTypes, OwnRow
<1>3. new \in OwnRow /\ new.at = entry.at
  BY <1>2 DEF OwnRow
<1>4. rows \in SUBSET OwnRow /\ IsFiniteSet(rows)
  <2>1. IsFiniteSet(ownRows["reviews"] \ {entry})
    BY <1>2, FS_Subset
  <2>2. IsFiniteSet(rows)
    BY <2>1, FS_AddElement
  <2> QED
    BY <1>2, <1>3, <2>2
<1> HIDE DEF new
<1>5. \A one \in rows : one.at <= ticks + 1
  BY <1>2, <1>3
<1>6. \A one, other \in rows : one.at = other.at => one = other
  BY <1>2, <1>3
<1>7. {one.at : one \in rows} = Ats("reviews")
  <2>1. \A one \in rows : \E other \in ownRows["reviews"] : one.at = other.at
    BY <1>3
  <2>2. \A one \in ownRows["reviews"] : \E other \in rows : one.at = other.at
    BY <1>3
  <2> QED
    BY <2>1, <2>2 DEF Ats
<1> HIDE DEF rows
<1>8. scroll.list \in Lists /\ Ats(scroll.list)' = Ats(scroll.list)
  <2>1. scroll.list \in Lists
    BY <1>1 DEF OwnTypes, Scrolls
  <2>2. \A o \in Lists : Ats(o)' = Ats(o)
    BY <1>1, <1>7, ListThen
  <2>3. Ats(scroll.list)' = {one.at : one \in ownRows'[scroll.list]}
    BY <1>1 DEF Ats
  <2> QED
    BY <1>1, <2>1, <2>2, <2>3 DEF Ats
<1>9. OwnTypes'
  <2>1. /\ added' \in Nat /\ removed' \in Nat /\ scroll' \in Scrolls /\ scroll'.seen = scroll.seen
        /\ IsFiniteSet(scroll'.whole) /\ scroll'.whole \subseteq Ats(scroll.list)
    BY <1>1 DEF OwnTypes
  <2> QED
    BY <1>1, <1>4, <1>5, <1>6, <1>8, <2>1, ListTypes
<1> QED
  BY <1>1, <1>8, <1>9, ScrollKept

\* A row that comes in while the list is read may push one row behind the pages read.
LEMMA AddRowKept ==
    ASSUME OwnInv, NEW l \in Lists, NEW p \in OwnPlaces, AddRow(l, p)
    PROVE  OwnInv'
<1> DEFINE new == [place |-> p, at |-> ticks + 1, changed |-> ticks + 1]
           rows == ownRows[l] \cup {new}
<1>1. OwnTypes /\ ListBecomes(l, rows) /\ Noted(l, 1, 0) /\ scroll' = scroll
  BY DEF OwnInv, AddRow
<1>2. /\ ownRows[l] \subseteq OwnRow /\ IsFiniteSet(ownRows[l]) /\ ticks \in Nat
      /\ \A one \in ownRows[l] : one.at \in Nat /\ one.at <= ticks
      /\ \A one, other \in ownRows[l] : one.at = other.at => one = other
  BY <1>1 DEF OwnTypes, OwnRow
<1>3. new \in OwnRow /\ new.at = ticks + 1
  BY <1>2 DEF OwnRow
<1>4. rows \in SUBSET OwnRow /\ IsFiniteSet(rows)
  BY <1>2, <1>3, FS_AddElement
<1> HIDE DEF new
<1>5. \A one \in rows : one.at <= ticks + 1
  BY <1>2, <1>3
<1>6. \A one, other \in rows : one.at = other.at => one = other
  <2>1. \A one \in ownRows[l] : one.at # ticks + 1
    BY <1>2
  <2> QED
    BY <1>2, <1>3, <2>1
<1>7. {one.at : one \in rows} = Ats(l) \cup {ticks + 1}
  BY <1>3 DEF Ats
<1> HIDE DEF rows
<1>8. /\ Ats(l)' = Ats(l) \cup {ticks + 1} /\ \A o \in Lists : o # l => Ats(o)' = Ats(o)
      /\ ticks' = ticks + 1
  BY <1>1, <1>7, ListThen
<1>9. scroll.list \in Lists /\ added \in Nat /\ removed \in Nat
  BY <1>1 DEF OwnTypes, Scrolls
<1>10. OwnTypes'
  <2>1. /\ added' \in Nat /\ removed' \in Nat
    BY <1>1, <1>9 DEF Noted
  <2>2. /\ scroll' \in Scrolls /\ scroll'.seen = scroll.seen /\ IsFiniteSet(scroll'.whole)
        /\ scroll'.whole \subseteq Ats(scroll.list)
    BY <1>1 DEF OwnTypes
  <2>3. \A o \in Lists : Ats(o) \subseteq Ats(o)'
    BY <1>8
  <2>4. Ats(scroll.list)' = {one.at : one \in ownRows'[scroll.list]}
    BY <1>1 DEF Ats
  <2>5. scroll'.whole \subseteq Ats(scroll.list)'
    BY <1>9, <2>2, <2>3, <2>4 DEF Ats
  <2> QED
    BY <1>1, <1>4, <1>5, <1>6, <2>1, <2>2, <2>5, ListTypes
<1>11. CASE scroll.list # l
  <2>1. added' = added /\ removed' = removed
    BY <1>1, <1>11 DEF Noted
  <2>2. Ats(scroll.list)' = Ats(scroll.list)
    <3>1. Ats(scroll.list)' = {one.at : one \in ownRows'[scroll.list]}
      BY <1>1 DEF Ats
    <3> QED
      BY <1>8, <1>9, <1>11, <3>1 DEF Ats
  <2> QED
    BY <1>1, <1>10, <2>1, <2>2, ScrollKept
<1>12. CASE scroll.list = l
  <2> DEFINE A == Ats(l)
             B == A \cup {ticks + 1}
             k == Passed
             lacking == scroll.whole \ scroll.seen
  <2>1. added' = added + 1 /\ removed' = removed
    BY <1>1, <1>9, <1>12 DEF Noted
  <2>2. Ats(scroll.list)' = B /\ Passed' = k /\ Ats(scroll.list) = A
    <3>1. Ats(scroll.list)' = {one.at : one \in ownRows'[l]}
      BY <1>1, <1>12 DEF Ats
    <3>2. Ats(l)' = {one.at : one \in ownRows'[l]}
      BY DEF Ats
    <3>3. Passed' = Passed
      BY <1>1 DEF Passed
    <3> QED
      BY <1>8, <1>12, <3>1, <3>2, <3>3
  <2>3. /\ A \in SUBSET Nat /\ IsFiniteSet(A) /\ \A t \in A : t < ticks + 1
        /\ Cardinality(A) \in Nat
    BY <1>1, <1>2, AtsKnown
  <2>4. /\ IsFiniteSet(scroll.seen) /\ IsFiniteSet(lacking)
        /\ ticks + 1 \notin scroll.seen /\ ticks + 1 \notin lacking
    <3>1. IsFiniteSet(scroll.seen) /\ IsFiniteSet(lacking)
      BY <1>1, CountsKnown DEF OwnTypes
    <3>2. \A t \in scroll.seen : t \in Nat /\ t <= ticks
      BY <1>1 DEF OwnTypes, Scrolls
    <3>3. lacking \subseteq A
      BY <1>1, <1>12 DEF OwnTypes
    <3> QED
      BY <1>2, <2>3, <3>1, <3>2, <3>3
  <2>5. k \in Nat /\ scroll.count \in Nat
    BY <1>1, PassedKnown DEF OwnTypes, Scrolls
  <2>6. /\ Cardinality(scroll.seen \cap Beyond(B, k))
              <= Cardinality(scroll.seen \cap Beyond(A, k)) + 1
        /\ lacking \cap Within(B, k) \subseteq lacking \cap Within(A, k)
    <3> HIDE DEF A, k, lacking
    <3>1. ticks + 1 \in Nat
      BY <1>2
    <3> QED
      BY <2>3, <2>4, <2>5, <3>1, FrontGrows
  <2>7. Cardinality(lacking \cap Within(B, k)) <= Cardinality(lacking \cap Within(A, k))
    <3>1. IsFiniteSet(lacking \cap Within(A, k))
      BY <1>1, CountsKnown
    <3> QED
      BY <2>6, <3>1, FS_Subset
  <2>8. /\ Cardinality(scroll.seen \cap Beyond(A, k)) \in Nat /\ Cardinality(scroll.seen) \in Nat
        /\ Cardinality(scroll.seen \cap Beyond(B, k)) \in Nat
        /\ Cardinality(lacking \cap Within(A, k)) \in Nat /\ Cardinality(lacking) \in Nat
        /\ Cardinality(lacking \cap Within(B, k)) \in Nat /\ scroll.total \in Nat
    BY <1>1, CountsKnown DEF OwnTypes, Scrolls
  <2>9. Cardinality(B) <= Cardinality(A) + 1 /\ Cardinality(B) \in Nat
    <3> HIDE DEF A
    <3>1. Cardinality(B) = (IF ticks + 1 \in A THEN Cardinality(A) ELSE Cardinality(A) + 1)
      BY <2>3, FS_AddElement
    <3> QED
      BY <2>3, <3>1
  <2> HIDE DEF A, B, k
  <2>10. ASSUME scroll.pc \in {"asked", "counted", "shown"}
         PROVE  Shifts(Ats(scroll.list), Passed)'
    <3>1. /\ Cardinality(scroll.seen \cap Beyond(A, k)) + scroll.total
                <= Cardinality(scroll.seen) + added
          /\ Cardinality(lacking \cap Within(A, k)) <= removed
      BY <2>2, <2>10 DEF OwnInv, Shifts, k
    <3>2. /\ Cardinality(scroll.seen \cap Beyond(B, k)) + scroll.total
                <= Cardinality(scroll.seen) + (added + 1)
          /\ Cardinality(lacking \cap Within(B, k)) <= removed
      BY <1>9, <2>6, <2>7, <2>8, <3>1
    <3> QED
      BY <1>1, <2>1, <2>2, <3>2 DEF Shifts
  <2>11. ASSUME scroll.pc = "counted"
         PROVE  k <= scroll.count /\ Cardinality(B) <= scroll.count + (added + 1)
    <3>1. k <= scroll.count /\ Cardinality(A) <= scroll.count + added
      BY <2>2, <2>11 DEF OwnInv, k
    <3> QED
      BY <1>9, <2>3, <2>5, <2>9, <3>1 DEF A
  <2>12. ASSUME scroll.pc = "ended"
         PROVE  /\ scroll.total <= Cardinality(scroll.seen) + (added + 1)
                /\ Cardinality(lacking) <= removed + (added + 1)
    <3>1. /\ scroll.total <= Cardinality(scroll.seen) + added
          /\ Cardinality(lacking) <= removed + added
      BY <2>12 DEF OwnInv
    <3> QED
      BY <1>9, <2>8, <3>1
  <2> QED
    BY <1>1, <1>10, <2>1, <2>2, <2>10, <2>11, <2>12 DEF OwnInv
<1> QED
  BY <1>11, <1>12

\* A row that goes while the list is read may let one row move up into the pages read.
LEMMA TakeRowKept ==
    ASSUME OwnInv, NEW l \in Lists, NEW gone \in ownRows[l], TakeRow(l, gone)
    PROVE  OwnInv'
<1> DEFINE rows == ownRows[l] \ {gone}
           d == gone.at
<1>1. OwnTypes /\ ListBecomes(l, rows) /\ Noted(l, 0, 1)
  BY DEF OwnInv, TakeRow
<1>2. /\ ownRows[l] \subseteq OwnRow /\ IsFiniteSet(ownRows[l]) /\ ticks \in Nat
      /\ \A one \in ownRows[l] : one.at \in Nat /\ one.at <= ticks
      /\ \A one, other \in ownRows[l] : one.at = other.at => one = other
  BY <1>1 DEF OwnTypes, OwnRow
<1>3. scroll \in Scrolls /\ scroll.list \in Lists /\ added \in Nat /\ removed \in Nat
  BY <1>1 DEF OwnTypes, Scrolls
<1>4. rows \in SUBSET OwnRow /\ IsFiniteSet(rows)
  BY <1>2, FS_Subset
<1>5. \A one \in rows : one.at <= ticks + 1
  BY <1>2
<1>6. \A one, other \in rows : one.at = other.at => one = other
  BY <1>2
<1>7. {one.at : one \in rows} = Ats(l) \ {d} /\ d \in Ats(l)
  <2>1. \A one \in rows : one.at # d
    BY <1>2
  <2>2. \A one \in ownRows[l] : one.at # d => one \in rows
    OBVIOUS
  <2>3. {one.at : one \in rows} \subseteq Ats(l) \ {d}
    BY <2>1 DEF Ats
  <2>4. Ats(l) \ {d} \subseteq {one.at : one \in rows}
    BY <2>2 DEF Ats
  <2> QED
    BY <2>3, <2>4 DEF Ats
<1> HIDE DEF rows
<1>8. /\ Ats(l)' = Ats(l) \ {d} /\ \A o \in Lists : o # l => Ats(o)' = Ats(o)
      /\ ticks' = ticks + 1
  BY <1>1, <1>7, ListThen
<1>9. scroll' = [scroll EXCEPT !.whole = IF scroll.list = l THEN scroll.whole \ {d}
                                         ELSE scroll.whole]
  BY DEF TakeRow
<1> HIDE DEF d
<1>10. /\ scroll'.pc = scroll.pc /\ scroll'.list = scroll.list /\ scroll'.page = scroll.page
       /\ scroll'.count = scroll.count /\ scroll'.seen = scroll.seen
       /\ scroll'.total = scroll.total
       /\ scroll'.whole = IF scroll.list = l THEN scroll.whole \ {d} ELSE scroll.whole
       /\ scroll' \in Scrolls
  BY <1>3, <1>9 DEF Scrolls
<1>11. Ats(scroll.list)' = {one.at : one \in ownRows'[scroll.list]}
  BY <1>10 DEF Ats
<1>12. Ats(l)' = {one.at : one \in ownRows'[l]}
  BY DEF Ats
<1>13. OwnTypes'
  <2>1. /\ added' \in Nat /\ removed' \in Nat
    BY <1>1, <1>3 DEF Noted
  <2>2. IsFiniteSet(scroll.whole) /\ scroll.whole \subseteq Ats(scroll.list)
    BY <1>1 DEF OwnTypes
  <2>3. IsFiniteSet(scroll'.whole)
    BY <1>10, <2>2, FS_Subset
  <2>4. scroll'.whole \subseteq Ats(scroll.list)'
    <3>1. CASE scroll.list = l
      BY <1>8, <1>10, <1>11, <1>12, <2>2, <3>1
    <3>2. CASE scroll.list # l
      BY <1>3, <1>8, <1>10, <1>11, <2>2, <3>2 DEF Ats
    <3> QED
      BY <3>1, <3>2
  <2> QED
    BY <1>1, <1>4, <1>5, <1>6, <1>10, <2>1, <2>3, <2>4, ListTypes
<1>14. CASE scroll.list # l
  <2>1. added' = added /\ removed' = removed
    BY <1>1, <1>14 DEF Noted
  <2>2. Ats(scroll.list)' = Ats(scroll.list)
    BY <1>3, <1>8, <1>11, <1>14 DEF Ats
  <2>3. scroll' = scroll
    BY <1>3, <1>9, <1>14 DEF Scrolls
  <2> QED
    BY <1>13, <2>1, <2>2, <2>3, ScrollKept
<1>15. CASE scroll.list = l
  <2> DEFINE A == Ats(l)
             B == A \ {d}
             k == Passed
             lacking == scroll.whole \ scroll.seen
             left == scroll'.whole \ scroll.seen
  <2>1. added' = added /\ removed' = removed + 1
    BY <1>1, <1>3, <1>15 DEF Noted
  <2>2. Ats(scroll.list)' = B /\ Passed' = k /\ Ats(scroll.list) = A
    <3>1. Passed' = Passed
      BY <1>10 DEF Passed
    <3> QED
      BY <1>8, <1>11, <1>12, <1>15, <3>1
  <2>3. /\ A \in SUBSET Nat /\ IsFiniteSet(A) /\ d \in A /\ Cardinality(A) \in Nat
    BY <1>1, <1>7, AtsKnown
  <2>4. IsFiniteSet(scroll.seen) /\ IsFiniteSet(lacking) /\ left = lacking \ {d}
    BY <1>1, <1>10, <1>15, CountsKnown DEF OwnTypes
  <2>5. k \in Nat /\ scroll.count \in Nat
    BY <1>1, PassedKnown DEF OwnTypes, Scrolls
  <2>6. /\ scroll.seen \cap Beyond(B, k) \subseteq scroll.seen \cap Beyond(A, k)
        /\ Cardinality(left \cap Within(B, k)) <= Cardinality(lacking \cap Within(A, k)) + 1
    <3> HIDE DEF A, k, lacking, left
    <3> QED
      BY <2>3, <2>4, <2>5, OneMovesUp
  <2>7. /\ Cardinality(scroll.seen \cap Beyond(B, k))
              <= Cardinality(scroll.seen \cap Beyond(A, k))
        /\ Cardinality(left) <= Cardinality(lacking)
    <3>1. IsFiniteSet(scroll.seen \cap Beyond(A, k))
      BY <1>1, CountsKnown
    <3>2. left \subseteq lacking
      BY <2>4
    <3> QED
      BY <2>4, <2>6, <3>1, <3>2, FS_Subset
  <2>8. /\ Cardinality(scroll.seen \cap Beyond(A, k)) \in Nat /\ Cardinality(scroll.seen) \in Nat
        /\ Cardinality(scroll.seen \cap Beyond(B, k)) \in Nat
        /\ Cardinality(lacking \cap Within(A, k)) \in Nat /\ Cardinality(lacking) \in Nat
        /\ scroll.total \in Nat
    BY <1>1, CountsKnown DEF OwnTypes, Scrolls
  <2>9. /\ Cardinality(left \cap Within(B, k)) \in Nat /\ Cardinality(left) \in Nat
    <3>1. IsFiniteSet(left) /\ IsFiniteSet(left \cap Within(B, k))
      BY <2>4, FS_Subset
    <3> QED
      BY <3>1, FS_CardinalityType
  <2>10. Cardinality(B) <= Cardinality(A) /\ Cardinality(B) \in Nat
    <3>1. B \subseteq A
      OBVIOUS
    <3>2. IsFiniteSet(B) /\ Cardinality(B) <= Cardinality(A)
      BY <2>3, <3>1, FS_Subset
    <3> QED
      BY <3>2, FS_CardinalityType
  <2> HIDE DEF A, B, k
  <2>11. ASSUME scroll.pc \in {"asked", "counted", "shown"}
         PROVE  Shifts(Ats(scroll.list), Passed)'
    <3>1. /\ Cardinality(scroll.seen \cap Beyond(A, k)) + scroll.total
                <= Cardinality(scroll.seen) + added
          /\ Cardinality(lacking \cap Within(A, k)) <= removed
      BY <2>2, <2>11 DEF OwnInv, Shifts, k
    <3>2. /\ Cardinality(scroll.seen \cap Beyond(B, k)) + scroll.total
                <= Cardinality(scroll.seen) + added
          /\ Cardinality(left \cap Within(B, k)) <= removed + 1
      BY <1>3, <2>6, <2>7, <2>8, <2>9, <3>1
    <3> QED
      BY <1>10, <2>1, <2>2, <3>2 DEF Shifts
  <2>12. ASSUME scroll.pc = "counted"
         PROVE  k <= scroll.count /\ Cardinality(B) <= scroll.count + added
    <3>1. k <= scroll.count /\ Cardinality(A) <= scroll.count + added
      BY <2>2, <2>12 DEF OwnInv, k
    <3> QED
      BY <1>3, <2>3, <2>5, <2>10, <3>1 DEF A
  <2>13. ASSUME scroll.pc = "ended"
         PROVE  /\ scroll.total <= Cardinality(scroll.seen) + added
                /\ Cardinality(left) <= (removed + 1) + added
    <3>1. /\ scroll.total <= Cardinality(scroll.seen) + added
          /\ Cardinality(lacking) <= removed + added
      BY <2>13 DEF OwnInv
    <3> QED
      BY <1>3, <2>7, <2>8, <2>9, <3>1
  <2>14. ASSUME scroll.pc = "idle"
         PROVE  scroll.seen = {} /\ scroll.total = 0 /\ scroll'.whole = {}
    <3>1. scroll.seen = {} /\ scroll.total = 0 /\ scroll.whole = {}
      BY <2>14 DEF OwnInv
    <3> QED
      BY <1>10, <1>15, <3>1
  <2> QED
    BY <1>10, <1>13, <2>1, <2>2, <2>11, <2>12, <2>13, <2>14 DEF OwnInv
<1> QED
  BY <1>14, <1>15

-----------------------------------------------------------------------------
(* The pages *)

\* Types while the rows stay as they are.
LEMMA ReaderTypes ==
    ASSUME OwnTypes, UNCHANGED <<ownRows, present, ticks>>, added' \in Nat, removed' \in Nat,
           scroll' \in Scrolls, IsFiniteSet(scroll'.seen), \A t \in scroll'.seen : t <= ticks,
           IsFiniteSet(scroll'.whole), scroll'.whole \subseteq Ats(scroll'.list)
    PROVE  OwnTypes' /\ \A o \in Lists : Ats(o)' = Ats(o)
<1>1. \A o \in Lists : Ats(o)' = Ats(o)
  BY DEF Ats
<1>2. Ats(scroll.list)' = {one.at : one \in ownRows'[scroll'.list]}
  BY DEF Ats
<1>3. scroll'.whole \subseteq Ats(scroll.list)'
  BY <1>2 DEF Ats
<1> QED
  BY <1>1, <1>3 DEF OwnTypes

LEMMA NoScrollKept ==
    ASSUME OwnInv, UNCHANGED <<ownRows, present, ticks>>, added' \in Nat, removed' \in Nat,
           scroll' = NoScroll
    PROVE  OwnInv'
<1>1. /\ scroll'.pc = "idle" /\ scroll'.seen = {} /\ scroll'.total = 0 /\ scroll'.whole = {}
      /\ scroll' \in Scrolls
  BY DEF NoScroll, Scrolls, Lists
<1>2. OwnTypes'
  BY <1>1, ReaderTypes, FS_EmptySet DEF OwnInv
<1> QED
  BY <1>1, <1>2 DEF OwnInv

LEMMA CloseOwnKept == OwnInv /\ CloseOwn => OwnInv'
  BY NoScrollKept DEF CloseOwn

LEMMA OpenOwnKept ==
    ASSUME OwnInv, NEW l \in Lists, OpenOwn(l)
    PROVE  OwnInv'
<1>1. /\ scroll'.pc = "asked" /\ scroll'.seen = {} /\ scroll'.total = 0 /\ scroll'.page = 1
      /\ scroll'.list = l /\ scroll'.whole = Ats(l) /\ added' = 0 /\ removed' = 0
      /\ UNCHANGED <<ownRows, present, ticks>>
  BY DEF OpenOwn, NoScroll, Ats
<1>2. Ats(l) \subseteq Nat /\ IsFiniteSet(Ats(l))
  BY AtsKnown DEF OwnInv
<1>3. scroll' \in Scrolls
  <2> DEFINE W == Ats(l)
  <2>1. scroll' = [NoScroll EXCEPT !.pc = "asked", !.list = l, !.whole = W] /\ W \in SUBSET Nat
    BY <1>2 DEF OpenOwn, Ats
  <2> HIDE DEF W
  <2>2. NoScroll \in Scrolls
    BY DEF NoScroll, Scrolls, Lists
  <2> QED
    BY <2>1, <2>2 DEF Scrolls
<1>4. OwnTypes' /\ Ats(l)' = Ats(l)
  <2>1. /\ OwnTypes /\ IsFiniteSet(scroll'.seen) /\ \A t \in scroll'.seen : t <= ticks
        /\ IsFiniteSet(scroll'.whole) /\ scroll'.whole \subseteq Ats(scroll'.list)
    BY <1>1, <1>2, FS_EmptySet DEF OwnInv
  <2> QED
    BY <1>1, <1>3, <2>1, ReaderTypes
<1>5. Passed' = 0
  <2>1. Passed' = (1 - 1) * OwnPage
    BY <1>1 DEF Passed
  <2> QED
    BY <2>1, OwnAssumption
<1>6. Within(Ats(l), 0) = {}
  BY <1>2, AheadKnown DEF Within
<1>7. Ats(scroll.list)' = Ats(l)
  <2>1. Ats(scroll.list)' = {one.at : one \in ownRows[l]}
    BY <1>1 DEF Ats
  <2> QED
    BY <2>1 DEF Ats
<1>8. Shifts(Ats(scroll.list), Passed)'
  <2>1. /\ Cardinality({} \cap Beyond(Ats(l), 0)) + 0 <= Cardinality({}) + 0
        /\ Cardinality((Ats(l) \ {}) \cap Within(Ats(l), 0)) <= 0
    BY <1>6, FS_EmptySet
  <2> QED
    BY <1>1, <1>5, <1>7, <2>1 DEF Shifts
<1> QED
  BY <1>1, <1>4, <1>8 DEF OwnInv

LEMMA MoreOwnKept == OwnInv /\ MoreOwn => OwnInv'
<1> SUFFICES ASSUME OwnInv, MoreOwn PROVE OwnInv'
  OBVIOUS
<1>1. scroll \in Scrolls /\ OwnTypes
  BY DEF OwnInv, OwnTypes
<1>2. /\ scroll'.pc = "asked" /\ scroll'.list = scroll.list /\ scroll'.page = scroll.page + 1
      /\ scroll'.seen = scroll.seen /\ scroll'.total = scroll.total
      /\ scroll'.whole = scroll.whole /\ scroll' \in Scrolls
      /\ UNCHANGED <<ownRows, present, ticks, added, removed>>
  <2>1. /\ scroll' = [scroll EXCEPT !.pc = "asked", !.page = scroll.page + 1]
        /\ UNCHANGED <<ownRows, present, ticks, added, removed>>
    BY DEF MoreOwn
  <2>2. scroll.page + 1 \in Nat \ {0}
    BY <1>1 DEF Scrolls
  <2> QED
    BY <1>1, <2>1, <2>2 DEF Scrolls
<1>3. OwnTypes' /\ Ats(scroll.list)' = Ats(scroll.list)
  <2>1. OwnTypes'
    BY <1>1, <1>2, ReaderTypes DEF OwnTypes
  <2> QED
    BY <1>2, <2>1 DEF Ats
<1>4. Passed' = Passed
  <2>1. scroll'.page - 1 = scroll.page
    BY <1>1, <1>2 DEF Scrolls
  <2>2. Passed' = (scroll'.page - 1) * OwnPage
    BY <1>2 DEF Passed
  <2>3. Passed = scroll.page * OwnPage
    BY DEF Passed, MoreOwn
  <2> QED
    BY <2>1, <2>2, <2>3, Zenon
<1>5. Shifts(Ats(scroll.list), Passed)
  BY DEF OwnInv, MoreOwn
<1>6. Shifts(Ats(scroll.list), Passed)'
  BY <1>2, <1>3, <1>4, <1>5 DEF Shifts
<1> QED
  BY <1>2, <1>3, <1>6 DEF OwnInv

LEMMA CountOwnKept == OwnInv /\ CountOwn => OwnInv'
<1> SUFFICES ASSUME OwnInv, CountOwn PROVE OwnInv'
  OBVIOUS
<1> DEFINE count == Cardinality(ownRows[scroll.list])
           A == Ats(scroll.list)
           low == (scroll.page - 1) * OwnPage
           high == scroll.page * OwnPage
<1>1. /\ scroll \in Scrolls /\ OwnTypes /\ scroll.pc = "asked" /\ scroll.list \in Lists
      /\ added \in Nat /\ removed \in Nat /\ UNCHANGED <<ownRows, present, ticks, added, removed>>
  BY DEF OwnInv, OwnTypes, CountOwn, Scrolls
<1>2. /\ A \in SUBSET Nat /\ IsFiniteSet(A) /\ Cardinality(A) = count /\ count \in Nat
  BY <1>1, AtsKnown
<1>3. Passed = low /\ low \in Nat /\ high \in Nat
  BY <1>1, PassedKnown
<1>4. Shifts(A, Passed)
  BY <1>1 DEF OwnInv
<1>5. scroll' = IF ~present THEN NoScroll
                ELSE IF scroll.page > 1 /\ count <= low
                THEN [scroll EXCEPT !.pc = "ended"]
                ELSE [scroll EXCEPT !.pc = "counted", !.count = count]
  BY DEF CountOwn
<1>9. scroll.page = 1 => low = 0
  <2>1. scroll.page = 1 => low = 0 * OwnPage
    BY <1>1
  <2> QED
    BY <2>1, OwnAssumption
<1> HIDE DEF count, low, high
<1>6. CASE ~present
  BY <1>1, <1>5, <1>6, NoScrollKept
<1>7. CASE present /\ scroll.page > 1 /\ count <= low
  <2>1. /\ scroll'.pc = "ended" /\ scroll'.list = scroll.list /\ scroll'.page = scroll.page
        /\ scroll'.seen = scroll.seen /\ scroll'.total = scroll.total
        /\ scroll'.whole = scroll.whole /\ scroll' \in Scrolls
    BY <1>1, <1>5, <1>7 DEF Scrolls
  <2>2. OwnTypes'
    BY <1>1, <2>1, ReaderTypes DEF OwnTypes
  <2> DEFINE lacking == scroll.whole \ scroll.seen
  <2>3. IsFiniteSet(Beyond(A, low)) /\ Cardinality(Beyond(A, low)) <= 0
    BY <1>2, <1>3, <1>7, BeyondCounted
  <2>4. Cardinality(Beyond(A, low)) \in Nat
    BY <2>3, FS_CardinalityType
  <2>5. lacking \subseteq (lacking \cap Within(A, low)) \cup Beyond(A, low)
    <3>1. scroll.whole \subseteq A
      BY <1>1 DEF OwnTypes
    <3>2. \A t \in A : Cardinality(Ahead(A, t)) \in Nat
      BY <1>2, AheadKnown
    <3>3. \A t \in A : t \in Within(A, low) \/ t \in Beyond(A, low)
      BY <1>3, <3>2 DEF Within, Beyond
    <3> QED
      BY <3>1, <3>3
  <2>6. /\ IsFiniteSet(lacking \cap Within(A, low)) /\ Cardinality(lacking) \in Nat
        /\ Cardinality(lacking \cap Within(A, low)) \in Nat
        /\ Cardinality(scroll.seen \cap Beyond(A, low)) \in Nat
        /\ Cardinality(scroll.seen) \in Nat /\ scroll.total \in Nat
    BY <1>1, CountsKnown DEF Scrolls
  <2>7. Cardinality(lacking) <= Cardinality(lacking \cap Within(A, low))
                                 + Cardinality(Beyond(A, low))
    <3> HIDE DEF A, lacking
    <3> QED
      BY <2>3, <2>5, <2>6, CoverCounted
  <2>8. /\ Cardinality(scroll.seen \cap Beyond(A, low)) + scroll.total
              <= Cardinality(scroll.seen) + added
        /\ Cardinality(lacking \cap Within(A, low)) <= removed
    BY <1>3, <1>4 DEF Shifts
  <2>9. /\ scroll.total <= Cardinality(scroll.seen) + added
        /\ Cardinality(lacking) <= removed + added
    <3> HIDE DEF A, lacking
    <3> QED
      BY <1>1, <2>3, <2>4, <2>6, <2>7, <2>8
  <2> QED
    BY <1>1, <2>1, <2>2, <2>9 DEF OwnInv
<1>8. CASE present /\ ~(scroll.page > 1 /\ count <= low)
  <2>1. /\ scroll'.pc = "counted" /\ scroll'.list = scroll.list /\ scroll'.page = scroll.page
        /\ scroll'.seen = scroll.seen /\ scroll'.total = scroll.total
        /\ scroll'.whole = scroll.whole /\ scroll' \in Scrolls /\ scroll'.count = count
    <3>1. scroll' = [scroll EXCEPT !.pc = "counted", !.count = count]
      BY <1>5, <1>8
    <3> QED
      BY <1>1, <1>2, <3>1 DEF Scrolls
  <2>2. OwnTypes' /\ Ats(scroll.list)' = A
    <3>1. OwnTypes'
      BY <1>1, <2>1, ReaderTypes DEF OwnTypes
    <3> QED
      BY <1>1, <2>1, <3>1 DEF Ats
  <2>3. Passed' = Passed
    <3>1. Passed' = (scroll.page - 1) * OwnPage
      BY <2>1 DEF Passed
    <3> QED
      BY <1>3, <3>1 DEF low
  <2>4. Shifts(Ats(scroll.list), Passed)'
    BY <1>1, <1>4, <2>1, <2>2, <2>3 DEF Shifts
  <2>5. low <= count
    <3>1. scroll.page \in Nat \ {0}
      BY <1>1 DEF Scrolls
    <3> QED
      BY <1>2, <1>3, <1>8, <1>9, <3>1
  <2>6. Passed' <= scroll'.count /\ Cardinality(A) <= scroll'.count + added'
    <3> HIDE DEF A
    <3> QED
      BY <1>1, <1>2, <1>3, <2>1, <2>3, <2>5
  <2> QED
    BY <2>1, <2>2, <2>4, <2>6 DEF OwnInv
<1> QED
  BY <1>6, <1>7, <1>8

LEMMA ReadOwnKept == OwnInv /\ ReadOwn => OwnInv'
<1> SUFFICES ASSUME OwnInv, ReadOwn PROVE OwnInv'
  OBVIOUS
<1> DEFINE A == Ats(scroll.list)
           low == (scroll.page - 1) * OwnPage
           high == scroll.page * OwnPage
           cut == Cut(scroll.page, scroll.count)
           rows == OnOwnPage(scroll.list, scroll.page, scroll.count)
           G == {one.at : one \in rows}
           S == scroll.seen \cup G
           lacking == scroll.whole \ scroll.seen
           left == scroll.whole \ S
<1>1. /\ scroll \in Scrolls /\ OwnTypes /\ scroll.pc = "counted" /\ scroll.list \in Lists
      /\ added \in Nat /\ removed \in Nat /\ UNCHANGED <<ownRows, present, ticks, added, removed>>
      /\ scroll.page \in Nat /\ scroll.count \in Nat
  BY DEF OwnInv, OwnTypes, ReadOwn, Scrolls
<1>2. A \in SUBSET Nat /\ IsFiniteSet(A) /\ \A t \in A : t <= ticks
  BY <1>1, AtsKnown
<1>3. Passed = low /\ low \in Nat /\ high \in Nat /\ low <= high /\ low <= scroll.count
  BY <1>1, PassedKnown DEF OwnInv
<1>4. G = Beyond(A, low) \cap Within(A, cut)
  BY <1>1, PageTimes
<1>21. cut = IF scroll.count > high THEN high ELSE scroll.count
  BY DEF Cut
<1> HIDE DEF cut
<1>22. cut \in Nat /\ low <= cut
  <2> HIDE DEF low, high
  <2> QED
    BY <1>1, <1>3, <1>21
<1>5. /\ IsFiniteSet(G) /\ Cardinality(G) = Cardinality(rows)
      /\ Cardinality(G) \in Nat /\ G \subseteq Nat
  <2>1. rows \subseteq ownRows[scroll.list]
    BY DEF OnOwnPage
  <2> HIDE DEF rows
  <2> QED
    BY <1>1, <2>1, TimesCounted
<1>6. G \subseteq A
  BY <1>4 DEF Beyond
<1>7. scroll' = [scroll EXCEPT !.pc = IF scroll.count > high THEN "shown" ELSE "ended",
                               !.seen = scroll.seen \cup G,
                               !.total = scroll.total + Cardinality(rows)]
  BY DEF ReadOwn, Seeing
<1> HIDE DEF low, high, rows, G
<1>8. /\ scroll'.pc = (IF scroll.count > high THEN "shown" ELSE "ended") /\ scroll'.list = scroll.list
      /\ scroll'.page = scroll.page /\ scroll'.seen = S
      /\ scroll'.total = scroll.total + Cardinality(G) /\ scroll'.whole = scroll.whole
      /\ scroll' \in Scrolls
  <2> DEFINE goes == IF scroll.count > high THEN "shown" ELSE "ended"
             shows == scroll.total + Cardinality(rows)
  <2>1. /\ goes \in {"shown", "ended"} /\ shows \in Nat /\ shows = scroll.total + Cardinality(G)
    BY <1>1, <1>5 DEF Scrolls
  <2>2. S \in SUBSET Nat
    BY <1>1, <1>5 DEF Scrolls
  <2>3. scroll' = [scroll EXCEPT !.pc = goes, !.seen = S, !.total = shows]
    BY <1>7
  <2> HIDE DEF goes, shows, S
  <2>4. /\ scroll'.pc = goes /\ scroll'.list = scroll.list /\ scroll'.page = scroll.page
        /\ scroll'.seen = S /\ scroll'.total = shows /\ scroll'.whole = scroll.whole
        /\ scroll' \in Scrolls
    BY <1>1, <2>1, <2>2, <2>3 DEF Scrolls
  <2> QED
    BY <2>1, <2>4 DEF goes
<1>9. IsFiniteSet(scroll.seen) /\ \A t \in scroll.seen : t <= ticks
  BY <1>1 DEF OwnTypes
<1>10. IsFiniteSet(S)
  BY <1>5, <1>9, FS_Union
<1>11. OwnTypes' /\ Ats(scroll.list)' = A
  <2>1. \A t \in S : t <= ticks
    BY <1>2, <1>6, <1>9
  <2>2. IsFiniteSet(scroll'.whole) /\ scroll'.whole \subseteq Ats(scroll'.list)
    BY <1>1, <1>8 DEF OwnTypes
  <2>3. OwnTypes'
    BY <1>1, <1>8, <1>10, <2>1, <2>2, ReaderTypes
  <2> QED
    BY <1>1, <1>8, <2>3 DEF Ats
<1>12. /\ Cardinality(scroll.seen \cap Beyond(A, low)) + scroll.total
             <= Cardinality(scroll.seen) + added
       /\ Cardinality(lacking \cap Within(A, low)) <= removed
  BY <1>1, <1>3 DEF OwnInv, Shifts
<1>13. /\ Cardinality(scroll.seen \cap Beyond(A, low)) \in Nat /\ Cardinality(scroll.seen) \in Nat
       /\ IsFiniteSet(lacking \cap Within(A, low)) /\ scroll.total \in Nat
       /\ Cardinality(lacking \cap Within(A, low)) \in Nat
  BY <1>1, CountsKnown DEF Scrolls
<1>14. scroll.whole \subseteq A
  BY <1>1 DEF OwnTypes
<1> HIDE DEF A
<1>15. Cardinality(S \cap Beyond(A, cut)) + Cardinality(G) + Cardinality(scroll.seen)
          = Cardinality(scroll.seen \cap Beyond(A, low)) + Cardinality(S)
  BY <1>2, <1>3, <1>4, <1>9, <1>22, PageRepeats
<1>16. /\ left \cap Within(A, cut) \subseteq lacking \cap Within(A, low)
       /\ left \subseteq (lacking \cap Within(A, low)) \cup Beyond(A, cut)
  <2> DEFINE before == scroll.seen
             there == scroll.whole
  <2>1. there \in SUBSET A /\ Beyond(A, low) \cap Within(A, cut) \subseteq G
    BY <1>4, <1>14
  <2> HIDE DEF before, there
  <2>2. /\ (there \ (before \cup G)) \cap Within(A, cut)
              \subseteq (there \ before) \cap Within(A, low)
        /\ there \ (before \cup G)
              \subseteq ((there \ before) \cap Within(A, low)) \cup Beyond(A, cut)
    BY <1>2, <1>3, <1>22, <2>1, PageMisses
  <2> QED
    BY <2>2 DEF before, there
<1>17. /\ Cardinality(S) \in Nat /\ Cardinality(S \cap Beyond(A, cut)) \in Nat
  <2>1. IsFiniteSet(S \cap Beyond(A, cut))
    BY <1>10, FS_Subset
  <2> QED
    BY <1>10, <2>1, FS_CardinalityType
<1>18. Cardinality(S \cap Beyond(A, cut)) + (scroll.total + Cardinality(G))
          <= Cardinality(S) + added
  <2> HIDE DEF S
  <2> QED
    BY <1>1, <1>5, <1>12, <1>13, <1>15, <1>17
<1>19. CASE scroll.count > high
  <2>1. scroll'.pc = "shown" /\ Passed' = cut
    BY <1>8, <1>19, <1>21 DEF Passed, high
  <2>2. Cardinality(left \cap Within(A, cut)) <= removed
    <3>1. /\ Cardinality(left \cap Within(A, cut)) <= Cardinality(lacking \cap Within(A, low))
          /\ IsFiniteSet(left \cap Within(A, cut))
      BY <1>13, <1>16, FS_Subset
    <3>2. Cardinality(left \cap Within(A, cut)) \in Nat
      BY <3>1, FS_CardinalityType
    <3> QED
      BY <1>1, <1>12, <1>13, <3>1, <3>2
  <2>3. Shifts(Ats(scroll.list), Passed)'
    BY <1>1, <1>8, <1>11, <1>18, <2>1, <2>2 DEF Shifts
  <2> QED
    BY <1>11, <2>1, <2>3 DEF OwnInv
<1>20. CASE ~(scroll.count > high)
  <2>1. scroll'.pc = "ended"
    BY <1>8, <1>20
  <2>2. Cardinality(A) <= cut + added
    BY <1>1, <1>20, <1>21 DEF OwnInv, A
  <2>3. IsFiniteSet(Beyond(A, cut)) /\ Cardinality(Beyond(A, cut)) <= added
    BY <1>1, <1>2, <1>22, <2>2, BeyondCounted
  <2>4. /\ IsFiniteSet(left)
        /\ Cardinality(left) <= Cardinality(lacking \cap Within(A, low))
                                + Cardinality(Beyond(A, cut))
    <3> HIDE DEF left, lacking
    <3> QED
      BY <1>13, <1>16, <2>3, CoverCounted
  <2>5. Cardinality(left) \in Nat /\ Cardinality(Beyond(A, cut)) \in Nat
    BY <2>3, <2>4, FS_CardinalityType
  <2>6. /\ scroll.total + Cardinality(G) <= Cardinality(S) + added
        /\ Cardinality(left) <= removed + added
    <3> HIDE DEF S, left, lacking
    <3> QED
      BY <1>1, <1>5, <1>12, <1>13, <1>17, <1>18, <2>3, <2>4, <2>5
  <2> QED
    BY <1>1, <1>8, <1>11, <2>1, <2>6 DEF OwnInv
<1> QED
  BY <1>19, <1>20

LEMMA OwnBounded == OwnInv => OwnShiftBounded
<1> SUFFICES ASSUME OwnInv PROVE OwnShiftBounded
  OBVIOUS
<1>1. /\ OwnTypes /\ scroll.total \in Nat /\ added \in Nat
      /\ scroll.pc \in {"idle", "asked", "counted", "shown", "ended"}
  BY DEF OwnInv, OwnTypes, Scrolls
<1>2. Cardinality(scroll.seen) \in Nat
      /\ Cardinality(scroll.seen \cap Beyond(Ats(scroll.list), Passed)) \in Nat
  BY <1>1, CountsKnown
<1>3. scroll.total <= Cardinality(scroll.seen) + added
  BY <1>1, <1>2 DEF OwnInv, Shifts
<1> QED
  BY <1>3 DEF OwnInv, OwnShiftBounded

\* Who scrolls through a list of a member sees a row again at most once for each row added
\* meanwhile, and misses at most one for each row removed meanwhile and each added between
\* the count and the rows of the last page, for lists and pages of any length
\* (UserBookmarkService, UserReviewService: order_by("-created_at") and Paginator.page, which
\* cuts the slice at the count).
THEOREM ShiftsAlwaysBounded == OwnSpec => []OwnShiftBounded
<1>1. OwnInit => OwnInv
  BY OwnStarts
<1>2. OwnInv /\ [OwnNext]_ownVars => OwnInv'
  <2> SUFFICES ASSUME OwnInv, [OwnNext]_ownVars PROVE OwnInv'
    OBVIOUS
  <2>1. ASSUME NEW l \in Lists, NEW p \in OwnPlaces, AddRow(l, p) PROVE OwnInv'
    BY <2>1, AddRowKept
  <2>2. ASSUME NEW l \in Lists, NEW gone \in ownRows[l], TakeRow(l, gone) PROVE OwnInv'
    BY <2>2, TakeRowKept
  <2>3. ASSUME NEW l \in Lists, OpenOwn(l) PROVE OwnInv'
    BY <2>3, OpenOwnKept
  <2>4. ASSUME NEW entry \in ownRows["reviews"], EditRow(entry) PROVE OwnInv'
    BY <2>4, EditRowKept
  <2>5. CASE LeaveOrReturn
    BY <2>5, LeaveOrReturnKept
  <2>6. CASE CountOwn
    BY <2>6, CountOwnKept
  <2>7. CASE ReadOwn
    BY <2>7, ReadOwnKept
  <2>8. CASE MoreOwn
    BY <2>8, MoreOwnKept
  <2>9. CASE CloseOwn
    BY <2>9, CloseOwnKept
  <2>10. CASE UNCHANGED ownVars
    BY <2>10, OwnStutterKept
  <2> QED
    BY <2>1, <2>2, <2>3, <2>4, <2>5, <2>6, <2>7, <2>8, <2>9, <2>10 DEF OwnNext
<1> QED
  BY <1>1, <1>2, OwnBounded, PTL DEF OwnSpec

--------------------------------------------------------------------------------
(* A search that is scrolled *)

(***************************************************************************)
(* Every page asks anew for the tier, the count and the rows. As long as   *)
(* nothing changes the rows have one order, since the id decides between   *)
(* equal ranks, and SearchInv says that what was seen is the beginning of  *)
(* it, up to the last page; whatever changes, a page of a lower tier is    *)
(* only read when nobody who was there all the time has the keyword.       *)
(***************************************************************************)

Queries ==
    [at : {"idle", "tier", "count", "page", "end"}, kw : SearchKeywords,
     tags : SearchFilters \cup {{}}, page : Nat, tier : 0 .. 3, total : Nat, seen : Seq(Nat),
     steady : SUBSET Nat, settled : BOOLEAN]

SearchTypes ==
    /\ IsFiniteSet(DOMAIN facts) /\ DOMAIN facts \subseteq Nat
    /\ facts \in [DOMAIN facts -> Facts]
    /\ query \in Queries /\ query.page >= 1
    /\ query.steady \subseteq ShownIds
    /\ \A i \in DOMAIN query.seen : query.seen[i] \in DOMAIN facts

\* The place has the keyword in its name or in a tag.
Spoken(kw, p) == facts[p].name = "whole" \/ facts[p].tags \cap Hits(kw) # {}

\* Below the first tier nobody who was there all along has the keyword.
TierHolds ==
    query.at \in {"count", "page"} =>
        /\ query.tier = 0 => query.kw = NoKeyword
        /\ query.tier \in {2, 3} => \A q \in query.steady : ~Spoken(query.kw, q)

\* The list that is read as long as nothing changes, and how much of it a page reaches.
Wanted == ListedRows(query.kw, BestTier(query.kw), query.tags)
Start == (query.page - 1) * SearchPage
Reached == IF Start < Cardinality(Wanted) THEN Start ELSE Cardinality(Wanted)

ListRead ==
    \E rows \in Orders(Wanted) : query.seen = SubSeq(PlacesOf(rows), 1, Reached)

Scrolled ==
    query.settled /\ query.at # "idle" =>
        /\ query.at # "tier" => query.tier = BestTier(query.kw)
        /\ query.at \in {"page", "end"} => query.total = Cardinality(Wanted)
        /\ query.page = 1 => query.seen = <<>> /\ query.at # "end"
        /\ query.page > 1 => ListRead
        /\ query.at = "page" /\ query.page > 1 => Start < query.total
        /\ query.at = "end" => query.total <= Start

SearchInv == SearchTypes /\ TierHolds /\ NamesBeforeAddresses /\ Scrolled

-----------------------------------------------------------------------------
(* What a keyword matches *)

LEMMA FactsTyped ==
    ASSUME SearchTypes, NEW p \in DOMAIN facts
    PROVE  /\ p \in Nat /\ facts[p].rank \in 0 .. 1 /\ facts[p].tags \subseteq SearchTags
           /\ facts[p].name \in {"whole", "stem", "alike", "other"}
           /\ facts[p].shown \in BOOLEAN /\ facts[p].addressed \in BOOLEAN
BY DEF SearchTypes, Facts

LEMMA NoTagHit ==
    ASSUME NEW kw
    PROVE  "no tag" \notin Hits(kw)
BY SearchAssumption DEF Hits

LEMMA SpokenRow ==
    ASSUME NEW kw, NEW p
    PROVE  /\ TagRows(p) # {}
           /\ Spoken(kw, p) <=> \E t \in TagRows(p) : Exact(kw, p, t)
<1>1. TagRows(p) # {}
  BY DEF TagRows
<1>2. CASE facts[p].name = "whole"
  BY <1>1, <1>2 DEF Spoken, Exact
<1>3. CASE facts[p].name # "whole"
  <2>1. Spoken(kw, p) <=> \E t \in facts[p].tags : t \in Hits(kw)
    BY <1>3 DEF Spoken
  <2>2. (\E t \in TagRows(p) : t \in Hits(kw)) <=> \E t \in facts[p].tags : t \in Hits(kw)
    BY NoTagHit DEF TagRows
  <2>3. \A t : Exact(kw, p, t) <=> t \in Hits(kw)
    BY <1>3 DEF Exact
  <2> QED
    BY <1>1, <2>1, <2>2, <2>3
<1> QED
  BY <1>2, <1>3

\* The tiers of the rows of a place.
LEMMA RowTiers ==
    ASSUME SearchTypes, NEW kw, NEW p \in DOMAIN facts
    PROVE  /\ \A t : Tier(kw, p, t) \in {1, 2, 99}
           /\ (\E t \in TagRows(p) : Tier(kw, p, t) = 1) <=> Spoken(kw, p) \/ Core(kw, p)
           /\ \A t : Tier(kw, p, t) = 2 => facts[p].addressed
           /\ facts[p].addressed => \A t : Tier(kw, p, t) # 99
           /\ \A t : Core(kw, p) => Tier(kw, p, t) = 1
<1>1. \A t : Tier(kw, p, t) = 1 <=> Exact(kw, p, t) \/ Core(kw, p)
  BY DEF Tier
<1>2. (\E t \in TagRows(p) : Tier(kw, p, t) = 1) <=> Spoken(kw, p) \/ Core(kw, p)
  BY <1>1, SpokenRow
<1>3. \A t : Tier(kw, p, t) \in {1, 2, 99} /\ (Tier(kw, p, t) = 2 => facts[p].addressed)
  BY DEF Tier
<1>4. facts[p].addressed => \A t : Tier(kw, p, t) # 99
  BY DEF Tier
<1> QED
  BY <1>1, <1>2, <1>3, <1>4

Tiers(kw) == UNION {{Tier(kw, p, t) : t \in TagRows(p)} : p \in ShownIds}

LEMMA TiersOfPlaces ==
    ASSUME SearchTypes, NEW kw
    PROVE  /\ 1 \in Tiers(kw) <=> \E p \in ShownIds : Spoken(kw, p) \/ Core(kw, p)
           /\ 2 \in Tiers(kw) => \E p \in ShownIds : facts[p].addressed
           /\ 1 \notin Tiers(kw) /\ 2 \notin Tiers(kw) => \A p \in ShownIds : ~facts[p].addressed
<1>1. ShownIds \subseteq DOMAIN facts
  BY DEF ShownIds
<1>2. \A n : n \in Tiers(kw) <=> \E p \in ShownIds : \E t \in TagRows(p) : Tier(kw, p, t) = n
  BY DEF Tiers
<1>3. 1 \in Tiers(kw) <=> \E p \in ShownIds : Spoken(kw, p) \/ Core(kw, p)
  <2>1. \A p \in ShownIds :
           (\E t \in TagRows(p) : Tier(kw, p, t) = 1) <=> Spoken(kw, p) \/ Core(kw, p)
    <3>1. SUFFICES ASSUME NEW p \in ShownIds
                   PROVE  (\E t \in TagRows(p) : Tier(kw, p, t) = 1)
                             <=> Spoken(kw, p) \/ Core(kw, p)
      OBVIOUS
    <3>2. p \in DOMAIN facts
      BY <1>1
    <3> QED
      BY <3>2, RowTiers
  <2>2. (\E p \in ShownIds : \E t \in TagRows(p) : Tier(kw, p, t) = 1)
           <=> \E p \in ShownIds : Spoken(kw, p) \/ Core(kw, p)
    BY <2>1
  <2> QED
    BY <1>2, <2>2
<1>4. ASSUME 2 \in Tiers(kw) PROVE \E p \in ShownIds : facts[p].addressed
  <2>1. PICK p \in ShownIds : \E t \in TagRows(p) : Tier(kw, p, t) = 2
    BY <1>2, <1>4
  <2> QED
    BY <1>1, <2>1, RowTiers
<1>5. ASSUME 1 \notin Tiers(kw), 2 \notin Tiers(kw), NEW p \in ShownIds PROVE ~facts[p].addressed
  <2>1. PICK t \in TagRows(p) : TRUE
    BY SpokenRow
  <2>2. Tier(kw, p, t) = 99
    BY <1>1, <1>2, <1>5, RowTiers
  <2> QED
    BY <1>1, <2>2, RowTiers
<1> QED
  BY <1>3, <1>4, <1>5

\* The best tier, and what it says of the places.
LEMMA BestTiers ==
    ASSUME SearchTypes, NEW kw
    PROVE  /\ BestTier(kw) \in 0 .. 3
           /\ BestTier(kw) = 0 <=> kw = NoKeyword
           /\ BestTier(kw) = 1 => \E p \in ShownIds : Spoken(kw, p) \/ Core(kw, p)
           /\ BestTier(kw) \in {2, 3} => \A p \in ShownIds : ~Spoken(kw, p) /\ ~Core(kw, p)
           /\ BestTier(kw) = 2 => \E p \in ShownIds : facts[p].addressed
           /\ BestTier(kw) = 3 => \A p \in ShownIds : ~facts[p].addressed
<1>1. BestTier(kw) = IF kw = NoKeyword THEN 0
                     ELSE IF 1 \in Tiers(kw) THEN 1 ELSE IF 2 \in Tiers(kw) THEN 2 ELSE 3
  BY DEF BestTier, Tiers
<1> QED
  BY <1>1, TiersOfPlaces

-----------------------------------------------------------------------------
(* The rows that are listed *)

\* What is listed in a tier.
LEMMA ListedKnown ==
    ASSUME SearchTypes, NEW kw, NEW tier \in 0 .. 3, NEW tags,
           NEW x \in ListedRows(kw, tier, tags)
    PROVE  /\ x = <<x[1], x[2]>> /\ x[1] \in WithTags(tags) /\ x[1] \in DOMAIN facts
           /\ x[2] \in 0 .. 2
           /\ tier = 1 => Spoken(kw, x[1]) \/ Core(kw, x[1])
           /\ tier = 2 => facts[x[1]].addressed
           /\ tier = 3 => facts[x[1]].name = "alike"
           /\ tier \in {0, 3} => x[2] = 0
           /\ tier \in {1, 2} => \E t \in TagRows(x[1]) :
                                    Tier(kw, x[1], t) = tier /\ x[2] = Relevance(kw, x[1], t)
<1>1. WithTags(tags) \subseteq DOMAIN facts
  BY DEF WithTags, ShownIds
<1>2. CASE tier \in {0, 3}
  <2>1. PICK p \in WithTags(tags) : x = <<p, 0>> /\ (tier = 3 => facts[p].name = "alike")
    BY <1>2 DEF ListedRows
  <2> QED
    BY <1>1, <1>2, <2>1
<1>3. CASE tier \in {1, 2}
  <2>1. PICK p \in WithTags(tags) : \E t \in TagRows(p) :
            x = <<p, Relevance(kw, p, t)>> /\ Tier(kw, p, t) = tier
    BY <1>3 DEF ListedRows
  <2>3. PICK t \in TagRows(p) : x = <<p, Relevance(kw, p, t)>> /\ Tier(kw, p, t) = tier
    BY <2>1
  <2>2. Relevance(kw, p, t) \in 0 .. 2
    BY DEF Relevance
  <2> QED
    BY <1>1, <1>3, <2>2, <2>3, RowTiers
<1> QED
  BY <1>2, <1>3

\* A place has one row: its relevance does not depend on the tag.
LEMMA OneRowEach ==
    ASSUME SearchTypes, NEW kw, NEW tier \in 0 .. 3, NEW tags,
           NEW x \in ListedRows(kw, tier, tags), NEW y \in ListedRows(kw, tier, tags), x[1] = y[1]
    PROVE  x = y
<1>1. /\ x = <<x[1], x[2]>> /\ y = <<y[1], y[2]>>
      /\ tier \in {0, 3} => x[2] = y[2]
  BY ListedKnown
<1>2. ASSUME tier \in {1, 2} PROVE x[2] = y[2]
  <2>1. PICK t \in TagRows(x[1]) : Tier(kw, x[1], t) = tier /\ x[2] = Relevance(kw, x[1], t)
    BY <1>2, ListedKnown
  <2>2. PICK u \in TagRows(x[1]) : Tier(kw, x[1], u) = tier /\ y[2] = Relevance(kw, x[1], u)
    BY <1>2, ListedKnown
  <2>3. CASE tier = 2
    BY <2>1, <2>2, <2>3 DEF Tier, Relevance
  <2>4. CASE tier = 1 /\ Core(kw, x[1])
    <3>1. Hits(kw) = {}
      BY <2>4 DEF Core, HasCore, Hits
    <3> QED
      BY <2>1, <2>2, <2>4, <3>1 DEF Relevance, Exact
  <2>5. CASE tier = 1 /\ ~Core(kw, x[1])
    BY <2>1, <2>2, <2>5 DEF Tier, Relevance
  <2> QED
    BY <1>2, <2>3, <2>4, <2>5
<1> QED
  BY <1>1, <1>2

LEMMA ListedFinite ==
    ASSUME SearchTypes, NEW kw, NEW tier \in 0 .. 3, NEW tags
    PROVE  /\ IsFiniteSet(ListedRows(kw, tier, tags))
           /\ Cardinality(ListedRows(kw, tier, tags)) \in Nat
<1> DEFINE R == ListedRows(kw, tier, tags)
           f == [x \in R |-> x[1]]
<1>1. \A x \in R : x[1] \in DOMAIN facts
  BY ListedKnown
<1>2. \A x, y \in R : x[1] = y[1] => x = y
  BY OneRowEach
<1> HIDE DEF R
<1>3. f \in Injection(R, DOMAIN facts)
  BY <1>1, <1>2 DEF Injection, IsInjective
<1>4. IsFiniteSet(R)
  BY <1>3, FS_Injection DEF SearchTypes
<1> QED
  BY <1>4, FS_CardinalityType DEF R

-----------------------------------------------------------------------------
(* Orders *)

\* Rows of different places come one before the other.
LEMMA BeforeOrders ==
    ASSUME SearchTypes, NEW x, NEW y, x[1] \in DOMAIN facts, y[1] \in DOMAIN facts,
           x[2] \in 0 .. 2, y[2] \in 0 .. 2
    PROVE  /\ ~(Before(x, y) /\ Before(y, x))
           /\ x[1] # y[1] => Before(x, y) \/ Before(y, x)
<1>1. facts[x[1]].rank \in 0 .. 1 /\ facts[y[1]].rank \in 0 .. 1 /\ x[1] \in Nat /\ y[1] \in Nat
  BY FactsTyped
<1> QED
  BY <1>1 DEF Before

\* An order lists each row once.
LEMMA OrderLists ==
    ASSUME NEW R, IsFiniteSet(R), NEW s \in Orders(R)
    PROVE  /\ s \in [1 .. Cardinality(R) -> R] /\ Cardinality(R) \in Nat
           /\ \A i, j \in 1 .. Cardinality(R) : s[i] = s[j] => i = j
           /\ \A x \in R : \E i \in 1 .. Cardinality(R) : s[i] = x
           /\ \A i, j \in 1 .. Cardinality(R) : i < j => ~Before(s[j], s[i])
<1> DEFINE n == Cardinality(R)
<1>1. n \in Nat
  BY FS_CardinalityType
<1>2. s \in [1 .. n -> R] /\ \A i, j \in 1 .. n : i # j => s[i] # s[j]
  BY DEF Orders, SetToSeqs
<1>3. \A i, j \in 1 .. n : i < j => ~Before(s[j], s[i])
  BY <1>2 DEF Orders
<1> HIDE DEF n
<1>4. s \in Injection(1 .. n, R)
  BY <1>2 DEF Injection, IsInjective
<1>5. IsFiniteSet(1 .. n) /\ Cardinality(1 .. n) = n
  BY <1>1, FS_Interval
<1>6. s \in Surjection(1 .. n, R)
  BY <1>4, <1>5, FS_Injection DEF n
<1>7. \A x \in R : \E i \in 1 .. n : s[i] = x
  BY <1>6 DEF Surjection
<1> QED
  BY <1>1, <1>2, <1>3, <1>7 DEF n

\* The place of a row in an order is the number of rows before it.
LEMMA OrderPlace ==
    ASSUME SearchTypes, NEW R, IsFiniteSet(R),
           \A x \in R : x[1] \in DOMAIN facts /\ x[2] \in 0 .. 2,
           \A x, y \in R : x[1] = y[1] => x = y,
           NEW s \in Orders(R), NEW i \in 1 .. Cardinality(R)
    PROVE  Cardinality({y \in R : Before(y, s[i])}) = i - 1
<1> DEFINE n == Cardinality(R)
           B == {y \in R : Before(y, s[i])}
           g == [j \in 1 .. i - 1 |-> s[j]]
<1>1. /\ s \in [1 .. n -> R] /\ n \in Nat
      /\ \A j, k \in 1 .. n : s[j] = s[k] => j = k
      /\ \A x \in R : \E j \in 1 .. n : s[j] = x
      /\ \A j, k \in 1 .. n : j < k => ~Before(s[k], s[j])
  BY OrderLists
<1> HIDE DEF n
<1>2. i \in 1 .. n /\ i \in Nat /\ i - 1 \in Nat /\ 1 .. i - 1 \subseteq 1 .. n
  BY <1>1 DEF n
<1>3. \A j \in 1 .. n : s[j] \in B <=> j < i
  <2>1. SUFFICES ASSUME NEW j \in 1 .. n PROVE Before(s[j], s[i]) <=> j < i
    BY <1>1
  <2>2. s[i] \in R /\ s[j] \in R
    BY <1>1, <1>2
  <2>3. CASE j < i
    <3>1. s[j] # s[i] /\ ~Before(s[i], s[j])
      BY <1>1, <1>2, <2>3
    <3> QED
      BY <2>2, <2>3, <3>1, BeforeOrders
  <2>4. CASE j = i
    BY <1>2, <2>2, <2>4, BeforeOrders
  <2>5. CASE j > i
    BY <1>1, <1>2, <2>5
  <2> QED
    BY <1>1, <1>2, <2>3, <2>4, <2>5
<1>4. \A x \in B : \E j \in 1 .. n : s[j] = x
  BY <1>1
<1> HIDE DEF B
<1>5. g \in Bijection(1 .. i - 1, B)
  <2>1. \A j \in 1 .. i - 1 : j \in 1 .. n /\ j < i /\ g[j] = s[j]
    BY <1>1, <1>2
  <2>2. g \in [1 .. i - 1 -> B]
    BY <1>3, <2>1
  <2>3. \A j, k \in 1 .. i - 1 : g[j] = g[k] => j = k
    BY <1>1, <2>1
  <2>4. \A x \in B : \E j \in 1 .. i - 1 : g[j] = x
    <3>1. SUFFICES ASSUME NEW x \in B PROVE \E j \in 1 .. i - 1 : g[j] = x
      OBVIOUS
    <3>2. PICK j \in 1 .. n : s[j] = x
      BY <1>4
    <3>3. j \in 1 .. i - 1
      BY <1>1, <1>2, <1>3, <3>2
    <3> QED
      BY <2>1, <3>2, <3>3
  <2> HIDE DEF g
  <2> QED
    BY <2>2, <2>3, <2>4 DEF Bijection, Injection, Surjection, IsInjective
<1>6. IsFiniteSet(1 .. i - 1) /\ Cardinality(1 .. i - 1) = i - 1
  <2>1. \A b \in Int : /\ IsFiniteSet(1 .. b)
                      /\ Cardinality(1 .. b) = IF 1 > b THEN 0 ELSE b - 1 + 1
    BY FS_Interval
  <2>2. i - 1 \in Int /\ (IF 1 > i - 1 THEN 0 ELSE i - 1 - 1 + 1) = i - 1
    BY <1>2
  <2> QED
    BY <2>1, <2>2
<1>7. ExistsBijection(1 .. i - 1, B)
  BY <1>5 DEF ExistsBijection
<1> QED
  BY <1>6, <1>7, FS_Bijection DEF B

LEMMA OneOrder ==
    ASSUME SearchTypes, NEW kw, NEW tier \in 0 .. 3, NEW tags,
           NEW s \in Orders(ListedRows(kw, tier, tags)),
           NEW u \in Orders(ListedRows(kw, tier, tags))
    PROVE  s = u
<1> DEFINE R == ListedRows(kw, tier, tags)
           n == Cardinality(R)
<1>1. /\ IsFiniteSet(R) /\ \A x \in R : x[1] \in DOMAIN facts /\ x[2] \in 0 .. 2
      /\ \A x, y \in R : x[1] = y[1] => x = y
  BY ListedFinite, ListedKnown, OneRowEach
<1> HIDE DEF R
<1>2. s \in Orders(R) /\ u \in Orders(R)
  BY DEF R
<1>3. /\ s \in [1 .. n -> R] /\ u \in [1 .. n -> R] /\ n \in Nat
      /\ \A x \in R : \E i \in 1 .. n : u[i] = x
  BY <1>1, <1>2, OrderLists
<1>4. \A i \in 1 .. n : /\ Cardinality({y \in R : Before(y, s[i])}) = i - 1
                        /\ Cardinality({y \in R : Before(y, u[i])}) = i - 1
  BY <1>1, <1>2, OrderPlace
<1>5. \A i \in 1 .. n : s[i] = u[i]
  <2>1. SUFFICES ASSUME NEW i \in 1 .. n PROVE s[i] = u[i]
    OBVIOUS
  <2>2. PICK k \in 1 .. n : u[k] = s[i]
    BY <1>3
  <2>3. i - 1 = k - 1
    BY <1>4, <2>2
  <2>4. i = k
    BY <1>3, <2>3
  <2> QED
    BY <2>2, <2>4
<1> QED
  BY <1>3, <1>5

-----------------------------------------------------------------------------
(* Pages *)

LEMMA PageSteps ==
    ASSUME NEW page \in Nat \ {0}
    PROVE  /\ (page - 1) * SearchPage \in Nat /\ page * SearchPage \in Nat
           /\ page * SearchPage = (page - 1) * SearchPage + SearchPage
           /\ (page + 1 - 1) * SearchPage = page * SearchPage
           /\ SearchPage \in Nat /\ SearchPage >= 1
<1>1. SearchPage \in Nat /\ SearchPage >= 1
  <2>1. SearchPage \in Nat \ {0}
    BY SearchAssumption, Zenon
  <2> QED
    BY <2>1
<1>2. /\ (page - 1) * SearchPage \in Nat /\ page * SearchPage \in Nat
      /\ page * SearchPage = (page - 1) * SearchPage + SearchPage
  <2>1. \A k \in Nat : /\ k * SearchPage \in Nat
                      /\ (k + 1) * SearchPage = k * SearchPage + SearchPage
    BY <1>1
  <2>2. page - 1 \in Nat /\ page \in Nat /\ page = (page - 1) + 1
    OBVIOUS
  <2> QED
    BY <2>1, <2>2
<1>3. page + 1 - 1 = page
  OBVIOUS
<1> QED
  BY <1>1, <1>2, <1>3

LEMMA MinOfThree ==
    ASSUME NEW a \in Nat, NEW b \in Nat
    PROVE  Min({a, b, b}) = IF a < b THEN a ELSE b
<1> DEFINE m == IF a < b THEN a ELSE b
<1>1. m \in {a, b, b} /\ (\A y \in {a, b, b} : m =< y) /\ m \in Nat
  OBVIOUS
<1>2. \A x \in {a, b, b} : (\A y \in {a, b, b} : x =< y) => x = m
  BY <1>1
<1> HIDE DEF m
<1>3. \E x \in {a, b, b} : \A y \in {a, b, b} : x =< y
  BY <1>1
<1>4. Min({a, b, b}) = m
  BY <1>2, <1>3 DEF Min
<1> QED
  BY <1>4 DEF m

\* The places of an order are a list without repetition.
LEMMA OrderPlaces ==
    ASSUME NEW R, IsFiniteSet(R), \A x \in R : x[1] \in DOMAIN facts,
           \A x, y \in R : x[1] = y[1] => x = y, NEW rows \in Orders(R)
    PROVE  /\ PlacesOf(rows) \in Seq(DOMAIN facts)
           /\ Len(PlacesOf(rows)) = Cardinality(R) /\ Cardinality(R) \in Nat
           /\ \A i \in 1 .. Cardinality(R) : PlacesOf(rows)[i] \in {x[1] : x \in R}
           /\ \A i, j \in 1 .. Cardinality(R) : PlacesOf(rows)[i] = PlacesOf(rows)[j] => i = j
           /\ \A x \in R : \E i \in 1 .. Cardinality(R) : PlacesOf(rows)[i] = x[1]
<1> DEFINE n == Cardinality(R)
<1>1. \A x, y \in R : x[1] = y[1] => x = y
  OBVIOUS
<1>2. /\ rows \in [1 .. n -> R] /\ n \in Nat
      /\ \A i, j \in 1 .. n : rows[i] = rows[j] => i = j
      /\ \A x \in R : \E i \in 1 .. n : rows[i] = x
  BY OrderLists
<1> HIDE DEF n
<1>3. PlacesOf(rows) = [i \in 1 .. n |-> rows[i][1]]
  BY <1>2 DEF PlacesOf
<1>4. PlacesOf(rows) \in [1 .. n -> DOMAIN facts]
  BY <1>2, <1>3
<1>5. PlacesOf(rows) \in Seq(DOMAIN facts) /\ Len(PlacesOf(rows)) = n
  BY <1>2, <1>4
<1>6. \A i \in 1 .. n : PlacesOf(rows)[i] = rows[i][1] /\ rows[i] \in R
  BY <1>2, <1>3
<1>7. \A i, j \in 1 .. n : PlacesOf(rows)[i] = PlacesOf(rows)[j] => i = j
  BY <1>1, <1>2, <1>6
<1>8. \A x \in R : \E i \in 1 .. n : PlacesOf(rows)[i] = x[1]
  BY <1>2, <1>6
<1> QED
  BY <1>2, <1>5, <1>6, <1>7, <1>8 DEF n

-----------------------------------------------------------------------------
(* Init and the steps *)

LEMMA SearchInvInit == SearchInit => SearchInv
<1> SUFFICES ASSUME SearchInit PROVE SearchInv
  OBVIOUS
<1>1. query = NoQuery
  BY DEF SearchInit
<1>2. NoQuery \in Queries
  <2>1. NoKeyword \in SearchKeywords
    BY SearchAssumption, Zenon
  <2>3. <<>> \in Seq(Nat) /\ {} \in SUBSET Nat
    OBVIOUS
  <2>2. /\ 1 \in Nat /\ 0 \in Nat /\ 0 \in 0 .. 3 /\ TRUE \in BOOLEAN
        /\ {} \in SearchFilters \cup {{}}
    OBVIOUS
  <2> HIDE DEF NoKeyword
  <2> QED
    BY <2>1, <2>2, <2>3 DEF NoQuery, Queries
<1>3. /\ query.at = "idle" /\ query.page = 1 /\ query.steady = {} /\ query.seen = <<>>
  BY <1>1 DEF NoQuery
<1>4. SearchTypes
  <2>1. /\ IsFiniteSet(DOMAIN facts) /\ DOMAIN facts \subseteq Nat
        /\ facts \in [DOMAIN facts -> Facts]
    BY SearchAssumption, Zenon DEF SearchInit
  <2>2. query \in Queries
    BY <1>1, <1>2
  <2> QED
    BY <1>3, <2>1, <2>2 DEF SearchTypes
<1>5. TierHolds /\ NamesBeforeAddresses /\ Scrolled
  BY <1>3 DEF TierHolds, NamesBeforeAddresses, Scrolled
<1> QED
  BY <1>4, <1>5 DEF SearchInv

LEMMA PlacesAsked ==
    ASSUME SearchInv, NEW kw \in SearchKeywords, NEW tags \in SearchFilters, AskPlaces(kw, tags)
    PROVE  SearchInv'
<1>1. /\ query' = [NoQuery EXCEPT !.at = "tier", !.kw = kw, !.tags = tags, !.steady = ShownIds]
      /\ facts' = facts
  BY DEF AskPlaces
<1>2. ShownIds \subseteq Nat
  BY DEF SearchInv, SearchTypes, ShownIds
<1>3. query' \in Queries
  <2>1. query' = [at |-> "tier", kw |-> kw, tags |-> tags, page |-> 1, tier |-> 0, total |-> 0,
                  seen |-> <<>>, steady |-> ShownIds, settled |-> TRUE]
    BY <1>1 DEF NoQuery
  <2>2. <<>> \in Seq(Nat) /\ ShownIds \in SUBSET Nat /\ 0 \in 0 .. 3 /\ TRUE \in BOOLEAN
    BY <1>2
  <2> QED
    BY <2>1, <2>2 DEF Queries
<1>4. /\ query'.at = "tier" /\ query'.page = 1 /\ query'.steady = ShownIds /\ query'.seen = <<>>
  BY <1>1 DEF NoQuery
<1>5. SearchTypes'
  BY <1>1, <1>3, <1>4 DEF SearchInv, SearchTypes, ShownIds
<1>6. TierHolds' /\ NamesBeforeAddresses' /\ Scrolled'
  BY <1>4 DEF TierHolds, NamesBeforeAddresses, Scrolled
<1> QED
  BY <1>5, <1>6 DEF SearchInv

\* What the steps of one request leave as it is.
Asked ==
    /\ facts' = facts /\ query'.kw = query.kw /\ query'.tags = query.tags
    /\ query'.steady = query.steady /\ query'.settled = query.settled

LEMMA AskedKeeps ==
    ASSUME Asked
    PROVE  /\ ShownIds' = ShownIds /\ Wanted' = Wanted /\ BestTier(query.kw)' = BestTier(query.kw)
           /\ \A q : Spoken(query.kw, q)' <=> Spoken(query.kw, q)
           /\ \A rows : rows \in Orders(Wanted)' <=> rows \in Orders(Wanted)
<1>1. \A tags : WithTags(tags)' = WithTags(tags) /\ ShownIds' = ShownIds
  BY DEF Asked, WithTags, ShownIds
<1>2. BestTier(query.kw)' = BestTier(query.kw)
  BY DEF Asked, BestTier, Tier, Core, Exact, TagRows, ShownIds
<1>3. Wanted' = Wanted
  <2>1. \A kw, tier, tags : ListedRows(kw, tier, tags)' = ListedRows(kw, tier, tags)
    BY DEF Asked, ListedRows, WithTags, ShownIds, Tier, Core, Exact, Relevance, TagRows
  <2> QED
    BY <1>2, <2>1 DEF Asked, Wanted
<1>4. \A q : Spoken(query.kw, q)' <=> Spoken(query.kw, q)
  BY DEF Asked, Spoken
<1>5. \A rows : rows \in Orders(Wanted)' <=> rows \in Orders(Wanted)
  BY <1>3 DEF Asked, Orders, Before
<1> QED
  BY <1>1, <1>2, <1>3, <1>4, <1>5

LEMMA ListReadKept ==
    ASSUME Asked, query'.seen = query.seen, query'.page = query.page
    PROVE  ListRead' <=> ListRead
<1>1. Reached' = Reached
  BY AskedKeeps DEF Start, Reached
<1>2. \A rows : PlacesOf(rows)' = PlacesOf(rows)
  BY DEF PlacesOf
<1>3. \A rows : rows \in Orders(Wanted)' <=> rows \in Orders(Wanted)
  BY AskedKeeps
<1> QED
  BY <1>1, <1>2, <1>3 DEF ListRead

\* A step of a request that shows nothing new.
LEMMA NothingShown ==
    ASSUME SearchInv, Asked, query' \in Queries, query'.page = query.page,
           query'.seen = query.seen
    PROVE  SearchTypes' /\ NamesBeforeAddresses'
<1>1. ShownIds' = ShownIds
  BY AskedKeeps
<1>2. SearchTypes'
  BY <1>1 DEF SearchInv, SearchTypes, Asked
<1>3. NamesBeforeAddresses'
  BY DEF SearchInv, NamesBeforeAddresses, Asked
<1> QED
  BY <1>2, <1>3

LEMMA TierRead ==
    ASSUME SearchInv, ReadTier
    PROVE  SearchInv'
<1> DEFINE best == BestTier(query.kw)
<1>1. query' = [query EXCEPT !.at = "count", !.tier = best] /\ query.at = "tier" /\ facts' = facts
  BY DEF ReadTier
<1>2. /\ best \in 0 .. 3 /\ (best = 0 => query.kw = NoKeyword)
      /\ best \in {2, 3} => \A p \in ShownIds : ~Spoken(query.kw, p)
  BY BestTiers DEF SearchInv
<1>3. best = BestTier(query.kw)
  OBVIOUS
<1> HIDE DEF best
<1>4. query \in Queries /\ query.steady \subseteq ShownIds
  BY DEF SearchInv, SearchTypes
<1>5. /\ query'.at = "count" /\ query'.tier = best /\ query'.page = query.page
      /\ query'.seen = query.seen /\ query'.total = query.total /\ Asked
  BY <1>1, <1>4 DEF Queries, Asked
<1>6. query' \in Queries
  BY <1>1, <1>2, <1>4 DEF Queries
<1>7. SearchTypes' /\ NamesBeforeAddresses'
  BY <1>5, <1>6, NothingShown
<1>8. TierHolds'
  BY <1>2, <1>4, <1>5, AskedKeeps DEF TierHolds, Asked
<1>9. Start' = Start /\ (ListRead' <=> ListRead) /\ Wanted' = Wanted
  BY <1>5, ListReadKept, AskedKeeps DEF Start
<1>10. Scrolled'
  <2>1. SUFFICES ASSUME query.settled
                 PROVE  /\ best = BestTier(query.kw)
                        /\ query.page = 1 => query.seen = <<>>
                        /\ query.page > 1 => ListRead
    <3>1. BestTier(query.kw)' = BestTier(query.kw) /\ query'.settled = query.settled
      BY <1>5, AskedKeeps DEF Asked
    <3> QED
      BY <1>5, <1>9, <3>1 DEF Scrolled
  <2> QED
    BY <1>1, <1>3, <2>1 DEF SearchInv, Scrolled
<1> QED
  BY <1>7, <1>8, <1>10 DEF SearchInv

LEMMA RowsCounted ==
    ASSUME SearchInv, CountRows
    PROVE  SearchInv'
<1> DEFINE rows == ListedRows(query.kw, query.tier, query.tags)
           count == Cardinality(rows)
           at == IF query.page > 1 /\ (query.page - 1) * SearchPage >= count
                 THEN "end" ELSE "page"
<1>1. query' = [query EXCEPT !.total = count, !.at = at] /\ query.at = "count" /\ facts' = facts
  BY DEF CountRows
<1>2. SearchTypes /\ query \in Queries
  BY DEF SearchInv, SearchTypes
<1>3. count \in Nat
  BY <1>2, ListedFinite DEF Queries
<1>4. query.settled => count = Cardinality(Wanted)
  BY <1>1 DEF SearchInv, Scrolled, Wanted
<1>5. at = "end" <=> query.page > 1 /\ Start >= count
  BY DEF Start
<1>6. at \in {"end", "page"}
  OBVIOUS
<1> HIDE DEF count, at
<1>7. /\ query'.at = at /\ query'.tier = query.tier /\ query'.page = query.page
      /\ query'.seen = query.seen /\ query'.total = count /\ Asked
  BY <1>1, <1>2 DEF Queries, Asked
<1>8. query' \in Queries
  BY <1>1, <1>2, <1>3, <1>6 DEF Queries
<1>9. SearchTypes' /\ NamesBeforeAddresses'
  BY <1>7, <1>8, NothingShown
<1>10. TierHolds'
  BY <1>1, <1>7, AskedKeeps DEF SearchInv, TierHolds, Asked
<1>11. Start' = Start /\ (ListRead' <=> ListRead) /\ Wanted' = Wanted
  BY <1>7, ListReadKept, AskedKeeps DEF Start
<1>12. Start \in Nat
  <2>1. query.page \in Nat \ {0}
    BY <1>2 DEF SearchTypes, Queries
  <2> QED
    BY <2>1, PageSteps DEF Start
<1>13. Scrolled'
  <2>1. SUFFICES ASSUME query.settled
                 PROVE  /\ query.tier = BestTier(query.kw)
                        /\ count = Cardinality(Wanted)
                        /\ query.page = 1 => query.seen = <<>> /\ at # "end"
                        /\ query.page > 1 => ListRead
                        /\ at = "page" /\ query.page > 1 => Start < count
                        /\ at = "end" => count <= Start
    <3>1. BestTier(query.kw)' = BestTier(query.kw) /\ query'.settled = query.settled
      BY <1>7, AskedKeeps DEF Asked
    <3> QED
      BY <1>7, <1>11, <3>1 DEF Scrolled
  <2>2. query.page = 1 => at # "end"
    BY <1>5
  <2>3. (at = "page" /\ query.page > 1 => Start < count) /\ (at = "end" => count <= Start)
    BY <1>3, <1>5, <1>6, <1>12
  <2> QED
    BY <1>1, <1>4, <2>1, <2>2, <2>3 DEF SearchInv, Scrolled
<1> QED
  BY <1>9, <1>10, <1>13 DEF SearchInv

\* The page is read from a list; this much of it was counted and is there.
LEMMA PageOf ==
    ASSUME NEW page \in Nat \ {0}, NEW n \in Nat, NEW list \in Seq(Nat), Len(list) = n,
           page = 1 \/ (page - 1) * SearchPage < n
    PROVE  LET first == (page - 1) * SearchPage
               last == page * SearchPage
               upto(k) == IF k < n THEN k ELSE n
           IN  SubSeq(list, 1, upto(first)) \o SubSeq(list, first + 1, upto(last))
                   = SubSeq(list, 1, upto(last))
<1> DEFINE first == (page - 1) * SearchPage
           last == page * SearchPage
           end == IF last < n THEN last ELSE n
<1>1. first \in Nat /\ last \in Nat /\ last = first + SearchPage /\ SearchPage \in Nat
  BY PageSteps
<1>2. page = 1 => first = 0
  BY PageSteps
<1>3. first <= n
  <2> HIDE DEF first
  <2> QED
    BY <1>1, <1>2 DEF first
<1> HIDE DEF first, last
<1>4. end \in Nat /\ first <= end /\ end <= n
  BY <1>1, <1>3
<1>5. (IF first < n THEN first ELSE n) = first
  BY <1>1, <1>3
<1> HIDE DEF end
<1>6. SubSeq(list, 1, first) \o SubSeq(list, first + 1, end) = SubSeq(list, 1, end)
  <2>1. first \in 0 .. Len(list) /\ end \in 0 .. Len(list)
    BY <1>1, <1>3, <1>4
  <2> QED
    BY <1>1, <1>4, <2>1, ConcatAdjacentSubSeq
<1> QED
  BY <1>5, <1>6 DEF first, last, end

LEMMA LeastOfThree ==
    ASSUME NEW a \in Nat, NEW b \in Nat, NEW c \in Nat
    PROVE  Min({a, b, c}) \in Nat /\ Min({a, b, c}) <= c
<1> DEFINE d == IF b < c THEN b ELSE c
           m == IF a < d THEN a ELSE d
<1>1. m \in {a, b, c} /\ (\A y \in {a, b, c} : m =< y) /\ m \in Nat /\ m <= c
  OBVIOUS
<1>2. \A x \in {a, b, c} : (\A y \in {a, b, c} : x =< y) => x = m
  BY <1>1
<1> HIDE DEF m
<1>3. \E x \in {a, b, c} : \A y \in {a, b, c} : x =< y
  BY <1>1
<1>4. Min({a, b, c}) = m
  BY <1>2, <1>3 DEF Min
<1> QED
  BY <1>1, <1>4

\* A page shows places of the rows it reads.
LEMMA PageShown ==
    ASSUME SearchTypes, NEW rows \in Orders(ListedRows(query.kw, query.tier, query.tags))
    PROVE  /\ OnePage(PlacesOf(rows)) \in Seq(Nat)
           /\ \A i \in DOMAIN OnePage(PlacesOf(rows)) :
                 \E x \in ListedRows(query.kw, query.tier, query.tags) :
                    OnePage(PlacesOf(rows))[i] = x[1]
<1> DEFINE R == ListedRows(query.kw, query.tier, query.tags)
           n == Cardinality(R)
           list == PlacesOf(rows)
           first == (query.page - 1) * SearchPage
           last == Min({query.page * SearchPage, query.total, Len(list)})
<1>1. query.tier \in 0 .. 3 /\ query.total \in Nat /\ query.page \in Nat \ {0}
  BY DEF SearchTypes, Queries
<1>2. /\ list \in Seq(DOMAIN facts) /\ Len(list) = n /\ n \in Nat
      /\ \A i \in 1 .. n : list[i] \in {x[1] : x \in R}
  <2>1. /\ IsFiniteSet(R) /\ \A x \in R : x[1] \in DOMAIN facts
        /\ \A x, y \in R : x[1] = y[1] => x = y
    BY <1>1, ListedFinite, ListedKnown, OneRowEach
  <2>3. rows \in Orders(R)
    OBVIOUS
  <2> HIDE DEF R
  <2>2. /\ PlacesOf(rows) \in Seq(DOMAIN facts)
        /\ Len(PlacesOf(rows)) = Cardinality(R) /\ Cardinality(R) \in Nat
        /\ \A i \in 1 .. Cardinality(R) : PlacesOf(rows)[i] \in {x[1] : x \in R}
    BY <2>1, <2>3, OrderPlaces
  <2> QED
    BY <2>2
<1>3. first \in Nat /\ query.page * SearchPage \in Nat
  BY <1>1, PageSteps
<1>4. OnePage(list) = SubSeq(list, first + 1, last)
  BY DEF OnePage
<1> HIDE DEF list, n, R, first
<1>5. last \in Nat /\ last <= n
  BY <1>1, <1>2, <1>3, LeastOfThree
<1>6. DOMAIN facts \subseteq Nat
  BY DEF SearchTypes
<1> HIDE DEF last
<1>7. list \in Seq(Nat)
  BY <1>2, <1>6
<1>8. SubSeq(list, first + 1, last) \in Seq(Nat)
  BY <1>2, <1>3, <1>5, <1>7
<1>9. \A i \in DOMAIN SubSeq(list, first + 1, last) :
         first + i \in 1 .. n /\ SubSeq(list, first + 1, last)[i] = list[first + i]
  BY <1>2, <1>3, <1>5, <1>7
<1>10. \A i \in DOMAIN SubSeq(list, first + 1, last) :
          \E x \in R : SubSeq(list, first + 1, last)[i] = x[1]
  BY <1>2, <1>9
<1> QED
  BY <1>4, <1>8, <1>10 DEF list, R

\* A page that shows a place without the keyword shows it when nobody has the keyword.
LEMMA PageNamesFirst ==
    ASSUME SearchInv, query.at = "page", query.kw # NoKeyword,
           NEW x \in ListedRows(query.kw, query.tier, query.tags),
           facts[x[1]].name \in {"alike", "other"}, ~Spoken(query.kw, x[1])
    PROVE  \A q \in query.steady : ~Spoken(query.kw, q)
<1>1. SearchTypes /\ TierHolds /\ query.tier \in 0 .. 3
  BY DEF SearchInv, SearchTypes, Queries
<1>2. query.tier # 0
  BY <1>1 DEF TierHolds
<1>3. query.tier # 1
  <2>1. ~Core(query.kw, x[1])
    BY DEF Core
  <2> QED
    BY <1>1, <2>1, ListedKnown
<1> QED
  BY <1>1, <1>2, <1>3 DEF TierHolds

LEMMA RowsRead ==
    ASSUME SearchInv, ReadRows
    PROVE  SearchInv'
<1> DEFINE R == ListedRows(query.kw, query.tier, query.tags)
           at == IF query.page * SearchPage < query.total THEN "tier" ELSE "end"
<1>1. PICK rows \in Orders(R) :
         query' = [query EXCEPT !.seen = query.seen \o OnePage(PlacesOf(rows)),
                                !.page = query.page + 1, !.at = at]
  BY DEF ReadRows
<1>2. query.at = "page" /\ facts' = facts
  BY DEF ReadRows
<1>3. SearchTypes /\ query \in Queries /\ query.steady \subseteq ShownIds /\ query.page >= 1
  BY DEF SearchInv, SearchTypes
<1>4. /\ query.seen \in Seq(Nat) /\ query.page \in Nat \ {0} /\ query.tier \in 0 .. 3
      /\ query.total \in Nat
  BY <1>3 DEF Queries
<1>5. /\ OnePage(PlacesOf(rows)) \in Seq(Nat)
      /\ \A i \in DOMAIN OnePage(PlacesOf(rows)) : \E x \in R : OnePage(PlacesOf(rows))[i] = x[1]
  BY <1>3, PageShown
<1>6. at \in {"tier", "end"} /\ (at = "end" <=> ~(query.page * SearchPage < query.total))
  OBVIOUS
<1> DEFINE slice == OnePage(PlacesOf(rows))
           seen == query.seen \o slice
<1>7. query' = [query EXCEPT !.seen = seen, !.page = query.page + 1, !.at = at]
  BY <1>1
<1> HIDE DEF slice, at, R
<1>8. seen \in Seq(Nat)
  BY <1>4, <1>5 DEF slice
<1>9. \A i \in DOMAIN seen : \/ i \in DOMAIN query.seen /\ seen[i] = query.seen[i]
                             \/ \E x \in R : seen[i] = x[1]
  <2>1. SUFFICES ASSUME NEW i \in DOMAIN seen, i \notin DOMAIN query.seen
                 PROVE  \E x \in R : seen[i] = x[1]
    BY <1>4, <1>5 DEF slice
  <2>2. i - Len(query.seen) \in DOMAIN slice /\ seen[i] = slice[i - Len(query.seen)]
    BY <1>4, <1>5, <2>1 DEF slice
  <2> QED
    BY <1>5, <2>2 DEF slice
<1> HIDE DEF seen
<1>10. /\ query'.at = at /\ query'.tier = query.tier /\ query'.page = query.page + 1
       /\ query'.seen = seen /\ query'.total = query.total /\ Asked
  BY <1>2, <1>3, <1>7 DEF Queries, Asked
<1>11. query' \in Queries
  <2>1. query.page + 1 \in Nat
    BY <1>4
  <2> QED
    BY <1>3, <1>6, <1>7, <1>8, <2>1 DEF Queries
<1>12. SearchTypes'
  <2>1. query'.page >= 1
    BY <1>4, <1>10
  <2>2. ShownIds' = ShownIds
    BY <1>10, AskedKeeps
  <2>3. \A x \in R : x[1] \in DOMAIN facts
    BY <1>3, <1>4, ListedKnown DEF R
  <2>4. \A i \in DOMAIN seen : seen[i] \in DOMAIN facts
    BY <1>3, <1>9, <2>3 DEF SearchTypes
  <2> QED
    BY <1>3, <1>10, <1>11, <2>1, <2>2, <2>4 DEF SearchTypes, Asked
<1>13. TierHolds'
  BY <1>6, <1>10 DEF TierHolds
<1>14. NamesBeforeAddresses'
  <2>1. SUFFICES ASSUME NEW i \in DOMAIN seen, query.kw # NoKeyword,
                        facts[seen[i]].name \in {"alike", "other"},
                        facts[seen[i]].tags \cap Hits(query.kw) = {}
                 PROVE  \A q \in query.steady :
                           facts[q].name # "whole" /\ facts[q].tags \cap Hits(query.kw) = {}
    BY <1>10 DEF NamesBeforeAddresses, Asked
  <2>2. CASE i \in DOMAIN query.seen /\ seen[i] = query.seen[i]
    BY <2>1, <2>2 DEF SearchInv, NamesBeforeAddresses
  <2>3. CASE \E x \in R : seen[i] = x[1]
    <3>1. PICK x \in R : seen[i] = x[1]
      BY <2>3
    <3>2. \A q \in query.steady : ~Spoken(query.kw, q)
      BY <1>2, <2>1, <3>1, PageNamesFirst DEF R, Spoken
    <3> QED
      BY <3>2 DEF Spoken
  <2> QED
    BY <1>9, <2>2, <2>3
<1>15. Scrolled'
  <2>1. SUFFICES ASSUME query.settled
                 PROVE  /\ query.tier = BestTier(query.kw)
                        /\ query.total = Cardinality(Wanted)
                        /\ ListRead'
                        /\ at = "end" => query.total <= query.page * SearchPage
    <3>1. BestTier(query.kw)' = BestTier(query.kw) /\ query'.settled = query.settled
      BY <1>10, AskedKeeps DEF Asked
    <3>2. Start' = query.page * SearchPage /\ Wanted' = Wanted /\ query'.page # 1
      <4>1. query'.page - 1 = query.page /\ query'.page # 1
        BY <1>4, <1>10
      <4> QED
        BY <1>10, <4>1, AskedKeeps, Zenon DEF Start
    <3> QED
      BY <1>6, <1>10, <3>1, <3>2 DEF Scrolled
  <2>2. /\ query.tier = BestTier(query.kw) /\ query.total = Cardinality(Wanted)
        /\ query.page = 1 => query.seen = <<>>
        /\ query.page > 1 => ListRead /\ Start < query.total
    BY <1>2, <2>1 DEF SearchInv, Scrolled
  <2>3. R = Wanted /\ rows \in Orders(Wanted)
    BY <1>1, <2>2 DEF R, Wanted
  <2> DEFINE list == PlacesOf(rows)
             n == Cardinality(Wanted)
  <2>4. list \in Seq(Nat) /\ Len(list) = n /\ n \in Nat
    <3>3. /\ IsFiniteSet(R) /\ \A x \in R : x[1] \in DOMAIN facts
          /\ \A x, y \in R : x[1] = y[1] => x = y
      BY <1>3, <1>4, ListedFinite, ListedKnown, OneRowEach DEF R
    <3>1. list \in Seq(DOMAIN facts) /\ Len(list) = Cardinality(R) /\ Cardinality(R) \in Nat
      BY <1>1, <3>3, OrderPlaces
    <3>2. DOMAIN facts \subseteq Nat
      BY <1>3 DEF SearchTypes
    <3> HIDE DEF list
    <3> QED
      BY <2>3, <3>1, <3>2
  <2> HIDE DEF list, n
  <2>5. Start \in Nat /\ query.page * SearchPage \in Nat /\ (query.page = 1 => Start = 0)
    <3>1. SearchPage \in Nat /\ Start \in Nat /\ query.page * SearchPage \in Nat
      BY <1>4, PageSteps DEF Start
    <3>2. query.page = 1 => Start = 0
      BY <3>1 DEF Start
    <3> QED
      BY <3>1, <3>2
  <2>6. query.seen = SubSeq(list, 1, Reached)
    <3>1. CASE query.page = 1
      <4>1. Reached = 0
        BY <2>4, <2>5, <3>1 DEF Reached, n
      <4>2. SubSeq(list, 1, 0) = <<>>
        BY <2>4
      <4> QED
        BY <2>2, <3>1, <4>1, <4>2
    <3>2. CASE query.page # 1
      <4>1. PICK others \in Orders(Wanted) : query.seen = SubSeq(PlacesOf(others), 1, Reached)
        BY <1>4, <2>2, <3>2 DEF ListRead
      <4>2. others = rows
        BY <1>1, <1>3, <1>4, <2>3, <4>1, OneOrder DEF R
      <4> QED
        BY <4>1, <4>2 DEF list
    <3> QED
      BY <3>1, <3>2
  <2>7. slice = SubSeq(list, Start + 1,
                       IF query.page * SearchPage < n THEN query.page * SearchPage ELSE n)
    <3>1. Min({query.page * SearchPage, n, n})
             = IF query.page * SearchPage < n THEN query.page * SearchPage ELSE n
      BY <2>4, <2>5, MinOfThree
    <3> QED
      BY <2>2, <2>4, <3>1 DEF slice, OnePage, Start, list, n
  <2>8. seen = SubSeq(list, 1, IF query.page * SearchPage < n THEN query.page * SearchPage ELSE n)
    <3> DEFINE last == query.page * SearchPage
               upto(k) == IF k < n THEN k ELSE n
    <3>1. query.page = 1 \/ (query.page - 1) * SearchPage < n
      BY <1>4, <2>2 DEF Start, n
    <3>2. query.page \in Nat \ {0}
      BY <1>4
    <3>3. SubSeq(list, 1, upto(Start)) \o SubSeq(list, Start + 1, upto(last))
             = SubSeq(list, 1, upto(last))
      BY <2>4, <3>1, <3>2, PageOf, Zenon DEF Start
    <3>4. Reached = upto(Start)
      BY Zenon DEF Reached, n
    <3>5. seen = SubSeq(list, 1, upto(Start)) \o SubSeq(list, Start + 1, upto(last))
      BY <2>6, <2>7, <3>4, Zenon DEF seen
    <3> QED
      BY <3>3, <3>5, Zenon
  <2>9. ListRead'
    <3>1. Reached' = IF query.page * SearchPage < n THEN query.page * SearchPage ELSE n
      <4>1. query'.page - 1 = query.page
        BY <1>4, <1>10
      <4>2. Start' = query.page * SearchPage
        BY <4>1, Zenon DEF Start
      <4> QED
        BY <1>10, <4>2, AskedKeeps DEF Reached, n
    <3>2. rows \in Orders(Wanted)'
      BY <1>10, <2>3, AskedKeeps
    <3>3. PlacesOf(rows)' = list
      BY DEF PlacesOf, list
    <3>4. seen = SubSeq(PlacesOf(rows)', 1, Reached')
      BY <2>8, <3>1, <3>3
    <3> QED
      BY <1>10, <3>2, <3>4 DEF ListRead
  <2>10. at = "end" => query.total <= query.page * SearchPage
    BY <1>4, <1>6, <2>5
  <2> QED
    BY <2>2, <2>9, <2>10
<1> QED
  BY <1>12, <1>13, <1>14, <1>15 DEF SearchInv

LEMMA ListedEdited ==
    ASSUME SearchInv, NEW p \in DOMAIN facts, NEW visible \in BOOLEAN, NEW rank \in 0 .. 1,
           EditListed(p, visible, rank)
    PROVE  SearchInv'
<1> DEFINE steady == IF visible THEN query.steady ELSE query.steady \ {p}
           settled == (query.at = "idle")
<1>1. /\ facts' = [facts EXCEPT ![p] = Ranked(facts[p], visible, rank)]
      /\ query' = [query EXCEPT !.settled = settled, !.steady = steady]
  BY DEF EditListed
<1>2. /\ SearchTypes /\ query \in Queries /\ query.steady \subseteq ShownIds /\ query.page >= 1
      /\ facts \in [DOMAIN facts -> Facts]
      /\ \A i \in DOMAIN query.seen : query.seen[i] \in DOMAIN facts
  BY DEF SearchInv, SearchTypes
<1>3. steady \subseteq query.steady /\ (~visible => p \notin steady) /\ settled \in BOOLEAN
  OBVIOUS
<1> DEFINE fact == Ranked(facts[p], visible, rank)
<1>4. /\ fact \in Facts /\ fact.shown = visible /\ fact.name = facts[p].name
      /\ fact.tags = facts[p].tags
  BY <1>2 DEF Facts, Ranked
<1>5. facts' = [facts EXCEPT ![p] = fact]
  BY <1>1
<1> HIDE DEF fact
<1>6. /\ facts' \in [DOMAIN facts -> Facts] /\ DOMAIN facts' = DOMAIN facts
      /\ facts'[p] = fact /\ \A q \in DOMAIN facts \ {p} : facts'[q] = facts[q]
  BY <1>2, <1>4, <1>5
<1>7. \A q \in DOMAIN facts : /\ facts'[q].name = facts[q].name /\ facts'[q].tags = facts[q].tags
                              /\ facts'[q].shown = IF q = p THEN visible ELSE facts[q].shown
  BY <1>4, <1>6
<1> HIDE DEF steady, settled
<1>8. /\ query'.at = query.at /\ query'.kw = query.kw /\ query'.tier = query.tier
      /\ query'.page = query.page /\ query'.seen = query.seen /\ query'.steady = steady
      /\ query'.settled = settled
  BY <1>1, <1>2 DEF Queries
<1>9. query' \in Queries
  <2>1. steady \in SUBSET Nat
    BY <1>2, <1>3 DEF Queries
  <2> QED
    BY <1>1, <1>2, <1>3, <2>1 DEF Queries
<1>10. steady \subseteq ShownIds' /\ steady \subseteq DOMAIN facts
  BY <1>2, <1>3, <1>6, <1>7 DEF ShownIds
<1>11. SearchTypes'
  BY <1>2, <1>6, <1>8, <1>9, <1>10 DEF SearchTypes
<1>12. TierHolds'
  <2>1. \A q \in steady : Spoken(query.kw, q)' <=> Spoken(query.kw, q)
    BY <1>7, <1>8, <1>10 DEF Spoken
  <2> QED
    BY <1>3, <1>8, <2>1 DEF SearchInv, TierHolds
<1>13. NamesBeforeAddresses'
  <2>1. SUFFICES ASSUME NEW i \in DOMAIN query.seen, query.kw # NoKeyword,
                        facts'[query.seen[i]].name \in {"alike", "other"},
                        facts'[query.seen[i]].tags \cap Hits(query.kw) = {},
                        NEW q \in steady
                 PROVE  facts'[q].name # "whole" /\ facts'[q].tags \cap Hits(query.kw) = {}
    BY <1>8 DEF NamesBeforeAddresses
  <2>2. facts'[query.seen[i]].name = facts[query.seen[i]].name
        /\ facts'[query.seen[i]].tags = facts[query.seen[i]].tags
    BY <1>2, <1>7
  <2>3. facts[q].name # "whole" /\ facts[q].tags \cap Hits(query.kw) = {}
    BY <1>3, <2>1, <2>2 DEF SearchInv, NamesBeforeAddresses
  <2> QED
    BY <1>7, <1>10, <2>3
<1>14. Scrolled'
  BY <1>8 DEF Scrolled, settled
<1> QED
  BY <1>11, <1>12, <1>13, <1>14 DEF SearchInv

LEMMA SearchUnchanged ==
    ASSUME SearchInv, UNCHANGED searchVars
    PROVE  SearchInv'
<1>1. facts' = facts /\ query' = query
  BY DEF searchVars
<1>2. Asked
  BY <1>1 DEF Asked
<1>3. SearchTypes' /\ NamesBeforeAddresses'
  BY <1>1 DEF SearchInv, SearchTypes, NamesBeforeAddresses, ShownIds
<1>4. TierHolds'
  BY <1>1, <1>2, AskedKeeps DEF SearchInv, TierHolds
<1>5. Scrolled'
  <2>1. Start' = Start /\ (ListRead' <=> ListRead) /\ Wanted' = Wanted
           /\ BestTier(query.kw)' = BestTier(query.kw)
    BY <1>1, <1>2, ListReadKept, AskedKeeps DEF Start
  <2> QED
    BY <1>1, <2>1 DEF SearchInv, Scrolled
<1> QED
  BY <1>3, <1>4, <1>5 DEF SearchInv

LEMMA SearchInvNext == SearchInv /\ [SearchNext]_searchVars => SearchInv'
<1> SUFFICES ASSUME SearchInv, [SearchNext]_searchVars PROVE SearchInv'
  OBVIOUS
<1>1. CASE \E kw \in SearchKeywords, tags \in SearchFilters : AskPlaces(kw, tags)
  BY <1>1, PlacesAsked
<1>2. CASE ReadTier
  BY <1>2, TierRead
<1>3. CASE CountRows
  BY <1>3, RowsCounted
<1>4. CASE ReadRows
  BY <1>4, RowsRead
<1>5. CASE \E p \in DOMAIN facts, visible \in BOOLEAN, rank \in 0 .. 1 : EditListed(p, visible,
        rank)
  BY <1>5, ListedEdited
<1>6. CASE UNCHANGED searchVars
  BY <1>6, SearchUnchanged
<1> QED
  BY <1>1, <1>2, <1>3, <1>4, <1>5, <1>6 DEF SearchNext

-----------------------------------------------------------------------------
(* What the invariant says at the end *)

\* The list is chosen tier by tier over all places, the candidates over those
\* with the tags.
LEMMA ListedAreCandidates ==
    ASSUME SearchTypes, NEW kw, kw # NoKeyword, NEW tags
    PROVE  LET listed == {r[1] : r \in ListedRows(kw, BestTier(kw), tags)} IN
           /\ listed \subseteq Candidates(kw, tags)
           /\ tags = {} => listed = Candidates(kw, tags)
<1> DEFINE tier == BestTier(kw)
           base == WithTags(tags)
           one == {p \in base : Spoken(kw, p) \/ Core(kw, p)}
           two == {p \in base : facts[p].addressed}
           three == {p \in base : facts[p].name = "alike"}
           listed == {r[1] : r \in ListedRows(kw, tier, tags)}
<1>1. Candidates(kw, tags) = IF one # {} THEN one ELSE IF two # {} THEN two ELSE three
  <2>1. \A p : (\/ facts[p].name = "whole" \/ facts[p].tags \cap Hits(kw) # {}
                \/ facts[p].name = "stem" /\ HasCore(kw)) <=> Spoken(kw, p) \/ Core(kw, p)
    BY DEF Spoken, Core
  <2>2. {p \in base : \/ facts[p].name = "whole" \/ facts[p].tags \cap Hits(kw) # {}
                      \/ facts[p].name = "stem" /\ HasCore(kw)} = one
    BY <2>1
  <2> QED
    BY <2>2, Zenon DEF Candidates
<1>2. /\ tier \in 1 .. 3
      /\ tier = 1 => \E p \in ShownIds : Spoken(kw, p) \/ Core(kw, p)
      /\ tier \in {2, 3} => \A p \in ShownIds : ~Spoken(kw, p) /\ ~Core(kw, p)
      /\ tier = 2 => \E p \in ShownIds : facts[p].addressed
      /\ tier = 3 => \A p \in ShownIds : ~facts[p].addressed
  BY BestTiers
<1>3. /\ base \subseteq ShownIds /\ base \subseteq DOMAIN facts
      /\ tags = {} => base = ShownIds
  BY DEF WithTags, ShownIds
<1> HIDE DEF tier
<1>4. ASSUME tier = 1 PROVE listed = one
  <2>1. listed \subseteq one
    BY <1>2, <1>4, ListedKnown
  <2>2. ASSUME NEW p \in one PROVE p \in listed
    <3>1. PICK t \in TagRows(p) : Tier(kw, p, t) = 1
      BY <1>3, RowTiers
    <3>2. <<p, Relevance(kw, p, t)>> \in ListedRows(kw, tier, tags)
      BY <1>4, <3>1 DEF ListedRows
    <3> QED
      BY <3>2
  <2> QED
    BY <2>1, <2>2
<1>5. ASSUME tier = 2 PROVE listed = two /\ one = {}
  <2>1. listed \subseteq two
    BY <1>2, <1>5, ListedKnown
  <2>2. ASSUME NEW p \in two PROVE p \in listed
    <3>1. PICK t \in TagRows(p) : TRUE
      BY SpokenRow
    <3>2. Tier(kw, p, t) = 2
      <4>1. Tier(kw, p, t) \in {1, 2, 99} /\ Tier(kw, p, t) # 99
        BY <1>3, RowTiers
      <4>2. Tier(kw, p, t) # 1
        BY <1>2, <1>3, <1>5, <3>1, RowTiers
      <4> QED
        BY <4>1, <4>2
    <3>3. <<p, Relevance(kw, p, t)>> \in ListedRows(kw, tier, tags)
      BY <1>5, <3>1, <3>2 DEF ListedRows
    <3> QED
      BY <3>3
  <2> QED
    BY <1>2, <1>3, <1>5, <2>1, <2>2
<1>6. ASSUME tier = 3 PROVE listed = three /\ one = {} /\ two = {}
  <2>1. ListedRows(kw, tier, tags) = {<<p, 0>> : p \in three}
    BY <1>6 DEF ListedRows
  <2>2. listed = three
    <3>1. listed \subseteq three
      BY <2>1
    <3>2. \A p \in three : <<p, 0>>[1] = p /\ <<p, 0>> \in ListedRows(kw, tier, tags)
      BY <2>1
    <3>3. three \subseteq listed
      BY <3>2
    <3> HIDE DEF listed, three
    <3> QED
      BY <3>1, <3>3
  <2> QED
    BY <1>2, <1>3, <1>6, <2>2
<1>7. tags = {} => (tier = 1 => one # {}) /\ (tier = 2 => two # {})
  BY <1>2, <1>3
<1>8. one = {} /\ tier = 1 => listed = {}
  BY <1>4
<1>9. tier = 2 /\ two = {} => listed = {}
  BY <1>5
<1> HIDE DEF listed, one, two, three
<1>10. listed \subseteq Candidates(kw, tags) /\ (tags = {} => listed = Candidates(kw, tags))
  BY <1>1, <1>2, <1>4, <1>5, <1>6, <1>7, <1>8, <1>9
<1> QED
  BY <1>10 DEF listed, tier

\* At the end all pages are read: every place of the list was seen once.
LEMMA AllRead ==
    ASSUME SearchInv, query.at = "end", query.settled
    PROVE  /\ IsInjective(query.seen)
           /\ ToSet(query.seen) = {r[1] : r \in Wanted} /\ query.tier = BestTier(query.kw)
<1> DEFINE n == Cardinality(Wanted)
           best == BestTier(query.kw)
<1>1. SearchTypes /\ query.page \in Nat \ {0} /\ best \in 0 .. 3
  BY BestTiers DEF SearchInv, SearchTypes, Queries
<1>2. query.tier = best /\ query.total = n /\ ListRead /\ n <= Start
  BY <1>1 DEF SearchInv, Scrolled
<1>3. PICK rows \in Orders(Wanted) : query.seen = SubSeq(PlacesOf(rows), 1, Reached)
  BY <1>2 DEF ListRead
<1>4. /\ IsFiniteSet(Wanted) /\ \A x \in Wanted : x[1] \in DOMAIN facts
      /\ \A x, y \in Wanted : x[1] = y[1] => x = y
  BY <1>1, ListedFinite, ListedKnown, OneRowEach DEF Wanted
<1> DEFINE list == PlacesOf(rows)
<1>5. /\ list \in Seq(DOMAIN facts) /\ Len(list) = n /\ n \in Nat
      /\ \A i \in 1 .. n : list[i] \in {x[1] : x \in Wanted}
      /\ \A i, j \in 1 .. n : list[i] = list[j] => i = j
      /\ \A x \in Wanted : \E i \in 1 .. n : list[i] = x[1]
  BY <1>3, <1>4, OrderPlaces
<1> HIDE DEF list, n
<1>6. Start \in Nat
  BY <1>1, PageSteps DEF Start
<1>7. Reached = n
  BY <1>2, <1>5, <1>6 DEF Reached, n
<1>8. query.seen = list
  BY <1>3, <1>5, <1>7 DEF list
<1>9. DOMAIN list = 1 .. n
  BY <1>5
<1>10. IsInjective(list)
  BY <1>5, <1>9 DEF IsInjective
<1>11. ToSet(list) = {x[1] : x \in Wanted}
  <2>1. \A p \in ToSet(list) : p \in {x[1] : x \in Wanted}
    BY <1>5, <1>9 DEF ToSet
  <2>2. \A x \in Wanted : x[1] \in ToSet(list)
    BY <1>5, <1>9 DEF ToSet
  <2> QED
    BY <2>1, <2>2
<1> QED
  BY <1>2, <1>8, <1>10, <1>11

LEMMA SearchInvSays == SearchInv => SearchConsistent
<1> SUFFICES ASSUME SearchInv PROVE SearchConsistent
  OBVIOUS
<1>1. EachPlaceOnce
  BY AllRead DEF EachPlaceOnce, Ended, Wanted
<1>2. SameInEitherOrder
  <2>1. SUFFICES ASSUME query.at = "end", query.settled, query.kw # NoKeyword
                 PROVE  /\ ToSet(query.seen) \subseteq Candidates(query.kw, query.tags)
                        /\ query.tags = {} => ToSet(query.seen) = Candidates(query.kw, query.tags)
    BY DEF SameInEitherOrder, Ended
  <2>2. ToSet(query.seen) = {r[1] : r \in ListedRows(query.kw, BestTier(query.kw), query.tags)}
    BY <2>1, AllRead DEF Wanted
  <2>3. SearchTypes
    BY DEF SearchInv
  <2> QED
    BY <2>1, <2>2, <2>3, ListedAreCandidates
<1> QED
  BY <1>1, <1>2 DEF SearchInv, SearchConsistent

\* Whoever scrolls through a search sees one list: while nothing changes every
\* place of it once, whatever changes never a place of a weaker tier before
\* those with the keyword, and the same places in either order (get_place_list,
\* place_services.py:53-184).
THEOREM SearchAlwaysConsistent == SearchSpec => []SearchConsistent
<1>1. SearchInit => SearchInv
  BY SearchInvInit
<1>2. SearchInv /\ [SearchNext]_searchVars => SearchInv'
  BY SearchInvNext
<1>3. SearchInv => SearchConsistent
  BY SearchInvSays
<1> QED
  BY <1>1, <1>2, <1>3, PTL DEF SearchSpec

--------------------------------------------------------------------------------
(* The quiz *)

(***************************************************************************)
(* Five questions move each axis by one, so that a score is odd and        *)
(* between -5 and 5 and its sign is never in doubt; the type follows from  *)
(* the signs.                                                              *)
(***************************************************************************)

\* Five questions move each axis.
Five(a, b, c, d, e) == {a, b, c, d, e}

LEMMA FiveElements ==
    ASSUME NEW a, NEW b, NEW c, NEW d, NEW e,
           a # b, a # c, a # d, a # e, b # c, b # d, b # e, c # d, c # e, d # e
    PROVE  IsFiniteSet(Five(a, b, c, d, e)) /\ Cardinality(Five(a, b, c, d, e)) = 5
<1>0. IsFiniteSet({}) /\ Cardinality({}) = 0
  BY FS_EmptySet
<1>1. IsFiniteSet({a}) /\ Cardinality({a}) = 1
  BY FS_Singleton
<1>2. IsFiniteSet({a, b}) /\ Cardinality({a, b}) = 2
  <2>1. {a, b} = {a} \cup {b} /\ b \notin {a}
    OBVIOUS
  <2> QED
    BY <1>1, <2>1, FS_AddElement
<1>3. IsFiniteSet({a, b, c}) /\ Cardinality({a, b, c}) = 3
  <2>1. {a, b, c} = {a, b} \cup {c} /\ c \notin {a, b}
    OBVIOUS
  <2> QED
    BY <1>2, <2>1, FS_AddElement
<1>4. IsFiniteSet({a, b, c, d}) /\ Cardinality({a, b, c, d}) = 4
  <2>1. {a, b, c, d} = {a, b, c} \cup {d} /\ d \notin {a, b, c}
    OBVIOUS
  <2> QED
    BY <1>3, <2>1, FS_AddElement
<1>5. Five(a, b, c, d, e) = {a, b, c, d} \cup {e} /\ e \notin {a, b, c, d}
  BY DEF Five
<1> QED
  BY <1>4, <1>5, FS_AddElement

LEMMA MovingSets ==
    /\ Moving(1) = Five(3, 5, 6, 7, 10)
    /\ Moving(2) = Five(2, 3, 4, 5, 11)
    /\ Moving(3) = Five(1, 5, 6, 8, 12)
    /\ Moving(4) = Five(1, 4, 7, 9, 12)
    /\ Moving(5) = Five(7, 8, 9, 10, 11)
    /\ Moving(6) = Five(1, 2, 9, 10, 12)
BY DEF Moving, Questions, Weights, Five

LEMMA FiveMove ==
    ASSUME NEW axis \in Axes
    PROVE  IsFiniteSet(Moving(axis)) /\ Cardinality(Moving(axis)) = 5
<1>1. CASE axis = 1
  BY <1>1, MovingSets, FiveElements
<1>2. CASE axis = 2
  BY <1>2, MovingSets, FiveElements
<1>3. CASE axis = 3
  BY <1>3, MovingSets, FiveElements
<1>4. CASE axis = 4
  BY <1>4, MovingSets, FiveElements
<1>5. CASE axis = 5
  BY <1>5, MovingSets, FiveElements
<1>6. CASE axis = 6
  BY <1>6, MovingSets, FiveElements
<1> QED
  BY <1>1, <1>2, <1>3, <1>4, <1>5, <1>6 DEF Axes

\* The scores are odd, and those of the opposite sheet are the opposite ones.
LEMMA ScoresOdd ==
    ASSUME NEW s \in [Questions -> BOOLEAN], NEW axis \in Axes
    PROVE  /\ Score(s, axis) \in {-5, -3, -1, 1, 3, 5}
           /\ Opposite(s) \in [Questions -> BOOLEAN]
           /\ Score(Opposite(s), axis) = -Score(s, axis)
<1> DEFINE M == Moving(axis)
           R == Raising(s, axis)
<1>1. IsFiniteSet(M) /\ Cardinality(M) = 5
  BY FiveMove
<1>2. R \subseteq M
  BY DEF Raising
<1>3. IsFiniteSet(R) /\ Cardinality(R) \in Nat
  BY <1>1, <1>2, FS_Subset, FS_CardinalityType
<1>4. Cardinality(M \ R) = 5 - Cardinality(R)
  <2>1. M \cap R = R
    BY <1>2
  <2> HIDE DEF M, R
  <2>2. Cardinality(M \ R) = Cardinality(M) - Cardinality(M \cap R)
    BY <1>1, FS_Difference
  <2> QED
    BY <1>1, <2>1, <2>2
<1>5. Cardinality(M \ R) \in Nat
  BY <1>1, FS_Subset, FS_CardinalityType
<1>6. Raising(Opposite(s), axis) = M \ R
  <2>1. \A q \in M : s[q] \in BOOLEAN /\ Opposite(s)[q] = ~s[q]
    BY DEF Moving, Opposite
  <2>2. ASSUME NEW q \in M
        PROVE  Opposite(s)[q] = (Weights[q][axis] > 0) <=> ~(s[q] = (Weights[q][axis] > 0))
    <3> DEFINE up == Weights[q][axis] > 0
    <3>1. up \in BOOLEAN
      OBVIOUS
    <3> HIDE DEF up
    <3>2. Opposite(s)[q] = up <=> ~(s[q] = up)
      BY <2>1, <3>1
    <3> QED
      BY <3>2 DEF up
  <2> QED
    BY <2>2 DEF Raising
<1>7. M \ (M \ R) = R
  BY <1>2
<1>8. Opposite(s) \in [Questions -> BOOLEAN]
  BY DEF Opposite
<1> HIDE DEF M, R
<1>9. Score(s, axis) = Cardinality(R) - Cardinality(M \ R)
  BY DEF Score, M, R
<1>10. Score(Opposite(s), axis) = Cardinality(M \ R) - Cardinality(R)
  BY <1>6, <1>7 DEF Score, M
<1> QED
  BY <1>3, <1>4, <1>5, <1>8, <1>9, <1>10

OddScores == {-5, -3, -1, 1, 3, 5}

\* No score is cut, so that the vector holds the scores.
LEMMA NormKeeps ==
    ASSUME NEW s \in [Questions -> BOOLEAN], NEW axis \in Axes
    PROVE  Norm(s)[axis] = Score(s, axis) /\ Norm(s)[axis] \in OddScores
<1>1. Score(s, axis) \in OddScores
  BY ScoresOdd DEF OddScores
<1> QED
  BY <1>1 DEF Norm, OddScores

\* What a page makes of a vector.
LEMMA VectorShown ==
    ASSUME NEW v, \A axis \in Axes : v[axis] \in OddScores
    PROVE  /\ Accuracy(v) \in 20 .. 100
           /\ \A axis \in Axes : Label(v, axis) \in {60, 80, 100} /\ High(v, axis) \in BOOLEAN
<1>1. v[1] \in OddScores /\ v[3] \in OddScores /\ v[4] \in OddScores
  BY DEF Axes
<1>2. \A n \in OddScores : Abs(n) \in 1 .. 5
  BY DEF OddScores, Abs
<1>3. Abs(v[1]) + Abs(v[3]) + Abs(v[4]) \in 3 .. 15
  BY <1>1, <1>2
<1>4. Accuracy(v) \in 20 .. 100
  <2> DEFINE a == Abs(v[1]) + Abs(v[3]) + Abs(v[4])
  <2>1. a \in 3 .. 15 /\ Accuracy(v) = (200 * a + 15) \div 30
    BY <1>3 DEF Accuracy
  <2> HIDE DEF a
  <2> QED
    BY <2>1
<1>5. \A axis \in Axes : Label(v, axis) \in {60, 80, 100} /\ High(v, axis) \in BOOLEAN
  BY DEF Label, High, OddScores
<1> QED
  BY <1>4, <1>5

LEMMA SheetsMirrored ==
    ASSUME NEW s \in [Questions -> BOOLEAN]
    PROVE  Mirrored(s)
<1> DEFINE v == Norm(s)
           w == Norm(Opposite(s))
<1>1. Opposite(s) \in [Questions -> BOOLEAN]
  BY ScoresOdd DEF Axes
<1>2. \A axis \in Axes : v[axis] = Score(s, axis) /\ v[axis] \in OddScores
  BY NormKeeps
<1>3. \A axis \in Axes : w[axis] \in OddScores /\ w[axis] = -v[axis]
  BY <1>1, <1>2, NormKeeps, ScoresOdd
<1> HIDE DEF v, w
<1>4. \A axis \in Axes : v[axis] % 2 = 1
  BY <1>2 DEF OddScores
<1>5. \A axis \in Axes : High(w, axis) = ~High(v, axis)
  BY <1>2, <1>3 DEF OddScores, High
<1>6. TypeKey(w) = Incompatible(TypeKey(v))
  BY <1>5 DEF TypeKey, Incompatible, Axes
<1>7. \A axis \in Axes : Abs(w[axis]) = Abs(v[axis]) /\ Label(v, axis) = Label(w, axis)
  BY <1>2, <1>3 DEF OddScores, Abs, Label, High
<1>8. Accuracy(v) = Accuracy(w)
  <2>1. Abs(w[1]) = Abs(v[1]) /\ Abs(w[3]) = Abs(v[3]) /\ Abs(w[4]) = Abs(v[4])
    BY <1>7 DEF Axes
  <2> QED
    BY <2>1 DEF Accuracy
<1>9. Accuracy(v) \in 20 .. 100 /\ \A axis \in Axes : Label(v, axis) \in {60, 80, 100}
  BY <1>2, VectorShown
<1> QED
  BY <1>2, <1>4, <1>6, <1>7, <1>8, <1>9 DEF Mirrored, v, w

-----------------------------------------------------------------------------
\* A vector of somebody's answers, and its type.
Answered(k, v) ==
    /\ \A axis \in Axes : v[axis] \in OddScores
    /\ k = TypeKey(v)

\* The types in a list are seeded, and the type of who has read one was.
ListFits(list) == list # {} /\ list \subseteq Types

TakePlaces == {"idle", "asked", "typed", "saved", "listing", "listed", "answered", "failed"}
TakeRecords == [at : TakePlaces, sheet : [Questions -> BOOLEAN] \cup {<<>>},
                list : SUBSET (Types \cup {<<>>})]
TakesFit ==
    /\ take \in [Takers -> TakeRecords]
    /\ \A t \in Takers :
          /\ take[t].at # "idle" => take[t].sheet \in [Questions -> BOOLEAN]
          /\ take[t].at \in {"typed", "saved"} => table > 0
          /\ take[t].at = "listing" => ListFits(take[t].list)

LinksFit ==
    /\ result # NoResult => Answered(result.type, result.vector)
    /\ link # NoLink => Answered(link.type, link.vector)
    /\ viewer.at # "idle" => Answered(viewer.link.type, viewer.link.vector)
    /\ viewer.at = "listing" => ListFits(viewer.list)
    /\ viewer.at = "shown" => viewer.page = Page(viewer.link.type, viewer.link.vector)

QuizInv ==
    QuizTypeOK /\ TakesFit /\ LinksFit

LEMMA SomeTypes == table \in 0 .. Len(Seeds) /\ table > 0 => ListFits(Table)
BY DEF ListFits, Table, Types, Seeds

\* What the answers of the user come to.
LEMMA AnswersFit ==
    ASSUME NEW s \in [Questions -> BOOLEAN]
    PROVE  Answered(TypeKey(Norm(s)), Norm(s))
BY NormKeeps DEF Answered

LEMMA PageFits ==
    ASSUME NEW k, NEW v, Answered(k, v)
    PROVE  LET page == Page(k, v) IN
           /\ page.tags = << page.texts[1][1], page.texts[2][2], page.texts[3][1] >>
           /\ page.bad = [i \in 1 .. 3 |-> ~page.tags[i]]
           /\ page.good \notin {page.tags, page.bad}
           /\ page.accuracy \in 20 .. 100
<1> DEFINE a == High(v, 1)
           b == High(v, 3)
           c == High(v, 4)
<1>1. a \in BOOLEAN /\ b \in BOOLEAN /\ c \in BOOLEAN /\ Accuracy(v) \in 20 .. 100
  BY VectorShown DEF Answered, Axes
<1>2. k = <<a, b, c>>
  BY DEF Answered, TypeKey
<1>3. Texts(v)[1][1] = a /\ Texts(v)[2][2] = b /\ Texts(v)[3][1] = c
  BY DEF Texts
<1>4. /\ Page(k, v).tags = k /\ Page(k, v).texts = Texts(v) /\ Page(k, v).accuracy = Accuracy(v)
      /\ Page(k, v).good = Compatible(k) /\ Page(k, v).bad = Incompatible(k)
  BY DEF Page, TypeTags
<1> HIDE DEF a, b, c
<1>5. Incompatible(k) = [i \in 1 .. 3 |-> ~k[i]]
  BY <1>1, <1>2 DEF Incompatible
<1>6. Compatible(k) # k /\ Compatible(k) # Incompatible(k)
  BY <1>1, <1>2 DEF Compatible, Incompatible
<1> QED
  BY <1>1, <1>2, <1>3, <1>4, <1>5, <1>6

LEMMA QuizInvInit == QuizInit /\ ShareInit => QuizInv
<1> SUFFICES ASSUME QuizInit, ShareInit PROVE QuizInv
  OBVIOUS
<1>1. QuizTypeOK
  BY DEF QuizInit, QuizTypeOK, NoTake, Seeds
<1>2. NoTake \in TakeRecords
  BY DEF NoTake, NoList, TakeRecords, TakePlaces
<1>3. TakesFit
  BY <1>2 DEF QuizInit, TakesFit, NoTake
<1>4. LinksFit
  BY DEF QuizInit, ShareInit, LinksFit, NoViewer
<1> QED
  BY <1>1, <1>3, <1>4 DEF QuizInv

\* One submission goes on.
LEMMA TakerMoves ==
    ASSUME QuizInv, NEW t \in Takers, NEW new \in TakeRecords, take' = [take EXCEPT ![t] = new],
           UNCHANGED table,
           new.at # "idle" => new.sheet \in [Questions -> BOOLEAN],
           new.at \in {"typed", "saved"} => table > 0, new.at = "listing" => ListFits(new.list)
    PROVE  TakesFit' /\ \A u \in Takers : take'[u].at \in TakePlaces
<1>1. take' \in [Takers -> TakeRecords] /\ take'[t] = new
      /\ \A u \in Takers \ {t} : take'[u] = take[u]
  BY DEF QuizInv, TakesFit
<1>2. \A u \in Takers : take'[u].at \in TakePlaces
  BY <1>1 DEF TakeRecords
<1> QED
  BY <1>1, <1>2 DEF QuizInv, TakesFit

LEMMA QuizSeed ==
    ASSUME QuizInv, Seed, UNCHANGED shareVars
    PROVE  QuizInv'
<1>1. table' \in 0 .. Len(Seeds) /\ table' = table + 1 /\ table \in Nat
  BY DEF Seed, QuizInv, QuizTypeOK, Seeds
<1> QED
  BY <1>1 DEF Seed, shareVars, QuizInv, QuizTypeOK, TakesFit, LinksFit

LEMMA QuizExpire ==
    ASSUME QuizInv, ExpireTypes, UNCHANGED shareVars
    PROVE  QuizInv'
BY DEF ExpireTypes, shareVars, QuizInv, QuizTypeOK, TakesFit, LinksFit

LEMMA QuizSubmits ==
    ASSUME QuizInv, NEW t \in Takers, Submit(t), UNCHANGED shareVars
    PROVE  QuizInv'
<1>1. PICK s \in {sheet, Opposite(sheet)} :
         take' = [take EXCEPT ![t] = [at |-> "asked", sheet |-> s, list |-> NoList]]
  BY DEF Submit
<1>2. s \in [Questions -> BOOLEAN]
  <2>1. sheet \in [Questions -> BOOLEAN]
    BY SheetAssumption DEF QuizInv, QuizTypeOK, Questions
  <2> QED
    BY <1>1, <2>1 DEF Opposite
<1> DEFINE new == [at |-> "asked", sheet |-> s, list |-> NoList]
<1>3. new \in TakeRecords /\ new.at = "asked" /\ new.sheet = s
  BY <1>2 DEF TakeRecords, TakePlaces, NoList
<1> HIDE DEF new
<1>4. TakesFit' /\ \A u \in Takers : take'[u].at \in TakePlaces
  BY <1>1, <1>2, <1>3, TakerMoves DEF Submit, new
<1>5. QuizTypeOK'
  BY <1>4 DEF Submit, QuizInv, QuizTypeOK, TakePlaces
<1> QED
  BY <1>4, <1>5 DEF Submit, shareVars, QuizInv, LinksFit

\* A submission goes on once a type has been seeded.
LEMMA QuizFindsType ==
    ASSUME QuizInv, NEW t \in Takers, FindType(t), UNCHANGED shareVars
    PROVE  QuizInv'
<1>1. take[t] \in TakeRecords /\ take[t].sheet \in [Questions -> BOOLEAN]
  BY DEF FindType, QuizInv, TakesFit
<1>2. PICK at \in {"typed", "failed"} :
        /\ take' = [take EXCEPT ![t] = Holding(t, at, take[t].list)]
        /\ at = "typed" => Key(t) \in Table
  BY DEF FindType, TakeAt
<1>3. at = "typed" => table > 0
  BY <1>2 DEF Table, QuizInv, QuizTypeOK, Seeds
<1> DEFINE new == Holding(t, at, take[t].list)
<1>4. new \in TakeRecords /\ new.at = at /\ new.sheet = take[t].sheet
  BY <1>1 DEF Holding, TakeRecords, TakePlaces
<1> HIDE DEF new
<1>5. TakesFit' /\ \A u \in Takers : take'[u].at \in TakePlaces
  BY <1>1, <1>2, <1>3, <1>4, TakerMoves DEF FindType, new
<1>6. QuizTypeOK'
  BY <1>5 DEF FindType, QuizInv, QuizTypeOK, TakePlaces
<1> QED
  BY <1>5, <1>6 DEF FindType, shareVars, QuizInv, LinksFit

\* A step of a submission that changes neither list nor result.
LEMMA QuizStores ==
    ASSUME QuizInv, NEW t \in Takers, StoreResult(t), UNCHANGED shareVars
    PROVE  QuizInv'
<1> DEFINE new == Holding(t, "saved", take[t].list)
<1>1. /\ take[t] \in TakeRecords /\ take[t].sheet \in [Questions -> BOOLEAN]
      /\ take' = [take EXCEPT ![t] = new]
  BY DEF StoreResult, TakeAt, QuizInv, TakesFit
<1>2. new \in TakeRecords /\ new.at = "saved" /\ new.sheet = take[t].sheet
  BY <1>1 DEF Holding, TakeRecords, TakePlaces
<1>3. table > 0
  BY DEF StoreResult, QuizInv, TakesFit
<1> HIDE DEF new
<1>4. TakesFit' /\ \A u \in Takers : take'[u].at \in TakePlaces
  BY <1>1, <1>2, <1>3, TakerMoves DEF StoreResult
<1>5. QuizTypeOK'
  BY <1>4 DEF StoreResult, QuizInv, QuizTypeOK, TakePlaces
<1> QED
  BY <1>4, <1>5 DEF StoreResult, shareVars, QuizInv, LinksFit

LEMMA QuizFinds ==
    ASSUME QuizInv, NEW t \in Takers, FindCached(t), UNCHANGED shareVars
    PROVE  QuizInv'
<1> DEFINE new == Holding(t, "listed", cached)
<1>1. /\ take[t].sheet \in [Questions -> BOOLEAN] /\ take' = [take EXCEPT ![t] = new]
      /\ cached \subseteq Types
  BY DEF FindCached, QuizInv, QuizTypeOK, TakesFit
<1>2. new \in TakeRecords /\ new.at = "listed" /\ new.sheet = take[t].sheet
  BY <1>1 DEF Holding, TakeRecords, TakePlaces
<1> HIDE DEF new
<1>4. TakesFit' /\ \A u \in Takers : take'[u].at \in TakePlaces
  BY <1>1, <1>2, TakerMoves DEF FindCached
<1>5. QuizTypeOK'
  BY <1>4 DEF FindCached, QuizInv, QuizTypeOK, TakePlaces
<1> QED
  BY <1>4, <1>5 DEF FindCached, shareVars, QuizInv, LinksFit

LEMMA QuizReads ==
    ASSUME QuizInv, NEW t \in Takers, ReadTypes(t), UNCHANGED shareVars
    PROVE  QuizInv'
<1> DEFINE new == Holding(t, "listing", Table)
<1>1. /\ take[t].sheet \in [Questions -> BOOLEAN] /\ take' = [take EXCEPT ![t] = new]
      /\ table > 0 /\ table \in 0 .. Len(Seeds)
  BY DEF ReadTypes, QuizInv, QuizTypeOK, TakesFit
<1>2. ListFits(Table)
  BY <1>1, SomeTypes
<1>3. new \in TakeRecords /\ new.at = "listing" /\ new.sheet = take[t].sheet /\ new.list = Table
  BY <1>1, <1>2 DEF Holding, TakeRecords, TakePlaces, ListFits
<1> HIDE DEF new
<1>4. TakesFit' /\ \A u \in Takers : take'[u].at \in TakePlaces
  BY <1>1, <1>2, <1>3, TakerMoves DEF ReadTypes
<1>5. QuizTypeOK'
  BY <1>4 DEF ReadTypes, QuizInv, QuizTypeOK, TakePlaces
<1> QED
  BY <1>4, <1>5 DEF ReadTypes, shareVars, QuizInv, LinksFit

LEMMA QuizCaches ==
    ASSUME QuizInv, NEW t \in Takers, CacheTypes(t), UNCHANGED shareVars
    PROVE  QuizInv'
<1> DEFINE new == Holding(t, "listed", take[t].list)
<1>1. /\ take[t].sheet \in [Questions -> BOOLEAN] /\ take' = [take EXCEPT ![t] = new]
      /\ take[t] \in TakeRecords /\ ListFits(take[t].list)
  BY DEF CacheTypes, TakeAt, QuizInv, QuizTypeOK, TakesFit
<1>2. new \in TakeRecords /\ new.at = "listed" /\ new.sheet = take[t].sheet
  BY <1>1 DEF Holding, TakeRecords, TakePlaces
<1> HIDE DEF new
<1>4. TakesFit' /\ \A u \in Takers : take'[u].at \in TakePlaces
  BY <1>1, <1>2, TakerMoves DEF CacheTypes
<1>5. QuizTypeOK'
  BY <1>1, <1>4 DEF CacheTypes, QuizInv, QuizTypeOK, TakePlaces, ListFits
<1> QED
  BY <1>4, <1>5 DEF CacheTypes, shareVars, QuizInv, LinksFit

LEMMA QuizEnds ==
    ASSUME QuizInv, NEW t \in Takers, EndTake(t), UNCHANGED shareVars
    PROVE  QuizInv'
<1>1. take[t] \in TakeRecords /\ take[t].sheet \in [Questions -> BOOLEAN]
  BY DEF EndTake, QuizInv, TakesFit
<1>2. PICK at \in {"failed", "answered"} :
        /\ take' = [take EXCEPT ![t] = Holding(t, at, take[t].list)]
        /\ result' = result \/ result' = Stored(t)
  BY DEF EndTake, TakeAt
<1> DEFINE new == Holding(t, at, take[t].list)
<1>3. new \in TakeRecords /\ new.at = at /\ new.sheet = take[t].sheet
  BY <1>1 DEF Holding, TakeRecords, TakePlaces
<1> HIDE DEF new
<1>4. TakesFit' /\ \A u \in Takers : take'[u].at \in TakePlaces
  BY <1>1, <1>2, <1>3, TakerMoves DEF EndTake, new
<1>5. QuizTypeOK'
  BY <1>4 DEF EndTake, QuizInv, QuizTypeOK, TakePlaces
<1>6. Answered(Stored(t).type, Stored(t).vector)
  BY <1>1, AnswersFit DEF Stored, Key, Vector
<1>7. LinksFit'
  BY <1>2, <1>6 DEF EndTake, shareVars, QuizInv, LinksFit
<1> QED
  BY <1>4, <1>5, <1>7 DEF QuizInv
-----------------------------------------------------------------------------
LEMMA LinkMakes ==
    ASSUME QuizInv, ShareStored \/ ShareGiven
    PROVE  QuizInv'
<1>1. UNCHANGED <<sheet, table, cached, result, take, viewer>>
  BY DEF ShareStored, ShareGiven, quizVars
<1>2. Answered(link'.type, link'.vector)
  <2>1. CASE ShareStored
    BY <2>1 DEF ShareStored, QuizInv, LinksFit
  <2>2. CASE ShareGiven
    <3>1. PICK s \in {sheet, Opposite(sheet)} :
             link' = [type |-> TypeKey(Norm(s)), vector |-> Norm(s)]
      BY <2>2 DEF ShareGiven
    <3>2. s \in [Questions -> BOOLEAN]
      <4>1. sheet \in [Questions -> BOOLEAN]
        BY SheetAssumption DEF QuizInv, QuizTypeOK, Questions
      <4> QED
        BY <3>1, <4>1 DEF Opposite
    <3> QED
      BY <3>1, <3>2, AnswersFit
  <2> QED
    BY <2>1, <2>2
<1> QED
  BY <1>1, <1>2 DEF QuizInv, QuizTypeOK, TakesFit, LinksFit

LEMMA LinkOpens ==
    ASSUME QuizInv, OpenLink
    PROVE  QuizInv'
<1>1. UNCHANGED <<sheet, table, cached, result, take, link>>
  BY DEF OpenLink, quizVars
<1>2. /\ Answered(viewer'.link.type, viewer'.link.vector)
      /\ viewer'.at \in {"listing", "listed"} /\ (viewer'.at = "listing" => viewer'.list = Table)
  BY DEF OpenLink, QuizInv, LinksFit
<1>3. ListFits(Table)
  <2>1. table > 0
    BY DEF OpenLink, Table, QuizInv, QuizTypeOK, Seeds
  <2> QED
    BY <2>1, SomeTypes DEF QuizInv, QuizTypeOK
<1>4. Table' = Table
  BY <1>1 DEF Table
<1>5. LinksFit'
  BY <1>1, <1>2, <1>3, <1>4 DEF QuizInv, LinksFit, ListFits
<1> QED
  BY <1>1, <1>5 DEF QuizInv, QuizTypeOK, TakesFit

LEMMA LinkCaches ==
    ASSUME QuizInv, CacheShared
    PROVE  QuizInv'
<1>1. /\ viewer'.at = "listed" /\ viewer'.link = viewer.link /\ viewer.at = "listing"
      /\ cached' = viewer.list /\ UNCHANGED <<sheet, table, result, take, link>>
  BY DEF CacheShared, Viewing
<1>2. ListFits(cached')
  BY <1>1 DEF QuizInv, LinksFit
<1> QED
  BY <1>1, <1>2 DEF QuizInv, QuizTypeOK, TakesFit, LinksFit, ListFits

LEMMA LinkShows ==
    ASSUME QuizInv, ShowPage
    PROVE  QuizInv'
<1>1. UNCHANGED <<sheet, table, cached, result, take, link>> /\ viewer.at = "listed"
  BY DEF ShowPage, quizVars
<1>2. \/ viewer' = NoViewer
      \/ viewer' = Viewing("shown", Page(viewer.link.type, viewer.link.vector))
  BY DEF ShowPage
<1>3. LinksFit'
  <2>1. CASE viewer' = NoViewer
    BY <1>1, <2>1 DEF NoViewer, QuizInv, LinksFit
  <2>2. CASE viewer' = Viewing("shown", Page(viewer.link.type, viewer.link.vector))
    <3>1. /\ viewer'.at = "shown" /\ viewer'.link = viewer.link
          /\ viewer'.page = Page(viewer.link.type, viewer.link.vector)
      BY <2>2 DEF Viewing
    <3>2. Page(viewer.link.type, viewer.link.vector)' = viewer'.page
      BY <3>1 DEF Page
    <3> QED
      BY <1>1, <3>1, <3>2 DEF QuizInv, LinksFit
  <2> QED
    BY <1>2, <2>1, <2>2
<1> QED
  BY <1>1, <1>3 DEF QuizInv, QuizTypeOK, TakesFit

QuizShareNext == (QuizNext /\ UNCHANGED shareVars) \/ ShareNext

LEMMA QuizInvStep == QuizInv /\ [QuizShareNext]_<<quizVars, shareVars>> => QuizInv'
<1> SUFFICES ASSUME QuizInv, [QuizShareNext]_<<quizVars, shareVars>> PROVE QuizInv'
  OBVIOUS
<1>1. CASE QuizNext /\ UNCHANGED shareVars
  <2>1. CASE Seed \/ ExpireTypes
    BY <1>1, <2>1, QuizSeed, QuizExpire
  <2>2. ASSUME NEW t \in Takers, Submit(t) \/ QuizStep(t)
        PROVE  QuizInv'
    BY <1>1, <2>2, QuizSubmits, QuizFindsType, QuizStores, QuizFinds, QuizReads, QuizCaches,
       QuizEnds DEF QuizStep
  <2> QED
    BY <1>1, <2>1, <2>2 DEF QuizNext
<1>2. CASE ShareNext
  BY <1>2, LinkMakes, LinkOpens, LinkCaches, LinkShows DEF ShareNext
<1>3. CASE UNCHANGED <<quizVars, shareVars>>
  BY <1>3 DEF quizVars, shareVars, QuizInv, QuizTypeOK, TakesFit, LinksFit
<1> QED
  BY <1>1, <1>2, <1>3 DEF QuizShareNext

\* Whatever was cached when, the list of types a submission works with holds seeded
\* types only, and at least one (travel_quiz_services.py:153-158).
THEOREM QuizTypesKept == QuizShareSpec => []QuizTypeOK
<1>1. QuizInv => QuizTypeOK
  BY DEF QuizInv
<1> QED
  BY <1>1, QuizInvInit, QuizInvStep, PTL DEF QuizShareSpec, QuizShareNext

\* For every answer sheet, the opposite one gets the opposite of each axis, and the stored
\* type is the one of the stored vector (quiz_data.py, travel_quiz_services.py:113-150).
THEOREM ResultAlwaysSound == QuizSpec => []ResultSound
<1>1. OppositesClash
  BY SheetAssumption, SheetsMirrored DEF OppositesClash, Questions
<1>2. QuizInit => ResultFits
  BY DEF QuizInit, ResultFits
<1>3. ResultFits /\ [QuizNext]_quizVars => ResultFits'
  <2>1. SUFFICES ASSUME ResultFits, [QuizNext]_quizVars
                 PROVE  ResultFits'
    OBVIOUS
  <2>2. ASSUME NEW t \in Takers, EndTake(t)
        PROVE  ResultFits'
    <3>1. CASE result' = Stored(t)
      BY <3>1 DEF ResultFits, Stored, Key, TypeKey, High
    <3>2. CASE UNCHANGED result
      BY <2>1, <3>2 DEF ResultFits, TypeKey, High
    <3> QED
      BY <2>2, <3>1, <3>2 DEF EndTake
  <2>3. UNCHANGED result => ResultFits'
    BY <2>1 DEF ResultFits, TypeKey, High
  <2> QED
    BY <2>1, <2>2, <2>3 DEF QuizNext, QuizStep, Seed, ExpireTypes, Submit, FindType, StoreResult,
       FindCached, ReadTypes, CacheTypes, quizVars
<1>4. ResultFits => ResultSound
  BY <1>1 DEF ResultSound
<1> QED
  BY <1>2, <1>3, <1>4, PTL DEF QuizSpec

\* Whatever was shared and however often the quiz was taken since, the parts of a shared
\* page that come from the type agree with those that come from the vector
\* (travel_quiz_services.py:246-267).
THEOREM SharedPagesFit == QuizShareSpec => []SharedPageFits
<1>1. QuizInv => SharedPageFits
  BY PageFits DEF QuizInv, LinksFit, SharedPageFits
<1> QED
  BY <1>1, QuizInvInit, QuizInvStep, PTL DEF QuizShareSpec, QuizShareNext

--------------------------------------------------------------------------------
(* Routes as they are read *)

(***************************************************************************)
(* ReadInv says of the days read so far that they are of one version of    *)
(* the route, and of their stops that they are those of one plan without   *)
(* deleted places, or that there are none.                                 *)
(***************************************************************************)

Routes == 1 .. MaxRoutes

RowsKnown ==
    /\ stored = [r \in Routes |-> stored[r]]
    /\ past = [r \in Routes |-> past[r]]
    /\ \A r \in Routes : stored[r].edit \in Nat /\ stored[r].there \in BOOLEAN
    /\ atlas \subseteq Stops

ReaderKnown ==
    /\ routeReader = [pc |-> routeReader.pc, ask |-> routeReader.ask, typos |-> routeReader.typos,
                      page |-> routeReader.page, more |-> routeReader.more,
                      cards |-> routeReader.cards, days |-> routeReader.days,
                      stops |-> routeReader.stops, images |-> routeReader.images]
    /\ OnPage \subseteq Routes

\* What is stored of a plan is left of one that the route was given.
PlansKept ==
    \A r \in Ids : \E plan \in past[r] : stored[r].plan = Spared(plan, atlas)

\* The days that were read of a route are of one version; as long as that is the stored
\* one, they are all of them.
DaysOf(r) == {day \in routeReader.days : day[1] = r}
DaysFit ==
    routeReader.pc = "days" => \A r \in Routes :
        \/ DaysOf(r) = {}
        \/ \E edit \in 0 .. stored[r].edit :
              /\ \A day \in DaysOf(r) : day[2] = edit
              /\ r \in Ids /\ edit = stored[r].edit =>
                    {day[3] : day \in DaysOf(r)} = DOMAIN stored[r].plan

\* The stops that were read of a route are of one version, or there are none.
StopsFit ==
    routeReader.pc \in {"stops", "shown"} => \A r \in OnPage :
        \/ \A day \in DaysShown(r) : routeReader.stops[day] = {}
        \/ \E plan \in past[r], kept \in SUBSET Stops :
              /\ atlas \subseteq kept
              /\ {day[3] : day \in DaysShown(r)} = DOMAIN plan
              /\ \A day \in DaysShown(r) : routeReader.stops[day] = Spared(plan, kept)[day[3]]

ReadInv == RowsKnown /\ ReaderKnown /\ PlansKept /\ DaysFit /\ StopsFit /\ PlaceCountExact

-----------------------------------------------------------------------------
LEMMA SparedWhole ==
    ASSUME NEW draft \in Drafts, NEW kept, Visits(draft.plan) \subseteq kept
    PROVE  Spared(draft.plan, kept) = draft.plan
<1> DEFINE plan == draft.plan
<1>1. plan \in [DOMAIN plan -> SUBSET [order : 1 .. 5, place : Stops]]
  BY ReadAssumption
<1>2. \A d \in DOMAIN plan : {stop \in plan[d] : stop.place \in kept} = plan[d]
  BY DEF Visits
<1> HIDE DEF plan
<1>3. [d \in DOMAIN plan |-> {stop \in plan[d] : stop.place \in kept}] = plan
  BY <1>1, <1>2
<1> QED
  BY <1>3 DEF Spared, plan

LEMMA VisitsKnown ==
    ASSUME NEW draft \in Drafts
    PROVE  Visits(draft.plan) \subseteq Stops
<1>1. \A d \in DOMAIN draft.plan : draft.plan[d] \subseteq [order : 1 .. 5, place : Stops]
  BY ReadAssumption
<1> QED
  BY <1>1 DEF Visits

LEMMA SparedTwice ==
    ASSUME NEW plan, NEW kept, NEW fewer \in SUBSET kept
    PROVE  Spared(Spared(plan, kept), fewer) = Spared(plan, fewer)
<1> DEFINE once == Spared(plan, kept)
<1>1. /\ DOMAIN once = DOMAIN plan
      /\ \A d \in DOMAIN plan : once[d] = {stop \in plan[d] : stop.place \in kept}
  BY DEF Spared
<1> HIDE DEF once
<1>2. \A d \in DOMAIN plan :
         {stop \in once[d] : stop.place \in fewer} = {stop \in plan[d] : stop.place \in fewer}
  BY <1>1
<1>3. Spared(once, fewer) = Spared(plan, fewer)
  BY <1>1, <1>2 DEF Spared
<1> QED
  BY <1>3 DEF once

-----------------------------------------------------------------------------
LEMMA ReadInvInit == ReadInit => ReadInv
<1> SUFFICES ASSUME ReadInit PROVE ReadInv
  OBVIOUS
<1>1. /\ routeReader = Nobody /\ atlas = Stops
      /\ past = [r \in Routes |-> IF stored[r].there THEN {stored[r].plan} ELSE {}]
  BY DEF ReadInit, Routes
<1>2. ASSUME NEW r \in Routes
      PROVE  /\ stored[r].edit = 0 /\ stored[r].there \in BOOLEAN
             /\ stored[r].there => \E draft \in Drafts : stored[r].plan = draft.plan
  <2>1. stored[r] \in {NoRoute} \cup {Row(0, draft, draft.plan) : draft \in Drafts}
    BY DEF ReadInit, Routes
  <2>2. CASE stored[r] = NoRoute
    <3>1. stored[r].edit = 0 /\ stored[r].there = FALSE
      BY <2>2 DEF NoRoute
    <3> QED
      BY <3>1
  <2>3. CASE \E draft \in Drafts : stored[r] = Row(0, draft, draft.plan)
    <3>1. PICK draft \in Drafts : stored[r] = Row(0, draft, draft.plan)
      BY <2>3
    <3>2. stored[r].edit = 0 /\ stored[r].there = TRUE /\ stored[r].plan = draft.plan
      BY <3>1 DEF Row
    <3> QED
      BY <3>2
  <2> QED
    BY <2>1, <2>2, <2>3
<1>3. RowsKnown
  BY <1>1, <1>2 DEF ReadInit, RowsKnown, Routes
<1>4. ReaderKnown
  BY <1>1 DEF ReaderKnown, Nobody, OnPage
<1>5. PlansKept
  <2>1. SUFFICES ASSUME NEW r \in Ids
                 PROVE  \E plan \in past[r] : stored[r].plan = Spared(plan, atlas)
    BY DEF PlansKept
  <2>2. r \in Routes /\ stored[r].there
    BY <1>3 DEF Ids, RowsKnown
  <2>3. PICK draft \in Drafts : stored[r].plan = draft.plan
    BY <1>2, <2>2
  <2>4. Spared(draft.plan, atlas) = draft.plan
    BY <1>1, SparedWhole, VisitsKnown
  <2> QED
    BY <1>1, <2>2, <2>3, <2>4
<1>6. DaysFit /\ StopsFit /\ PlaceCountExact
  BY <1>1 DEF DaysFit, StopsFit, PlaceCountExact, Nobody
<1> QED
  BY <1>3, <1>4, <1>5, <1>6 DEF ReadInv

\* A change keeps what was read, as long as versions only grow.
LEMMA WritesKeep ==
    ASSUME ReadInv, UNCHANGED routeReader, RowsKnown', PlansKept', atlas' \subseteq atlas,
           \A r \in Routes : past[r] \subseteq past'[r],
           \A r \in Routes :
              /\ stored[r].edit <= stored'[r].edit
              /\ r \in Ids' /\ stored'[r].edit = stored[r].edit =>
                    r \in Ids /\ DOMAIN stored'[r].plan = DOMAIN stored[r].plan
    PROVE  ReadInv'
<1>1. ReaderKnown' /\ PlaceCountExact'
  BY DEF ReadInv, ReaderKnown, PlaceCountExact, OnPage
<1>2. DaysFit'
  <2>1. SUFFICES ASSUME routeReader.pc = "days", NEW r \in Routes, DaysOf(r) # {}
                 PROVE  \E edit \in 0 .. stored'[r].edit :
                           /\ \A day \in DaysOf(r) : day[2] = edit
                           /\ r \in Ids' /\ edit = stored'[r].edit =>
                                 {day[3] : day \in DaysOf(r)} = DOMAIN stored'[r].plan
    BY DEF DaysFit, DaysOf
  <2>2. PICK edit \in 0 .. stored[r].edit :
              /\ \A day \in DaysOf(r) : day[2] = edit
              /\ r \in Ids /\ edit = stored[r].edit =>
                    {day[3] : day \in DaysOf(r)} = DOMAIN stored[r].plan
    BY <2>1 DEF ReadInv, DaysFit
  <2>3. stored[r].edit \in Nat /\ stored'[r].edit \in Nat /\ stored[r].edit <= stored'[r].edit
    BY DEF ReadInv, RowsKnown
  <2>4. edit \in 0 .. stored'[r].edit
    BY <2>3
  <2>5. edit = stored'[r].edit => edit = stored[r].edit
    BY <2>3
  <2> QED
    BY <2>2, <2>4, <2>5
<1>3. StopsFit'
  <2>1. SUFFICES ASSUME routeReader.pc \in {"stops", "shown"}, NEW r \in OnPage,
                        ~ \A day \in DaysShown(r) : routeReader.stops[day] = {}
                 PROVE  \E plan \in past'[r], kept \in SUBSET Stops :
                           /\ atlas' \subseteq kept
                           /\ {day[3] : day \in DaysShown(r)} = DOMAIN plan
                           /\ \A day \in DaysShown(r) :
                                 routeReader.stops[day] = Spared(plan, kept)[day[3]]
    <3>1. OnPage' = OnPage /\ \A r : DaysShown(r)' = DaysShown(r) /\ routeReader' = routeReader
      BY DEF OnPage, DaysShown
    <3> QED
      BY <3>1 DEF StopsFit
  <2>2. r \in Routes
    BY DEF ReadInv, ReaderKnown
  <2> QED
    BY <2>1, <2>2 DEF ReadInv, StopsFit
<1> QED
  BY <1>1, <1>2, <1>3 DEF ReadInv

LEMMA RouteStored ==
    ASSUME ReadInv, NEW r \in Routes, NEW draft \in Drafts, StoreRoute(r, draft)
    PROVE  ReadInv'
<1> DEFINE new == Row(stored[r].edit + 1, draft, draft.plan)
<1>1. /\ new.there /\ new.edit = stored[r].edit + 1 /\ new.plan = draft.plan
      /\ new.there = TRUE
  BY DEF Row
<1>2. /\ stored' = [stored EXCEPT ![r] = new]
      /\ past' = [past EXCEPT ![r] = past[r] \cup {draft.plan}]
      /\ UNCHANGED <<routeReader, atlas>> /\ Visits(draft.plan) \subseteq atlas
  BY DEF StoreRoute, Change
<1> HIDE DEF new
<1>3. /\ \A q \in Routes : stored'[q] = (IF q = r THEN new ELSE stored[q])
      /\ \A q \in Routes : past'[q] = (IF q = r THEN past[r] \cup {draft.plan} ELSE past[q])
      /\ stored' = [q \in Routes |-> stored'[q]] /\ past' = [q \in Routes |-> past'[q]]
      /\ DOMAIN stored' = Routes /\ DOMAIN stored = Routes
  BY <1>2 DEF ReadInv, RowsKnown
<1>4. RowsKnown'
  <2>1. \A q \in Routes : stored[q].edit \in Nat /\ stored[q].there \in BOOLEAN
    BY DEF ReadInv, RowsKnown
  <2>3. \A q \in Routes : stored'[q].edit \in Nat
    BY <1>1, <1>3, <2>1
  <2>4. \A q \in Routes : stored'[q].there \in BOOLEAN
    BY <1>1, <1>3, <2>1, Zenon
  <2>2. atlas' \subseteq Stops
    BY <1>2 DEF ReadInv, RowsKnown
  <2> QED
    BY <1>3, <2>2, <2>3, <2>4 DEF RowsKnown
<1>5. PlansKept'
  <2>1. SUFFICES ASSUME NEW q \in Ids'
                 PROVE  \E plan \in past'[q] : stored'[q].plan = Spared(plan, atlas)
    BY <1>2 DEF PlansKept
  <2>2. q \in Routes
    BY <1>3 DEF Ids
  <2>3. CASE q = r
    BY <1>1, <1>2, <1>3, <2>3, SparedWhole
  <2>4. CASE q # r
    BY <1>3, <2>2, <2>4 DEF ReadInv, PlansKept, Ids
  <2> QED
    BY <2>3, <2>4
<1>6. /\ \A q \in Routes : past[q] \subseteq past'[q]
      /\ \A q \in Routes :
              /\ stored[q].edit <= stored'[q].edit
              /\ q \in Ids' /\ stored'[q].edit = stored[q].edit =>
                    q \in Ids /\ DOMAIN stored'[q].plan = DOMAIN stored[q].plan
  BY <1>1, <1>3 DEF ReadInv, RowsKnown, Ids
<1> QED
  BY <1>2, <1>4, <1>5, <1>6, WritesKeep

LEMMA RouteRenamed ==
    ASSUME ReadInv, NEW r \in Routes, NEW draft \in Drafts, RenameRoute(r, draft)
    PROVE  ReadInv'
<1> DEFINE new == Row(stored[r].edit, draft, stored[r].plan)
<1>1. new.there = TRUE /\ new.edit = stored[r].edit /\ new.plan = stored[r].plan
  BY DEF Row
<1>2. /\ stored' = [stored EXCEPT ![r] = new] /\ r \in Ids
      /\ UNCHANGED <<routeReader, atlas, past>>
  BY DEF RenameRoute, Change
<1> HIDE DEF new
<1>3. /\ \A q \in Routes : stored'[q] = (IF q = r THEN new ELSE stored[q])
      /\ stored' = [q \in Routes |-> stored'[q]]
      /\ DOMAIN stored' = Routes /\ DOMAIN stored = Routes
  BY <1>2 DEF ReadInv, RowsKnown
<1>4. /\ Ids' = Ids
      /\ \A q \in Routes : stored'[q].plan = stored[q].plan /\ stored'[q].edit = stored[q].edit
  BY <1>1, <1>2, <1>3 DEF Ids
<1>5. RowsKnown'
  BY <1>1, <1>2, <1>3 DEF ReadInv, RowsKnown
<1>6. PlansKept'
  BY <1>2, <1>3, <1>4 DEF ReadInv, PlansKept, Ids
<1>7. \A q \in Routes : stored[q].edit <= stored'[q].edit
  BY <1>4 DEF ReadInv, RowsKnown
<1> QED
  BY <1>2, <1>4, <1>5, <1>6, <1>7, WritesKeep

LEMMA RouteRemoved ==
    ASSUME ReadInv, NEW r \in Routes, RemoveRoute(r)
    PROVE  ReadInv'
<1> DEFINE new == [there |-> FALSE, edit |-> stored[r].edit + 1]
<1>1. new.there = FALSE /\ new.edit = stored[r].edit + 1
  OBVIOUS
<1>2. stored' = [stored EXCEPT ![r] = new] /\ UNCHANGED <<routeReader, atlas, past>>
  BY DEF RemoveRoute, Change
<1> HIDE DEF new
<1>3. /\ \A q \in Routes : stored'[q] = (IF q = r THEN new ELSE stored[q])
      /\ stored' = [q \in Routes |-> stored'[q]]
      /\ DOMAIN stored' = Routes /\ DOMAIN stored = Routes
  BY <1>2 DEF ReadInv, RowsKnown
<1>4. RowsKnown'
  <2>1. \A q \in Routes : stored[q].edit \in Nat /\ stored[q].there \in BOOLEAN
    BY DEF ReadInv, RowsKnown
  <2>3. \A q \in Routes : stored'[q].edit \in Nat
    BY <1>1, <1>3, <2>1
  <2>4. \A q \in Routes : stored'[q].there \in BOOLEAN
    BY <1>1, <1>3, <2>1, Zenon
  <2>2. past' = [q \in Routes |-> past'[q]] /\ atlas' \subseteq Stops
    BY <1>2 DEF ReadInv, RowsKnown
  <2> QED
    BY <1>3, <2>2, <2>3, <2>4 DEF RowsKnown
<1>5. Ids' = Ids \ {r}
  BY <1>1, <1>3 DEF Ids
<1>6. PlansKept'
  BY <1>2, <1>3, <1>5 DEF ReadInv, PlansKept, Ids
<1>7. \A q \in Routes : stored[q].edit <= stored'[q].edit
  BY <1>1, <1>3 DEF ReadInv, RowsKnown
<1> QED
  BY <1>2, <1>3, <1>4, <1>5, <1>6, <1>7, WritesKeep DEF Ids

LEMMA RoutePlaceRemoved ==
    ASSUME ReadInv, NEW p \in Stops, RemovePlace(p)
    PROVE  ReadInv'
<1>1. atlas' = atlas \ {p} /\ UNCHANGED <<routeReader, past>>
  BY DEF RemovePlace, Change
<1>2. DOMAIN stored = Routes
  BY DEF ReadInv, RowsKnown
<1>3. stored' = [r \in Routes |-> IF stored[r].there
                                  THEN Row(stored[r].edit, stored[r],
                                           Spared(stored[r].plan, atlas'))
                                  ELSE stored[r]]
  BY <1>2 DEF RemovePlace
<1>4. \A r \in Routes :
         /\ stored'[r].there = stored[r].there /\ stored'[r].edit = stored[r].edit
         /\ stored[r].there => stored'[r].plan = Spared(stored[r].plan, atlas')
  BY <1>3 DEF ReadInv, RowsKnown, Row
<1>5. Ids' = Ids /\ Ids \subseteq Routes
  BY <1>2, <1>3, <1>4 DEF Ids
<1>6. RowsKnown'
  BY <1>1, <1>3, <1>4 DEF ReadInv, RowsKnown
<1>7. PlansKept'
  <2>1. SUFFICES ASSUME NEW r \in Ids
                 PROVE  \E plan \in past[r] : stored'[r].plan = Spared(plan, atlas')
    BY <1>1, <1>5 DEF PlansKept
  <2>2. PICK plan \in past[r] : stored[r].plan = Spared(plan, atlas)
    BY DEF ReadInv, PlansKept
  <2>3. stored'[r].plan = Spared(Spared(plan, atlas), atlas')
    BY <1>4, <1>5, <2>2 DEF Ids
  <2> QED
    BY <1>1, <2>3, SparedTwice
<1>8. \A r \in Routes : stored[r].there => DOMAIN stored'[r].plan = DOMAIN stored[r].plan
  BY <1>4 DEF Spared
<1>9. \A r \in Routes : stored[r].edit <= stored'[r].edit
  BY <1>4 DEF ReadInv, RowsKnown
<1> QED
  BY <1>1, <1>4, <1>5, <1>6, <1>7, <1>8, <1>9, WritesKeep DEF Ids

Looks == UNCHANGED <<stored, atlas, writes, past>>

\* A step of the reader keeps what is known of the rows.
LEMMA LooksKeep ==
    ASSUME ReadInv, Looks, ReaderKnown', DaysFit', StopsFit', PlaceCountExact'
    PROVE  ReadInv'
<1>1. RowsKnown'
  BY DEF ReadInv, RowsKnown, Looks
<1>2. Ids' = Ids
  BY DEF Ids, Looks
<1>3. PlansKept'
  BY <1>2 DEF ReadInv, PlansKept, Looks
<1> QED
  BY <1>1, <1>3 DEF ReadInv

\* The stops in the rows of a join, each once, are the route's stops.
LEMMA CountExact ==
    ASSUME NEW r, NEW wish, NEW typos, KeptRows(stored[r], wish, typos) # {}
    PROVE  PlaceCount(r, wish, typos) = Cardinality(StopRows(r))
<1> DEFINE kept == KeptRows(stored[r], wish, typos)
<1> DEFINE rows == StopRows(r)
<1> HIDE DEF kept, rows
<1>1. kept # {}
  BY DEF kept
<1>2. {line[1] : line \in rows \X kept} = rows
  <2>1. \A line \in rows \X kept : line[1] \in rows
    OBVIOUS
  <2>2. ASSUME NEW row \in rows PROVE \E line \in rows \X kept : line[1] = row
    <3>1. PICK name \in kept : TRUE
      BY <1>1
    <3>2. <<row, name>> \in rows \X kept /\ <<row, name>>[1] = row
      BY <3>1
    <3> QED
      BY <3>2
  <2> QED
    BY <2>1, <2>2
<1>3. Cardinality({line[1] : line \in rows \X kept}) = Cardinality(rows)
  BY <1>2
<1> QED
  BY <1>3 DEF PlaceCount, kept, rows

\* A reader who has no cards, or who has read no days yet.
LEMMA NothingRead ==
    ASSUME ReadInv, Looks, ReaderKnown', PlaceCountExact',
           routeReader'.pc \notin {"days", "stops", "shown"}
    PROVE  ReadInv'
<1>1. DaysFit' /\ StopsFit'
  BY DEF DaysFit, StopsFit
<1> QED
  BY <1>1, LooksKeep

LEMMA ListAsked ==
    ASSUME ReadInv, NEW wish, AskRoutes(wish)
    PROVE  ReadInv'
<1> DEFINE typos == NoWord(wish)
<1> HIDE DEF typos
<1>1. routeReader' = [Nobody EXCEPT !.pc = "asked", !.ask = wish, !.typos = typos] /\ Looks
  BY DEF AskRoutes, Looks, typos
<1>2. ReaderKnown' /\ PlaceCountExact' /\ routeReader'.pc = "asked"
  BY <1>1 DEF Nobody, ReaderKnown, OnPage, PlaceCountExact
<1> QED
  BY <1>1, <1>2, NothingRead

LEMMA RoutesCounted ==
    ASSUME ReadInv, CountRoutes
    PROVE  ReadInv'
<1>1. PICK pc, more : /\ routeReader' = [routeReader EXCEPT !.pc = pc, !.more = more]
                      /\ pc \in {"ended", "counted"} /\ Looks
  BY DEF CountRoutes, Looks
<1>2. routeReader'.pc = pc /\ routeReader'.cards = routeReader.cards
  BY <1>1 DEF ReadInv, ReaderKnown
<1>3. ReaderKnown'
  BY <1>1, <1>2 DEF ReadInv, ReaderKnown, OnPage
<1>4. PlaceCountExact'
  BY <1>2 DEF ReadInv, PlaceCountExact
<1> QED
  BY <1>1, <1>2, <1>3, <1>4, NothingRead

LEMMA RoutesRead ==
    ASSUME ReadInv, ReadRoutes
    PROVE  ReadInv'
<1> DEFINE found == Filtered(routeReader.ask, routeReader.typos)
<1> DEFINE ids == Slice(found, routeReader.page)
<1> DEFINE cards == {Card(r) : r \in ids}
<1>1. ids \subseteq found
  BY DEF Slice
<1>2. \A r \in found : r \in Routes /\ KeptRows(stored[r], routeReader.ask, routeReader.typos) # {}
  BY DEF Filtered, Matches, Ids, ReadInv, RowsKnown
<1>3. \A r \in ids : Card(r).id = r /\ Card(r).count = Card(r).had
  BY <1>1, <1>2, CountExact DEF Card
<1>4. \A card \in cards : card.id \in Routes /\ card.count = card.had
  BY <1>1, <1>2, <1>3
<1>5. routeReader' = [routeReader EXCEPT !.pc = "rows", !.cards = cards] /\ Looks
  BY DEF ReadRoutes, Looks
<1> HIDE DEF cards
<1>6. routeReader'.pc = "rows" /\ routeReader'.cards = cards
  BY <1>5 DEF ReadInv, ReaderKnown
<1>7. ReaderKnown'
  BY <1>4, <1>5, <1>6 DEF ReadInv, ReaderKnown, OnPage
<1>8. PlaceCountExact'
  BY <1>4, <1>6 DEF PlaceCountExact
<1> QED
  BY <1>5, <1>6, <1>7, <1>8, NothingRead

LEMMA RouteAsked ==
    ASSUME ReadInv, NEW r \in Routes, AskRoute(r)
    PROVE  ReadInv'
<1> DEFINE card == [id |-> r, count |-> PlaceCount(r, Nobody.ask, FALSE),
                    had |-> Cardinality(StopRows(r))]
<1>1. KeptRows(stored[r], Nobody.ask, FALSE) # {}
  BY DEF KeptRows, Nobody
<1>2. card.id = r /\ card.count = card.had
  BY <1>1, CountExact
<1>3. routeReader' = [Nobody EXCEPT !.pc = "rows", !.cards = {card}] /\ Looks
  BY DEF AskRoute, Looks
<1> HIDE DEF card
<1>4. routeReader'.pc = "rows" /\ routeReader'.cards = {card}
  BY <1>3 DEF Nobody
<1>5. ReaderKnown'
  BY <1>2, <1>3, <1>4 DEF ReaderKnown, OnPage, Nobody
<1>6. PlaceCountExact'
  BY <1>2, <1>4 DEF PlaceCountExact
<1> QED
  BY <1>3, <1>4, <1>5, <1>6, NothingRead

LEMMA DaysRead ==
    ASSUME ReadInv, ReadDays
    PROVE  ReadInv'
<1> DEFINE days == UNION {DayRows(r) : r \in OnPage \cap Ids}
<1>1. routeReader' = [routeReader EXCEPT !.pc = "days", !.days = days] /\ Looks
  BY DEF ReadDays, Looks
<1>2. \A day \in days : \E r \in Ids : day \in DayRows(r)
  OBVIOUS
<1>3. \A r \in Ids : \A day \in DayRows(r) :
         day[1] = r /\ day[2] = stored[r].edit /\ day[3] \in DOMAIN stored[r].plan
  BY DEF DayRows
<1>4. \A r \in OnPage \cap Ids : \A d \in DOMAIN stored[r].plan : <<r, stored[r].edit, d>> \in days
  BY DEF DayRows
<1> HIDE DEF days
<1>5. /\ routeReader'.pc = "days" /\ routeReader'.days = days
      /\ routeReader'.cards = routeReader.cards
  BY <1>1 DEF ReadInv, ReaderKnown
<1>6. ReaderKnown'
  BY <1>1, <1>5 DEF ReadInv, ReaderKnown, OnPage
<1>7. PlaceCountExact'
  BY <1>5 DEF ReadInv, PlaceCountExact
<1>8. StopsFit'
  BY <1>5 DEF StopsFit
<1>9. DaysFit'
  <2> DEFINE of(r) == {day \in days : day[1] = r}
  <2>1. SUFFICES ASSUME NEW r \in Routes, of(r) # {}
                 PROVE  \E edit \in 0 .. stored[r].edit :
                           /\ \A day \in of(r) : day[2] = edit
                           /\ r \in Ids /\ edit = stored[r].edit =>
                                 {day[3] : day \in of(r)} = DOMAIN stored[r].plan
    <3>1. stored' = stored /\ Ids' = Ids /\ \A r : DaysOf(r)' = of(r)
      BY <1>1, <1>5 DEF Looks, Ids, DaysOf
    <3> QED
      BY <1>5, <3>1 DEF DaysFit
  <2>2. \A day \in of(r) : day[1] = r /\ day \in days
    OBVIOUS
  <2>3. r \in OnPage \cap Ids
    BY <1>2, <1>3, <2>1, <2>2 DEF days
  <2>4. \A day \in of(r) : day[2] = stored[r].edit /\ day[3] \in DOMAIN stored[r].plan
    BY <1>2, <1>3, <2>2
  <2>5. \A d \in DOMAIN stored[r].plan :
           <<r, stored[r].edit, d>> \in of(r) /\ <<r, stored[r].edit, d>>[3] = d
    BY <1>4, <2>3
  <2>6. {day[3] : day \in of(r)} = DOMAIN stored[r].plan
    BY <2>4, <2>5
  <2>7. stored[r].edit \in 0 .. stored[r].edit
    BY DEF ReadInv, RowsKnown
  <2> HIDE DEF of
  <2> QED
    BY <2>4, <2>6, <2>7
<1> QED
  BY <1>1, <1>6, <1>7, <1>8, <1>9, LooksKeep

LEMMA StopsRead ==
    ASSUME ReadInv, ReadStops
    PROVE  ReadInv'
<1> DEFINE stops == [day \in routeReader.days |-> StopsOf(day)]
<1>1. /\ routeReader' = [routeReader EXCEPT !.pc = "stops", !.stops = stops] /\ Looks
      /\ routeReader.pc = "days"
  BY DEF ReadStops, Looks
<1>2. DOMAIN stops = routeReader.days /\ \A day \in routeReader.days : stops[day] = StopsOf(day)
  OBVIOUS
<1> HIDE DEF stops
<1>3. /\ routeReader'.pc = "stops" /\ routeReader'.stops = stops
      /\ routeReader'.cards = routeReader.cards
  BY <1>1 DEF ReadInv, ReaderKnown
<1>4. ReaderKnown'
  BY <1>1, <1>3 DEF ReadInv, ReaderKnown, OnPage
<1>5. PlaceCountExact'
  BY <1>3 DEF ReadInv, PlaceCountExact
<1>6. DaysFit'
  BY <1>3 DEF DaysFit
<1>7. StopsFit'
  <2>1. \A r : DaysShown(r)' = DaysOf(r)
    BY <1>2, <1>3 DEF DaysShown, DaysOf
  <2>2. OnPage' = OnPage /\ past' = past /\ atlas' = atlas
    BY <1>1, <1>3 DEF OnPage, Looks
  <2>3. SUFFICES ASSUME NEW r \in OnPage, ~ \A day \in DaysOf(r) : stops[day] = {}
                 PROVE  \E plan \in past[r], kept \in SUBSET Stops :
                           /\ atlas \subseteq kept
                           /\ {day[3] : day \in DaysOf(r)} = DOMAIN plan
                           /\ \A day \in DaysOf(r) : stops[day] = Spared(plan, kept)[day[3]]
    BY <1>3, <2>1, <2>2 DEF StopsFit
  <2>4. r \in Routes
    BY DEF ReadInv, ReaderKnown
  <2>5. \A day \in DaysOf(r) : day[1] = r /\ stops[day] = StopsOf(day)
    BY <1>2 DEF DaysOf
  <2>6. PICK first \in DaysOf(r) : StopsOf(first) # {}
    BY <2>3, <2>5
  <2>7. r \in Ids /\ first[2] = stored[r].edit
    BY <2>5, <2>6 DEF StopsOf
  <2>8. /\ \A day \in DaysOf(r) : day[2] = stored[r].edit
        /\ {day[3] : day \in DaysOf(r)} = DOMAIN stored[r].plan
    BY <1>1, <2>4, <2>6, <2>7 DEF ReadInv, DaysFit
  <2>9. \A day \in DaysOf(r) : stops[day] = stored[r].plan[day[3]]
    BY <2>5, <2>7, <2>8 DEF StopsOf
  <2>10. PICK plan \in past[r] : stored[r].plan = Spared(plan, atlas)
    BY <2>7 DEF ReadInv, PlansKept
  <2>11. DOMAIN Spared(plan, atlas) = DOMAIN plan
    BY DEF Spared
  <2>12. atlas \in SUBSET Stops
    BY DEF ReadInv, RowsKnown
  <2> QED
    BY <2>8, <2>9, <2>10, <2>11, <2>12
<1> QED
  BY <1>1, <1>4, <1>5, <1>6, <1>7, LooksKeep

LEMMA ImagesRead ==
    ASSUME ReadInv, ReadImages
    PROVE  ReadInv'
<1>1. /\ routeReader' = [routeReader EXCEPT !.pc = "shown", !.images = atlas] /\ Looks
      /\ routeReader.pc = "stops"
  BY DEF ReadImages, Looks
<1>2. /\ routeReader'.pc = "shown" /\ routeReader'.stops = routeReader.stops
      /\ routeReader'.cards = routeReader.cards
  BY <1>1 DEF ReadInv, ReaderKnown
<1>3. ReaderKnown'
  BY <1>1, <1>2 DEF ReadInv, ReaderKnown, OnPage
<1>4. PlaceCountExact'
  BY <1>2 DEF ReadInv, PlaceCountExact
<1>5. DaysFit'
  BY <1>2 DEF DaysFit
<1>6. OnPage' = OnPage /\ past' = past /\ atlas' = atlas /\ \A r : DaysShown(r)' = DaysShown(r)
  BY <1>1, <1>2 DEF OnPage, Looks, DaysShown
<1> DEFINE stops == routeReader.stops
<1>7. StopsFit'
  <2>1. \A r \in OnPage :
           \/ \A day \in DaysShown(r) : stops[day] = {}
           \/ \E plan \in past[r], kept \in SUBSET Stops :
                 /\ atlas \subseteq kept
                 /\ {day[3] : day \in DaysShown(r)} = DOMAIN plan
                 /\ \A day \in DaysShown(r) : stops[day] = Spared(plan, kept)[day[3]]
    BY <1>1 DEF ReadInv, StopsFit
  <2>2. routeReader'.stops = stops
    BY <1>2
  <2> HIDE DEF stops
  <2> QED
    BY <1>6, <2>1, <2>2 DEF StopsFit
<1> QED
  BY <1>1, <1>3, <1>4, <1>5, <1>7, LooksKeep

LEMMA PageTurned ==
    ASSUME ReadInv, NextPage
    PROVE  ReadInv'
<1> DEFINE typos == NoWord(routeReader.ask)
<1> HIDE DEF typos
<1>1. /\ routeReader' = [routeReader EXCEPT !.pc = "asked", !.page = routeReader.page + 1,
             !.cards = {}, !.days = {}, !.stops = <<>>, !.images = {}, !.typos = typos]
      /\ Looks
  BY DEF NextPage, Looks, typos
<1>2. routeReader'.pc = "asked" /\ routeReader'.cards = {}
  BY <1>1 DEF ReadInv, ReaderKnown
<1>3. ReaderKnown'
  BY <1>1, <1>2 DEF ReadInv, ReaderKnown, OnPage
<1>4. PlaceCountExact'
  BY <1>2 DEF PlaceCountExact
<1> QED
  BY <1>1, <1>2, <1>3, <1>4, NothingRead

LEMMA ListLeft ==
    ASSUME ReadInv, LeaveList
    PROVE  ReadInv'
<1>1. routeReader' = Nobody /\ Looks
  BY DEF LeaveList, Looks
<1>2. ReaderKnown' /\ PlaceCountExact' /\ routeReader'.pc = "idle"
  BY <1>1 DEF Nobody, ReaderKnown, OnPage, PlaceCountExact
<1> QED
  BY <1>1, <1>2, NothingRead

LEMMA ReadInvStutters ==
    ASSUME ReadInv, UNCHANGED readVars
    PROVE  ReadInv'
<1>1. UNCHANGED <<stored, atlas, routeReader, past>> /\ Ids' = Ids
  BY DEF readVars, Ids
<1>2. RowsKnown' /\ PlansKept'
  BY <1>1 DEF ReadInv, RowsKnown, PlansKept
<1>3. \A r \in Routes : stored[r].edit <= stored'[r].edit
  BY <1>1 DEF ReadInv, RowsKnown
<1> QED
  BY <1>1, <1>2, <1>3, WritesKeep

LEMMA ReadInvKept == ReadInv /\ [ReadNext]_readVars => ReadInv'
<1> SUFFICES ASSUME ReadInv, [ReadNext]_readVars PROVE ReadInv'
  OBVIOUS
<1>1. CASE \E r \in Routes, draft \in Drafts : StoreRoute(r, draft) \/ RenameRoute(r, draft)
  BY <1>1, RouteStored, RouteRenamed
<1>2. CASE \E r \in Routes : RemoveRoute(r) \/ AskRoute(r)
  BY <1>2, RouteRemoved, RouteAsked
<1>3. CASE \E p \in Stops : RemovePlace(p)
  BY <1>3, RoutePlaceRemoved
<1>4. CASE \E wish \in RouteAsks : AskRoutes(wish)
  BY <1>4, ListAsked
<1>5. CASE CountRoutes \/ ReadRoutes \/ ReadDays \/ ReadStops \/ ReadImages \/ NextPage \/ LeaveList
  BY <1>5, RoutesCounted, RoutesRead, DaysRead, StopsRead, ImagesRead, PageTurned, ListLeft
<1>6. CASE UNCHANGED readVars
  BY <1>6, ReadInvStutters
<1> QED
  BY <1>1, <1>2, <1>3, <1>4, <1>5, <1>6 DEF ReadNext, Routes

\* The picture on a card is that of a first stop of the first day shown.
LEMMA VersionsFit == ReadInv => OneVersion
<1> SUFFICES ASSUME ReadInv, routeReader.pc = "shown", NEW r \in OnPage,
                    ~ \A day \in DaysShown(r) : routeReader.stops[day] = {}
             PROVE  \E plan \in past[r], kept \in SUBSET Stops :
                       /\ atlas \subseteq kept
                       /\ {day[3] : day \in DaysShown(r)} = DOMAIN plan
                       /\ \A day \in DaysShown(r) :
                             routeReader.stops[day] = Spared(plan, kept)[day[3]]
                       /\ \A p \in Picture(r) : \E d \in DOMAIN plan :
                             /\ \A e \in DOMAIN plan : d <= e
                             /\ p \in First(Spared(plan, kept)[d])
  BY DEF OneVersion
<1>1. PICK plan \in past[r], kept \in SUBSET Stops :
         /\ atlas \subseteq kept
         /\ {day[3] : day \in DaysShown(r)} = DOMAIN plan
         /\ \A day \in DaysShown(r) : routeReader.stops[day] = Spared(plan, kept)[day[3]]
  BY DEF ReadInv, StopsFit
<1>2. ASSUME NEW p \in Picture(r)
      PROVE  \E d \in DOMAIN plan : /\ \A e \in DOMAIN plan : d <= e
                                    /\ p \in First(Spared(plan, kept)[d])
  <2>1. PICK day \in DaysShown(r) : /\ \A other \in DaysShown(r) : day[3] <= other[3]
                                    /\ p \in First(routeReader.stops[day])
    BY <1>2 DEF Picture
  <2>2. day[3] \in DOMAIN plan /\ \A e \in DOMAIN plan : day[3] <= e
    BY <1>1, <2>1
  <2>3. p \in First(Spared(plan, kept)[day[3]])
    BY <1>1, <2>1
  <2> QED
    BY <2>2, <2>3
<1> QED
  BY <1>1, <1>2

\* What a page shows of a route was true of it at one time: its days are those of one version
\* of the route, and the number on its card is that of the stops it had then, whatever is
\* changed between the queries of the page (route_service, RouteDetailSerializer).
THEOREM PagesAlwaysTrue == ReadSpec => []PageTrue
<1>1. ReadInv => PageTrue
  BY VersionsFit DEF ReadInv, PageTrue
<1> QED
  BY <1>1, ReadInvInit, ReadInvKept, PTL DEF ReadSpec

--------------------------------------------------------------------------------
(* The parts together *)

(***************************************************************************)
(* MCCommunity runs one module at a time and keeps the variables of the    *)
(* others as they are, so that each module sees its own behaviour with     *)
(* pauses in it.                                                           *)
(***************************************************************************)

\* Whichever module runs, the others stand still: every behaviour of the composition is one
\* of each module, so whatever is proved of a module holds of the composition.
THEOREM CommunityParts ==
    MCSpec => Spec /\ FollowSpec /\ SearchSpec /\ QuizShareSpec /\ SeedSpec /\ ReadSpec /\ OwnSpec
<1>1. MCInit => /\ Init /\ FollowInit /\ SearchInit /\ QuizInit /\ ShareInit
                /\ SeedInit /\ ReadInit /\ OwnInit
  BY DEF MCInit
<1>2. [MCNext]_allVars => [Next]_vars
  BY DEF MCNext, Steps, allVars
<1>3. [MCNext]_allVars => [FollowNext]_followVars
  BY DEF MCNext, Steps, allVars
<1>4. [MCNext]_allVars => [SearchNext]_searchVars
  BY DEF MCNext, Steps, allVars
<1>5. [MCNext]_allVars => [QuizShareNext]_<<quizVars, shareVars>>
  BY DEF MCNext, Steps, allVars, QuizShareNext
<1>6. [MCNext]_allVars => [SeedNext]_seedVars
  BY DEF MCNext, Steps, allVars
<1>7. [MCNext]_allVars => [ReadNext]_readVars
  BY DEF MCNext, Steps, allVars
<1>8. [MCNext]_allVars => [OwnNext]_ownVars
  BY DEF MCNext, Steps, allVars
<1> QED
  BY <1>1, <1>2, <1>3, <1>4, <1>5, <1>6, <1>7, <1>8, PTL
  DEF MCSpec, Spec, FollowSpec, SearchSpec, QuizShareSpec, QuizShareNext, SeedSpec, ReadSpec,
      OwnSpec

\* Whichever module runs, every variable keeps its type: in particular every pair of members
\* follows once, and a demo user that is deleted takes its rows along.
THEOREM CommunityTypesKept == MCSpec => []CommunityTypes
<1>1. TypeOK /\ FollowTypeOK /\ SeedTypeOK /\ QuizTypeOK => CommunityTypes
  BY DEF CommunityTypes
<1> QED
  BY <1>1, CommunityParts, TypeCorrect, FollowTypesKept, SeedTypesKept, QuizTypesKept, PTL
================================================================================
