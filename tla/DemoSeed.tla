------------------------------ MODULE DemoSeed ------------------------------
(***************************************************************************)
(* The command that fills a database with demo users and their rows        *)
(* (src/apps/place/management/commands/seed_demo_data.py).  Only the       *)
(* counting of ratings runs in a transaction: every other statement        *)
(* commits by itself, so a run that dies leaves the rows written so far,   *)
(* and the next run starts from there.  Real users go on reviewing.        *)
(***************************************************************************)
EXTENDS Naturals, FiniteSets

CONSTANTS DemoUsers,      \* the users with an address @demo.local that a run asks for
          RealUsers,      \* everybody else
          SeedPlaces,     \* the active places
          Draws,          \* what the random choice of places for the users may give
          FollowDraws,    \* what the random choice of users to follow may give
          MaxRuns,        \* bound: runs of the command
          MaxCrashes      \* bound: runs that die

ASSUME SeedAssumption ==
    /\ IsFiniteSet(DemoUsers) /\ IsFiniteSet(RealUsers) /\ DemoUsers \cap RealUsers = {}
    /\ \A d \in Draws : \A u \in DemoUsers : d[u] \in (SUBSET SeedPlaces) \ {{}}
    /\ \A f \in FollowDraws : f \subseteq {e \in DemoUsers \X DemoUsers : e[1] # e[2]}
    /\ MaxRuns \in Nat /\ MaxCrashes \in Nat

VARIABLES demo,        \* the rows of the demo users
          written,     \* the reviews: <<user, place>>
          shown,       \* rating_count of each place
          tours,       \* the route that a run made for a demo user, for each run
          job,         \* the run in progress
          runs, crashes,
          lost         \* places whose rating a dead run left uncounted (history)

seedVars == <<demo, written, shown, tours, job, runs, crashes, lost>>

NoRows == [people |-> {}, tagged |-> {}, socials |-> {}, results |-> {},
           follows |-> {}, marks |-> {}]

NoTour == [there |-> FALSE, stops |-> {}, likes |-> {}, counted |-> 0]
NoTours == [n \in 1..MaxRuns |-> NoTour]

SeedInit ==
    /\ demo = NoRows /\ written = {} /\ shown = [p \in SeedPlaces |-> 0]
    /\ tours = NoTours
    /\ job = [pc |-> "idle", mode |-> "seed", touched |-> {}, fresh |-> {}]
    /\ runs = 0 /\ crashes = 0 /\ lost = {}

SeedAt(pc) == job.pc = pc
Goto(pc) == job' = [job EXCEPT !.pc = pc]

CountOf(p) == Cardinality({w \in written : w[2] = p})
\* update_place_rating of every place the run has touched, in one transaction.
Recount ==
    /\ shown' = [p \in SeedPlaces |-> IF p \in job.touched THEN CountOf(p) ELSE shown[p]]
    /\ lost' = lost \ job.touched

\* What a draw of places gives the demo users there are.
Drawn(d) == {w \in DemoUsers \X SeedPlaces : w[1] \in demo.people /\ w[2] \in d[w[1]]}
-----------------------------------------------------------------------------
\* The command starts: plain, with --clear or with --delete.
BeginRun(mode) ==
    /\ job.pc \in {"idle", "done"} /\ runs < MaxRuns
    /\ runs' = runs + 1
    /\ job' = [pc |-> IF mode = "seed" THEN "types" ELSE "clear_tours",
               mode |-> mode, touched |-> {}, fresh |-> {}]
    /\ UNCHANGED <<demo, written, shown, tours, crashes, lost>>

\* The same as it would be if the places were looked up only when they are counted.
ClearToursFirst ==
    /\ SeedAt("clear_tours")
    /\ tours' = NoTours
    /\ Goto("clear_users")
    /\ UNCHANGED <<demo, written, shown, runs, crashes, lost>>

\* The places to count again are read before anything is deleted.
ClearTours ==
    /\ SeedAt("clear_tours")
    /\ tours' = NoTours
    /\ job' = [job EXCEPT !.pc = "clear_users",
                          !.touched = {p \in SeedPlaces : \E u \in DemoUsers : <<u, p>> \in written}]
    /\ UNCHANGED <<demo, written, shown, runs, crashes, lost>>

\* Deleting the users takes all their rows along.
ClearUsers ==
    /\ SeedAt("clear_users")
    /\ demo' = NoRows
    /\ written' = {w \in written : w[1] \notin DemoUsers}
    /\ Goto("clear_count")
    /\ UNCHANGED <<shown, tours, runs, crashes, lost>>

ClearCount ==
    /\ SeedAt("clear_count")
    /\ Recount
    /\ job' = [job EXCEPT !.pc = IF job.mode = "delete" THEN "done" ELSE "types", !.touched = {}]
    /\ UNCHANGED <<demo, written, tours, runs, crashes>>

\* The travel types are loaded; without an active place the run gives up.
LoadTypes ==
    /\ SeedAt("types")
    /\ Goto(IF SeedPlaces = {} THEN "idle" ELSE "users")
    /\ UNCHANGED <<demo, written, shown, tours, runs, crashes, lost>>

\* A user who is there already is taken over as it is.
CreateUser(u) ==
    /\ SeedAt("users") /\ job.fresh = {} /\ u \notin demo.people
    /\ demo' = [demo EXCEPT !.people = @ \cup {u}]
    /\ job' = [job EXCEPT !.fresh = {u}]
    /\ UNCHANGED <<written, shown, tours, runs, crashes, lost>>

\* A new user gets its tags in a statement of its own.
TagUser ==
    /\ SeedAt("users") /\ job.fresh # {}
    /\ demo' = [demo EXCEPT !.tagged = @ \cup job.fresh]
    /\ job' = [job EXCEPT !.fresh = {}]
    /\ UNCHANGED <<written, shown, tours, runs, crashes, lost>>

CreateSocial(u) ==
    /\ SeedAt("socials") /\ u \in demo.people \ demo.socials
    /\ demo' = [demo EXCEPT !.socials = @ \cup {u}]
    /\ UNCHANGED <<written, shown, tours, job, runs, crashes, lost>>

CreatePreference(u) ==
    /\ SeedAt("results") /\ u \in demo.people \ demo.results
    /\ demo' = [demo EXCEPT !.results = @ \cup {u}]
    /\ UNCHANGED <<written, shown, tours, job, runs, crashes, lost>>

\* The loop over the users is through.
EndLoop ==
    /\ \/ SeedAt("users") /\ job.fresh = {} /\ demo.people = DemoUsers /\ Goto("socials")
       \/ SeedAt("socials") /\ demo.socials = demo.people /\ Goto("results")
       \/ SeedAt("results") /\ demo.results = demo.people /\ Goto("follows")
    /\ UNCHANGED <<demo, written, shown, tours, runs, crashes, lost>>

\* One statement for all rows, those that are there already are skipped.
CreateFollows(f) ==
    /\ SeedAt("follows")
    /\ demo' = [demo EXCEPT !.follows = @ \cup f]
    /\ Goto("reviews")
    /\ UNCHANGED <<written, shown, tours, runs, crashes, lost>>

CreateReviews(d) ==
    /\ SeedAt("reviews")
    /\ written' = written \cup Drawn(d)
    /\ job' = [job EXCEPT !.pc = "ratings", !.touched = {w[2] : w \in Drawn(d)}]
    /\ UNCHANGED <<demo, shown, tours, runs, crashes, lost>>

RateReviews ==
    /\ SeedAt("ratings")
    /\ Recount
    /\ job' = [job EXCEPT !.pc = "marks", !.touched = {}]
    /\ UNCHANGED <<demo, written, tours, runs, crashes>>

CreateBookmarks(d) ==
    /\ SeedAt("marks")
    /\ demo' = [demo EXCEPT !.marks = @ \cup Drawn(d)]
    /\ Goto("route")
    /\ UNCHANGED <<written, shown, tours, runs, crashes, lost>>

\* A route is written in four statements: the row, its days with their places,
\* its likes, and the number of its likes.
CreateRoute ==
    /\ SeedAt("route")
    /\ tours' = [tours EXCEPT ![runs].there = TRUE]
    /\ Goto("stops")
    /\ UNCHANGED <<demo, written, shown, runs, crashes, lost>>

CreateStops(places) ==
    /\ SeedAt("stops")
    /\ tours' = [tours EXCEPT ![runs].stops = places]
    /\ Goto("likes")
    /\ UNCHANGED <<demo, written, shown, runs, crashes, lost>>

CreateLikes(likers) ==
    /\ SeedAt("likes") /\ likers \subseteq demo.people
    /\ tours' = [tours EXCEPT ![runs].likes = likers]
    /\ Goto("like_count")
    /\ UNCHANGED <<demo, written, shown, runs, crashes, lost>>

CountLikes ==
    /\ SeedAt("like_count")
    /\ tours' = [tours EXCEPT ![runs].counted = Cardinality(tours[runs].likes)]
    /\ Goto("done")
    /\ UNCHANGED <<demo, written, shown, runs, crashes, lost>>
-----------------------------------------------------------------------------
\* A run dies.  Nobody remembers which places it still had to count.
CrashRun ==
    /\ job.pc \notin {"idle", "done"} /\ crashes < MaxCrashes
    /\ crashes' = crashes + 1
    /\ lost' = IF job.pc \in {"clear_count", "ratings"} THEN lost \cup job.touched ELSE lost
    /\ job' = [job EXCEPT !.pc = "idle", !.touched = {}, !.fresh = {}]
    /\ UNCHANGED <<demo, written, shown, tours, runs>>

\* A real user writes or deletes a review, and its place is rated in the same
\* transaction (external: ReviewRating models it).
RealReview(u, p) ==
    /\ written' = IF <<u, p>> \in written THEN written \ {<<u, p>>} ELSE written \cup {<<u, p>>}
    /\ shown' = [shown EXCEPT ![p] = Cardinality({w \in written' : w[2] = p})]
    /\ lost' = lost \ {p}
    /\ UNCHANGED <<demo, tours, job, runs, crashes>>

SeedNext ==
    \/ \E mode \in {"seed", "clear", "delete"} : BeginRun(mode)
    \/ ClearTours \/ ClearUsers \/ ClearCount \/ LoadTypes
    \/ \E u \in DemoUsers : CreateUser(u) \/ CreateSocial(u) \/ CreatePreference(u)
    \/ TagUser \/ EndLoop
    \/ \E f \in FollowDraws : CreateFollows(f)
    \/ \E d \in Draws : CreateReviews(d) \/ CreateBookmarks(d)
    \/ RateReviews \/ CreateRoute
    \/ \E s \in (SUBSET SeedPlaces) \ {{}} : CreateStops(s)
    \/ \E l \in SUBSET DemoUsers : CreateLikes(l)
    \/ CountLikes \/ CrashRun
    \/ \E u \in RealUsers, p \in SeedPlaces : RealReview(u, p)

SeedSpec == SeedInit /\ [][SeedNext]_seedVars
-----------------------------------------------------------------------------
\* The rows of demo users belong to demo users that exist, whatever died when
\* (seed_demo_data.py:130, the deletion takes everything along).
SeedTypeOK ==
    /\ demo.people \subseteq DemoUsers
    /\ demo.tagged \cup demo.socials \cup demo.results \subseteq demo.people
    /\ \A e \in demo.follows : e[1] \in demo.people /\ e[2] \in demo.people /\ e[1] # e[2]
    /\ \A w \in demo.marks \cup written : w[1] \in demo.people \cup RealUsers /\ w[2] \in SeedPlaces
    /\ \A n \in 1..MaxRuns : tours[n].likes \subseteq demo.people

\* The rating of every place counts its reviews, but for the places that the
\* run in progress has yet to count and those that a dead run left behind
\* (seed_demo_data.py:131 and :220).
RatingsCounted ==
    \A p \in SeedPlaces \ (job.touched \cup lost) : shown[p] = Cardinality({w \in written : w[2] = p})

\* A run that ends leaves every demo user whole, with a social account, a
\* quiz result, a review and a bookmark, also the users that a dead run left
\* unfinished; only the tags of such a user stay missing.  A deletion that
\* ends leaves nothing (seed_demo_data.py:8 "can be run again and cleaned up").
RunComplete ==
    SeedAt("done") =>
        IF job.mode = "delete" THEN demo = NoRows /\ tours = NoTours
        ELSE /\ \A u \in DemoUsers :
                  /\ u \in demo.people \cap demo.socials \cap demo.results
                  /\ \E w \in written : w[1] = u
                  /\ \E w \in demo.marks : w[1] = u
                  /\ crashes = 0 => u \in demo.tagged
             /\ tours[runs].counted = Cardinality(tours[runs].likes)

\* Crashes and reruns of the command leave neither uncounted ratings nor
\* unfinished users: the two together.
SeedSound == RatingsCounted /\ RunComplete
=============================================================================
