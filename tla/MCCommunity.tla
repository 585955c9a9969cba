------------------------------ MODULE MCCommunity ------------------------------
(***************************************************************************)
(* Instances of the modules about what members and visitors do with each   *)
(* other, checked for their safety: reviews and ratings, follows, searches,*)
(* shared quiz pages, routes that are read, lists of one member, and the   *)
(* command that writes demo members.  They share no variable: the first    *)
(* state chooses the one that runs.                                        *)
(***************************************************************************)
EXTENDS ReviewRating, Follows, PlaceSearch, QuizShare, DemoSeed, RouteRead, OwnLists, TLC

VARIABLE part        \* the module that runs

allVars == <<vars, followVars, searchVars, quizVars, shareVars, seedVars, readVars, ownVars, part>>

Symmetry == Permutations(Txns) \cup Permutations(Users) \cup Permutations(Places)
-----------------------------------------------------------------------------
(* PlaceSearch: three places, each of one of five kinds. *)
Fact(name, tags, addressed, rank) ==
    [shown |-> TRUE, name |-> name, tags |-> tags, addressed |-> addressed, rank |-> rank]
MCCatalogues ==
    [1 .. 3 -> {Fact("whole", {}, FALSE, 0), Fact("stem", {"b"}, TRUE, 0),
                Fact("other", {"a", "b"}, TRUE, 1), Fact("other", {"b"}, TRUE, 0),
                Fact("alike", {"b"}, FALSE, 1)}]
MCKeywords == {NoKeyword} \cup {[stem |-> s, particle |-> q, kind |-> q] : s \in {1, 2}, q \in BOOLEAN}

(* QuizShare: a sheet whose axes lean to both sides, and its opposite. *)
MCSent == {[q \in 1 .. 12 |-> q <= 6], [q \in 1 .. 12 |-> TRUE]}

(* DemoSeed: one place each, both places each, or different places. *)
MCDraws == {[u \in DemoUsers |-> {"p"}], [u \in DemoUsers |-> {"p", "q"}],
            [u \in DemoUsers |-> IF u = 1 THEN {"p"} ELSE {"q"}]}
MCFollows == {{}, {<<1, 2>>}}

(* RouteRead: three routes to store, and four lists to ask for. *)
Numbered(visits) == {[order |-> n, place |-> visits[n]] : n \in DOMAIN visits}
Draft(title, themes, mine, plan) ==
    [title |-> title, region |-> "x", themes |-> themes, mine |-> mine, plan |-> plan]
MCDrafts ==
    {Draft("word", {"a", "b"}, TRUE, 1 :> Numbered(<<"p", "q">>)),
     Draft("other", {"a", "c"}, TRUE, 1 :> Numbered(<<"q">>) @@ 2 :> Numbered(<<"p">>)),
     Draft("typo", {}, FALSE, 2 :> Numbered(<<"q", "p">>))}
MCAsks ==
    {[kind |-> k, word |-> FALSE, region |-> "", themes |-> {}] : k \in {"list", "mine"}} \cup
    {[kind |-> "list", word |-> TRUE, region |-> "", themes |-> {}],
     [kind |-> "list", word |-> TRUE, region |-> "x", themes |-> {"a"}]}
-----------------------------------------------------------------------------
Parts == {"reviews", "follows", "search", "share", "seed", "routes", "lists"}

MCInit ==
    /\ part \in Parts
    /\ Init
    /\ FollowInit
    /\ IF part = "search" THEN SearchInit
       ELSE SearchInit /\ facts = [p \in 1 .. 3 |-> Fact("whole", {}, FALSE, 0)]
    /\ IF part = "share" THEN QuizInit ELSE QuizInit /\ sheet = [q \in 1 .. 12 |-> TRUE]
    /\ ShareInit
    /\ SeedInit
    /\ IF part = "routes" THEN ReadInit
       ELSE ReadInit /\ \A r \in FirstRoutes : stored[r].title = "typo"
    /\ OwnInit

\* The module of this part makes a step, all others stay as they are.
Steps(p) ==
    /\ p # "reviews" => UNCHANGED vars
    /\ p # "follows" => UNCHANGED followVars
    /\ p # "search" => UNCHANGED searchVars
    /\ p # "share" => UNCHANGED <<quizVars, shareVars>>
    /\ p # "seed" => UNCHANGED seedVars
    /\ p # "routes" => UNCHANGED readVars
    /\ p # "lists" => UNCHANGED ownVars
    /\ UNCHANGED part

MCNext ==
    \/ part = "reviews" /\ Next /\ Steps("reviews")
    \/ part = "follows" /\ FollowNext /\ Steps("follows")
    \/ part = "search" /\ SearchNext /\ Steps("search")
    \/ part = "share" /\ QuizNext /\ UNCHANGED shareVars /\ Steps("share")
    \/ part = "share" /\ ShareNext /\ Steps("share")
    \/ part = "seed" /\ SeedNext /\ Steps("seed")
    \/ part = "routes" /\ ReadNext /\ Steps("routes")
    \/ part = "lists" /\ OwnNext /\ Steps("lists")

MCSpec == MCInit /\ [][MCNext]_allVars
-----------------------------------------------------------------------------
\* The type invariants of the modules: in particular every pair of members follows once
\* (follow_service.py:24) and a demo user that is deleted takes its rows along
\* (seed_demo_data.py:130).
CommunityTypes == TypeOK /\ FollowTypeOK /\ SeedTypeOK /\ QuizTypeOK
=============================================================================
