------------------------------ MODULE MCCatalog ------------------------------
(***************************************************************************)
(* Instances of the modules about places, routes and the user's own rows,  *)
(* checked for their safety.  They share no variable: the first state      *)
(* chooses the one that runs, the others stay as they are.  The reads of   *)
(* place lists are instances of their own, one for each kind.              *)
(***************************************************************************)
EXTENDS TagRun, PlaceLists, PlaceRecord, TravelRoute, Sessions, Profile, Bookmarks

VARIABLE part        \* the module that runs

allVars == <<tagVars, listVars, recordVars, routeVars, sessionVars, profileVars,
             markVars, part>>
-----------------------------------------------------------------------------
(* TagRun: a restaurant and a beach. *)
MCSort == <<[ctype |-> 39, lcls1 |-> "FD", sea |-> FALSE],
            [ctype |-> 12, lcls1 |-> "NA", sea |-> TRUE]>>
MCAnswers == {{"gourmet", "invented"}, {"museum", "culture", "restaurant"}}

(* PlaceLists: the nearer place has every tag, the other one two of three. *)
MCNearest == <<"p1", "p2">>
MCTagsOf == [p1 |-> {"a", "b", "c"}, p2 |-> {"a", "c"}]

(* PlaceRecord: a content that gains a phone number, swaps its images, and *)
(* then changes type, region and images.                                   *)
MCContent == <<
    [ctype |-> 14, region |-> "seoul", parking |-> TRUE, free |-> TRUE,
     phone |-> FALSE, pics |-> <<"a", "b">>],
    [ctype |-> 14, region |-> "seoul", parking |-> FALSE, free |-> FALSE,
     phone |-> TRUE, pics |-> <<"b", "a">>],
    [ctype |-> 12, region |-> "busan", parking |-> TRUE, free |-> FALSE,
     phone |-> TRUE, pics |-> <<"c">>]>>

(* TravelRoute: no day, either day, and both days with two stops in each. *)
OneDay(d, p) ==
    [e \in Day |-> IF e = d THEN [there |-> TRUE, stops |-> {[order |-> 1, place |-> p]}]
                   ELSE NoDay]
MCPlans == {Empty, OneDay(1, "p1"), OneDay(2, "p2"),
            [e \in Day |-> [there |-> TRUE, stops |-> {[order |-> 1, place |-> "p2"],
                                                       [order |-> 2, place |-> "p1"]}]]}
-----------------------------------------------------------------------------
Parts == {"tags", "record", "route", "sessions", "profile", "marks"} \cup Kinds

MCInit ==
    /\ part \in Parts
    /\ TagInit
    /\ ListInit
    /\ IF part = "record" THEN RecordInit ELSE RecordInit /\ rec = NoRec
    /\ RouteInit
    /\ SessionInit
    /\ ProfileInit
    /\ MarkInit

\* The module of this part makes a step, all others stay as they are.
Steps(p) ==
    /\ p # "tags" => UNCHANGED tagVars
    /\ p # "lists" => UNCHANGED listVars
    /\ p # "record" => UNCHANGED recordVars
    /\ p # "route" => UNCHANGED routeVars
    /\ p # "sessions" => UNCHANGED sessionVars
    /\ p # "profile" => UNCHANGED profileVars
    /\ p # "marks" => UNCHANGED markVars
    /\ UNCHANGED part

MCNext ==
    \/ part = "tags" /\ TagNext /\ Steps("tags")
    \/ /\ part \in Kinds
       /\ ListNext /\ \A r \in ListReads : read'[r].pc # "idle" => read'[r].kind = part
       /\ Steps("lists")
    \/ part = "record" /\ RecordNext /\ Steps("record")
    \/ part = "route" /\ RouteNext /\ Steps("route")
    \/ part = "sessions" /\ SessionNext /\ Steps("sessions")
    \/ part = "profile" /\ ProfileNext /\ Steps("profile")
    \/ part = "marks" /\ MarkNext /\ Steps("marks")

MCSpec == MCInit /\ [][MCNext]_allVars
-----------------------------------------------------------------------------
\* The type invariants of the modules: in particular no place gets a tag that is not
\* seeded, nicknames differ, a vector goes with its place, and a member marks a place
\* once (bookmark/services.py:20).
CatalogTypes ==
    /\ TagTypeOK /\ ListTypeOK /\ RecordTypeOK /\ RouteTypeOK
    /\ SessionTypeOK /\ ProfileTypeOK /\ MarkTypeOK
=============================================================================
