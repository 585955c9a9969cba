---------------------------- MODULE MCCatalogLive ----------------------------
(***************************************************************************)
(* What must happen in the end, in the modules about places and the quiz.  *)
(* They share no variable: the first state chooses the one that runs, the  *)
(* others stay as they are.                                                *)
(***************************************************************************)
EXTENDS TourApiClient, TagRun, PlaceLists, PlaceRecord, Quiz

VARIABLE part        \* the module that runs

allVars == <<vars, tagVars, listVars, recordVars, quizVars, part>>
-----------------------------------------------------------------------------
(* TagRun: a restaurant that is always refused, a hotel whose answers      *)
(* always have the wrong shape, and a beach behind the two.                *)
MCSort == <<[ctype |-> 39, lcls1 |-> "FD", sea |-> FALSE],
            [ctype |-> 32, lcls1 |-> "AC", sea |-> FALSE],
            [ctype |-> 12, lcls1 |-> "NA", sea |-> TRUE]>>
MCAnswers == {{"gourmet", "invented"}}

(* PlaceLists: the nearer place has every tag, the other one two of three. *)
MCNearest == <<"p1", "p2">>
MCTagsOf == [p1 |-> {"a", "b", "c"}, p2 |-> {"a", "c"}]

(* PlaceRecord: a content that gains a phone number. *)
MCContent == <<
    [ctype |-> 14, region |-> "seoul", parking |-> TRUE, free |-> TRUE,
     phone |-> FALSE, pics |-> <<"a">>],
    [ctype |-> 14, region |-> "seoul", parking |-> FALSE, free |-> FALSE,
     phone |-> TRUE, pics |-> <<"a">>]>>

(* Quiz: the scores of all sheets, and a user who chooses "A" everywhere. *)
MCSheets == [Questions -> BOOLEAN]
MCSent == {[q \in Questions |-> TRUE]}
-----------------------------------------------------------------------------
MCInit ==
    /\ part \in {"client", "tags", "lists", "record", "quiz"}
    /\ IF part = "client" THEN Init ELSE Init /\ keys = 1
    /\ TagInit
    /\ ListInit
    /\ IF part = "record" THEN RecordInit ELSE RecordInit /\ rec = NoRec
    /\ QuizInit

Client(A) == part = "client" /\ A /\ UNCHANGED <<tagVars, listVars, recordVars, quizVars, part>>
Tagging(A) == part = "tags" /\ A /\ UNCHANGED <<vars, listVars, recordVars, quizVars, part>>
Listing(A) == part = "lists" /\ A /\ UNCHANGED <<vars, tagVars, recordVars, quizVars, part>>
Records(A) == part = "record" /\ A /\ UNCHANGED <<vars, tagVars, listVars, quizVars, part>>
Quizzes(A) == part = "quiz" /\ A /\ UNCHANGED <<vars, tagVars, listVars, recordVars, part>>

MCNext ==
    \/ Client(Next)
    \/ Tagging(TagNext)
    \/ Listing(ListNext)
    \/ Records(RecordNext)
    \/ Quizzes(QuizNext)

-----------------------------------------------------------------------------
(***************************************************************************)
(* The fairness of the modules.  Only one of them runs in a behaviour, so  *)
(* that one condition may stand for an action of each: where the actions   *)
(* of the others are disabled for ever, it says what the module asks for.  *)
(***************************************************************************)
InTurn == <<"collect", "backfill", "assign", "clean", "admin">>

Weak(i) ==
    \/ Client(i = 1 /\ Answer) \/ Client(i = 2 /\ Wake)
    \/ Tagging(i \in TagRuns /\ TagStep(i))
    \/ Listing(i \in ListReads /\ ReadStep(i))
    \/ Listing(i \in {2, 7} /\ ExpireHybrid(IF i = 2 THEN {} ELSE {"a", "b"}))
    \/ Listing(i \in {3, 4} /\ ExpirePopular(i - 2))
    \/ Listing(i \in {5, 6} /\ ExpireDetail(Nearest[i - 4]))
    \/ Records(i <= 5 /\ RecordSteps(InTurn[i]))
    \/ Quizzes(i = 2 /\ ExpireTypes)
    \/ Quizzes(i \in {3, 4} /\ QuizStep(i - 2))

Strong(i) ==
    \/ Tagging(i \in TagRuns /\ DailyTask(i))
    \/ Records(i = 1 /\ BeginBackfill)
    \/ Quizzes(i \in Takers /\ StoreResult(i))

MCSpec ==
    /\ MCInit /\ [][MCNext]_allVars
    /\ \A i \in 1 .. 7 : WF_allVars(Weak(i))
    /\ \A i \in 1 .. 2 : SF_allVars(Strong(i))
=============================================================================
