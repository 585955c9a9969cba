----------------------------- MODULE QuizShare -----------------------------
(***************************************************************************)
(* What the quiz shows of a result, and the links that show it to others   *)
(* (travel_quiz_services.py, share_services.py).  A link carries the type  *)
(* and the vector, from the row of the user or from a page that a visitor  *)
(* without an account has in front of him; whoever opens it gets a page    *)
(* that is put together anew from the two, while the user takes the quiz   *)
(* again.                                                                  *)
(***************************************************************************)
EXTENDS Quiz

VARIABLES link,          \* the link that was made last
          viewer         \* who opens it

shareVars == <<link, viewer>>

NoLink == [type |-> <<>>, vector |-> <<>>]

\* build_type_tags: the side of each axis that the letter of the type names.
TypeTags(k) == k

\* make_description and build_detail_cards choose their four texts by the same
\* six sides; a text stands for the key that the table has it under.
Texts(v) == << <<High(v, 1)>>, <<High(v, 2), High(v, 3)>>, <<High(v, 4)>>,
               <<High(v, 5), High(v, 6)>> >>

\* The page as it would be if it showed the result of the row for every link.
PageOfRow(k, v) ==
    [tags |-> TypeTags(k), texts |-> Texts(IF result = NoResult THEN v ELSE result.vector),
     labels |-> [axis \in Axes |-> Label(v, axis)], accuracy |-> Accuracy(v),
     good |-> Compatible(k), bad |-> Incompatible(k)]

\* The page of a type and a vector.
Page(k, v) ==
    [tags |-> TypeTags(k), texts |-> Texts(v),
     labels |-> [axis \in Axes |-> Label(v, axis)], accuracy |-> Accuracy(v),
     good |-> Compatible(k), bad |-> Incompatible(k)]

NoPage == [tags |-> <<>>]
NoViewer == [at |-> "idle", link |-> NoLink, list |-> NoList, page |-> NoPage]

ShareInit == link = NoLink /\ viewer = NoViewer
-----------------------------------------------------------------------------
\* A user with an account shares the row (rounding to six decimals keeps tenths).
ShareStored ==
    /\ result # NoResult
    /\ link' = [type |-> result.type, vector |-> result.vector]
    /\ UNCHANGED <<quizVars, viewer>>

\* A visitor has the values of his page sent along.
ShareGiven ==
    /\ \E s \in {sheet, Opposite(sheet)} :
         link' = [type |-> TypeKey(Norm(s)), vector |-> Norm(s)]
    /\ UNCHANGED <<quizVars, viewer>>

\* get_shared_quiz_result: the type must be in the table, and the list of all
\* types comes from the cache or is read.
OpenLink ==
    /\ viewer.at # "listing" /\ link # NoLink /\ link.type \in Table
    /\ viewer' = [at |-> IF cached = NoList THEN "listing" ELSE "listed", link |-> link,
                  list |-> IF cached = NoList THEN Table ELSE cached, page |-> NoPage]
    /\ UNCHANGED <<quizVars, link>>

Viewing(at, page) == [at |-> at, link |-> viewer.link, list |-> viewer.list, page |-> page]

CacheShared ==
    /\ viewer.at = "listing"
    /\ cached' = viewer.list
    /\ viewer' = Viewing("listed", viewer.page)
    /\ UNCHANGED <<sheet, table, result, take, link>>

\* The page, or an error when the list misses one of the two types.
ShowPage ==
    /\ viewer.at = "listed"
    /\ LET k == viewer.link.type IN
       viewer' = IF {Compatible(k), Incompatible(k)} \subseteq viewer.list
                 THEN Viewing("shown", Page(k, viewer.link.vector))
                 ELSE NoViewer
    /\ UNCHANGED <<quizVars, link>>

ShareNext == ShareStored \/ ShareGiven \/ OpenLink \/ CacheShared \/ ShowPage

QuizShareSpec == QuizInit /\ ShareInit /\
                 [][(QuizNext /\ UNCHANGED shareVars) \/ ShareNext]_<<quizVars, shareVars>>
-----------------------------------------------------------------------------
\* A shared page speaks with one voice however often the user has taken the
\* quiz again since: the tags, which come from the type, name the sides that
\* the texts, the cards and the labels, which come from the vector, lean to
\* (travel_quiz_services.py:246-267 puts the two together unchecked).
SharedPageFits ==
    viewer.at = "shown" =>
        /\ viewer.page.tags = << viewer.page.texts[1][1], viewer.page.texts[2][2],
                                 viewer.page.texts[3][1] >>
        /\ viewer.page.bad = [i \in 1 .. 3 |-> ~viewer.page.tags[i]]
        /\ viewer.page.good \notin {viewer.page.tags, viewer.page.bad}
        /\ viewer.page.accuracy \in 20 .. 100
=============================================================================
