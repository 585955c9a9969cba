-------------------------------- MODULE Quiz --------------------------------
(***************************************************************************)
(* The travel quiz: twelve answers move six axes, three of the axes name   *)
(* one of eight travel types, and the type has a compatible and an         *)
(* incompatible one.  The types are rows that a command seeds one by one;  *)
(* find_compatible_types keeps the list of all rows in the cache for a     *)
(* day.  A submission is one transaction that stores type and vector, and  *)
(* fails when it misses a row or an entry of the list.                     *)
(*                                                                         *)
(* A score of an axis runs from -5 to 5; the vector of the code is         *)
(* (score + 5) / 10, so that "0.5 or more" is "score >= 0" here.           *)
(***************************************************************************)
EXTENDS Integers, Sequences, FiniteSets

CONSTANTS Takers,        \* submissions of the user under way at a time
          Sheets,        \* answer sheets: [1 .. 12 -> BOOLEAN], TRUE for "A"
          SentSheets     \* the sheets of the user; of the others the scores are checked

ASSUME SheetAssumption == Sheets \cup SentSheets \subseteq [1 .. 12 -> BOOLEAN]

VARIABLES sheet,         \* the sheet of the user; a retake may answer the opposite
          table,         \* how many of the travel types are in the table
          cached,        \* the cached list of types, or NoList
          result,        \* the row of UserTestResult, or NoResult
          take           \* per submission

quizVars == <<sheet, table, cached, result, take>>

Questions == 1 .. 12
Axes == 1 .. 6           \* activity, plan, social, space, experience, budget
NoList == {<<>>}
NoResult == [type |-> <<>>, vector |-> <<>>]

\* What answer "A" adds to each axis; "B" adds the opposite.
Weights == << <<0, 0, 1, 1, 0, 1>>,  <<0, 1, 0, 0, 0, 1>>,  <<1, 1, 0, 0, 0, 0>>,
              <<0, 1, 0, 1, 0, 0>>,  <<1, 1, 1, 0, 0, 0>>,  <<-1, 0, 1, 0, 0, 0>>,
              <<1, 0, 0, 1, -1, 0>>, <<0, 0, 1, 0, 1, 0>>,  <<0, 0, 0, 1, -1, 1>>,
              <<1, 0, 0, 0, 1, 1>>,  <<0, 1, 0, 0, 1, 0>>,  <<0, 0, 1, 1, 0, 1>> >>

\* An answer moves an axis by one: the score is how often up less how often down.
Moving(axis) == {q \in Questions : Weights[q][axis] # 0}
Raising(s, axis) == {q \in Moving(axis) : s[q] = (Weights[q][axis] > 0)}
Score(s, axis) ==
    Cardinality(Raising(s, axis)) - Cardinality(Moving(axis) \ Raising(s, axis))

\* _calculate_norm_vector cuts at both ends.
Norm(s) == [axis \in Axes |-> LET v == Score(s, axis)
                              IN  IF v > 5 THEN 5 ELSE IF v < -5 THEN -5 ELSE v]

High(v, axis) == v[axis] >= 0

\* _determine_type_key: activity, social and space.
TypeKey(v) == <<High(v, 1), High(v, 3), High(v, 4)>>

\* label_vector: the share of the side that an axis leans to, in percent.
Label(v, axis) == IF High(v, axis) THEN 10 * (v[axis] + 5) ELSE 10 * (5 - v[axis])

Abs(n) == IF n < 0 THEN -n ELSE n

\* calculate_accuracy: the mean deviation of the three axes, rounded to percents.
Accuracy(v) == (200 * (Abs(v[1]) + Abs(v[3]) + Abs(v[4])) + 15) \div 30

Opposite(s) == [q \in Questions |-> ~s[q]]

\* TRAVEL_TYPE_SEEDS in the order of the file.
Seeds == << <<TRUE, TRUE, TRUE>>,   <<TRUE, TRUE, FALSE>>,
            <<TRUE, FALSE, TRUE>>,  <<TRUE, FALSE, FALSE>>,
            <<FALSE, TRUE, TRUE>>,  <<FALSE, TRUE, FALSE>>,
            <<FALSE, FALSE, TRUE>>, <<FALSE, FALSE, FALSE>> >>
Types == {Seeds[i] : i \in 1 .. 8}
Table == {Seeds[i] : i \in 1 .. table}

Compatible(k) == <<k[1], ~k[2], k[3]>>
Incompatible(k) == <<~k[1], ~k[2], ~k[3]>>

NoTake == [at |-> "idle", sheet |-> <<>>, list |-> NoList]
Vector(t) == Norm(take[t].sheet)
Key(t) == TypeKey(Vector(t))

QuizInit ==
    /\ sheet \in SentSheets
    /\ table = 0
    /\ cached = NoList
    /\ result = NoResult
    /\ take = [t \in Takers |-> NoTake]

\* seed_travel_types: every row is committed on its own.
Seed ==
    /\ table < Len(Seeds)
    /\ table' = table + 1
    /\ UNCHANGED <<sheet, cached, result, take>>

Holding(t, at, list) == [at |-> at, sheet |-> take[t].sheet, list |-> list]
TakeAt(t, at) == take' = [take EXCEPT ![t] = Holding(t, at, take[t].list)]

Submit(t) ==
    /\ take[t].at \in {"idle", "answered", "failed"}
    /\ \E s \in {sheet, Opposite(sheet)} :
         take' = [take EXCEPT ![t] = [at |-> "asked", sheet |-> s, list |-> NoList]]
    /\ UNCHANGED <<sheet, table, cached, result>>

RowHolders == {t \in Takers : take[t].at \in {"saved", "listing", "listed"}}

\* submit_quiz up to the type, whose row may be missing (DoesNotExist, a 500).
FindType(t) ==
    /\ take[t].at = "asked"
    /\ TakeAt(t, IF Key(t) \in Table THEN "typed" ELSE "failed")
    /\ UNCHANGED <<sheet, table, cached, result>>

\* update_or_create locks the row of the user.
StoreResult(t) ==
    /\ take[t].at = "typed"
    /\ RowHolders = {}
    /\ TakeAt(t, "saved")
    /\ UNCHANGED <<sheet, table, cached, result>>

\* find_compatible_types: the cached list, or one that is read now and cached next.
FindCached(t) ==
    /\ take[t].at = "saved"
    /\ cached # NoList
    /\ take' = [take EXCEPT ![t] = Holding(t, "listed", cached)]
    /\ UNCHANGED <<sheet, table, cached, result>>

ReadTypes(t) ==
    /\ take[t].at = "saved"
    /\ cached = NoList
    /\ take' = [take EXCEPT ![t] = Holding(t, "listing", Table)]
    /\ UNCHANGED <<sheet, table, cached, result>>

CacheTypes(t) ==
    /\ take[t].at = "listing"
    /\ cached' = take[t].list
    /\ TakeAt(t, "listed")
    /\ UNCHANGED <<sheet, table, result>>

Known(t) == {Compatible(Key(t)), Incompatible(Key(t))} \subseteq take[t].list

\* The row as it would be if update_or_create changed the vector of a known user only.
StoredVectorOnly(t) ==
    [type |-> IF result = NoResult THEN Key(t) ELSE result.type, vector |-> Vector(t)]

\* The row of UserTestResult after the submission.
Stored(t) == [type |-> Key(t), vector |-> Vector(t)]

\* The commit; a list without one of the two types is a KeyError: a 500, and the
\* transaction is undone.
EndTake(t) ==
    /\ take[t].at = "listed"
    /\ IF Known(t)
       THEN result' = Stored(t) /\ TakeAt(t, "answered")
       ELSE UNCHANGED result /\ TakeAt(t, "failed")
    /\ UNCHANGED <<sheet, table, cached>>

\* The timeout as it would be without one.
ExpireNever == FALSE /\ UNCHANGED quizVars

\* The list leaves the cache after 24 hours.
ExpireTypes ==
    /\ cached # NoList
    /\ cached' = NoList
    /\ UNCHANGED <<sheet, table, result, take>>

QuizStep(t) ==
    \/ FindType(t) \/ StoreResult(t) \/ FindCached(t) \/ ReadTypes(t) \/ CacheTypes(t)
    \/ EndTake(t)

QuizNext ==
    \/ Seed
    \/ ExpireTypes
    \/ \E t \in Takers : Submit(t) \/ QuizStep(t)

\* The cache drops what is too old, PostgreSQL grants the row lock in turn, and a
\* request that began runs on.  Nobody has to submit, and nobody to seed.
QuizFairness ==
    /\ WF_quizVars(ExpireTypes)
    /\ \A t \in Takers : SF_quizVars(StoreResult(t)) /\ WF_quizVars(QuizStep(t))

QuizSpec == QuizInit /\ [][QuizNext]_quizVars /\ QuizFairness

-----------------------------------------------------------------------------
\* Every variable keeps its type; a list of types that is cached has at least
\* the type of the submission that read it (travel_quiz_services.py:216, :153-158).
QuizTypeOK ==
    /\ sheet \in SentSheets
    /\ table \in 0 .. Len(Seeds)
    /\ cached = NoList \/ (cached # {} /\ cached \subseteq Types)
    /\ \A t \in Takers : take[t].at \in {"idle", "asked", "typed", "saved", "listing", "listed",
                                         "answered", "failed"}

\* For every sheet: the score of an axis is odd and is not cut, so that no axis
\* stays in the middle; who answers everything the other way round gets the
\* type that the quiz calls incompatible, with the same accuracy and every label
\* at the same strength.
Mirrored(s) ==
    LET v == Norm(s)
        w == Norm(Opposite(s))
    IN  /\ \A axis \in Axes : v[axis] = Score(s, axis) /\ v[axis] % 2 = 1
        /\ TypeKey(w) = Incompatible(TypeKey(v))
        /\ Accuracy(v) = Accuracy(w) /\ Accuracy(v) \in 20 .. 100
        /\ \A axis \in Axes : Label(v, axis) = Label(w, axis) /\ Label(v, axis) \in {60, 80, 100}
OppositesClash == \A s \in Sheets : Mirrored(s)

\* The stored type is the type of the stored vector, however submissions overlap.
ResultFits == result = NoResult \/ result.type = TypeKey(result.vector)

\* Every submission ends, with a result or an error; and once the seeding is complete,
\* submissions do not go on failing for ever over a list that was cached before
\* (travel_quiz_services.py:153-164).
AnsweredInTheEnd ==
    /\ \A t \in Takers : take[t].at = "asked" ~> take[t].at \in {"answered", "failed"}
    /\ <>[](table = Len(Seeds)) =>
           <>[][\A t \in Takers : take'[t].at = "failed" => take[t].at = "failed"]_take

\* The scores mean what the quiz says of them, and the stored row holds one of them.
ResultSound == OppositesClash /\ ResultFits
=============================================================================
