-------------------------- MODULE TourApiClientProofs --------------------------
(* Proofs about TourApiClient, for any number of keys, retries and calls: the *)
(* accounting of requests, what it yields, and a measure that every answer of *)
(* the service shortens. *)
EXTENDS TourApiClient, TLAPS

(* Types and the accounting of requests are kept together: asked stays within *)
(* its range because the budget of a key is never exceeded. *)
LEMMA InvInit == Init => Inv
<1> SUFFICES ASSUME Init PROVE Inv
  OBVIOUS
<1>1. 1 \in 1..keys /\ \A k \in KeyIndexes : ~(k < 1)
  BY KeysAssumption DEF Init, KeyIndexes
<1>2. 0 \in 0..MaxRetries /\ 0 \in 0..(MaxRetries + 2) /\ 0 <= MaxRetries + 1
      /\ 0 \in 0..MaxCalls /\ 0 \in 0..MaxSpikes
  BY RetriesAssumption, BoundsAssumption
<1>3. TypeOK
  BY <1>1, <1>2 DEF Init, TypeOK
<1>4. Accounting /\ RetryBudget /\ NoKeySkipped /\ RunsFresh
  BY <1>1, <1>2 DEF Init, Accounting, RetryBudget, NoKeySkipped, RunsFresh
<1> QED BY <1>3, <1>4 DEF Inv

(* The current key is one of the keys a client may have. *)
LEMMA KeyInRange == TypeOK => key \in KeyIndexes /\ keys \in Nat
BY KeysAssumption DEF TypeOK, KeyIndexes

(* Asking once more leaves room in the budget while it equals the attempts. *)
LEMMA AskedStep ==
    ASSUME Inv, Requesting, Asked
    PROVE  /\ asked' \in [KeyIndexes -> 0..(MaxRetries + 2)]
           /\ asked'[key] = attempt + 1
           /\ attempt + 1 <= MaxRetries + 1
           /\ \A k \in KeyIndexes \ {key} : asked'[k] = asked[k]
           /\ \A k \in KeyIndexes : asked'[k] <= MaxRetries + 1
<1> USE RetriesAssumption DEF Inv, TypeOK
<1>1. asked[key] = attempt /\ attempt \in 0..MaxRetries /\ key \in KeyIndexes
  BY KeyInRange DEF Accounting, Requesting
<1>2. asked' = [asked EXCEPT ![key] = attempt + 1]
  <2>1. ~(asked[key] > MaxRetries + 1)
    BY <1>1
  <2> QED BY <1>1, <2>1, Zenon DEF Asked
<1>3. asked'[key] = attempt + 1 /\ attempt + 1 \in 0..(MaxRetries + 1)
  BY <1>1, <1>2
<1>4. \A k \in KeyIndexes \ {key} : asked'[k] = asked[k]
  BY <1>1, <1>2
<1>5. \A k \in KeyIndexes : asked'[k] <= MaxRetries + 1
  BY <1>3, <1>4 DEF RetryBudget
<1>6. asked' \in [KeyIndexes -> 0..(MaxRetries + 2)]
  BY <1>1, <1>2
<1> QED BY <1>3, <1>4, <1>5, <1>6

(* An answer that ends the call or starts a back-off with the same key. *)
LEMMA BackOffStep ==
    ASSUME Inv, Requesting, Asked, UNCHANGED <<keys, run, key, spent, calls>>,
           limited \subseteq limited', limited' \subseteq KeyIndexes, spikes' \in 0..MaxSpikes,
           keys > 1 => limited' = limited,
           \/ BackOff
           \/ call' \in {"items", "error"} /\ UNCHANGED <<asleep, attempt>>
    PROVE  Inv'
<1> USE RetriesAssumption
<1>1. /\ keys \in 1..MaxKeys /\ key \in 1..keys /\ attempt \in 0..MaxRetries /\ asleep = FALSE /\ call = "busy"
      /\ \A k \in KeyIndexes : k > key => asked[k] = 0
  BY DEF Inv, TypeOK, Accounting, Requesting
<1>2. attempt' \in 0..MaxRetries /\ asleep' \in BOOLEAN
  <2>1. attempt' \in 0..MaxRetries
    BY <1>1 DEF BackOff
  <2>2. asleep' = TRUE \/ asleep' = asleep
    BY DEF BackOff
  <2> QED BY <1>1, <2>1, <2>2
<1>3. call' \in {"busy", "items", "error"}
  BY <1>1 DEF BackOff
<1>4. TypeOK'
  BY <1>2, <1>3, AskedStep DEF Inv, TypeOK, Ended
<1>5. /\ asleep' => call' = "busy"
      /\ call' = "busy" => attempt' = attempt + 1
  BY <1>1 DEF BackOff
<1>6. \A k \in KeyIndexes : k > key' => k \in KeyIndexes \ {key} /\ asked[k] = 0
  BY <1>1 DEF KeyIndexes
<1>7. Accounting'
  BY <1>1, <1>5, <1>6, AskedStep DEF Accounting
<1>8. RetryBudget'
  BY AskedStep DEF RetryBudget
<1>9. NoKeySkipped'
  BY <1>3 DEF Inv, NoKeySkipped
<1>10. RunsFresh'
  BY <1>1, <1>3 DEF Inv, RunsFresh
<1> QED BY <1>4, <1>7, <1>8, <1>9, <1>10 DEF Inv

(* Every step keeps the invariant. *)
LEMMA InvNext == Inv /\ [Next]_vars => Inv'
<1> SUFFICES ASSUME Inv, [Next]_vars PROVE Inv'
  OBVIOUS
<1> USE KeysAssumption, RetriesAssumption, BoundsAssumption
<1>1. CASE Call
  <2>1. TypeOK' /\ RunsFresh'
    BY <1>1 DEF Inv, TypeOK, RunsFresh, Call
  <2>2. /\ Accounting' /\ RetryBudget'
    BY <1>1, KeyInRange DEF Inv, TypeOK, Call, Accounting, RetryBudget
  <2>3. NoKeySkipped'
    BY <1>1 DEF Inv, Call, NoKeySkipped
  <2> QED BY <2>1, <2>2, <2>3 DEF Inv
<1>2. CASE Items \/ Fatal \/ Transient
  BY <1>2, BackOffStep DEF Items, Fatal, Transient, Inv, TypeOK
<1>3. CASE Limit
  <2>1. Requesting /\ Asked
    BY <1>3 DEF Limit
  <2>2. spikes' \in 0..MaxSpikes
    BY <1>3 DEF Limit, Inv, TypeOK
  <2>3. limited' = limited \cup {key} /\ UNCHANGED <<keys, run, spent, calls>>
        /\ keys \in 1..MaxKeys /\ key \in 1..keys /\ limited' \subseteq KeyIndexes
    BY <1>3 DEF Limit, Inv, TypeOK, KeyIndexes
  <2>4. CASE HasNextKey /\ Rotate /\ UNCHANGED <<call, asleep>>
    <3>1. key' \in 1..keys /\ key' \in KeyIndexes /\ key' > key /\ attempt' = 0
      BY <2>3, <2>4 DEF HasNextKey, Rotate, KeyIndexes
    <3>2. TypeOK'
      BY <2>1, <2>2, <2>3, <2>4, <3>1, AskedStep DEF Inv, TypeOK
    <3>3. \A k \in KeyIndexes : k >= key' => k \in KeyIndexes \ {key} /\ asked[k] = 0
      BY <2>1, <2>3, <2>4, <3>1 DEF Inv, Accounting, Requesting, KeyIndexes
    <3>4. Accounting'
      BY <2>1, <2>4, <3>1, <3>3, AskedStep DEF Inv, Accounting, Requesting, KeyIndexes
    <3>5. \A k \in KeyIndexes : k < key' => k < key \/ k = key
      BY <2>3, <2>4 DEF Rotate, KeyIndexes
    <3>6. NoKeySkipped'
      BY <2>1, <2>3, <2>4, <3>5 DEF Inv, NoKeySkipped, Requesting
    <3>7. RetryBudget'
      BY <2>1, AskedStep DEF RetryBudget
    <3>8. RunsFresh'
      <4>1. /\ call = "busy" /\ call' = call /\ run' = run /\ keys' = keys /\ key \in Nat
            /\ key' = key + 1 /\ limited' = limited \cup {key} /\ limited \subseteq KeyIndexes
        BY <1>3, <2>1, <2>3, <2>4 DEF Limit, Requesting, Rotate, Inv, TypeOK
      <4>2. call # "none" => run = "on"
        BY DEF Inv, RunsFresh
      <4>3. keys > 1 /\ run = "on" => \A k \in limited : k < key
        BY <4>1 DEF Inv, RunsFresh
      <4> QED BY <4>1, <4>2, <4>3 DEF RunsFresh, KeyIndexes
    <3> QED BY <3>2, <3>4, <3>6, <3>7, <3>8 DEF Inv
  <2>5. CASE OutOfKeys /\ call' = "exhausted" /\ UNCHANGED <<key, attempt, asleep>>
    <3>1. key = keys /\ keys > 1
      BY <2>3, <2>5 DEF OutOfKeys, HasNextKey, KeyIndexes
    <3>2. \A k \in 1..keys : k \in KeyIndexes /\ (k < key \/ k = key)
      BY <2>3, <3>1 DEF KeyIndexes
    <3>3. 1..keys \subseteq limited'
      BY <2>3, <3>2 DEF Inv, NoKeySkipped
    <3>4. NoKeySkipped'
      <4>1. keys' = keys /\ key' = key /\ limited \subseteq limited'
        BY <2>3, <2>5
      <4> QED BY <3>1, <3>3, <4>1 DEF Inv, NoKeySkipped
    <3>5. TypeOK' /\ Accounting'
      BY <2>1, <2>2, <2>3, <2>5, AskedStep DEF Inv, TypeOK, Ended, Accounting, Requesting
    <3>6. RetryBudget'
      BY <2>1, AskedStep DEF RetryBudget
    <3>7. RunsFresh'
      BY <1>3, <2>1, <2>5 DEF Limit, Requesting, Inv, RunsFresh
    <3> QED BY <3>4, <3>5, <3>6, <3>7 DEF Inv
  <2>6. CASE ~HasNextKey /\ ~OutOfKeys /\ BackOff /\ UNCHANGED key
    <3>1. ~(keys > 1)
      BY <2>6 DEF OutOfKeys
    <3> QED BY <2>1, <2>2, <2>3, <2>6, <3>1, BackOffStep
  <2> QED BY <1>3, <2>4, <2>5, <2>6 DEF Limit
<1>4. CASE Wake
  BY <1>4 DEF Wake, Inv, TypeOK, Accounting, RetryBudget, NoKeySkipped, RunsFresh
<1>5. CASE \E k \in KeyIndexes : SpendQuota(k)
  BY <1>5 DEF SpendQuota, Inv, TypeOK, Accounting, RetryBudget, NoKeySkipped, RunsFresh
<1>6. CASE UNCHANGED vars
  BY <1>6 DEF vars, Inv, TypeOK, Accounting, RetryBudget, NoKeySkipped, RunsFresh
<1>7. CASE StartRun
  <2>1. /\ run = "over" /\ run' = "on" /\ key' = 1 /\ limited' = {}
        /\ UNCHANGED <<keys, call, asleep, attempt, spent, asked, calls, spikes>>
    BY <1>7 DEF StartRun
  <2>2. call = "none" /\ keys \in Nat /\ 1 <= keys
    BY <2>1 DEF Inv, TypeOK, RunsFresh
  <2>3. TypeOK'
    BY <2>1, <2>2 DEF Inv, TypeOK
  <2>4. Accounting' /\ RetryBudget'
    BY <2>1, <2>2 DEF Inv, Accounting, RetryBudget
  <2>5. NoKeySkipped' /\ RunsFresh'
    BY <2>1, <2>2 DEF NoKeySkipped, RunsFresh, KeyIndexes
  <2> QED BY <2>3, <2>4, <2>5 DEF Inv
<1>8. CASE Handle
  <2>1. /\ call' = "none" /\ call \in Ended /\ run' \in {"on", "over"}
        /\ call = "exhausted" => run' = "over"
        /\ UNCHANGED <<keys, asleep, key, attempt, spent, asked, limited, calls, spikes>>
    BY <1>8 DEF Handle
  <2>2. call # "busy" /\ run = "on"
    BY <2>1 DEF Inv, RunsFresh, Ended
  <2>3. TypeOK' /\ Accounting' /\ RetryBudget' /\ NoKeySkipped' /\ RunsFresh'
    BY <2>1, <2>2 DEF Inv, TypeOK, Accounting, RetryBudget, NoKeySkipped, RunsFresh
  <2> QED BY <2>3 DEF Inv
<1> QED BY <1>1, <1>2, <1>3, <1>4, <1>5, <1>6, <1>7, <1>8 DEF Next, Answer

(* Every variable keeps its type. *)
THEOREM TypeCorrect == Spec => []TypeOK
<1>1. Inv => TypeOK
  BY DEF Inv
<1> QED BY <1>1, InvInit, InvNext, PTL DEF Spec

(* A call never sends more than 1 + max_retries requests with one key, however *)
(* its back-offs and key switches alternate, and a run is only given up when   *)
(* each of its keys has answered with a limit. *)
THEOREM BudgetsKept == Spec => []BudgetsUsedInOrder
<1>1. Inv => BudgetsUsedInOrder
  BY DEF Inv, BudgetsUsedInOrder
<1> QED BY <1>1, InvInit, InvNext, PTL DEF Spec

(* However calls fail and runs go on after them, no run asks again with one of *)
(* several keys that has answered it with a limit: the client only moves on    *)
(* (tour_api.py:155-168), and nobody who swallows its errors swallows the one  *)
(* that says that no key is left (place_sync.py:432, 478, 579, 635). *)
THEOREM LimitsKept == Spec => []LimitsRespected
<1>1. Inv => LimitsRespected
  <2> SUFFICES ASSUME Inv, keys > 1, Requesting, key \in limited PROVE FALSE
    BY DEF LimitsRespected
  <2>1. key < key
    BY DEF Inv, RunsFresh, Requesting
  <2>2. key \in Nat
    BY DEF Inv, TypeOK
  <2> QED BY <2>1, <2>2
<1> QED BY <1>1, InvInit, InvNext, PTL DEF Spec

-----------------------------------------------------------------------------
(***************************************************************************)
(* How long a call takes.  Each key is worth a request and a sleep for     *)
(* each attempt; what is left of that grows smaller with every answer and  *)
(* with every sleep that ends.                                             *)
(***************************************************************************)

Worth == 2 * (MaxRetries + 1)

Left == (keys - key) * Worth + 2 * (MaxRetries - attempt) + (IF asleep THEN 1 ELSE 0)

(* What is left is less than all the keys are worth, and a step of a call that *)
(* goes on takes from it. *)
LeftBounded == Left \in Nat /\ Left < keys * Worth
Shortens == call = "busy" /\ call' = "busy" /\ UNCHANGED spent => Left' < Left

(* What keys are worth grows by Worth with each key. *)
LEMMA WorthOfKeys ==
    /\ Worth \in Nat /\ Worth = 2 * MaxRetries + 2
    /\ \A k \in Nat : k * Worth \in Nat /\ (k + 1) * Worth = k * Worth + Worth
    /\ \A k, m \in Nat : k <= m => k * Worth <= m * Worth
<1>1. Worth \in Nat /\ Worth = 2 * MaxRetries + 2
  BY RetriesAssumption DEF Worth
<1> HIDE DEF Worth
<1>2. \A k \in Nat : k * Worth \in Nat /\ (k + 1) * Worth = k * Worth + Worth
  BY <1>1
<1>3. \A k, m \in Nat : k <= m => k * Worth <= m * Worth
  BY <1>1
<1> QED BY <1>1, <1>2, <1>3

(* A client whose keys are in order has less left than all of them are worth. *)
LEMMA LeftInRange == TypeOK => LeftBounded
<1> SUFFICES ASSUME TypeOK PROVE LeftBounded
  OBVIOUS
<1>1. /\ keys \in Nat /\ key \in Nat /\ 1 <= key /\ key <= keys
      /\ attempt \in Nat /\ attempt <= MaxRetries
  BY KeysAssumption, RetriesAssumption DEF TypeOK
<1>2. keys - key \in Nat /\ keys - 1 \in Nat /\ keys - key <= keys - 1 /\ (keys - 1) + 1 = keys
  BY <1>1
<1> DEFINE rest == (keys - key) * Worth
           most == (keys - 1) * Worth
           all == keys * Worth
<1>3. rest \in Nat /\ most \in Nat /\ rest <= most
  BY <1>2, WorthOfKeys, Zenon
<1>4. all = most + Worth
  BY <1>2, WorthOfKeys, Zenon
<1>5. Left = rest + 2 * (MaxRetries - attempt) + (IF asleep THEN 1 ELSE 0)
  BY DEF Left
<1>6. Worth = 2 * MaxRetries + 2
  BY WorthOfKeys
<1> HIDE DEF rest, most, all
<1>7. Left \in Nat /\ Left < all
  BY <1>1, <1>3, <1>4, <1>5, <1>6, RetriesAssumption
<1> QED BY <1>7 DEF LeftBounded, all

(* A key that is given up is worth more than the attempts its successor gains. *)
LEMMA StepShortens == Inv /\ Next => Shortens
<1> SUFFICES ASSUME Inv, Next, call = "busy", call' = "busy", UNCHANGED spent
             PROVE  Left' < Left
  BY DEF Shortens
<1> DEFINE now == (keys - key) * Worth
           nxt == (keys' - key') * Worth
<1>1. /\ keys \in Nat /\ key \in Nat /\ 1 <= key /\ key <= keys
      /\ attempt \in Nat /\ attempt <= MaxRetries
      /\ asleep \in BOOLEAN
  BY KeysAssumption, RetriesAssumption DEF Inv, TypeOK
<1>2. /\ Left = now + 2 * (MaxRetries - attempt) + (IF asleep THEN 1 ELSE 0)
      /\ Left' = nxt + 2 * (MaxRetries - attempt') + (IF asleep' THEN 1 ELSE 0)
  BY DEF Left, Worth
<1>3. now \in Nat
  <2>1. keys - key \in Nat
    BY <1>1
  <2> QED BY <2>1, WorthOfKeys, Zenon
<1>4. Worth = 2 * MaxRetries + 2
  BY WorthOfKeys
<1>5. CASE /\ ~asleep /\ asleep' = TRUE /\ attempt' = attempt + 1 /\ UNCHANGED <<keys, key>>
  <2>1. nxt = now
    BY <1>5
  <2> HIDE DEF now, nxt
  <2> QED BY <1>1, <1>2, <1>3, <1>5, <2>1, RetriesAssumption
<1>6. CASE asleep /\ asleep' = FALSE /\ UNCHANGED <<keys, key, attempt>>
  <2>1. nxt = now
    BY <1>6
  <2> HIDE DEF now, nxt
  <2> QED BY <1>1, <1>2, <1>3, <1>6, <2>1, RetriesAssumption
<1>7. CASE HasNextKey /\ Rotate /\ UNCHANGED <<keys, asleep>>
  <2>1. keys' = keys /\ key' = key + 1 /\ attempt' = 0 /\ key + 1 <= keys
    BY <1>7 DEF HasNextKey, Rotate
  <2>2. keys' - key' \in Nat /\ keys - key = (keys' - key') + 1
    BY <1>1, <2>1
  <2>3. nxt \in Nat /\ now = nxt + Worth
    BY <2>2, WorthOfKeys, Zenon
  <2> HIDE DEF now, nxt
  <2> QED BY <1>1, <1>2, <1>3, <1>4, <1>7, <2>1, <2>3, RetriesAssumption
<1>8. CASE Wake
  BY <1>6, <1>8 DEF Wake
<1>9. CASE \/ StartRun \/ Handle \/ Call \/ Items \/ Fatal
           \/ \E k \in KeyIndexes : SpendQuota(k)
  <2>1. ~StartRun
    BY DEF StartRun, Inv, RunsFresh
  <2> QED BY <1>9, <2>1 DEF Handle, Ended, Call, Items, Fatal, SpendQuota
<1>10. CASE Transient
  BY <1>5, <1>10 DEF Transient, BackOff, Requesting
<1>11. CASE Limit
  BY <1>5, <1>7, <1>11 DEF Limit, BackOff, Requesting
<1> QED BY <1>8, <1>9, <1>10, <1>11 DEF Next, Answer

(* A call takes fewer steps than twice the requests its keys allow, whatever  *)
(* the service answers: each answer and each sleep brings it nearer its end,  *)
(* and the retries a new key starts with never make up for the key given up   *)
(* (the loops of _get in tour_api.py). *)
THEOREM CallsShorten == Spec => []LeftBounded /\ [][Shortens]_vars
<1>1. Inv => LeftBounded
  BY LeftInRange DEF Inv
<1>2. Inv /\ [Next]_vars => [Shortens]_vars
  BY StepShortens
<1> QED BY <1>1, <1>2, InvInit, InvNext, PTL DEF Spec
=============================================================================
