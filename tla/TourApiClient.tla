----------------------------- MODULE TourApiClient -----------------------------
(***************************************************************************)
(* The client of the Korea Tourism API (tour_api.py): one call after the   *)
(* other, each with retries and with a switch to the next service key when *)
(* a key has run into its limit.  The client keeps the key it has switched *)
(* to; the attempts are counted for each call and key.  A client belongs   *)
(* to one run of a collection or back-fill (place_sync.py), which goes on  *)
(* after an error but not after AllKeysExhaustedError.                     *)
(*                                                                         *)
(* The service answers a request with items, with a fatal error (a header  *)
(* code, no JSON), with a transient one (time-out, 5xx) or with a limit    *)
(* (code 22, HTTP 429).  A limit is the daily quota of the key or a passing *)
(* spike of the request rate; the client cannot tell one from the other.   *)
(***************************************************************************)
EXTENDS Integers

CONSTANTS
    MaxKeys,      \* bound: registered service keys
    MaxRetries,   \* max_retries of the constructor
    MaxCalls,     \* bound: calls of all runs
    MaxSpikes     \* bound: limit answers that are not the daily quota

ASSUME KeysAssumption == MaxKeys \in Nat \ {0}
ASSUME RetriesAssumption == MaxRetries \in Nat
ASSUME BoundsAssumption == MaxCalls \in Nat /\ MaxSpikes \in Nat

VARIABLES
    keys,      \* how many service keys are registered
    run,       \* on or over
    call,      \* none, busy, or how it has ended
    asleep,    \* the call sleeps before it tries again
    key,       \* _key_index, from one
    attempt,   \* retries this call has made with this key
    spent,     \* at the service: keys whose daily quota is used up
    asked,     \* history: requests of this call with each key
    limited,   \* history: keys that have answered this run with a limit
    calls, spikes

vars == <<keys, run, call, asleep, key, attempt, spent, asked, limited, calls, spikes>>

KeyIndexes == 1..MaxKeys

Init ==
    /\ keys \in 1..MaxKeys
    /\ run = "over" /\ call = "none" /\ asleep = FALSE
    /\ key = 1 /\ attempt = 0
    /\ spent = {}
    /\ asked = [k \in KeyIndexes |-> 0]
    /\ limited = {}
    /\ calls = 0 /\ spikes = 0

-----------------------------------------------------------------------------
(* The run of the caller *)

\* Every run makes a client of its own, which starts with the first key again.
StartRun ==
    /\ run = "over"
    /\ run' = "on"
    /\ key' = 1 /\ limited' = {}
    /\ UNCHANGED <<keys, call, asleep, attempt, spent, asked, calls, spikes>>

Ended == {"items", "error", "exhausted"}

\* Mutated form of Handle: AllKeysExhaustedError is a TourApiError like any other.
HandleAlike ==
    /\ call \in Ended
    /\ call' = "none"
    /\ run' \in {"on", "over"}
    /\ UNCHANGED <<keys, asleep, key, attempt, spent, asked, limited, calls, spikes>>

\* Items are used and errors are swallowed, or end the run (sync_area, the class codes);
\* AllKeysExhaustedError is raised again by all that swallow TourApiError.
Handle ==
    /\ call \in Ended
    /\ call' = "none"
    /\ run' \in IF call = "exhausted" THEN {"over"} ELSE {"on", "over"}
    /\ UNCHANGED <<keys, asleep, key, attempt, spent, asked, limited, calls, spikes>>

-----------------------------------------------------------------------------
(* A call *)

Call ==
    /\ run = "on" /\ call = "none" /\ calls < MaxCalls
    /\ call' = "busy"
    /\ attempt' = 0
    /\ asked' = [k \in KeyIndexes |-> 0]
    /\ calls' = calls + 1
    /\ UNCHANGED <<keys, run, asleep, key, spent, limited, spikes>>

\* A request is sent with the current key.
Requesting == call = "busy" /\ ~asleep

\* The history of requests stops one above the budget of a key.
Asked == asked' = [asked EXCEPT ![key] = IF @ > MaxRetries + 1 THEN @ ELSE @ + 1]

\* Mutated form of BackOff: the attempt is not counted.
BackOffUncounted ==
    /\ asleep' = TRUE
    /\ UNCHANGED <<call, attempt>>

\* Exponential back-off, or the error once the retries are used up.
BackOff ==
    IF attempt < MaxRetries
    THEN asleep' = TRUE /\ attempt' = attempt + 1 /\ UNCHANGED call
    ELSE call' = "error" /\ UNCHANGED <<asleep, attempt>>

HasNextKey == key + 1 <= keys

\* A single key may have run into a passing spike: it is not given up.
OutOfKeys == ~HasNextKey /\ keys > 1

\* _rotate_key: the next key starts with a new budget.
Rotate == key' = key + 1 /\ attempt' = 0

Items ==
    /\ Requesting /\ key \notin spent
    /\ Asked
    /\ call' = "items"
    /\ UNCHANGED <<keys, run, asleep, key, attempt, spent, limited, calls, spikes>>

\* A result code other than 0000 and 22, or a body that is not JSON.
Fatal ==
    /\ Requesting
    /\ Asked
    /\ call' = "error"
    /\ UNCHANGED <<keys, run, asleep, key, attempt, spent, limited, calls, spikes>>

\* A time-out, a lost connection, a 5xx.
Transient ==
    /\ Requesting
    /\ Asked
    /\ BackOff
    /\ UNCHANGED <<keys, run, key, spent, limited, calls, spikes>>

\* Code 22 or HTTP 429: the next key at once; without one, the end of the run, but
\* a single key is retried like a transient error.
Limit ==
    /\ Requesting
    /\ \/ key \in spent /\ UNCHANGED spikes
       \/ key \notin spent /\ spikes < MaxSpikes /\ spikes' = spikes + 1
    /\ Asked
    /\ limited' = limited \cup {key}
    /\ \/ HasNextKey /\ Rotate /\ UNCHANGED <<call, asleep>>
       \/ OutOfKeys /\ call' = "exhausted" /\ UNCHANGED <<key, attempt, asleep>>
       \/ ~HasNextKey /\ ~OutOfKeys /\ BackOff /\ UNCHANGED key
    /\ UNCHANGED <<keys, run, spent, calls>>

\* The sleep is over.
Wake ==
    /\ asleep
    /\ asleep' = FALSE
    /\ UNCHANGED <<keys, run, call, key, attempt, spent, asked, limited, calls, spikes>>

-----------------------------------------------------------------------------
(* The service *)

\* Any of the operator's programs may use up a key's daily quota.
SpendQuota(k) ==
    /\ k \notin spent
    /\ spent' = spent \cup {k}
    /\ UNCHANGED <<keys, run, call, asleep, key, attempt, asked, limited, calls, spikes>>

-----------------------------------------------------------------------------
(* Specification *)

Answer == Items \/ Fatal \/ Transient \/ Limit

Next == StartRun \/ Handle \/ Call \/ Answer \/ Wake \/ \E k \in KeyIndexes : SpendQuota(k)

Spec == Init /\ [][Next]_vars

\* Every request is answered, by its time-out at the latest, and every sleep ends.
FairSpec == Spec /\ WF_vars(Answer) /\ WF_vars(Wake)

-----------------------------------------------------------------------------
(* Properties *)

TypeOK ==
    /\ keys \in 1..MaxKeys
    /\ run \in {"on", "over"}
    /\ call \in {"none", "busy"} \cup Ended
    /\ asleep \in BOOLEAN
    /\ key \in 1..keys
    /\ attempt \in 0..MaxRetries
    /\ spent \subseteq KeyIndexes
    /\ asked \in [KeyIndexes -> 0..(MaxRetries + 2)]
    /\ limited \subseteq KeyIndexes
    /\ calls \in 0..MaxCalls /\ spikes \in 0..MaxSpikes

\* A call sends at most 1 + max_retries requests with a key, although a switch of keys
\* gives a new budget: the two loops of _get do not multiply for a key.
RetryBudget == \A k \in KeyIndexes : asked[k] <= MaxRetries + 1

\* Keys are left in order and for their limits only, and the run is given up only after
\* every one of the keys has answered with a limit.
NoKeySkipped ==
    /\ \A k \in KeyIndexes : k < key => k \in limited
    /\ call = "exhausted" => keys > 1 /\ 1..keys \subseteq limited

\* The two budgets, of attempts and of keys, are used up in order and never exceeded.
BudgetsUsedInOrder == RetryBudget /\ NoKeySkipped

\* With several keys, a run never asks again with one that has answered it with a limit:
\* the client moves on to the next key (tour_api.py:155-168), and whoever swallows the
\* errors of the client lets the one through that says there is none (place_sync.py:432,
\* 478, 579, 635).
LimitsRespected == keys > 1 /\ Requesting => key \notin limited

\* Every call ends, whatever the service answers.
CallEnds == call = "busy" ~> call # "busy"

-----------------------------------------------------------------------------
(* Inductive invariant *)

\* The requests with each key: all the budget at most for the keys that were left, one per
\* attempt for the current one, none for the keys to come.
Accounting ==
    /\ asleep => call = "busy"
    /\ call = "busy" => asked[key] = attempt
    /\ call = "busy" => \A k \in KeyIndexes : k > key => asked[k] = 0

\* Calls are made by runs, and until they exhaust the keys the current one and those to
\* come are unused to limits.
RunsFresh ==
    /\ call # "none" => run = "on"
    /\ keys > 1 /\ run = "on" /\ call # "exhausted" => \A k \in limited : k < key

Inv == TypeOK /\ Accounting /\ RetryBudget /\ NoKeySkipped /\ RunsFresh
=============================================================================
