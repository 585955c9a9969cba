---------------------------- MODULE ActionPipeline ----------------------------
(***************************************************************************)
(* How the actions of one user become the vector of the personalised feed. *)
(*                                                                         *)
(* A request commits a UserActionLog row and then, in an on_commit hook,   *)
(* puts a task on the Celery queue.  A worker reads the row while it is    *)
(* unprocessed, locks the user's preference, counts the action, adds it to *)
(* the vector once the count has reached the threshold, and marks the row. *)
(* A failing task is retried MaxRetries times.  A nightly batch recomputes *)
(* the vector from all rows of the last 90 days; the feed reads the        *)
(* preference twice, to choose a stage and to fetch the vector.            *)
(*                                                                         *)
(* Users do not share rows, so one user stands for all.  The vector is     *)
(* abstracted to how often each action has been added to it since it was   *)
(* last recomputed, and to whether NULL is stored: NULL means a sum of     *)
(* norm zero, and the next update continues from that zero.                *)
(***************************************************************************)
EXTENDS Integers, FiniteSets

CONSTANTS
    Actions,        \* the user's action log rows, of whatever type
    Workers,        \* Celery workers
    Threshold,      \* S3_ACTION_COUNT_THRESHOLD
    MaxRetries,     \* max_retries of the incremental task
    MaxFailures,    \* bound: exceptions raised inside tasks
    MaxMishaps,     \* bound: crashes, refused messages and messages delivered twice
    None            \* no action

ASSUME ThresholdAssumption == Threshold \in Nat \ {0}
ASSUME BoundsAssumption ==
    {MaxRetries, MaxFailures, MaxMishaps} \subseteq Nat
ASSUME NoneAssumption == None \notin Actions

VARIABLES
    logs,        \* rows of UserActionLog that exist
    gone,        \* rows a cascade has deleted
    processed,   \* rows whose processed column was set, deleted ones included
    expired,     \* rows older than BEHAVIOR_LOOKBACK_DAYS
    embedded,    \* rows whose place has a content vector
    hooks,       \* rows whose on_commit hook has still to run
    queue,       \* messages <<action, retries so far>> at the broker
    task,        \* what each worker is doing
    preference,  \* the UserPreference row
    batch,       \* the nightly batch, as far as this user goes
    feed,        \* a request for the recommended feed
    counted,     \* history: actions whose task has added them to the vector
    failures, losses, duplicates

vars == <<logs, gone, processed, expired, embedded, hooks, queue, task, preference,
          batch, feed, counted, failures, losses, duplicates>>

rows == <<logs, gone, expired, embedded>>
bounds == <<failures, losses, duplicates>>

-----------------------------------------------------------------------------
(* Data *)

Message == Actions \X (0..MaxRetries)

\* A content vector: how often each action is in the sum, and whether NULL is stored.
Vector == [sum : [Actions -> Nat], null : BOOLEAN]
NoVector == [sum |-> [a \in Actions |-> 0], null |-> TRUE]

\* get_or_create inserts a preference with the defaults, so a missing row reads as this.
NoPreference == [count |-> 0, vector |-> NoVector]

Free == [pc |-> "free", log |-> None, tries |-> 0, vec |-> FALSE]
Task == [pc : {"free", "read"}, log : Actions \cup {None}, tries : 0..MaxRetries, vec : BOOLEAN]

NoBatch == [pc |-> "idle", vector |-> NoVector]

should_be_s3(n) == n >= Threshold

\* apply_incremental_update: the sum may come to nothing, but not from nothing.
IncrementalUpdates(v, a) ==
    {[sum |-> [v.sum EXCEPT ![a] = @ + 1], null |-> n] : n \in {FALSE, ~v.null}}

\* Mutated form of Usable: without the look-back window.
UsableEver == logs \cap embedded

\* compute_user_content_vector_for_user: every usable row of the last 90 days, once.
Usable == (logs \ expired) \cap embedded
Recomputed(n) == [sum |-> [a \in Actions |-> IF a \in Usable THEN 1 ELSE 0], null |-> n]
RecomputedVectors == {Recomputed(n) : n \in {Usable = {}, Cardinality(Usable) # 1}}

Init ==
    /\ logs = {} /\ gone = {} /\ processed = {} /\ expired = {} /\ embedded = {}
    /\ hooks = {}
    /\ queue = {}
    /\ task = [w \in Workers |-> Free]
    /\ preference = NoPreference
    /\ batch = NoBatch
    /\ feed = "idle"
    /\ counted = {}
    /\ failures = 0 /\ losses = 0 /\ duplicates = 0

-----------------------------------------------------------------------------
(* The request *)

\* The transaction that called record_action commits.
RecordAction(a) ==
    /\ a \notin logs \cup gone
    /\ logs' = logs \cup {a}
    /\ hooks' = hooks \cup {a}
    /\ UNCHANGED <<gone, processed, expired, embedded, queue, task, preference,
                   batch, feed, counted, bounds>>

\* _enqueue_incremental_update: delay() hands the message to the broker.
Enqueue(a) ==
    /\ a \in hooks
    /\ hooks' = hooks \ {a}
    /\ queue' = queue \cup {<<a, 0>>}
    /\ UNCHANGED <<rows, processed, task, preference, batch, feed, counted, bounds>>

\* The broker refuses, or the process dies after the commit: nothing runs the hook again.
LoseHook(a) ==
    /\ a \in hooks /\ losses + duplicates < MaxMishaps
    /\ hooks' = hooks \ {a}
    /\ losses' = losses + 1
    /\ UNCHANGED <<rows, processed, queue, task, preference, batch, feed, counted,
                   failures, duplicates>>

-----------------------------------------------------------------------------
(* update_user_content_vector_incremental *)

\* Mutated form of Unprocessed: the get() without processed=False.
UnprocessedAny(a) == a \in logs

\* UserActionLog.objects.get(id=log_id, processed=False)
Unprocessed(a) == a \in logs /\ a \notin processed

\* A worker takes a message, which the broker forgets, and reads the log row with
\* its place's vector, without a lock.
ReadLog(w, m) ==
    /\ task[w].pc = "free"
    /\ m \in queue
    /\ \/ queue' = queue \ {m} /\ UNCHANGED duplicates
       \/ queue' = queue /\ losses + duplicates < MaxMishaps /\ duplicates' = duplicates + 1
    /\ task' = IF Unprocessed(m[1])
               THEN [task EXCEPT ![w] = [pc |-> "read", log |-> m[1], tries |-> m[2],
                                         vec |-> m[1] \in embedded]]
               ELSE task
    /\ UNCHANGED <<rows, processed, hooks, preference, batch, feed, counted, failures, losses>>

\* Mutated form of Counted: the log row is not marked.
CountedUnmarked(w) ==
    /\ task[w].log \in logs
    /\ preference' = [preference EXCEPT !.count = @ + 1]
    /\ UNCHANGED <<processed, counted>>

\* The preference is locked, rewritten and committed together with the log row.
Counted(w) ==
    LET a == task[w].log
        n == preference.count + 1
    IN /\ a \in logs
       /\ processed' = processed \cup {a}
       /\ IF should_be_s3(n) /\ task[w].vec
          THEN /\ \E v \in IncrementalUpdates(preference.vector, a) :
                      preference' = [count |-> n, vector |-> v]
               /\ counted' = counted \cup {a}
          ELSE /\ preference' = [preference EXCEPT !.count = n]
               /\ UNCHANGED counted

\* Mutated form of Retry: the exception is logged and dropped.
RetryDropped(w) ==
    /\ queue' = queue
    /\ task' = [task EXCEPT ![w] = Free]

\* self.retry: the message again with one more try, or MaxRetriesExceededError.
Retry(w) ==
    /\ queue' = IF task[w].tries < MaxRetries
                THEN queue \cup {<<task[w].log, task[w].tries + 1>>} ELSE queue
    /\ task' = [task EXCEPT ![w] = Free]

ApplyAction(w) ==
    /\ task[w].pc = "read"
    /\ Counted(w)
    /\ task' = [task EXCEPT ![w] = Free]
    /\ UNCHANGED <<rows, hooks, queue, batch, feed, bounds>>

\* The cascade of a deleted place took the log row: saving it raises.
ApplyToDeleted(w) ==
    /\ task[w].pc = "read"
    /\ task[w].log \notin logs
    /\ Retry(w)
    /\ UNCHANGED <<rows, processed, hooks, preference, batch, feed, counted, bounds>>

\* Any exception: before the commit, or from a connection lost just after it.
TaskFails(w) ==
    /\ task[w].pc = "read" /\ failures < MaxFailures
    /\ failures' = failures + 1
    /\ Retry(w)
    /\ \/ Counted(w)
       \/ UNCHANGED <<processed, preference, counted>>
    /\ UNCHANGED <<rows, hooks, batch, feed, losses, duplicates>>

\* Messages are acknowledged when they are taken: a worker that dies loses its task.
WorkerDies(w) ==
    /\ task[w].pc = "read" /\ losses + duplicates < MaxMishaps
    /\ losses' = losses + 1
    /\ task' = [task EXCEPT ![w] = Free]
    /\ UNCHANGED <<rows, processed, hooks, queue, preference, batch, feed, counted,
                   failures, duplicates>>

-----------------------------------------------------------------------------
(* recompute_user_content_vectors_batch, as far as one user goes *)

\* Mutated form of BatchSelect: every user is recomputed.
BatchSelectAll ==
    /\ batch.pc = "idle"
    /\ batch' = [batch EXCEPT !.pc = "selected"]
    /\ UNCHANGED <<rows, processed, hooks, queue, task, preference, feed, counted, bounds>>

\* The users are selected once, by their counts.
BatchSelect ==
    /\ batch.pc = "idle"
    /\ should_be_s3(preference.count)
    /\ batch' = [batch EXCEPT !.pc = "selected"]
    /\ UNCHANGED <<rows, processed, hooks, queue, task, preference, feed, counted, bounds>>

\* The log rows are read, processed or not.
BatchCompute ==
    /\ batch.pc = "selected"
    /\ \E v \in RecomputedVectors : batch' = [pc |-> "computed", vector |-> v]
    /\ UNCHANGED <<rows, processed, hooks, queue, task, preference, feed, counted, bounds>>

\* preference.save(update_fields=["content_vector", ...]), unconditionally.
BatchSave ==
    /\ batch.pc = "computed"
    /\ preference' = [preference EXCEPT !.vector = batch.vector]
    /\ batch' = NoBatch
    /\ UNCHANGED <<rows, processed, hooks, queue, task, feed, counted, bounds>>

\* The batch stops before it comes to this user.
BatchDies ==
    /\ batch.pc # "idle" /\ losses + duplicates < MaxMishaps
    /\ losses' = losses + 1
    /\ batch' = NoBatch
    /\ UNCHANGED <<rows, processed, hooks, queue, task, preference, feed, counted,
                   failures, duplicates>>

-----------------------------------------------------------------------------
(* The feed *)

\* determine_stage; the stages below S3 do not use this vector.
DetermineStage ==
    /\ feed = "idle"
    /\ should_be_s3(preference.count) /\ ~preference.vector.null
    /\ feed' = "s3"
    /\ UNCHANGED <<rows, processed, hooks, queue, task, preference, batch, counted, bounds>>

\* list(preference.content_vector) of a row that is read again.
ReadVector ==
    /\ feed = "s3"
    /\ feed' = IF preference.vector.null THEN "failed" ELSE "idle"
    /\ UNCHANGED <<rows, processed, hooks, queue, task, preference, batch, counted, bounds>>

-----------------------------------------------------------------------------
(* What happens to the rows meanwhile *)

\* embed_places stores the vector of the place.
Embed(a) ==
    /\ a \notin embedded
    /\ embedded' = embedded \cup {a}
    /\ UNCHANGED <<logs, gone, expired, processed, hooks, queue, task, preference, batch,
                   feed, counted, bounds>>

\* Ninety days pass.
Expire(a) ==
    /\ a \in logs \ expired
    /\ expired' = expired \cup {a}
    /\ UNCHANGED <<logs, gone, embedded, processed, hooks, queue, task, preference, batch,
                   feed, counted, bounds>>

\* The place is deleted, and the log row with it.
DeletePlace(a) ==
    /\ a \in logs
    /\ logs' = logs \ {a}
    /\ gone' = gone \cup {a}
    /\ UNCHANGED <<expired, embedded, processed, hooks, queue, task, preference, batch,
                   feed, counted, bounds>>

-----------------------------------------------------------------------------
(* Specification *)

Finish(w) == ApplyAction(w) \/ ApplyToDeleted(w)

TaskNext ==
    \/ \E a \in Actions : RecordAction(a) \/ Enqueue(a) \/ LoseHook(a)
    \/ \E w \in Workers, m \in Message : ReadLog(w, m)
    \/ \E w \in Workers : ApplyAction(w) \/ ApplyToDeleted(w) \/ TaskFails(w) \/ WorkerDies(w)
    \/ \E a \in Actions : Embed(a) \/ Expire(a) \/ DeletePlace(a)

BatchNext == BatchSelect \/ BatchCompute \/ BatchSave \/ BatchDies

FeedNext == DetermineStage \/ ReadVector

Next == TaskNext \/ BatchNext \/ FeedNext

Spec == Init /\ [][Next]_vars

\* Requests finish their hooks, idle workers take every message in the end, tasks
\* end, and the scheduler starts the batch every night.
Fairness ==
    /\ \A a \in Actions : WF_vars(Enqueue(a))
    /\ \A m \in Message : SF_vars(\E w \in Workers : ReadLog(w, m))
    /\ \A w \in Workers : WF_vars(Finish(w))
    /\ WF_vars(BatchSelect) /\ WF_vars(BatchCompute) /\ WF_vars(BatchSave)

FairSpec == Spec /\ Fairness

-----------------------------------------------------------------------------
(* Properties *)

TypeOK ==
    /\ logs \subseteq Actions /\ gone \subseteq Actions /\ processed \subseteq Actions
    /\ expired \subseteq Actions /\ embedded \subseteq Actions
    /\ hooks \subseteq Actions /\ queue \subseteq Message
    /\ task \in [Workers -> Task]
    /\ preference \in [count : Nat, vector : Vector]
    /\ batch \in [pc : {"idle", "selected", "computed"}, vector : Vector]
    /\ feed \in {"idle", "s3", "failed"}
    /\ counted \subseteq Actions
    /\ failures \in 0..MaxFailures
    /\ losses \in 0..MaxMishaps /\ duplicates \in 0..MaxMishaps

\* As long as the broker delivers each message once, every processed action is counted
\* once, whatever was retried: an exception after the commit sends a task again whose
\* work is done.  (The test of tasks.py says of a processed log that it is ignored.)
CountExact == duplicates = 0 => preference.count = Cardinality(processed)

\* Until action_count reaches the threshold the vector stays NULL (UserPreference),
\* although the batch writes it without looking at the count again.
VectorOnlyAfterThreshold ==
    ~should_be_s3(preference.count) => preference.vector = NoVector

\* Without a crash, and with fewer exceptions than retries, a committed action that is
\* not processed yet still has its hook, a message or a worker.
NothingStranded ==
    losses = 0 /\ failures <= MaxRetries =>
        \A a \in logs \ processed :
            \/ a \in hooks
            \/ \E m \in queue : m[1] = a
            \/ \E w \in Workers : task[w].log = a

\* An action that its task has added to the vector stays in it while its row lives and
\* is recent: processed means "reflected in the user's vector" (models.py).
AddedStays ==
    \A a \in counted \cap (logs \ expired) : preference.vector.sum[a] >= 1

\* Every action is processed in the end, unless its place is deleted, a process was
\* lost or tasks failed more often than they are retried.
EveryActionProcessed ==
    \A a \in Actions :
        a \in logs ~> a \in processed \cup gone \/ losses > 0 \/ failures > MaxRetries

\* Once nothing happens any more, the nightly batch has put right whatever the tasks
\* made of the vector: each recent action of an embedded place is in it once.
BatchCorrects ==
    <>[](should_be_s3(preference.count) =>
           \A a \in Actions : preference.vector.sum[a] =
               IF a \in (logs \ expired) \cap embedded THEN 1 ELSE 0)

-----------------------------------------------------------------------------
(* Inductive invariants *)

\* Which fields a worker uses.
TaskShape == \A w \in Workers :
    /\ task[w].pc = "free" => task[w].log = None
    /\ task[w].pc = "read" => task[w].log \in Actions

\* The batch has selected the user by a count that never goes down.
BatchAfterThreshold == batch.pc # "idle" => should_be_s3(preference.count)

ThresholdInv == TypeOK /\ VectorOnlyAfterThreshold /\ BatchAfterThreshold

\* Hooks, messages and workers hold rows that exist or existed.
RowsKnown ==
    /\ processed \cup hooks \subseteq logs \cup gone
    /\ \A m \in queue : m[1] \in logs \cup gone
    /\ \A w \in Workers : task[w].pc = "read" => task[w].log \in logs \cup gone

\* A row has been retried no more often than tasks have failed.
TriesPaid ==
    /\ \A m \in queue : m[1] \in logs => m[2] <= failures
    /\ \A w \in Workers : task[w].log \in logs => task[w].tries <= failures

StrandedInv == TypeOK /\ TaskShape /\ RowsKnown /\ TriesPaid /\ NothingStranded

\* Each row is in one place only on its way from the hook to the worker ...
OnePlace ==
    /\ \A m \in queue : m[1] \notin hooks
    /\ \A w \in Workers : task[w].pc = "read" => task[w].log \notin hooks
    /\ \A m, n \in queue : m[1] = n[1] => m = n
    /\ \A m \in queue, w \in Workers : m[1] # task[w].log
    /\ \A w, v \in Workers : w # v /\ task[w].pc = "read" => task[w].log # task[v].log

\* ... is processed only after it has left the worker, and is counted when it is.
NotYetProcessed ==
    /\ hooks \cap processed = {}
    /\ \A w \in Workers : task[w].log \notin processed

CountedOnce == IsFiniteSet(processed) /\ preference.count = Cardinality(processed)

CountInv ==
    /\ TypeOK /\ TaskShape /\ RowsKnown
    /\ duplicates = 0 => OnePlace /\ NotYetProcessed /\ CountedOnce
=============================================================================
