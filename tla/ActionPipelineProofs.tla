------------------------- MODULE ActionPipelineProofs -------------------------
(***************************************************************************)
(* For any number of actions and workers: types, the threshold, that no    *)
(* action is stranded, and, when the broker delivers each message once,    *)
(* that every processed action is counted once and no action is in the     *)
(* vector more than twice.  The last two rest on OnePlace: hook, message   *)
(* and task of a row exclude one another.                                  *)
(***************************************************************************)
EXTENDS ActionPipeline, FiniteSetTheorems, TLAPS

USE ThresholdAssumption, BoundsAssumption, NoneAssumption

(* The vectors the tasks and the batch store are vectors. *)
LEMMA VectorTypes ==
    /\ NoVector \in Vector
    /\ \A v \in Vector, a \in Actions : IncrementalUpdates(v, a) \subseteq Vector
    /\ RecomputedVectors \subseteq Vector
<1>1. NoVector \in Vector
  BY DEF NoVector, Vector
<1>2. ASSUME NEW v \in Vector, NEW a \in Actions
      PROVE  IncrementalUpdates(v, a) \subseteq Vector
  <2>1. ASSUME NEW n \in BOOLEAN
        PROVE  [sum |-> [v.sum EXCEPT ![a] = @ + 1], null |-> n] \in Vector
    BY DEF Vector
  <2>2. {FALSE, ~v.null} \subseteq BOOLEAN
    OBVIOUS
  <2> QED BY <2>1, <2>2 DEF IncrementalUpdates
<1>3. RecomputedVectors \subseteq Vector
  <2>1. ASSUME NEW n \in BOOLEAN PROVE Recomputed(n) \in Vector
    BY DEF Recomputed, Vector
  <2>2. {Usable = {}, Cardinality(Usable) # 1} \subseteq BOOLEAN
    OBVIOUS
  <2> QED BY <2>1, <2>2 DEF RecomputedVectors
<1> QED BY <1>1, <1>2, <1>3

(* What counting does, in terms of types, of the count and of the processed rows. *)
LEMMA CountedStep ==
    ASSUME TypeOK, NEW w \in Workers, task[w].log \in Actions, Counted(w)
    PROVE  /\ task[w].log \in logs
           /\ processed' = processed \cup {task[w].log}
           /\ preference' \in [count : Nat, vector : Vector]
           /\ preference'.count = preference.count + 1
           /\ counted' \subseteq Actions
           /\ preference'.vector = preference.vector \/ should_be_s3(preference'.count)
<1> DEFINE a == task[w].log
           n == preference.count + 1
<1>1. preference \in [count : Nat, vector : Vector] /\ preference.count \in Nat
      /\ preference.vector \in Vector /\ n \in Nat
  BY DEF TypeOK
<1>2. a \in logs /\ processed' = processed \cup {a}
  BY DEF Counted
<1>3. ASSUME NEW v \in IncrementalUpdates(preference.vector, a), should_be_s3(n),
             preference' = [count |-> n, vector |-> v], counted' = counted \cup {a}
      PROVE  /\ preference' \in [count : Nat, vector : Vector]
             /\ preference'.count = n /\ counted' \subseteq Actions
             /\ should_be_s3(preference'.count)
  <2>1. v \in Vector
    BY <1>1, VectorTypes
  <2> QED BY <1>1, <1>3, <2>1 DEF TypeOK
<1>4. ASSUME preference' = [preference EXCEPT !.count = n], UNCHANGED counted
      PROVE  /\ preference' \in [count : Nat, vector : Vector]
             /\ preference'.count = n /\ counted' \subseteq Actions
             /\ preference'.vector = preference.vector
  BY <1>1, <1>4 DEF TypeOK
<1> QED BY <1>2, <1>3, <1>4 DEF Counted

(* What a retry leaves in the queue and with the workers. *)
LEMMA RetryStep ==
    ASSUME TypeOK, NEW w \in Workers, task[w].log \in Actions, Retry(w)
    PROVE  /\ queue' \subseteq Message
           /\ \A m \in queue' : m \in queue \/ m = <<task[w].log, task[w].tries + 1>>
           /\ task[w].tries < MaxRetries => <<task[w].log, task[w].tries + 1>> \in queue'
           /\ queue \subseteq queue'
           /\ task' \in [Workers -> Task]
           /\ task'[w] = Free /\ \A v \in Workers \ {w} : task'[v] = task[v]
<1>1. task[w] \in Task /\ task[w].tries \in 0..MaxRetries /\ MaxRetries \in Nat
  BY DEF TypeOK, Task
<1>2. Free \in Task
  BY <1>1 DEF Free, Task
<1>3. task' \in [Workers -> Task] /\ task'[w] = Free /\ \A v \in Workers \ {w} : task'[v] = task[v]
  BY <1>2 DEF Retry, TypeOK
<1>4. task[w].tries < MaxRetries => <<task[w].log, task[w].tries + 1>> \in Message
  BY <1>1 DEF Message
<1> QED BY <1>3, <1>4 DEF Retry, TypeOK

(* The worker that retries is free, the others go on. *)
LEMMA RetryFrees ==
    ASSUME TypeOK, TaskShape, NEW w \in Workers, task[w].log \in Actions, Retry(w)
    PROVE  TaskShape'
<1>1. task'[w] = Free /\ \A v \in Workers \ {w} : task'[v] = task[v]
  BY RetryStep
<1>2. Free.pc = "free" /\ Free.log = None
  BY DEF Free
<1> QED BY <1>1, <1>2 DEF TaskShape

(* Reading a log row: who holds it afterwards. *)
LEMMA ReadStep ==
    ASSUME TypeOK, NEW w \in Workers, NEW m \in Message, ReadLog(w, m)
    PROVE  /\ task' \in [Workers -> Task]
           /\ \A v \in Workers \ {w} : task'[v] = task[v]
           /\ \/ /\ Unprocessed(m[1]) /\ task'[w].pc = "read" /\ task'[w].log = m[1]
                 /\ task'[w].tries = m[2]
              \/ ~Unprocessed(m[1]) /\ task'[w] = task[w]
           /\ queue' = queue \/ queue' = queue \ {m}
           /\ duplicates' = 0 => queue' = queue \ {m}
           /\ duplicates' \in 0..MaxMishaps
<1> DEFINE new == [pc |-> "read", log |-> m[1], tries |-> m[2], vec |-> m[1] \in embedded]
<1>1. m[1] \in Actions /\ m[2] \in 0..MaxRetries
  BY DEF Message
<1>2. new \in Task /\ new.pc = "read" /\ new.log = m[1] /\ new.tries = m[2]
  BY <1>1 DEF Task
<1>3. task' = IF Unprocessed(m[1]) THEN [task EXCEPT ![w] = new] ELSE task
  BY DEF ReadLog
<1> HIDE DEF new
<1>4. duplicates' \in 0..MaxMishaps /\ (duplicates' = 0 => queue' = queue \ {m})
      /\ (queue' = queue \/ queue' = queue \ {m})
  BY DEF ReadLog, TypeOK
<1> QED BY <1>2, <1>3, <1>4 DEF TypeOK

(* Types and shapes hold initially. *)
LEMMA InitTypes == Init => TypeOK /\ TaskShape
<1> SUFFICES ASSUME Init PROVE TypeOK /\ TaskShape
  OBVIOUS
<1>1. preference \in [count : Nat, vector : Vector] /\ batch.vector \in Vector
  BY VectorTypes DEF Init, NoPreference, NoBatch
<1>2. batch \in [pc : {"idle", "selected", "computed"}, vector : Vector]
  BY VectorTypes DEF Init, NoBatch
<1>3. Free \in Task
  BY DEF Free, Task
<1> QED BY <1>1, <1>2, <1>3 DEF Init, TypeOK, TaskShape, Free

(* Every step keeps the types and the workers' fields. *)
LEMMA NextTypes == TypeOK /\ TaskShape /\ [Next]_vars => TypeOK' /\ TaskShape'
<1> SUFFICES ASSUME TypeOK, TaskShape, [Next]_vars PROVE TypeOK' /\ TaskShape'
  OBVIOUS
<1> USE DEF rows, bounds
<1>1. ASSUME NEW a \in Actions, RecordAction(a) \/ LoseHook(a) \/ Embed(a) \/ Expire(a) \/ DeletePlace(a)
      PROVE  TypeOK' /\ TaskShape'
  BY <1>1 DEF TypeOK, TaskShape, RecordAction, LoseHook, Embed, Expire, DeletePlace
<1>2. ASSUME NEW a \in Actions, Enqueue(a) PROVE TypeOK' /\ TaskShape'
  <2>1. <<a, 0>> \in Message
    BY DEF Message
  <2> QED BY <1>2, <2>1 DEF TypeOK, TaskShape, Enqueue
<1>3. ASSUME NEW w \in Workers, NEW m \in Message, ReadLog(w, m) PROVE TypeOK' /\ TaskShape'
  <2>1. m[1] \in Actions
    BY DEF Message
  <2>2. TypeOK'
    BY <1>3, ReadStep DEF TypeOK, ReadLog
  <2>3. TaskShape'
    BY <1>3, <2>1, ReadStep DEF TaskShape
  <2> QED BY <2>2, <2>3
<1>4. ASSUME NEW w \in Workers, task[w].pc = "read",
             ApplyAction(w) \/ ApplyToDeleted(w) \/ TaskFails(w) \/ WorkerDies(w)
      PROVE  TypeOK' /\ TaskShape'
  <2>1. task[w].log \in Actions
    BY <1>4 DEF TaskShape
  <2>2. Free \in Task
    BY DEF Free, Task
  <2>3. CASE ApplyAction(w)
    <3>1. TypeOK'
      BY <2>1, <2>2, <2>3, CountedStep DEF TypeOK, ApplyAction
    <3>2. TaskShape'
      BY <2>3 DEF TypeOK, TaskShape, ApplyAction, Free
    <3> QED BY <3>1, <3>2
  <2>4. CASE ApplyToDeleted(w)
    <3>1. Retry(w) /\ UNCHANGED <<rows, processed, hooks, preference, batch, feed, counted, bounds>>
      BY <2>4 DEF ApplyToDeleted
    <3>2. TypeOK'
      <4>1. queue' \subseteq Message /\ task' \in [Workers -> Task]
        BY <2>1, <3>1, RetryStep
      <4> QED BY <3>1, <4>1 DEF TypeOK
    <3>3. TaskShape'
      BY <2>1, <3>1, RetryFrees
    <3> QED BY <3>2, <3>3
  <2>5. CASE TaskFails(w)
    <3>1. UNCHANGED <<logs, gone, expired, embedded, hooks, batch, feed, losses, duplicates>>
          /\ Retry(w) /\ failures' = failures + 1 /\ failures < MaxFailures
      BY <2>5 DEF TaskFails
    <3>2. /\ processed' \subseteq Actions /\ counted' \subseteq Actions
          /\ preference' \in [count : Nat, vector : Vector]
      BY <2>1, <2>5, CountedStep DEF TypeOK, TaskFails
    <3>3. TypeOK'
      <4>1. queue' \subseteq Message /\ task' \in [Workers -> Task]
        BY <2>1, <3>1, RetryStep
      <4> QED BY <3>1, <3>2, <4>1 DEF TypeOK
    <3>4. TaskShape'
      BY <2>1, <3>1, RetryFrees
    <3> QED BY <3>3, <3>4
  <2>6. CASE WorkerDies(w)
    BY <2>2, <2>6 DEF TypeOK, TaskShape, WorkerDies, Free
  <2> QED BY <1>4, <2>3, <2>4, <2>5, <2>6
<1>5. CASE BatchNext
  <2>1. NoBatch \in [pc : {"idle", "selected", "computed"}, vector : Vector]
    BY VectorTypes DEF NoBatch
  <2>2. TaskShape'
    BY <1>5 DEF BatchNext, BatchSelect, BatchCompute, BatchSave, BatchDies, TaskShape
  <2>3. CASE BatchSelect
    BY <2>2, <2>3 DEF TypeOK, BatchSelect
  <2>4. CASE BatchCompute
    <3>1. \A v \in RecomputedVectors :
              [pc |-> "computed", vector |-> v] \in [pc : {"idle", "selected", "computed"}, vector : Vector]
      BY VectorTypes
    <3> QED BY <2>2, <2>4, <3>1 DEF TypeOK, BatchCompute
  <2>5. CASE BatchSave
    BY <2>1, <2>2, <2>5 DEF TypeOK, BatchSave
  <2>6. CASE BatchDies
    BY <2>1, <2>2, <2>6 DEF TypeOK, BatchDies
  <2> QED BY <1>5, <2>2, <2>3, <2>4, <2>5, <2>6 DEF BatchNext
<1>6. CASE FeedNext
  BY <1>6 DEF FeedNext, DetermineStage, ReadVector, TypeOK, TaskShape
<1>7. CASE UNCHANGED vars
  BY <1>7 DEF vars, TypeOK, TaskShape
<1>8. \A w \in Workers : ApplyAction(w) \/ ApplyToDeleted(w) \/ TaskFails(w) \/ WorkerDies(w)
                             => task[w].pc = "read"
  BY DEF ApplyAction, ApplyToDeleted, TaskFails, WorkerDies
<1> QED BY <1>1, <1>2, <1>3, <1>4, <1>5, <1>6, <1>7, <1>8 DEF Next, TaskNext

(* Every variable keeps its type: in particular no message is retried more than *)
(* max_retries times. *)
THEOREM TypeCorrect == Spec => []TypeOK
<1>1. TypeOK /\ TaskShape /\ [Next]_vars => TypeOK' /\ TaskShape'
  BY NextTypes
<1> QED BY <1>1, InitTypes, PTL DEF Spec

-----------------------------------------------------------------------------
(* The threshold *)

(* The count never goes down, and the batch selects by it. *)
LEMMA ThresholdStep ==
    TypeOK /\ TaskShape /\ VectorOnlyAfterThreshold /\ BatchAfterThreshold /\ [Next]_vars
        => VectorOnlyAfterThreshold' /\ BatchAfterThreshold'
<1> SUFFICES ASSUME TypeOK, TaskShape, VectorOnlyAfterThreshold, BatchAfterThreshold, [Next]_vars
             PROVE  VectorOnlyAfterThreshold' /\ BatchAfterThreshold'
  OBVIOUS
<1> USE DEF VectorOnlyAfterThreshold, BatchAfterThreshold
<1>1. CASE UNCHANGED <<preference, batch>>
  BY <1>1 DEF should_be_s3
<1>2. ASSUME NEW w \in Workers, Counted(w), task[w].pc = "read", UNCHANGED batch
      PROVE  VectorOnlyAfterThreshold' /\ BatchAfterThreshold'
  <2>1. /\ preference'.count = preference.count + 1 /\ preference.count \in Nat
        /\ preference'.vector = preference.vector \/ should_be_s3(preference'.count)
    BY <1>2, CountedStep DEF TypeOK, TaskShape
  <2> QED BY <1>2, <2>1 DEF should_be_s3
<1>3. CASE BatchSelect
  BY <1>3 DEF BatchSelect, should_be_s3
<1>4. CASE BatchCompute
  BY <1>4 DEF BatchCompute, should_be_s3
<1>5. CASE BatchSave
  <2>1. should_be_s3(preference.count) /\ preference'.count = preference.count
    BY <1>5 DEF BatchSave, TypeOK
  <2> QED BY <2>1 DEF should_be_s3
<1>6. CASE BatchDies
  BY <1>6 DEF BatchDies, NoBatch, should_be_s3
<1>7. ASSUME NEW w \in Workers, ApplyAction(w) \/ TaskFails(w)
      PROVE  VectorOnlyAfterThreshold' /\ BatchAfterThreshold'
  BY <1>1, <1>2, <1>7 DEF ApplyAction, TaskFails
<1>8. [Next]_vars => \/ UNCHANGED <<preference, batch>> \/ BatchNext
                     \/ \E w \in Workers : ApplyAction(w) \/ TaskFails(w)
  BY DEF Next, TaskNext, FeedNext, RecordAction, Enqueue, LoseHook, ReadLog, ApplyToDeleted,
     WorkerDies, Embed, Expire, DeletePlace, DetermineStage, ReadVector, vars
<1> QED BY <1>1, <1>3, <1>4, <1>5, <1>6, <1>7, <1>8 DEF BatchNext

(* The vector stays NULL until action_count has reached the threshold. *)
THEOREM VectorWaits == Spec => []VectorOnlyAfterThreshold
<1>1. Init => TypeOK /\ TaskShape /\ VectorOnlyAfterThreshold /\ BatchAfterThreshold
  BY InitTypes DEF Init, VectorOnlyAfterThreshold, BatchAfterThreshold, NoPreference, NoBatch
<1>2. TypeOK /\ TaskShape /\ [Next]_vars => TypeOK' /\ TaskShape'
  BY NextTypes
<1>3. TypeOK /\ TaskShape /\ VectorOnlyAfterThreshold /\ BatchAfterThreshold /\ [Next]_vars
          => VectorOnlyAfterThreshold' /\ BatchAfterThreshold'
  BY ThresholdStep
<1> QED BY <1>1, <1>2, <1>3, PTL DEF Spec

-----------------------------------------------------------------------------
(* Nothing is stranded *)

(* Rows are only ever moved from logs to gone, so what refers to one stays good. *)
LEMMA RowsStep ==
    TypeOK /\ TaskShape /\ RowsKnown /\ [Next]_vars => RowsKnown'
<1> SUFFICES ASSUME TypeOK, TaskShape, RowsKnown, [Next]_vars PROVE RowsKnown'
  OBVIOUS
<1> USE DEF RowsKnown, rows, bounds
<1>1. ASSUME NEW a \in Actions,
             RecordAction(a) \/ LoseHook(a) \/ Embed(a) \/ Expire(a) \/ DeletePlace(a)
      PROVE  RowsKnown'
  BY <1>1 DEF RecordAction, LoseHook, Embed, Expire, DeletePlace
<1>2. ASSUME NEW a \in Actions, Enqueue(a) PROVE RowsKnown'
  <2>1. <<a, 0>>[1] = a
    OBVIOUS
  <2> QED BY <1>2, <2>1 DEF Enqueue
<1>3. ASSUME NEW w \in Workers, NEW m \in Message, ReadLog(w, m) PROVE RowsKnown'
  <2>1. m \in queue /\ UNCHANGED <<logs, gone, processed, hooks>>
    BY <1>3 DEF ReadLog, rows
  <2> QED BY <1>3, <2>1, ReadStep
<1>4. ASSUME NEW w \in Workers, task[w].pc = "read",
             ApplyAction(w) \/ ApplyToDeleted(w) \/ TaskFails(w) \/ WorkerDies(w)
      PROVE  RowsKnown'
  <2>1. task[w].log \in logs \cup gone /\ task[w].log \in Actions
    BY <1>4 DEF TaskShape
  <2>2. processed' = processed \/ processed' = processed \cup {task[w].log}
    BY <1>4 DEF ApplyAction, ApplyToDeleted, TaskFails, WorkerDies, Counted
  <2>3. UNCHANGED <<logs, gone, hooks>>
    BY <1>4 DEF ApplyAction, ApplyToDeleted, TaskFails, WorkerDies
  <2>4. task'[w].pc = "free" /\ \A v \in Workers \ {w} : task'[v] = task[v]
    BY <1>4 DEF ApplyAction, ApplyToDeleted, TaskFails, WorkerDies, Retry, TypeOK, Free
  <2>5. \A m \in queue' : m \in queue \/ m[1] = task[w].log
    BY <1>4 DEF ApplyAction, ApplyToDeleted, TaskFails, WorkerDies, Retry
  <2> QED BY <2>1, <2>2, <2>3, <2>4, <2>5
<1>5. CASE BatchNext \/ FeedNext \/ UNCHANGED vars
  BY <1>5 DEF BatchNext, FeedNext, BatchSelect, BatchCompute, BatchSave, BatchDies,
     DetermineStage, ReadVector, vars
<1>6. \A w \in Workers : ApplyAction(w) \/ ApplyToDeleted(w) \/ TaskFails(w) \/ WorkerDies(w)
                             => task[w].pc = "read"
  BY DEF ApplyAction, ApplyToDeleted, TaskFails, WorkerDies
<1> QED BY <1>1, <1>2, <1>3, <1>4, <1>5, <1>6 DEF Next, TaskNext

(* Who holds a row, and what a retry costs. *)
LEMMA StrandedStep ==
    TypeOK /\ TaskShape /\ RowsKnown /\ TriesPaid /\ NothingStranded /\ [Next]_vars
        => TriesPaid' /\ NothingStranded'
<1> SUFFICES ASSUME TypeOK, TaskShape, RowsKnown, TriesPaid, NothingStranded, [Next]_vars
             PROVE  TriesPaid' /\ NothingStranded'
  OBVIOUS
<1> USE DEF TriesPaid, NothingStranded, rows, bounds
<1>0. /\ failures \in Nat /\ losses \in Nat /\ logs \subseteq Actions /\ queue \subseteq Message
      /\ \A w \in Workers : task[w].tries \in Nat
      /\ \A m \in Message : m[1] \in Actions /\ m[2] \in Nat
  BY DEF TypeOK, Task, Message
<1>1. ASSUME UNCHANGED <<processed, hooks, queue, task, failures, losses>>, logs' \subseteq logs
      PROVE  TriesPaid' /\ NothingStranded'
  BY <1>1
<1>2. ASSUME NEW a \in Actions, RecordAction(a) PROVE TriesPaid' /\ NothingStranded'
  <2>1. /\ \A m \in queue : m[1] # a
        /\ \A w \in Workers : task[w].log # a
    BY <1>2 DEF RecordAction, RowsKnown, TaskShape, TypeOK, Task
  <2> QED BY <1>0, <1>2, <2>1 DEF RecordAction
<1>3. ASSUME NEW a \in Actions, Enqueue(a) PROVE TriesPaid' /\ NothingStranded'
  <2>1. TriesPaid'
    BY <1>0, <1>3 DEF Enqueue
  <2>2. NothingStranded'
    <3>1. <<a, 0>> \in queue' /\ <<a, 0>>[1] = a
      BY <1>3 DEF Enqueue
    <3> QED BY <1>3, <3>1 DEF Enqueue
  <2> QED BY <2>1, <2>2
<1>4. ASSUME NEW w \in Workers, NEW m \in Message, ReadLog(w, m) PROVE TriesPaid' /\ NothingStranded'
  <2>1. m \in queue /\ task[w].pc = "free" /\ task[w].log = None
        /\ UNCHANGED <<logs, processed, hooks, failures, losses>>
    BY <1>4 DEF ReadLog, TaskShape
  <2>2. /\ \A v \in Workers \ {w} : task'[v] = task[v]
        /\ \/ Unprocessed(m[1]) /\ task'[w].log = m[1] /\ task'[w].tries = m[2]
           \/ ~Unprocessed(m[1]) /\ task'[w] = task[w]
        /\ queue' = queue \/ queue' = queue \ {m}
    BY <1>4, ReadStep
  <2>3. TriesPaid'
    BY <2>1, <2>2
  <2>4. ASSUME NEW a \in logs \ processed, losses = 0, failures <= MaxRetries
        PROVE  a \in hooks \/ (\E n \in queue' : n[1] = a) \/ (\E v \in Workers : task'[v].log = a)
    <3>1. CASE a \in hooks
      BY <3>1
    <3>2. ASSUME NEW n \in queue, n[1] = a PROVE (\E k \in queue' : k[1] = a) \/ task'[w].log = a
      BY <2>2, <2>4, <3>2 DEF Unprocessed
    <3>3. ASSUME NEW v \in Workers, task[v].log = a PROVE task'[v].log = a
      <4>1. v # w
        BY <2>1, <2>4, <3>3, <1>0
      <4> QED BY <2>2, <3>3, <4>1
    <3> QED BY <2>4, <3>1, <3>2, <3>3
  <2> QED BY <2>1, <2>3, <2>4
<1>5. ASSUME NEW w \in Workers, ApplyAction(w) PROVE TriesPaid' /\ NothingStranded'
  <2>1. /\ processed' = processed \cup {task[w].log}
        /\ UNCHANGED <<logs, hooks, queue, failures, losses>>
        /\ task'[w].log = None /\ \A v \in Workers \ {w} : task'[v] = task[v]
    BY <1>5 DEF ApplyAction, Counted, TypeOK, Free
  <2> QED BY <1>0, <2>1
<1>6. ASSUME NEW w \in Workers, ApplyToDeleted(w) PROVE TriesPaid' /\ NothingStranded'
  <2>1. task[w].log \in Actions /\ task[w].log \notin logs
        /\ UNCHANGED <<logs, processed, hooks, failures, losses>>
    BY <1>6 DEF ApplyToDeleted, TaskShape
  <2>2. /\ \A m \in queue' : m \in queue \/ m = <<task[w].log, task[w].tries + 1>>
        /\ queue \subseteq queue'
        /\ task'[w] = Free /\ \A v \in Workers \ {w} : task'[v] = task[v]
    BY <1>6, <2>1, RetryStep DEF ApplyToDeleted
  <2>3. Free.log = None /\ None \notin logs
    BY <1>0 DEF Free
  <2> QED BY <2>1, <2>2, <2>3
<1>7. ASSUME NEW w \in Workers, TaskFails(w) PROVE TriesPaid' /\ NothingStranded'
  <2> DEFINE a == task[w].log
             again == <<a, task[w].tries + 1>>
  <2>1. a \in Actions /\ failures' = failures + 1 /\ UNCHANGED <<logs, hooks, losses>>
        /\ (processed' = processed \/ processed' = processed \cup {a})
    BY <1>7 DEF TaskFails, Counted, TaskShape
  <2>2. /\ \A m \in queue' : m \in queue \/ m = again
        /\ task[w].tries < MaxRetries => again \in queue'
        /\ queue \subseteq queue'
        /\ task'[w] = Free /\ \A v \in Workers \ {w} : task'[v] = task[v]
    BY <1>7, <2>1, RetryStep DEF TaskFails
  <2>3. Free.log = None /\ None \notin logs
    BY <1>0 DEF Free
  <2>4. TriesPaid'
    <3>1. ASSUME NEW m \in queue', m[1] \in logs PROVE m[2] <= failures + 1
      <4>1. CASE m \in queue
        BY <1>0, <3>1, <4>1
      <4>2. CASE m = again
        BY <1>0, <3>1, <4>2
      <4> QED BY <2>2, <4>1, <4>2
    <3>2. ASSUME NEW v \in Workers, task'[v].log \in logs PROVE task'[v].tries <= failures + 1
      <4>1. v # w
        BY <2>2, <2>3, <3>2
      <4>2. task[v].tries <= failures
        BY <2>2, <3>2, <4>1
      <4> QED BY <1>0, <2>2, <4>1, <4>2
    <3> QED BY <2>1, <3>1, <3>2
  <2>5. ASSUME NEW b \in logs \ processed', losses = 0, failures + 1 <= MaxRetries
        PROVE  b \in hooks \/ (\E n \in queue' : n[1] = b) \/ (\E v \in Workers : task'[v].log = b)
    <3>1. CASE b = a
      <4>1. task[w].tries <= failures
        BY <3>1
      <4>2. again \in queue'
        BY <1>0, <2>2, <2>5, <4>1
      <4> QED BY <3>1, <4>2
    <3>2. CASE b # a
      <4>1. failures <= MaxRetries /\ b \in logs \ processed
        BY <1>0, <2>1, <2>5
      <4>2. ASSUME NEW v \in Workers, task[v].log = b PROVE task'[v].log = b
        BY <2>2, <3>2, <4>2
      <4> QED BY <2>2, <2>5, <4>1, <4>2
    <3> QED BY <3>1, <3>2
  <2> QED BY <2>1, <2>4, <2>5
<1>8. ASSUME NEW w \in Workers, WorkerDies(w) PROVE TriesPaid' /\ NothingStranded'
  <2>1. /\ UNCHANGED <<logs, processed, hooks, queue, failures>> /\ losses' = losses + 1
        /\ task'[w].log = None /\ \A v \in Workers \ {w} : task'[v] = task[v]
    BY <1>8 DEF WorkerDies, TypeOK, Free
  <2> QED BY <1>0, <2>1
<1>9. ASSUME NEW a \in Actions, LoseHook(a) PROVE TriesPaid' /\ NothingStranded'
  BY <1>0, <1>9 DEF LoseHook
<1>10. ASSUME NEW a \in Actions, Embed(a) \/ Expire(a) \/ DeletePlace(a)
       PROVE  TriesPaid' /\ NothingStranded'
  BY <1>1, <1>10 DEF Embed, Expire, DeletePlace
<1>11. CASE BatchNext \/ FeedNext \/ UNCHANGED vars
  <2>1. UNCHANGED <<logs, processed, hooks, queue, task, failures>>
        /\ (losses' = losses \/ losses' = losses + 1)
    BY <1>11 DEF BatchNext, FeedNext, BatchSelect, BatchCompute, BatchSave, BatchDies,
       DetermineStage, ReadVector, vars
  <2> QED BY <1>0, <2>1
<1> QED BY <1>2, <1>3, <1>4, <1>5, <1>6, <1>7, <1>8, <1>9, <1>10, <1>11 DEF Next, TaskNext

(* As long as nothing crashed and tasks failed no more than max_retries times, *)
(* every unprocessed action is still on its way. *)
THEOREM NoneStranded == Spec => []NothingStranded
<1>1. Init => TypeOK /\ TaskShape /\ RowsKnown /\ TriesPaid /\ NothingStranded
  <2> SUFFICES ASSUME Init PROVE RowsKnown /\ TriesPaid /\ NothingStranded
    BY InitTypes
  <2>1. logs = {} /\ queue = {} /\ processed = {} /\ hooks = {}
        /\ \A w \in Workers : task[w].pc = "free"
    BY DEF Init, Free
  <2> QED BY <2>1 DEF RowsKnown, TriesPaid, NothingStranded
<1>2. TypeOK /\ TaskShape /\ [Next]_vars => TypeOK' /\ TaskShape'
  BY NextTypes
<1>3. TypeOK /\ TaskShape /\ RowsKnown /\ TriesPaid /\ NothingStranded /\ [Next]_vars
          => TriesPaid' /\ NothingStranded'
  BY StrandedStep
<1>4. TypeOK /\ TaskShape /\ RowsKnown /\ [Next]_vars => RowsKnown'
  BY RowsStep
<1> QED BY <1>1, <1>2, <1>3, <1>4, PTL DEF Spec

-----------------------------------------------------------------------------
(* Counting once *)

(* A row moves from the hook to a message to a worker, and is marked on the way out. *)
LEMMA OnePlaceStep ==
    ASSUME duplicates' = 0, TypeOK, TaskShape, RowsKnown, OnePlace, NotYetProcessed, [Next]_vars
    PROVE  OnePlace' /\ NotYetProcessed'
<1> USE DEF OnePlace, NotYetProcessed
<1>0. /\ logs \cup gone \subseteq Actions /\ queue \subseteq Message
      /\ \A m \in Message : m[1] \in Actions
      /\ \A w \in Workers : task[w].log = None \/ task[w].pc = "read"
      /\ processed \subseteq Actions
  BY DEF TypeOK, TaskShape, Task, Message
<1>1. ASSUME NEW a \in Actions, RecordAction(a) PROVE OnePlace' /\ NotYetProcessed'
  <2>1. a \notin processed /\ (\A m \in queue : m[1] # a)
        /\ \A w \in Workers : task[w].pc = "read" => task[w].log # a
    BY <1>1 DEF RecordAction, RowsKnown
  <2> QED BY <1>1, <2>1 DEF RecordAction
<1>2. ASSUME NEW a \in Actions, Enqueue(a) PROVE OnePlace' /\ NotYetProcessed'
  <2>1. a \in hooks /\ hooks' = hooks \ {a} /\ UNCHANGED <<processed, task>>
        /\ queue' = queue \cup {<<a, 0>>} /\ <<a, 0>>[1] = a
    BY <1>2 DEF Enqueue
  <2>2. \A m \in queue' : m \in queue \/ m = <<a, 0>>
    BY <2>1
  <2>3. \A m \in queue : m[1] # a
    BY <2>1
  <2>4. \A w \in Workers : task[w].log # a
    BY <1>0, <2>1
  <2>5. \A m \in queue' : m[1] \notin hooks'
    BY <2>1, <2>2
  <2>6. \A m, n \in queue' : m[1] = n[1] => m = n
    BY <2>1, <2>2, <2>3
  <2>7. \A m \in queue', w \in Workers : m[1] # task'[w].log
    BY <2>1, <2>2, <2>4
  <2> QED BY <2>1, <2>5, <2>6, <2>7
<1>3. ASSUME NEW w \in Workers, NEW m \in Message, ReadLog(w, m) PROVE OnePlace' /\ NotYetProcessed'
  <2>1. m \in queue /\ UNCHANGED <<logs, gone, processed, hooks>>
    BY <1>3 DEF ReadLog, rows
  <2>2. /\ \A v \in Workers \ {w} : task'[v] = task[v]
        /\ \/ Unprocessed(m[1]) /\ task'[w].pc = "read" /\ task'[w].log = m[1]
           \/ ~Unprocessed(m[1]) /\ task'[w] = task[w]
        /\ queue' = queue \ {m}
    BY <1>3, ReadStep
  <2>3. \A n \in queue' : n \in queue /\ n[1] # m[1]
    BY <2>1, <2>2
  <2>4. CASE task'[w] = task[w]
    <3>1. \A v \in Workers : task'[v] = task[v]
      BY <2>2, <2>4
    <3> QED BY <2>1, <2>3, <3>1
  <2>5. CASE Unprocessed(m[1]) /\ task'[w].pc = "read" /\ task'[w].log = m[1]
    <3>1. \A v \in Workers : \/ v = w /\ task'[v].log = m[1]
                             \/ v # w /\ task'[v] = task[v]
      BY <2>2, <2>5
    <3>2. m[1] \notin hooks /\ m[1] \notin processed
      BY <2>1, <2>5 DEF Unprocessed
    <3>3. \A n \in queue', v \in Workers : n[1] # task'[v].log
      BY <2>3, <3>1
    <3>4. \A v, u \in Workers : v # u /\ task'[v].pc = "read" => task'[v].log # task'[u].log
      BY <2>1, <3>1
    <3>5. \A v \in Workers : /\ task'[v].log \notin processed
                             /\ task'[v].pc = "read" => task'[v].log \notin hooks
      BY <3>1, <3>2
    <3> QED BY <2>1, <2>3, <3>3, <3>4, <3>5
  <2> QED BY <2>2, <2>4, <2>5
<1>4. ASSUME NEW w \in Workers, task[w].pc = "read",
             ApplyAction(w) \/ ApplyToDeleted(w) \/ TaskFails(w) \/ WorkerDies(w)
      PROVE  OnePlace' /\ NotYetProcessed'
  <2> DEFINE a == task[w].log
  <2>1. a \in logs \cup gone /\ a \in Actions /\ a \notin hooks
    BY <1>4 DEF TaskShape, RowsKnown
  <2>2. processed' = processed \/ processed' = processed \cup {a}
    BY <1>4 DEF ApplyAction, ApplyToDeleted, TaskFails, WorkerDies, Counted
  <2>3. UNCHANGED hooks
    BY <1>4 DEF ApplyAction, ApplyToDeleted, TaskFails, WorkerDies
  <2>4. task'[w].pc = "free" /\ task'[w].log = None /\ \A v \in Workers \ {w} : task'[v] = task[v]
    BY <1>4 DEF ApplyAction, ApplyToDeleted, TaskFails, WorkerDies, Retry, TypeOK, Free
  <2>5. /\ queue \subseteq queue'
        /\ \A m \in queue' : m \in queue \/ m = <<a, task[w].tries + 1>>
    BY <1>4 DEF ApplyAction, ApplyToDeleted, TaskFails, WorkerDies, Retry
  <2>6. <<a, task[w].tries + 1>>[1] = a
    OBVIOUS
  <2> DEFINE again == <<a, task[w].tries + 1>>
  <2> HIDE DEF again
  <2>7. again[1] = a /\ \A m \in queue' : m \in queue \/ m = again
    BY <2>5, <2>6 DEF again
  <2>8. \A v \in Workers \ {w} : task'[v] = task[v] /\ task[v].log # a
    BY <1>0, <1>4, <2>1, <2>4
  <2>9. \A m \in queue : m[1] # a
    OBVIOUS
  <2> HIDE DEF a
  <2>10. \A v \in Workers : v = w \/ (task'[v] = task[v] /\ task[v].log # a)
    BY <2>8
  <2>11. \A m \in queue' : m[1] \notin hooks'
    BY <2>1, <2>3, <2>7
  <2>12. \A v \in Workers : task'[v].pc = "read" => task'[v].log \notin hooks'
    BY <2>3, <2>4, <2>10
  <2>13. \A m, n \in queue' : m[1] = n[1] => m = n
    BY <2>7, <2>9
  <2>14. \A m \in queue', v \in Workers : m[1] # task'[v].log
    BY <1>0, <2>1, <2>4, <2>7, <2>9, <2>10
  <2>15. \A v, u \in Workers : v # u /\ task'[v].pc = "read" => task'[v].log # task'[u].log
    <3> SUFFICES ASSUME NEW v \in Workers, NEW u \in Workers, v # u, task'[v].pc = "read"
                 PROVE  task'[v].log # task'[u].log
      OBVIOUS
    <3>1. v # w /\ task'[v] = task[v]
      BY <2>4, <2>10
    <3>2. CASE u = w
      BY <2>4, <3>1, <3>2 DEF TaskShape
    <3>3. CASE u # w
      BY <2>10, <3>1, <3>3
    <3> QED BY <3>2, <3>3
  <2>16. hooks' \cap processed' = {}
    BY <2>1, <2>2, <2>3
  <2>17. \A v \in Workers : task'[v].log \notin processed'
    BY <1>0, <2>1, <2>2, <2>4, <2>10
  <2> QED BY <2>11, <2>12, <2>13, <2>14, <2>15, <2>16, <2>17
<1>5. ASSUME NEW a \in Actions, LoseHook(a) \/ Embed(a) \/ Expire(a) \/ DeletePlace(a)
      PROVE  OnePlace' /\ NotYetProcessed'
  BY <1>5 DEF LoseHook, Embed, Expire, DeletePlace, rows, bounds
<1>6. CASE BatchNext \/ FeedNext \/ UNCHANGED vars
  BY <1>6 DEF BatchNext, FeedNext, BatchSelect, BatchCompute, BatchSave, BatchDies,
     DetermineStage, ReadVector, vars, rows, bounds
<1>7. \A w \in Workers : ApplyAction(w) \/ ApplyToDeleted(w) \/ TaskFails(w) \/ WorkerDies(w)
                             => task[w].pc = "read"
  BY DEF ApplyAction, ApplyToDeleted, TaskFails, WorkerDies
<1> QED BY <1>1, <1>2, <1>3, <1>4, <1>5, <1>6, <1>7 DEF Next, TaskNext

(* The count goes up exactly when a row is marked, and a row is marked once. *)
LEMMA CountStep ==
    ASSUME TypeOK, TaskShape, NotYetProcessed, CountedOnce, [Next]_vars
    PROVE  CountedOnce'
<1> USE DEF CountedOnce
<1>1. CASE UNCHANGED <<processed, preference>>
  BY <1>1
<1>2. ASSUME NEW w \in Workers, task[w].pc = "read", Counted(w)
      PROVE  CountedOnce'
  <2>1. /\ processed' = processed \cup {task[w].log}
        /\ preference'.count = preference.count + 1
    BY <1>2, CountedStep DEF TaskShape
  <2>2. task[w].log \notin processed
    BY DEF NotYetProcessed
  <2>3. IsFiniteSet(processed') /\ Cardinality(processed') = Cardinality(processed) + 1
    BY <2>1, <2>2, FS_AddElement
  <2> QED BY <2>1, <2>3
<1>3. ASSUME NEW w \in Workers, ApplyAction(w) \/ TaskFails(w)
      PROVE  CountedOnce'
  BY <1>1, <1>2, <1>3 DEF ApplyAction, TaskFails
<1>4. CASE BatchSave
  BY <1>4 DEF BatchSave, TypeOK
<1>5. [Next]_vars => \/ UNCHANGED <<processed, preference>> \/ BatchSave
                     \/ \E w \in Workers : ApplyAction(w) \/ TaskFails(w)
  BY DEF Next, TaskNext, BatchNext, FeedNext, RecordAction, Enqueue, LoseHook, ReadLog, ApplyToDeleted,
     WorkerDies, Embed, Expire, DeletePlace, BatchSelect, BatchCompute, BatchDies,
     DetermineStage, ReadVector, vars
<1> QED BY <1>1, <1>3, <1>4, <1>5

(* Only another delivery of a message changes the number of duplicates. *)
LEMMA DuplicatesStep == TypeOK /\ [Next]_vars /\ duplicates' = 0 => duplicates = 0
<1> SUFFICES ASSUME TypeOK, [Next]_vars PROVE duplicates' = duplicates \/ duplicates' # 0
  OBVIOUS
<1>1. ASSUME NEW w \in Workers, NEW m \in Message, ReadLog(w, m)
      PROVE  duplicates' = duplicates \/ duplicates' # 0
  BY <1>1 DEF ReadLog, TypeOK
<1>2. duplicates' = duplicates \/ \E w \in Workers, m \in Message : ReadLog(w, m)
  BY DEF Next, TaskNext, BatchNext, FeedNext, RecordAction, Enqueue, LoseHook, ApplyAction,
     ApplyToDeleted, TaskFails, WorkerDies, Embed, Expire, DeletePlace, BatchSelect,
     BatchCompute, BatchSave, BatchDies, DetermineStage, ReadVector, vars, bounds
<1> QED BY <1>1, <1>2

(* Hence the invariant, on which the two theorems below rest. *)
LEMMA CountInvariant == Init => CountInv
<1> SUFFICES ASSUME Init PROVE CountInv
  OBVIOUS
<1>1. RowsKnown /\ OnePlace /\ NotYetProcessed
  BY DEF Init, RowsKnown, OnePlace, NotYetProcessed, Free
<1>2. CountedOnce
  BY FS_EmptySet DEF Init, CountedOnce, NoPreference
<1> QED BY <1>1, <1>2, InitTypes DEF CountInv

LEMMA CountInvStep == CountInv /\ [Next]_vars => CountInv'
<1> SUFFICES ASSUME CountInv, [Next]_vars PROVE CountInv'
  OBVIOUS
<1>1. TypeOK' /\ TaskShape' /\ RowsKnown'
  BY NextTypes, RowsStep DEF CountInv
<1>2. ASSUME duplicates' = 0 PROVE OnePlace' /\ NotYetProcessed' /\ CountedOnce'
  <2>1. TypeOK /\ TaskShape /\ RowsKnown /\ OnePlace /\ NotYetProcessed /\ CountedOnce
    BY <1>2, DuplicatesStep DEF CountInv
  <2> QED BY <1>2, <2>1, OnePlaceStep, CountStep
<1> QED BY <1>1, <1>2 DEF CountInv

(* As long as the broker delivers each message once, every processed action has *)
(* been counted once, however often its task failed and was retried. *)
THEOREM CountIsExact == Spec => []CountExact
<1>1. CountInv => CountExact
  BY DEF CountInv, CountedOnce, CountExact
<1> QED BY <1>1, CountInvariant, CountInvStep, PTL DEF Spec

-----------------------------------------------------------------------------
(* How often an action is in the vector *)

\* An action that has been added by its task may have been there by the batch already.
Adds(a) == IF a \in counted THEN 2 ELSE 1

AddedSeldom == duplicates = 0 => \A a \in Actions : preference.vector.sum[a] <= Adds(a)

\* The batch adds each row once, and a task adds what it marks.
BatchOnce == \A a \in Actions : batch.vector.sum[a] <= 1
AddedMarked == counted \subseteq processed

AddedInv == AddedSeldom /\ BatchOnce /\ AddedMarked

(* What counting an action does to the sums. *)
LEMMA CountedSums ==
    ASSUME TypeOK, NEW w \in Workers, task[w].log \in Actions, Counted(w)
    PROVE  LET added == [preference.vector.sum EXCEPT ![task[w].log] = @ + 1] IN
           \/ preference'.vector.sum = added /\ counted' = counted \cup {task[w].log}
           \/ preference'.vector.sum = preference.vector.sum /\ counted' = counted
<1> DEFINE a == task[w].log
           added == [preference.vector.sum EXCEPT ![a] = @ + 1]
<1>1. \A v \in IncrementalUpdates(preference.vector, a) : v.sum = added
  BY DEF IncrementalUpdates
<1>2. \/ /\ \E v \in IncrementalUpdates(preference.vector, a) :
               preference' = [count |-> preference.count + 1, vector |-> v]
         /\ counted' = counted \cup {a}
      \/ /\ preference' = [preference EXCEPT !.count = preference.count + 1]
         /\ counted' = counted
  BY Zenon DEF Counted
<1> HIDE DEF added, a
<1>3. CASE \E v \in IncrementalUpdates(preference.vector, a) :
             preference' = [count |-> preference.count + 1, vector |-> v]
  <2>1. preference'.vector.sum = added
    BY <1>1, <1>3
  <2> QED BY <1>2, <2>1 DEF TypeOK, added, a
<1>4. CASE preference' = [preference EXCEPT !.count = preference.count + 1] /\ counted' = counted
  BY <1>4 DEF TypeOK, added, a
<1> QED BY <1>2, <1>3, <1>4

LEMMA AddedStep == CountInv /\ AddedInv /\ [Next]_vars => AddedInv'
<1> SUFFICES ASSUME CountInv, AddedInv, [Next]_vars PROVE AddedInv'
  OBVIOUS
<1>1. TypeOK /\ TaskShape /\ (duplicates = 0 => NotYetProcessed)
  BY DEF CountInv
<1>2. duplicates' = 0 => duplicates = 0
  BY <1>1, DuplicatesStep
<1>3. \A a \in Actions : preference.vector.sum[a] \in Nat
  BY <1>1 DEF TypeOK, Vector
<1>4. CASE UNCHANGED <<processed, preference, counted, batch>>
  BY <1>2, <1>4 DEF AddedInv, AddedSeldom, Adds, BatchOnce, AddedMarked
<1>5. ASSUME NEW w \in Workers, task[w].pc = "read", Counted(w), UNCHANGED batch
      PROVE  AddedInv'
  <2> DEFINE x == task[w].log
             added == [preference.vector.sum EXCEPT ![x] = @ + 1]
  <2>1. x \in Actions /\ processed' = processed \cup {x}
    BY <1>1, <1>5, CountedStep DEF TaskShape
  <2>2. \/ preference'.vector.sum = added /\ counted' = counted \cup {x}
        \/ preference'.vector.sum = preference.vector.sum /\ counted' = counted
    BY <1>1, <1>5, <2>1, CountedSums
  <2>3. duplicates = 0 => x \notin counted
    BY <1>1 DEF NotYetProcessed, AddedInv, AddedMarked
  <2>4. added[x] = preference.vector.sum[x] + 1
        /\ \A a \in Actions \ {x} : added[a] = preference.vector.sum[a]
    BY <1>1, <2>1 DEF TypeOK, Vector
  <2> HIDE DEF x, added
  <2>5. BatchOnce' /\ AddedMarked'
    BY <1>5, <2>1, <2>2 DEF AddedInv, BatchOnce, AddedMarked
  <2>6. ASSUME duplicates' = 0, NEW a \in Actions PROVE preference'.vector.sum[a] <= Adds(a)'
    <3>1. preference.vector.sum[a] <= Adds(a) /\ x \notin counted
      BY <1>2, <2>3, <2>6 DEF AddedInv, AddedSeldom
    <3>2. CASE a = x
      BY <1>3, <2>2, <2>4, <3>1, <3>2 DEF Adds
    <3>3. CASE a # x
      BY <1>3, <2>2, <2>4, <3>1, <3>3 DEF Adds
    <3> QED BY <3>2, <3>3
  <2> QED BY <2>5, <2>6 DEF AddedInv, AddedSeldom
<1>6. ASSUME NEW w \in Workers, ApplyAction(w) \/ TaskFails(w) PROVE AddedInv'
  BY <1>4, <1>5, <1>6 DEF ApplyAction, TaskFails
<1>7. CASE BatchSave
  <2>1. /\ preference'.vector = batch.vector /\ batch' = NoBatch
        /\ UNCHANGED <<processed, counted>>
    BY <1>1, <1>7 DEF BatchSave, TypeOK
  <2> QED BY <1>1, <2>1
      DEF AddedInv, AddedSeldom, Adds, BatchOnce, AddedMarked, NoBatch, NoVector, TypeOK, Vector
<1>8. CASE BatchSelect \/ BatchCompute \/ BatchDies
  <2>1. UNCHANGED <<processed, preference, counted>>
    BY <1>8 DEF BatchSelect, BatchCompute, BatchDies
  <2>2. \A v \in RecomputedVectors : \A a \in Actions : v.sum[a] <= 1
    BY DEF RecomputedVectors, Recomputed
  <2>3. BatchOnce'
    <3>1. CASE BatchSelect
      BY <1>1, <3>1 DEF BatchSelect, AddedInv, BatchOnce, TypeOK
    <3>2. CASE BatchCompute
      BY <2>2, <3>2 DEF BatchCompute, BatchOnce
    <3>3. CASE BatchDies
      BY <3>3 DEF BatchDies, NoBatch, NoVector, BatchOnce
    <3> QED BY <1>8, <3>1, <3>2, <3>3
  <2> QED BY <1>2, <2>1, <2>3 DEF AddedInv, AddedSeldom, Adds, AddedMarked
<1>9. [Next]_vars => \/ UNCHANGED <<processed, preference, counted, batch>>
                     \/ BatchSave \/ BatchSelect \/ BatchCompute \/ BatchDies
                     \/ \E w \in Workers : ApplyAction(w) \/ TaskFails(w)
  BY DEF Next, TaskNext, BatchNext, FeedNext, RecordAction, Enqueue, LoseHook, ReadLog,
     ApplyToDeleted, WorkerDies, Embed, Expire, DeletePlace, DetermineStage, ReadVector, vars
<1> QED BY <1>4, <1>6, <1>7, <1>8, <1>9

(* As long as the broker delivers each message once, no action is in the vector more *)
(* than twice, once by a batch that came before its task and once by that task, and *)
(* at most once while the task has not added it, however often the batch runs *)
(* (update_user_content_vector_incremental, recompute_user_content_vectors_batch). *)
THEOREM AddedAtMostTwice == Spec => []AddedSeldom
<1>1. Init => AddedInv
  BY DEF Init, AddedInv, AddedSeldom, Adds, BatchOnce, AddedMarked, NoPreference, NoBatch,
     NoVector
<1>2. AddedInv => AddedSeldom
  BY DEF AddedInv
<1> QED BY <1>1, <1>2, AddedStep, CountInvariant, CountInvStep, PTL DEF Spec
===============================================================================
