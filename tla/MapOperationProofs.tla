-------------------------- MODULE MapOperationProofs --------------------------
(***************************************************************************)
(* Theorems about MapOperation for any number of items, any settings and   *)
(* any number of crashes: its types, what runs below a map, on one thread  *)
(* which result belongs to which item, and the batch that it returns.      *)
(***************************************************************************)
EXTENDS MapOperation, FiniteSetTheorems, TLAPS

USE DEF vars, settings, stored, executor

-----------------------------------------------------------------------------
(* The inductive invariant.                                                *)

Working == {"spawned", "check", "body"}

\* Tasks exist between the spawn and the join; a task takes its id when it begins and
\* has no result before it is done.
TaskInv ==
  /\ pc = "call" => \A i \in Item : task[i] = "none"
  /\ \A i \in Item :
       /\ task[i] \in Working => pc = "join" /\ ~parent.done
       /\ task[i] \in {"none", "spawned"} => idOf[i] = 0
       /\ task[i] \in {"check", "body"} => idOf[i] # 0
       /\ task[i] # "done" => items[i].status = "pending"

With(status) == {i \in Item : items[i].status = status}

Begun == {i \in Item : idOf[i] # 0}

\* The counters count the results, and the generator the tasks that have begun.
CountInv ==
  /\ nextId = Cardinality(Begun)
  /\ counters.success = Cardinality(With("succeeded"))
  /\ counters.failure = Cardinality(With("failed"))
  /\ counters.suspended = Cardinality(With("suspended"))

\* No two tasks share an id, and the code of an item runs in a child context that has
\* not ended.
IdInv ==
  /\ \A i \in Item : idOf[i] <= nextId
  /\ \A i, j \in Item : idOf[i] = idOf[j] /\ idOf[i] # 0 => i = j
  /\ \A i \in Item : task[i] = "body" => child[idOf[i]].status = "started"

Inv == TypeOK /\ TaskInv /\ CountInv /\ IdInv

-----------------------------------------------------------------------------
(* Counting.                                                               *)

LEMMA ItemsAreFinite == IsFiniteSet(Item) /\ Cardinality(Item) = N
BY FS_Interval, MapAssumption DEF Item

LEMMA CardinalityBound ==
  ASSUME NEW S \in SUBSET Item
  PROVE  IsFiniteSet(S) /\ Cardinality(S) \in 0..N
<1>1. IsFiniteSet(S) /\ Cardinality(S) <= N
  BY ItemsAreFinite, FS_Subset
<1>2. Cardinality(S) \in Nat
  BY <1>1, FS_CardinalityType
<1> QED
  BY <1>1, <1>2, MapAssumption

LEMMA AddOne ==
  ASSUME NEW S \in SUBSET Item, NEW i \in Item, i \notin S
  PROVE  /\ Cardinality(S \cup {i}) = Cardinality(S) + 1
         /\ Cardinality(S) + 1 \in 0..N
<1>1. Cardinality(S \cup {i}) = Cardinality(S) + 1
  BY CardinalityBound, FS_AddElement
<1>2. S \cup {i} \in SUBSET Item
  OBVIOUS
<1> QED
  BY <1>1, <1>2, CardinalityBound

\* A task that ends is counted once, as what it ended in.
LEMMA FinishCounts ==
  ASSUME Inv, NEW i \in Item, task[i] # "done",
         NEW status \in {"cancelled", "suspended", "succeeded", "failed"},
         NEW by \in 0..N, Finish(i, status, by)
  PROVE  /\ items' \in [Item -> BatchItem]
         /\ task' \in [Item -> {"none", "spawned", "check", "body", "done", "panicked"}]
         /\ counters' \in [success : 0..N, failure : 0..N, suspended : 0..N]
         /\ counters'.success = Cardinality(With("succeeded")')
         /\ counters'.failure = Cardinality(With("failed")')
         /\ counters'.suspended = Cardinality(With("suspended")')
         /\ counters'.success >= counters.success
         /\ counters'.failure >= counters.failure
         /\ counters'.suspended >= counters.suspended
<1> USE DEF Inv, TypeOK
<1>1. items' \in [Item -> BatchItem]
  BY DEF Finish, Entry, BatchItem
<1>2. task' \in [Item -> {"none", "spawned", "check", "body", "done", "panicked"}]
  BY DEF Finish
<1>3. items[i].status = "pending"
  BY DEF TaskInv
<1>4. \A st \in {"succeeded", "failed", "suspended"} :
        With(st)' = IF st = status THEN With(st) \cup {i} ELSE With(st)
  <2> SUFFICES ASSUME NEW st \in {"succeeded", "failed", "suspended"}
               PROVE  With(st)' = IF st = status THEN With(st) \cup {i} ELSE With(st)
    OBVIOUS
  <2>1. \A j \in Item : items'[j] = IF j = i THEN Entry(status, by) ELSE items[j]
    BY DEF Finish
  <2>2. Entry(status, by).status = status
    BY DEF Entry
  <2> QED
    BY <1>3, <2>1, <2>2 DEF With
<1>5. \A st \in {"succeeded", "failed", "suspended"} :
        /\ With(st) \in SUBSET Item
        /\ i \notin With(st)
        /\ Cardinality(With(st)) \in 0..N
        /\ Cardinality(With(st) \cup {i}) = Cardinality(With(st)) + 1
        /\ Cardinality(With(st)) + 1 \in 0..N
  BY <1>3, CardinalityBound, AddOne DEF With
<1>6. /\ counters'.success = counters.success + (IF status = "succeeded" THEN 1 ELSE 0)
      /\ counters'.failure = counters.failure + (IF status = "failed" THEN 1 ELSE 0)
      /\ counters'.suspended = counters.suspended + (IF status = "suspended" THEN 1 ELSE 0)
      /\ counters' \in [success : Nat, failure : Nat, suspended : Nat]
  <2> counters \in [success : Nat, failure : Nat, suspended : Nat]
    BY MapAssumption
  <2>1. CASE status = "succeeded"
    BY <2>1 DEF Finish
  <2>2. CASE status = "failed"
    BY <2>2 DEF Finish
  <2>3. CASE status = "suspended"
    BY <2>3 DEF Finish
  <2>4. CASE status = "cancelled"
    BY <2>4 DEF Finish
  <2> QED
    BY <2>1, <2>2, <2>3, <2>4
<1> QED
  <2> HIDE DEF Inv, TypeOK
  <2>1. /\ counters.success = Cardinality(With("succeeded"))
        /\ counters.failure = Cardinality(With("failed"))
        /\ counters.suspended = Cardinality(With("suspended"))
    BY DEF Inv, CountInv
  <2>2. /\ counters'.success \in 0..N /\ counters'.success = Cardinality(With("succeeded")')
        /\ counters'.failure \in 0..N /\ counters'.failure = Cardinality(With("failed")')
        /\ counters'.suspended \in 0..N /\ counters'.suspended = Cardinality(With("suspended")')
    BY <1>4, <1>5, <1>6, <2>1, SMTT(60)
  <2> HIDE DEF With
  <2> QED
    BY <1>1, <1>2, <1>5, <1>6, <2>1, <2>2, MapAssumption

-----------------------------------------------------------------------------
(* The invariant is inductive.                                             *)

\* The executor of an invocation that has not spawned its tasks.
Fresh ==
  /\ task = Executor.task
  /\ idOf = Executor.idOf
  /\ nextId = Executor.nextId
  /\ items = Executor.items
  /\ counters = Executor.counters

ExecutorType ==
  /\ task \in [Item -> {"none", "spawned", "check", "body", "done", "panicked"}]
  /\ idOf \in [Item -> 0..N]
  /\ nextId \in 0..N
  /\ items \in [Item -> BatchItem]
  /\ counters \in [success : 0..N, failure : 0..N, suspended : 0..N]

LEMMA FreshIsConsistent == Fresh => TaskInv /\ CountInv /\ IdInv /\ ExecutorType
<1> SUFFICES ASSUME Fresh
             PROVE  TaskInv /\ CountInv /\ IdInv /\ ExecutorType
  OBVIOUS
<1> USE MapAssumption DEF Fresh, Executor, NoBatch, NoCount
<1>1. /\ Begun = {}
      /\ With("succeeded") = {} /\ With("failed") = {} /\ With("suspended") = {}
  BY DEF Begun, With, Entry
<1>2. CountInv
  BY <1>1, FS_EmptySet DEF CountInv
<1>3. TaskInv /\ IdInv
  BY DEF TaskInv, IdInv, Working, Entry
<1> QED
  BY <1>2, <1>3 DEF ExecutorType, BatchItem, Entry

LEMMA NoBatchType == NoBatch \in BatchResult
BY MapAssumption DEF NoBatch, BatchResult, Reason, BatchItem, Entry

LEMMA BatchType ==
  ASSUME TypeOK
  PROVE  Batch \in BatchResult
BY DEF TypeOK, Batch, BatchResult, Reason, CompletionReason

LEMMA InvInit == Init => Inv
<1> SUFFICES ASSUME Init
             PROVE  Inv
  OBVIOUS
<1>1. Fresh
  BY DEF Init, Fresh
<1>2. TypeOK
  BY <1>1, FreshIsConsistent, NoBatchType, MapAssumption, SettingsAssumption
     DEF Init, TypeOK, ExecutorType, Child, Entry
<1> QED
  BY <1>1, <1>2, FreshIsConsistent DEF Inv

\* Steps after which no task is left: a new invocation finds nothing.
LEMMA ForgetKeeps ==
  ASSUME Inv, Forget, NEW done \in BOOLEAN, NEW batch \in BatchResult,
         parent' = [done |-> done, batch |-> batch],
         UNCHANGED <<settings, child, timer, first>>,
         invocation' \in {"due", "running", "suspended", "over"},
         output' \in {"none", "succeeded", "failed"},
         interruptions' \in 0..MaxInterruptions
  PROVE  Inv'
<1>1. Fresh'
  BY DEF Forget, Fresh, Executor
<1>2. TaskInv' /\ CountInv' /\ IdInv' /\ ExecutorType'
  BY <1>1, FreshIsConsistent, PTL
<1>3. TypeOK'
  BY <1>2, NoBatchType DEF Inv, TypeOK, ExecutorType, Forget
<1> QED
  BY <1>2, <1>3 DEF Inv

LEMMA MapStepInv ==
  ASSUME Inv, Invoke \/ Crash \/ MapStep \/ \E id \in ChildId : TimerFires(id)
  PROVE  Inv'
<1> USE DEF Inv
<1>a. parent = [done |-> parent.done, batch |-> parent.batch]
      /\ parent.done \in BOOLEAN /\ parent.batch \in BatchResult
  BY DEF TypeOK
<1>1. CASE Invoke
  BY <1>1 DEF Invoke, TypeOK, TaskInv, CountInv, Begun, With, IdInv
<1>2. CASE Crash
  <2>1. interruptions' \in 0..MaxInterruptions
    BY <1>2, MapAssumption DEF Crash, TypeOK
  <2> QED
    BY <1>2, <1>a, <2>1, ForgetKeeps DEF Crash, TypeOK
<1>3. ASSUME NEW id \in ChildId, TimerFires(id)
      PROVE  Inv'
  BY <1>3 DEF TimerFires, TypeOK, TaskInv, CountInv, Begun, With, IdInv
<1>4. CASE Replay
  BY <1>4 DEF Replay, ReturnBatch, At, TypeOK, TaskInv, Working, CountInv, Begun, With, IdInv
<1>5. CASE Spawn
  BY <1>5 DEF Spawn, At, TypeOK, TaskInv, Working, CountInv, Begun, With, IdInv
<1>6. CASE Suspend
  BY <1>6, <1>a, ForgetKeeps DEF Suspend, EndPending, TypeOK
<1>7. CASE Complete
  BY <1>7, BatchType DEF Complete, Joined, ReturnBatch, At, TypeOK, TaskInv, Working,
                         CountInv, Begun, With, IdInv
<1>8. CASE MapFails
  <2>1. \E done \in BOOLEAN : \E batch \in BatchResult :
          parent' = [done |-> done, batch |-> batch]
    BY <1>8, <1>a, BatchType DEF MapFails
  <2> QED
    BY <1>8, <2>1, ForgetKeeps DEF MapFails, EndWith, TypeOK
<1>9. CASE Return
  BY <1>9, <1>a, ForgetKeeps DEF Return, EndWith, TypeOK
<1> QED
  BY <1>1, <1>2, <1>3, <1>4, <1>5, <1>6, <1>7, <1>8, <1>9 DEF MapStep

\* A task that ends, and leaves the ids alone.
LEMMA FinishInv ==
  ASSUME Inv, NEW i \in Item, task[i] \in Working,
         NEW status \in {"cancelled", "suspended", "succeeded", "failed"},
         NEW by \in 0..N, Finish(i, status, by),
         UNCHANGED <<settings, parent, pc, invocation, idOf, nextId, returned, output,
                     interruptions, first>>,
         child' \in [ChildId -> Child], timer' \in [ChildId -> {"none", "pending", "done"}],
         \A id \in ChildId : child'[id] = child[id] \/ id = idOf[i]
  PROVE  Inv'
<1>1. /\ items' \in [Item -> BatchItem]
      /\ task' \in [Item -> {"none", "spawned", "check", "body", "done", "panicked"}]
      /\ counters' \in [success : 0..N, failure : 0..N, suspended : 0..N]
      /\ counters'.success = Cardinality(With("succeeded")')
      /\ counters'.failure = Cardinality(With("failed")')
      /\ counters'.suspended = Cardinality(With("suspended")')
  BY FinishCounts DEF Working
<1>2. TypeOK'
  BY <1>1 DEF Inv, TypeOK
<1>3. /\ \A j \in Item : j # i => task'[j] = task[j] /\ items'[j] = items[j]
      /\ task'[i] = "done"
  BY DEF Inv, TypeOK, Finish
<1>4. TaskInv'
  BY <1>3 DEF Inv, TaskInv, Working
<1>5. CountInv'
  BY <1>1 DEF Inv, CountInv, Begun
<1>6. IdInv'
  <2>1. \A j \in Item : task'[j] = "body" => child'[idOf[j]].status = "started"
    <3> SUFFICES ASSUME NEW j \in Item, task'[j] = "body"
                 PROVE  child'[idOf[j]].status = "started"
      OBVIOUS
    <3>1. j # i /\ task[j] = "body"
      BY <1>3
    <3>2. idOf[j] \in ChildId /\ idOf[j] # idOf[i]
      BY <3>1, MapAssumption DEF Inv, TypeOK, TaskInv, IdInv, ChildId
    <3> QED
      BY <3>1, <3>2 DEF Inv, IdInv
  <2> QED
    BY <2>1 DEF Inv, IdInv
<1> QED
  BY <1>2, <1>4, <1>5, <1>6 DEF Inv

\* A task takes the next id: there is one left, and nobody has it.
LEMMA BeginInv ==
  ASSUME Inv, NEW i \in Item, Begin(i)
  PROVE  Inv'
<1>1. idOf[i] = 0 /\ task[i] = "spawned"
  BY DEF Inv, TaskInv, Begin, MayBegin, Runs
<1>2. idOf' = [idOf EXCEPT ![i] = nextId + 1] /\ nextId' = nextId + 1 /\ nextId \in Nat
  BY DEF Begin, Inv, TypeOK
<1>3. Begun' = Begun \cup {i} /\ i \notin Begun /\ Begun \in SUBSET Item
  BY <1>1, <1>2 DEF Begun, Inv, TypeOK
<1>4. nextId' = Cardinality(Begun') /\ nextId' \in 0..N
  BY <1>2, <1>3, AddOne DEF Inv, CountInv
<1>5. TypeOK'
  BY <1>2, <1>4 DEF Inv, TypeOK, Begin
<1>6. CountInv'
  BY <1>4 DEF Begin, Inv, CountInv, With
<1>7. TaskInv'
  BY <1>1, <1>2 DEF Begin, Inv, TypeOK, TaskInv, Working
<1>8. IdInv'
  <2>1. \A j \in Item : idOf'[j] = IF j = i THEN nextId + 1 ELSE idOf[j]
    BY <1>2 DEF Inv, TypeOK
  <2>2. \A j \in Item : idOf[j] <= nextId /\ idOf[j] \in Nat
    BY DEF Inv, TypeOK, IdInv
  <2>3. \A j, k \in Item : idOf'[j] = idOf'[k] /\ idOf'[j] # 0 => j = k
    BY <1>2, <2>1, <2>2 DEF Inv, IdInv
  <2>4. \A j \in Item : task'[j] = "body" => child'[idOf'[j]].status = "started"
    BY <2>1 DEF Begin, Inv, TypeOK, IdInv
  <2> QED
    BY <1>2, <2>1, <2>2, <2>3, <2>4 DEF IdInv
<1> QED
  BY <1>5, <1>6, <1>7, <1>8 DEF Inv

LEMMA TaskStepInv ==
  ASSUME Inv, NEW i \in Item, TaskStep(i)
  PROVE  Inv'
<1> USE DEF Inv
<1>a. /\ child \in [ChildId -> Child]
      /\ timer \in [ChildId -> {"none", "pending", "done"}]
      /\ idOf[i] \in 0..N
      /\ i \in 1..N /\ N \in Nat
  BY MapAssumption DEF TypeOK, Item
<1>b. task[i] \in {"check", "body"} => idOf[i] \in ChildId
  BY <1>a DEF TaskInv, ChildId
<1>c. \A st \in {"none", "started", "succeeded", "failed"} : \A by \in 0..N :
        Entry(st, by) \in Child
  BY DEF Entry, Child
<1>1. CASE Cancel(i)
  BY <1>1, <1>a, FinishInv DEF Cancel, MayBegin, Runs, Working
<1>2. CASE Begin(i)
  BY <1>2, BeginInv
<1>3. CASE ReplayChild(i)
  <2>1. child[idOf[i]].by \in 0..N /\ child[idOf[i]].status \in {"succeeded", "failed"}
    BY <1>3, <1>a, <1>b DEF ReplayChild, Runs, Child
  <2> QED
    BY <1>3, <1>a, <2>1, FinishInv DEF ReplayChild, Runs, Working
<1>4. CASE EnterChild(i)
  <2>1. idOf[i] \in ChildId /\ task[i] = "check"
    BY <1>4, <1>b DEF EnterChild, Runs
  <2>2. child' \in [ChildId -> Child] /\ child'[idOf[i]].status = "started"
    BY <1>4, <1>a, <1>c, <2>1 DEF EnterChild, Entry
  <2>3. TypeOK'
    BY <1>4, <2>2 DEF EnterChild, TypeOK
  <2>4. TaskInv'
    BY <1>4, <2>1 DEF EnterChild, TypeOK, TaskInv, Working
  <2>5. CountInv'
    BY <1>4 DEF EnterChild, CountInv, Begun, With
  <2>6. \A j \in Item : task'[j] = "body" => child'[idOf[j]].status = "started"
    <3> SUFFICES ASSUME NEW j \in Item, task'[j] = "body", j # i
                 PROVE  child'[idOf[j]].status = "started"
      BY <2>2
    <3>1. task[j] = "body"
      BY <1>4 DEF EnterChild, TypeOK
    <3>2. idOf[j] \in ChildId /\ idOf[j] # idOf[i]
      BY <3>1, <2>1, MapAssumption DEF TypeOK, TaskInv, IdInv, ChildId
    <3> QED
      BY <1>4, <1>a, <3>1, <3>2 DEF EnterChild, IdInv
  <2> QED
    BY <1>4, <2>3, <2>4, <2>5, <2>6 DEF EnterChild, IdInv
<1>5. CASE SuspendChild(i)
  BY <1>5, <1>a, <1>b, FinishInv DEF SuspendChild, Runs, Working
<1>6. CASE EndChild(i)
  <2>1. PICK status \in {"succeeded", "failed"} :
          child' = [child EXCEPT ![idOf[i]] = Entry(status, i)] /\ Finish(i, status, i)
    BY <1>6 DEF EndChild
  <2>a. Entry(status, i) \in Child
    BY <1>a, <1>c
  <2>2. child' \in [ChildId -> Child]
        /\ \A id \in ChildId : child'[id] = child[id] \/ id = idOf[i]
    BY <1>a, <2>1, <2>a
  <2> QED
    BY <1>6, <1>a, <2>1, <2>2, FinishInv DEF EndChild, Runs, Working
<1>7. CASE ChildFails(i)
  <2>0. child' = child \/ \E st \in {"started", "succeeded", "failed"} : \E by \in 0..N :
          child' = [child EXCEPT ![idOf[i]] = Entry(st, by)]
    BY <1>7, <1>a DEF ChildFails
  <2>1. child' \in [ChildId -> Child]
        /\ \A id \in ChildId : child'[id] = child[id] \/ id = idOf[i]
    BY <1>a, <1>c, <2>0
  <2> QED
    BY <1>7, <1>a, <2>1, FinishInv DEF ChildFails, Runs, Working
<1>8. CASE Panic(i)
  BY <1>8 DEF Panic, Runs, TypeOK, TaskInv, Working, CountInv, Begun, With, IdInv
<1> QED
  BY <1>1, <1>2, <1>3, <1>4, <1>5, <1>6, <1>7, <1>8 DEF TaskStep

LEMMA InvStep == Inv /\ [Next]_vars => Inv'
<1> SUFFICES ASSUME Inv, [Next]_vars
             PROVE  Inv'
  OBVIOUS
<1>1. CASE UNCHANGED vars
  BY <1>1 DEF Inv, TypeOK, TaskInv, CountInv, Begun, With, IdInv
<1> QED
  BY <1>1, MapStepInv, TaskStepInv DEF Next

LEMMA Invariance == Spec => []Inv
BY InvInit, InvStep, PTL DEF Spec

\* Every step keeps the map within its types: ids and counters never exceed the number
\* of items.
THEOREM TypeCorrectness == Spec => []TypeOK
<1>1. Inv => TypeOK
  BY DEF Inv
<1> QED
  BY <1>1, Invariance, PTL

-----------------------------------------------------------------------------
(* What happens below a map.                                               *)

\* Once the map is recorded no child context changes: the tasks have all been joined.
THEOREM NoOrphans == Spec => NothingRunsAfterTheMap
<1>1. Inv /\ [Next]_vars => [parent.done => UNCHANGED child]_vars
  <2> SUFFICES ASSUME Inv, Next, parent.done
               PROVE  child' = child
    BY DEF vars
  <2>1. ASSUME NEW i \in Item, TaskStep(i)
        PROVE  FALSE
    BY <2>1 DEF Inv, TaskInv, Working, TaskStep, Cancel, Begin, MayBegin, ReplayChild,
                EnterChild, SuspendChild, EndChild, ChildFails, Panic, Runs
  <2>2. CASE Invoke \/ MapStep \/ Crash \/ \E id \in ChildId : TimerFires(id)
    BY <2>2 DEF Invoke, MapStep, Replay, Spawn, Suspend, Complete, MapFails, Return, Crash,
                TimerFires
  <2> QED
    BY <2>1, <2>2 DEF Next
<1> QED
  BY <1>1, Invariance, PTL DEF Spec, NothingRunsAfterTheMap

\* A child context that has ended keeps its result through every later invocation.
THEOREM EndedStays == Spec => EndedChildIsFinal
<1> DEFINE Final == \A id \in ChildId : child[id].status \in {"succeeded", "failed"} =>
                      child'[id] = child[id]
<1>1. Inv /\ [Next]_vars => [Final]_vars
  <2> SUFFICES ASSUME Inv, Next
               PROVE  Final
    OBVIOUS
  <2>1. ASSUME NEW i \in Item, TaskStep(i)
        PROVE  Final
    <3>1. CASE Cancel(i) \/ Begin(i) \/ ReplayChild(i) \/ SuspendChild(i) \/ Panic(i)
      BY <3>1 DEF Cancel, Begin, ReplayChild, SuspendChild, Panic
    <3>2. CASE EnterChild(i)
      BY <3>2 DEF EnterChild, Inv, TypeOK
    <3>3. CASE EndChild(i)
      BY <3>3 DEF EndChild, Runs, Inv, TypeOK, IdInv
    <3>4. CASE ChildFails(i)
      BY <3>4 DEF ChildFails, Runs, Inv, TypeOK, IdInv
    <3> QED
      BY <2>1, <3>1, <3>2, <3>3, <3>4 DEF TaskStep
  <2>2. CASE Invoke \/ MapStep \/ Crash \/ \E id \in ChildId : TimerFires(id)
    BY <2>2 DEF Invoke, MapStep, Replay, Spawn, Suspend, Complete, MapFails, Return, Crash,
                TimerFires
  <2> QED
    BY <2>1, <2>2 DEF Next
<1> QED
  BY <1>1, Invariance, PTL DEF Spec, EndedChildIsFinal

-----------------------------------------------------------------------------
(* Results on one thread.                                                  *)

\* The k-th task to begin is task k: until the batch is complete the tasks that wait
\* are those after the last that has begun.  So a child context belongs to its item.
OneThreadInv == threads = "one" =>
  /\ \A i \in Item : idOf[i] \in {0, i}
  /\ pc = "join" /\ ~ShouldComplete =>
       \A i \in Item : task[i] = "spawned" <=> i > nextId
  /\ \A id \in ChildId :
       child[id].status \in {"succeeded", "failed"} => child[id].by = id
  /\ ItemKeepsItsResult

\* Counters only grow, and with them the conditions they are compared with.
LEMMA CompleteStays ==
  ASSUME Inv, ShouldComplete, config' = config,
         counters'.success \in Nat, counters'.failure \in Nat, counters'.suspended \in Nat,
         counters'.success >= counters.success, counters'.failure >= counters.failure,
         counters'.suspended >= counters.suspended
  PROVE  ShouldComplete'
<1>1. /\ counters.success \in Nat /\ counters.failure \in Nat /\ counters.suspended \in Nat
      /\ N \in Nat
  BY MapAssumption DEF Inv, TypeOK
<1>2. config.minSuccessful \subseteq Nat /\ config.toleratedCount \subseteq Nat
      /\ config.toleratedPercentage \subseteq 0..100
  <2>1. config \in Config
    BY SettingsAssumption DEF Inv, TypeOK
  <2> QED
    BY <2>1 DEF Config
<1>3. CASE MinSuccessfulReached
  BY <1>1, <1>2, <1>3 DEF MinSuccessfulReached, ShouldComplete
<1>4. CASE FailureToleranceExceeded
  <2>1. CASE \E k \in config.toleratedCount : counters.failure > k
    BY <1>1, <1>2, <2>1 DEF FailureToleranceExceeded, ShouldComplete
  <2>2. CASE \E p \in config.toleratedPercentage : counters.failure * 100 > p * N
    <3>1. PICK p \in config.toleratedPercentage : counters.failure * 100 > p * N
      BY <2>2
    <3>2. p * N \in Nat
      BY <1>1, <1>2
    <3>3. counters'.failure * 100 > p * N
      BY <1>1, <3>1, <3>2
    <3> QED
      BY <3>3 DEF FailureToleranceExceeded, ShouldComplete
  <2> QED
    BY <1>4, <2>1, <2>2 DEF FailureToleranceExceeded
<1>5. CASE Completed + counters.suspended >= N
  BY <1>1, <1>5 DEF Completed, ShouldComplete
<1> QED
  BY <1>3, <1>4, <1>5 DEF ShouldComplete

LEMMA OneThreadInit == Init => OneThreadInv
BY DEF Init, Executor, NoBatch, Entry, OneThreadInv, ItemKeepsItsResult

\* A task ends with a result of its own.
LEMMA FinishOneThread ==
  ASSUME Inv, OneThreadInv, threads = "one",
         NEW i \in Item, task[i] \in {"spawned", "check", "body"},
         task[i] = "spawned" => ShouldComplete,
         NEW status \in {"cancelled", "suspended", "succeeded", "failed"},
         NEW by \in 0..N, status = "succeeded" => by = i, Finish(i, status, by),
         UNCHANGED <<config, threads, idOf, nextId, pc>>,
         \A id \in ChildId :
           child'[id].status \in {"succeeded", "failed"} => child'[id].by = id
  PROVE  OneThreadInv'
<1>1. /\ counters'.success \in Nat /\ counters'.failure \in Nat /\ counters'.suspended \in Nat
      /\ counters'.success >= counters.success /\ counters'.failure >= counters.failure
      /\ counters'.suspended >= counters.suspended
  BY FinishCounts, MapAssumption
<1>2. ShouldComplete => ShouldComplete'
  BY <1>1, CompleteStays
<1>3. /\ task' = [task EXCEPT ![i] = "done"]
      /\ items' = [items EXCEPT ![i] = Entry(status, by)]
  BY DEF Finish
<1>4. ItemKeepsItsResult'
  BY <1>3 DEF OneThreadInv, ItemKeepsItsResult, Entry, Inv, TypeOK
<1>5. pc' = "join" /\ ~ShouldComplete' =>
        \A j \in Item : task'[j] = "spawned" <=> j > nextId'
  BY <1>2, <1>3 DEF OneThreadInv, Inv, TypeOK
<1> QED
  BY <1>4, <1>5 DEF OneThreadInv

LEMMA TaskStepOneThread ==
  ASSUME Inv, OneThreadInv, threads = "one", NEW i \in Item, TaskStep(i)
  PROVE  OneThreadInv'
<1>a. /\ child \in [ChildId -> Child]
      /\ idOf[i] \in {0, i}
      /\ i \in 1..N /\ N \in Nat
  BY MapAssumption DEF Inv, TypeOK, Item, OneThreadInv
<1>b. task[i] \in {"check", "body"} => idOf[i] = i /\ i \in ChildId
  BY <1>a DEF Inv, TaskInv, ChildId
<1>c. \A id \in ChildId : child[id].status \in {"succeeded", "failed"} => child[id].by = id
  BY DEF OneThreadInv
<1>1. CASE Cancel(i)
  BY <1>1, <1>a, <1>c, FinishOneThread DEF Cancel, MayBegin, Runs
<1>2. CASE Begin(i)
  <2>1. pc = "join" /\ task[i] = "spawned" /\ ~ShouldComplete
    BY <1>2 DEF Begin, MayBegin, Runs, Inv, TaskInv, Working
  <2>2. i = nextId + 1
    <3>1. nextId \in Nat /\ i > nextId
      BY <1>a, <2>1 DEF Inv, TypeOK, OneThreadInv
    <3>2. CASE i = 1
      BY <3>1, <3>2
    <3>3. CASE i # 1
      <4>1. i - 1 \in Item /\ i - 1 \in 1..(i - 1)
        BY <1>a, <3>3 DEF Item
      <4>2. task[i - 1] # "spawned"
        BY <1>2, <4>1 DEF Begin, MayBegin
      <4>3. ~(i - 1 > nextId)
        BY <2>1, <4>1, <4>2 DEF OneThreadInv
      <4> QED
        BY <1>a, <3>1, <4>3
    <3> QED
      BY <3>2, <3>3
  <2>3. /\ \A j \in Item : idOf'[j] \in {0, j}
        /\ \A j \in Item : task'[j] = "spawned" <=> j > nextId'
    <3>1. /\ idOf' = [idOf EXCEPT ![i] = i]
          /\ task' = [task EXCEPT ![i] = "check"]
          /\ nextId' = i /\ nextId \in Nat
      BY <1>2, <2>2 DEF Begin, Inv, TypeOK
    <3>2. \A j \in Item : task[j] = "spawned" <=> j > nextId
      BY <2>1 DEF OneThreadInv
    <3>3. \A j \in Item : j \in Nat
      BY DEF Item
    <3> QED
      BY <2>2, <3>1, <3>2, <3>3 DEF OneThreadInv, Inv, TypeOK
  <2> QED
    BY <1>2, <2>3 DEF Begin, OneThreadInv, ItemKeepsItsResult
<1>3. CASE ReplayChild(i)
  <2>1. child[idOf[i]].status \in {"succeeded", "failed"} /\ child[idOf[i]].by = i
    BY <1>3, <1>b, <1>c DEF ReplayChild, Runs
  <2> QED
    BY <1>3, <1>a, <1>c, <2>1, FinishOneThread DEF ReplayChild, Runs
<1>4. CASE EnterChild(i)
  <2>1. \A id \in ChildId :
          child'[id].status \in {"succeeded", "failed"} => child'[id].by = id
    BY <1>4, <1>a, <1>c DEF EnterChild, Entry
  <2>2. task[i] = "check" /\ \A j \in Item : task'[j] = "spawned" <=> task[j] = "spawned"
    BY <1>4 DEF EnterChild, Runs, Inv, TypeOK
  <2> QED
    BY <1>4, <2>1, <2>2 DEF EnterChild, OneThreadInv, ItemKeepsItsResult, ShouldComplete,
       MinSuccessfulReached, FailureToleranceExceeded, Completed
<1>5. CASE SuspendChild(i)
  BY <1>5, <1>a, <1>c, FinishOneThread DEF SuspendChild, Runs
<1>6. CASE EndChild(i)
  <2>1. PICK status \in {"succeeded", "failed"} :
          child' = [child EXCEPT ![idOf[i]] = Entry(status, i)] /\ Finish(i, status, i)
    BY <1>6 DEF EndChild
  <2>2. \A id \in ChildId :
          child'[id].status \in {"succeeded", "failed"} => child'[id].by = id
    BY <1>6, <1>a, <1>b, <1>c, <2>1 DEF EndChild, Runs, Entry
  <2> QED
    BY <1>6, <1>a, <2>1, <2>2, FinishOneThread DEF EndChild, Runs
<1>7. CASE ChildFails(i)
  <2>1. \A id \in ChildId :
          child'[id].status \in {"succeeded", "failed"} => child'[id].by = id
    BY <1>7, <1>a, <1>b, <1>c DEF ChildFails, Runs, Entry
  <2> QED
    BY <1>7, <1>a, <2>1, FinishOneThread DEF ChildFails, Runs
<1>8. CASE Panic(i)
  <2>1. task[i] = "body" /\ \A j \in Item : task'[j] = "spawned" <=> task[j] = "spawned"
    BY <1>8 DEF Panic, Runs, Inv, TypeOK
  <2> QED
    BY <1>8, <2>1 DEF Panic, OneThreadInv, ItemKeepsItsResult, ShouldComplete,
       MinSuccessfulReached, FailureToleranceExceeded, Completed
<1> QED
  BY <1>1, <1>2, <1>3, <1>4, <1>5, <1>6, <1>7, <1>8 DEF TaskStep

LEMMA MapStepOneThread ==
  ASSUME Inv, OneThreadInv, threads = "one",
         Invoke \/ Crash \/ MapStep \/ \E id \in ChildId : TimerFires(id)
  PROVE  OneThreadInv'
<1> USE DEF OneThreadInv, ItemKeepsItsResult
<1>1. CASE Spawn
  <2>1. pc = "call" /\ \A i \in Item : idOf[i] = 0
    BY <1>1 DEF Spawn, At, Inv, TaskInv
  <2>2. nextId = 0
    BY <2>1, FS_EmptySet DEF Inv, CountInv, Begun
  <2> QED
    BY <1>1, <2>2 DEF Spawn, Item
<1>2. CASE Forget
  <2>1. UNCHANGED child
    BY <1>2 DEF Forget, Invoke, Crash, MapStep, TimerFires, Replay, Spawn, Suspend, Complete,
                MapFails, Return
  <2> QED
    BY <1>2, <2>1 DEF Forget, Executor, NoBatch, Entry
<1>3. CASE Invoke \/ Replay \/ Complete \/ \E id \in ChildId : TimerFires(id)
  BY <1>3 DEF Invoke, Replay, Complete, ReturnBatch, TimerFires, ShouldComplete,
     MinSuccessfulReached, FailureToleranceExceeded, Completed
<1> QED
  BY <1>1, <1>2, <1>3 DEF MapStep, Crash, Suspend, EndPending, MapFails, Return, EndWith

LEMMA OneThreadStep == Inv /\ OneThreadInv /\ [Next]_vars => OneThreadInv'
<1> SUFFICES ASSUME Inv, OneThreadInv, [Next]_vars
             PROVE  OneThreadInv'
  OBVIOUS
<1>1. CASE UNCHANGED vars
  BY <1>1 DEF OneThreadInv, ItemKeepsItsResult, ShouldComplete, MinSuccessfulReached,
              FailureToleranceExceeded, Completed
<1>2. CASE Next /\ threads = "one"
  BY <1>2, TaskStepOneThread, MapStepOneThread DEF Next
<1>3. CASE Next /\ threads # "one"
  <2>1. threads' = threads
    BY <1>3 DEF Next, TaskStep, Cancel, Begin, ReplayChild, EnterChild, SuspendChild, EndChild,
       ChildFails, Panic, Invoke, MapStep, Replay, Spawn, Suspend, Complete, MapFails, Return,
       Crash, TimerFires
  <2> QED
    BY <1>3, <2>1 DEF OneThreadInv
<1> QED
  BY <1>1, <1>2, <1>3

\* On a runtime of one thread a result stands at the index of the item whose code has
\* produced it, under every limit of concurrency, completion rule and crash.
THEOREM OneThreadIsFaithful == Spec => []OneThreadKeepsItems
<1>1. OneThreadInv => OneThreadKeepsItems
  BY DEF OneThreadInv, OneThreadKeepsItems
<1> QED
  BY <1>1, OneThreadInit, OneThreadStep, Invariance, PTL DEF Spec

-----------------------------------------------------------------------------
(* One batch for all invocations.                                          *)

\* The batch that is returned is the batch that is recorded, and only one ever is.
StableInv ==
  /\ pc = "join" => ~parent.done
  /\ first # NoBatch => parent = [done |-> TRUE, batch |-> first]
  /\ returned # NoBatch => returned = first

LEMMA StableInit == Init => StableInv
BY DEF Init, StableInv

LEMMA StableStep == Inv /\ StableInv /\ [Next]_vars => StableInv'
<1> SUFFICES ASSUME Inv, StableInv, [Next]_vars
             PROVE  StableInv'
  OBVIOUS
<1> USE DEF StableInv
<1>1. CASE UNCHANGED vars
  BY <1>1
<1>2. CASE Invoke \/ \E id \in ChildId : TimerFires(id)
  BY <1>2 DEF Invoke, TimerFires
<1>3. CASE Crash \/ Suspend \/ Return
  BY <1>3 DEF Crash, Suspend, EndPending, Return, EndWith, Forget
<1>4. CASE Replay
  <2>1. parent = [done |-> TRUE, batch |-> parent.batch]
    BY <1>4 DEF Replay, Inv, TypeOK
  <2> QED
    BY <1>4, <2>1 DEF Replay, ReturnBatch
<1>5. CASE Spawn
  BY <1>5 DEF Spawn
<1>6. CASE Complete
  <2>1. ~parent.done
    BY <1>6 DEF Complete, Joined, At
  <2>2. first = NoBatch
    BY <2>1
  <2>3. parent' = [done |-> TRUE, batch |-> Batch] /\ first' = Batch /\ returned' = Batch
        /\ pc' = "after"
    BY <1>6, <2>2 DEF Complete, ReturnBatch
  <2> QED
    BY <2>3
<1>7. CASE MapFails
  BY <1>7 DEF MapFails, Joined, At, EndWith, Forget
<1>8. ASSUME NEW i \in Item, TaskStep(i)
      PROVE  StableInv'
  BY <1>8 DEF TaskStep, Cancel, Begin, ReplayChild, EnterChild, SuspendChild, EndChild,
              ChildFails, Panic
<1> QED
  BY <1>1, <1>2, <1>3, <1>4, <1>5, <1>6, <1>7, <1>8 DEF Next, MapStep

LEMMA StableInvariance == Spec => []StableInv
BY StableInit, StableStep, Invariance, PTL DEF Spec

\* Whichever invocation the map returns in, and however often the ones before it have
\* crashed, the handler is given the batch it was given first.
THEOREM OneBatch == Spec => []BatchIsStable
<1>1. StableInv => BatchIsStable
  BY DEF StableInv, BatchIsStable
<1> QED
  BY <1>1, StableInvariance, PTL

-----------------------------------------------------------------------------
(* What makes a batch complete.                                            *)

\* A task is only cancelled once the batch is complete, and counters do not go back.
CancelInv == (\E i \in Item : items[i].status = "cancelled") => ShouldComplete

LEMMA FinishCancel ==
  ASSUME Inv, CancelInv, NEW i \in Item, task[i] \in Working,
         NEW status \in {"cancelled", "suspended", "succeeded", "failed"},
         NEW by \in 0..N, Finish(i, status, by), config' = config,
         status = "cancelled" => ShouldComplete
  PROVE  CancelInv'
<1>1. /\ counters'.success \in Nat /\ counters'.failure \in Nat /\ counters'.suspended \in Nat
      /\ counters'.success >= counters.success /\ counters'.failure >= counters.failure
      /\ counters'.suspended >= counters.suspended
  BY FinishCounts, MapAssumption DEF Working
<1>2. ShouldComplete => ShouldComplete'
  BY <1>1, CompleteStays
<1>3. ASSUME NEW j \in Item, items'[j].status = "cancelled"
      PROVE  ShouldComplete
  BY <1>3 DEF Finish, Entry, CancelInv, Inv, TypeOK
<1> QED
  BY <1>2, <1>3 DEF CancelInv

LEMMA CancelInit == Init => CancelInv
BY DEF Init, Executor, NoBatch, Entry, CancelInv

LEMMA CancelStep == Inv /\ CancelInv /\ [Next]_vars => CancelInv'
<1> SUFFICES ASSUME Inv, CancelInv, [Next]_vars
             PROVE  CancelInv'
  OBVIOUS
<1>1. CASE UNCHANGED <<config, items, counters>>
  BY <1>1 DEF CancelInv, ShouldComplete, MinSuccessfulReached, FailureToleranceExceeded,
              Completed
<1>2. CASE Forget
  BY <1>2 DEF Forget, Executor, NoBatch, Entry, CancelInv
<1>3. ASSUME NEW i \in Item, TaskStep(i)
      PROVE  CancelInv'
  <2>a. /\ child \in [ChildId -> Child]
        /\ idOf[i] \in 0..N /\ i \in 0..N /\ 0 \in 0..N
        /\ task[i] \in {"check", "body"} => idOf[i] \in ChildId
    BY MapAssumption DEF Inv, TypeOK, TaskInv, Item, ChildId
  <2>1. CASE Begin(i) \/ EnterChild(i) \/ Panic(i)
    BY <1>1, <2>1 DEF Begin, EnterChild, Panic
  <2>2. CASE Cancel(i)
    BY <2>2, <2>a, FinishCancel DEF Cancel, MayBegin, Runs, Working
  <2>3. CASE ReplayChild(i)
    <3>1. child[idOf[i]].status \in {"succeeded", "failed"} /\ child[idOf[i]].by \in 0..N
      BY <2>3, <2>a DEF ReplayChild, Runs, Child
    <3> QED
      BY <2>3, <3>1, FinishCancel DEF ReplayChild, Runs, Working
  <2>4. CASE SuspendChild(i)
    BY <2>4, <2>a, FinishCancel DEF SuspendChild, Runs, Working
  <2>5. CASE EndChild(i)
    <3>1. PICK status \in {"succeeded", "failed"} : Finish(i, status, i)
      BY <2>5 DEF EndChild
    <3> QED
      BY <2>5, <2>a, <3>1, FinishCancel DEF EndChild, Runs, Working
  <2>6. CASE ChildFails(i)
    BY <2>6, <2>a, FinishCancel DEF ChildFails, Runs, Working
  <2> QED
    BY <1>3, <2>1, <2>2, <2>3, <2>4, <2>5, <2>6 DEF TaskStep
<1>4. CASE Invoke \/ MapStep \/ Crash \/ \E id \in ChildId : TimerFires(id)
  BY <1>1, <1>2, <1>4 DEF Invoke, MapStep, Replay, Spawn, Suspend, EndPending, Complete,
     MapFails, Return, EndWith, Crash, TimerFires
<1> QED
  BY <1>1, <1>3, <1>4 DEF Next

-----------------------------------------------------------------------------
(* The reason of a batch.                                                  *)

\* Two sets of items that have none in common.
LEMMA DisjointItems ==
  ASSUME NEW S \in SUBSET Item, NEW T \in SUBSET Item, S \cap T = {}
  PROVE  Cardinality(S \cup T) = Cardinality(S) + Cardinality(T)
<1>1. IsFiniteSet(S) /\ IsFiniteSet(T) /\ Cardinality(S) \in Nat /\ Cardinality(T) \in Nat
  BY CardinalityBound
<1>2. Cardinality(S \cup T) = Cardinality(S) + Cardinality(T) - Cardinality(S \cap T)
  BY <1>1, FS_Union
<1>3. Cardinality(S \cap T) = 0
  BY FS_EmptySet
<1> QED
  BY <1>1, <1>2, <1>3

\* Every item stands in one place of the batch, so their numbers add up to N.
LEMMA EveryItemCounts ==
  ASSUME TypeOK
  PROVE  /\ Cardinality(With("succeeded")) + Cardinality(With("failed"))
            + Cardinality(With("suspended")) + Cardinality(With("cancelled"))
            + Cardinality(With("pending")) = N
         /\ \A st \in {"succeeded", "failed", "suspended", "cancelled", "pending"} :
              Cardinality(With(st)) \in Nat
<1>1. \A st \in {"succeeded", "failed", "suspended", "cancelled", "pending"} :
        With(st) \in SUBSET Item /\ Cardinality(With(st)) \in Nat
  BY CardinalityBound, MapAssumption DEF With
<1>2. \A st, other \in {"succeeded", "failed", "suspended", "cancelled", "pending"} :
        st # other => With(st) \cap With(other) = {}
  BY DEF With
<1> DEFINE A == With("succeeded") \cup With("failed")
           B == A \cup With("suspended")
           C == B \cup With("cancelled")
<1>3. C \cup With("pending") = Item
  BY DEF TypeOK, BatchItem, With
<1>4. Cardinality(A) = Cardinality(With("succeeded")) + Cardinality(With("failed"))
  BY <1>1, <1>2, DisjointItems
<1>5. Cardinality(B) = Cardinality(A) + Cardinality(With("suspended"))
  <2>1. A \in SUBSET Item /\ A \cap With("suspended") = {}
    BY <1>1, <1>2
  <2> QED
    BY <1>1, <2>1, DisjointItems
<1>6. Cardinality(C) = Cardinality(B) + Cardinality(With("cancelled"))
  <2>1. B \in SUBSET Item /\ B \cap With("cancelled") = {}
    BY <1>1, <1>2
  <2> QED
    BY <1>1, <2>1, DisjointItems
<1>7. Cardinality(Item) = Cardinality(C) + Cardinality(With("pending"))
  <2>1. C \in SUBSET Item /\ C \cap With("pending") = {}
    BY <1>1, <1>2
  <2> QED
    BY <1>1, <1>3, <2>1, DisjointItems
<1> HIDE DEF A, B, C
<1> QED
  BY <1>1, <1>4, <1>5, <1>6, <1>7, ItemsAreFinite

\* What ReasonIsJustified says of the batch that is returned, said of any batch.
Count(batch, status) == Cardinality(ItemsThat(batch, status))

Enough(batch) == \E k \in config.minSuccessful : Count(batch, "succeeded") >= k

TooMany(batch) ==
  \/ \E k \in config.toleratedCount : Count(batch, "failed") > k
  \/ \E p \in config.toleratedPercentage : Count(batch, "failed") * 100 > p * N

Justified(batch) ==
  /\ (batch.reason = "MinSuccessfulReached") <=> Enough(batch)
  /\ (batch.reason = "FailureToleranceExceeded") <=> ~Enough(batch) /\ TooMany(batch)
  /\ (batch.reason = "AllCompleted" /\ Count(batch, "pending") = 0) =>
       Count(batch, "succeeded") + Count(batch, "failed") = N

JustifiedInv == parent.done => Justified(parent.batch)

\* A batch that is complete and not suspended accounts for its items.
LEMMA BatchIsJustified ==
  ASSUME Inv, CancelInv, CompletionReason # "Suspended"
  PROVE  Justified(Batch)
<1>1. \A status : ItemsThat(Batch, status) = With(status)
  BY DEF ItemsThat, Batch, With
<1>2. /\ Count(Batch, "succeeded") = counters.success
      /\ Count(Batch, "failed") = counters.failure
      /\ Count(Batch, "suspended") = counters.suspended
      /\ counters.success \in Nat /\ counters.failure \in Nat /\ counters.suspended \in Nat
  BY <1>1, MapAssumption DEF Inv, TypeOK, CountInv, Count
<1>3. Enough(Batch) <=> MinSuccessfulReached
  BY <1>2 DEF Enough, MinSuccessfulReached
<1>4. TooMany(Batch) <=> FailureToleranceExceeded
  BY <1>2 DEF TooMany, FailureToleranceExceeded
<1>5. Batch.reason = CompletionReason
  BY DEF Batch
<1>6. ASSUME Batch.reason = "AllCompleted", Count(Batch, "pending") = 0
      PROVE  counters.success + counters.failure = N
  <2>1. ~MinSuccessfulReached /\ ~FailureToleranceExceeded
    BY <1>5, <1>6 DEF CompletionReason
  <2>2. ~(Completed + counters.suspended >= N /\ counters.suspended > 0 /\ Completed < N)
    BY <1>5, <1>6, <2>1 DEF CompletionReason
  <2>3. /\ counters.success + counters.failure + counters.suspended
           + Cardinality(With("cancelled")) = N
        /\ Cardinality(With("cancelled")) \in Nat
    BY <1>1, <1>2, <1>6, EveryItemCounts, MapAssumption DEF Inv, Count
  <2>4. CASE Cardinality(With("cancelled")) = 0
    BY <1>2, <2>2, <2>3, <2>4, MapAssumption DEF Completed
  <2>5. CASE Cardinality(With("cancelled")) # 0
    <3>1. With("cancelled") # {}
      BY <2>5, FS_EmptySet
    <3>2. Completed + counters.suspended >= N
      BY <2>1, <3>1 DEF CancelInv, With, ShouldComplete
    <3> QED
      BY <1>2, <2>3, <2>5, <3>2, MapAssumption DEF Completed
  <2> QED
    BY <2>4, <2>5
<1> QED
  BY <1>2, <1>3, <1>4, <1>5, <1>6 DEF Justified, CompletionReason

LEMMA JustifiedStep == Inv /\ CancelInv /\ JustifiedInv /\ [Next]_vars => JustifiedInv'
<1> SUFFICES ASSUME Inv, CancelInv, JustifiedInv, [Next]_vars
             PROVE  JustifiedInv'
  OBVIOUS
<1>1. config' = config
  BY DEF Next, TaskStep, Cancel, Begin, ReplayChild, EnterChild, SuspendChild, EndChild,
     ChildFails, Panic, Invoke, MapStep, Replay, Spawn, Suspend, Complete, MapFails, Return,
     Crash, TimerFires
<1>2. \A batch : Justified(batch) => Justified(batch)'
  BY <1>1 DEF Justified, Enough, TooMany, Count, ItemsThat
<1>3. CASE parent' = parent
  BY <1>2, <1>3 DEF JustifiedInv
<1>4. CASE parent' # parent
  <2>1. CompletionReason # "Suspended" /\ parent' = [done |-> TRUE, batch |-> Batch]
    BY <1>4 DEF Next, TaskStep, Cancel, Begin, ReplayChild, EnterChild, SuspendChild,
       EndChild, ChildFails, Panic, Invoke, MapStep, Replay, Spawn, Suspend, Complete,
       MapFails, Joined, At, Return, Crash, TimerFires
  <2>2. Justified(Batch)
    BY <2>1, BatchIsJustified
  <2>3. Justified(parent.batch)'
    BY <1>1, <2>1, <2>2 DEF Justified, Enough, TooMany, Count, ItemsThat
  <2> QED
    BY <2>3 DEF JustifiedInv
<1> QED
  BY <1>3, <1>4

LEMMA JustifiedInit == Init => JustifiedInv
BY DEF Init, JustifiedInv

\* The reason of the batch, which the code computes from its counters, is what the
\* items of the batch show, whatever the settings; and a batch that calls itself
\* complete has a result of every item, unless an item's code has panicked.
THEOREM ReasonsAreJustified == Spec => []ReasonIsJustified
<1>1. StableInv /\ JustifiedInv => ReasonIsJustified
  <2> SUFFICES ASSUME StableInv, JustifiedInv, returned # NoBatch
               PROVE  Justified(returned)
    BY DEF ReasonIsJustified, ReturnedCount, Justified, Enough, TooMany, Count
  <2> QED
    BY DEF StableInv, JustifiedInv
<1> QED
  BY <1>1, StableInvariance, CancelInit, CancelStep, JustifiedInit, JustifiedStep,
     Invariance, PTL DEF Spec

=============================================================================
