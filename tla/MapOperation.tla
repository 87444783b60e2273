---------------------------- MODULE MapOperation ----------------------------
(***************************************************************************)
(* A map over its items, from its first invocation to the handler's end:   *)
(* map_handler, the tasks that ConcurrentExecutor spawns, one per item,    *)
(* and the child context that each task runs.  parallel_handler has the    *)
(* same steps.  An item's code may first wait below its child context,     *)
(* which suspends its task, and the map, until a later invocation.         *)
(*                                                                         *)
(* The handler suspends when its map reports Suspended.  What a task does  *)
(* between two of its checkpoints is one step.                             *)
(***************************************************************************)
EXTENDS FiniteSets, Integers

CONSTANTS N,                 \* the number of items
          Waits,             \* the items whose code waits
          Settings,          \* the MapConfigs considered, each with its tokio runtime
          MaxInterruptions   \* bounds the crashes

Item == 1..N

\* The ids that OperationIdGenerator gives to the map's children, in their order.
ChildId == 1..N

\* An Option<usize> is a set of one number or none; percentages are out of 100.  A
\* semaphore of no permits would let no task run.
Config == [maxConcurrency : SUBSET (Nat \ {0}), minSuccessful : SUBSET Nat,
           toleratedCount : SUBSET Nat, toleratedPercentage : SUBSET (0..100)]

\* The worker threads that tokio polls the tasks on.
Threads == {"one", "many"}

ASSUME MapAssumption ==
  /\ N \in Nat \ {0}
  /\ Waits \subseteq Item
  /\ MaxInterruptions \in Nat

ASSUME SettingsAssumption == Settings \subseteq [config : Config, threads : Threads]

VARIABLES
  config,         \* the MapConfig
  threads,        \* the tokio runtime
  parent,         \* the service's operation of the map
  child,          \* the service's operations of the child contexts
  timer,          \* the service's waits below them
  invocation,     \* due, running, suspended or over
  pc,             \* the handler: call, join, after
  task,           \* the task of each item
  idOf,           \* the id each task has taken
  nextId,         \* the generator's counter
  items,          \* the results, one BatchItem per item
  counters,       \* ExecutionCounters
  returned,       \* the BatchResult the map has returned in this invocation
  output,         \* the execution's output
  interruptions,  \* crashes so far
  first           \* history: the first BatchResult the map has returned

settings == <<config, threads>>
stored   == <<parent, child, timer>>
executor == <<task, idOf, nextId, items, counters>>
vars     == <<settings, stored, invocation, pc, executor, returned, output,
              interruptions, first>>

-----------------------------------------------------------------------------
(* Results.                                                                *)

\* by is the item whose code has produced the value or the error.
BatchItem == [status : {"pending", "cancelled", "suspended", "succeeded", "failed"},
              by : 0..N]

Entry(status, i) == [status |-> status, by |-> i]

Reason == {"AllCompleted", "MinSuccessfulReached", "FailureToleranceExceeded", "Suspended"}

BatchResult == [reason : Reason, items : [Item -> BatchItem]]

NoBatch == [reason |-> "Suspended", items |-> [i \in Item |-> Entry("pending", 0)]]

\* BatchResult::succeeded, failed and the like.
ItemsThat(batch, status) == {i \in Item : batch.items[i].status = status}

\* get_results is an error when the batch has failed as a whole, and only then.
IsFailure(batch) == batch.reason = "FailureToleranceExceeded"

Child == [status : {"none", "started", "succeeded", "failed"}, by : 0..N]

NoCount == [success |-> 0, failure |-> 0, suspended |-> 0]

Completed == counters.success + counters.failure

-----------------------------------------------------------------------------
(* ExecutionCounters                                                       *)

MinSuccessfulReached == \E k \in config.minSuccessful : counters.success >= k

FailureToleranceExceeded ==
  \/ \E k \in config.toleratedCount : counters.failure > k
  \/ \E p \in config.toleratedPercentage : counters.failure * 100 > p * N

\* should_complete gives a reason.
ShouldComplete ==
  \/ MinSuccessfulReached
  \/ FailureToleranceExceeded
  \/ Completed + counters.suspended >= N

\* Mutant: a suspended item is as good as a completed one.
CompletionReasonOfSettled ==
  CASE MinSuccessfulReached     -> "MinSuccessfulReached"
    [] ~MinSuccessfulReached /\ FailureToleranceExceeded -> "FailureToleranceExceeded"
    [] OTHER                    -> "AllCompleted"

\* The reason it gives, or AllCompleted for a batch it gives none: one of whose tasks
\* has panicked.
CompletionReason ==
  CASE MinSuccessfulReached     -> "MinSuccessfulReached"
    [] ~MinSuccessfulReached /\ FailureToleranceExceeded -> "FailureToleranceExceeded"
    [] OTHER -> IF /\ Completed + counters.suspended >= N
                   /\ counters.suspended > 0
                   /\ Completed < N
                THEN "Suspended" ELSE "AllCompleted"

-----------------------------------------------------------------------------
(* Invocations.                                                            *)

\* The executor of an invocation, before its tasks are spawned.
Executor == [task |-> [i \in Item |-> "none"], idOf |-> [i \in Item |-> 0],
             nextId |-> 0, items |-> NoBatch.items, counters |-> NoCount]

Init ==
  /\ \E s \in Settings : config = s.config /\ threads = s.threads
  /\ parent = [done |-> FALSE, batch |-> NoBatch]
  /\ child = [id \in ChildId |-> Entry("none", 0)]
  /\ timer = [id \in ChildId |-> "none"]
  /\ invocation = "due"
  /\ pc = "call"
  /\ task = Executor.task
  /\ idOf = Executor.idOf
  /\ nextId = Executor.nextId
  /\ items = Executor.items
  /\ counters = Executor.counters
  /\ returned = NoBatch
  /\ output = "none"
  /\ interruptions = 0
  /\ first = NoBatch

Invoke ==
  /\ invocation = "due"
  /\ invocation' = "running"
  /\ UNCHANGED <<settings, stored, pc, executor, returned, output, interruptions, first>>

\* Mutant: the generator of the ids outlives the invocation.
ForgetButIds ==
  /\ pc' = "call"
  /\ task' = Executor.task
  /\ idOf' = Executor.idOf
  /\ nextId' = nextId
  /\ items' = Executor.items
  /\ counters' = Executor.counters
  /\ returned' = NoBatch

Forget ==
  /\ pc' = "call"
  /\ task' = Executor.task
  /\ idOf' = Executor.idOf
  /\ nextId' = Executor.nextId
  /\ items' = Executor.items
  /\ counters' = Executor.counters
  /\ returned' = NoBatch

Crash ==
  /\ invocation = "running"
  /\ interruptions < MaxInterruptions
  /\ interruptions' = interruptions + 1
  /\ Forget
  /\ invocation' = "due"
  /\ UNCHANGED <<settings, stored, output, first>>

EndWith(result) ==
  /\ Forget
  /\ output' = result
  /\ invocation' = "over"

\* The service starts the next invocation when a wait is over, as one may be by now.
EndPending ==
  /\ Forget
  /\ output' = output
  /\ invocation' \in {"due"} \cup
       IF \E id \in ChildId : timer[id] = "pending" THEN {"suspended"} ELSE {}

TimerFires(id) ==
  /\ timer[id] = "pending"
  /\ timer' = [timer EXCEPT ![id] = "done"]
  /\ invocation' = IF invocation = "suspended" THEN "due" ELSE invocation
  /\ UNCHANGED <<settings, parent, child, pc, executor, returned, output,
                 interruptions, first>>

-----------------------------------------------------------------------------
(* The map's own steps.                                                    *)

At(point) == invocation = "running" /\ pc = point

ReturnBatch(batch) ==
  /\ returned' = batch
  /\ first' = IF first = NoBatch THEN batch ELSE first
  /\ pc' = "after"

Replay ==
  /\ At("call")
  /\ parent.done
  /\ ReturnBatch(parent.batch)
  /\ UNCHANGED <<settings, stored, invocation, executor, output, interruptions>>

\* The START of the map is recorded, again when it already was, and the tasks are
\* spawned.
Spawn ==
  /\ At("call")
  /\ ~parent.done
  /\ pc' = "join"
  /\ task' = [i \in Item |-> "spawned"]
  /\ UNCHANGED <<settings, stored, invocation, idOf, nextId, items, counters, returned,
                 output, interruptions, first>>

\* Mutant: the map stops waiting once a completion condition holds.
JoinedEarly == At("join") /\ (ShouldComplete \/ \A i \in Item : task[i] # "spawned")

\* Mutant: the map waits for the result of every task.
JoinedOnResults == At("join") /\ \A i \in Item : task[i] = "done"

\* Every handle is awaited, and a panic is ignored.
Joined == At("join") /\ \A i \in Item : task[i] \in {"done", "panicked"}

Batch == [reason |-> CompletionReason, items |-> items]

Suspend ==
  /\ Joined
  /\ CompletionReason = "Suspended"
  /\ EndPending
  /\ UNCHANGED <<settings, stored, interruptions, first>>

\* Mutant: the batch is returned and not recorded.
CompleteUnrecorded ==
  /\ Joined
  /\ CompletionReason # "Suspended"
  /\ ReturnBatch(Batch)
  /\ UNCHANGED <<settings, stored, invocation, executor, output, interruptions>>

Complete ==
  /\ Joined
  /\ CompletionReason # "Suspended"
  /\ parent' = [done |-> TRUE, batch |-> Batch]
  /\ ReturnBatch(Batch)
  /\ UNCHANGED <<settings, child, timer, invocation, executor, output, interruptions>>

\* A checkpoint of the map itself fails, recorded or not, and with it the execution.
MapFails ==
  /\ \/ At("call") /\ ~parent.done
     \/ Joined /\ CompletionReason # "Suspended"
  /\ parent' \in {parent} \cup IF pc = "join" THEN {[done |-> TRUE, batch |-> Batch]} ELSE {}
  /\ EndWith("failed")
  /\ UNCHANGED <<settings, child, timer, interruptions, first>>

\* The handler goes on with get_results()?.
Return ==
  /\ At("after")
  /\ EndWith(IF IsFailure(returned) THEN "failed" ELSE "succeeded")
  /\ UNCHANGED <<settings, stored, interruptions, first>>

-----------------------------------------------------------------------------
(* The tasks.                                                              *)

Holding == {i \in Item : task[i] \in {"check", "body"}}

Runs(i, point) == invocation = "running" /\ task[i] = point

\* A task ends: its result and its counter change under the lock of the results.
Finish(i, status, by) ==
  /\ task' = [task EXCEPT ![i] = "done"]
  /\ items' = [items EXCEPT ![i] = Entry(status, by)]
  /\ counters' = CASE status = "succeeded" -> [counters EXCEPT !.success = @ + 1]
                   [] status = "failed"    -> [counters EXCEPT !.failure = @ + 1]
                   [] status = "suspended" -> [counters EXCEPT !.suspended = @ + 1]
                   [] OTHER                -> counters

\* Mutant: a permit goes to whichever task asks first.
MayBeginUnordered(i) ==
  /\ Runs(i, "spawned")
  /\ \A k \in config.maxConcurrency : Cardinality(Holding) < k

\* On one thread the tasks are first polled in the order they were spawned in, and
\* the semaphore hands its permits out in the order it was asked.
MayBegin(i) ==
  /\ Runs(i, "spawned")
  /\ \A k \in config.maxConcurrency : Cardinality(Holding) < k
  /\ threads = "one" => \A j \in 1..(i - 1) : task[j] # "spawned"

Cancel(i) ==
  /\ MayBegin(i)
  /\ ShouldComplete
  /\ Finish(i, "cancelled", 0)
  /\ UNCHANGED <<settings, stored, invocation, pc, idOf, nextId, returned, output,
                 interruptions, first>>

\* The task takes the next id when it gets to run, not when it is spawned.
Begin(i) ==
  /\ MayBegin(i)
  /\ ~ShouldComplete
  /\ task' = [task EXCEPT ![i] = "check"]
  /\ nextId' = nextId + 1
  /\ idOf' = [idOf EXCEPT ![i] = nextId + 1]
  /\ UNCHANGED <<settings, stored, invocation, pc, items, counters, returned, output,
                 interruptions, first>>

\* child_handler finds the child context ended ...
ReplayChild(i) ==
  /\ Runs(i, "check")
  /\ child[idOf[i]].status \in {"succeeded", "failed"}
  /\ Finish(i, child[idOf[i]].status, child[idOf[i]].by)
  /\ UNCHANGED <<settings, stored, invocation, pc, idOf, nextId, returned, output,
                 interruptions, first>>

\* Mutant: a failed child context is run again.
EnterChildUnlessSucceeded(i) ==
  /\ Runs(i, "check")
  /\ child[idOf[i]].status # "succeeded"
  /\ child' = [child EXCEPT ![idOf[i]] = Entry("started", 0)]
  /\ task' = [task EXCEPT ![i] = "body"]
  /\ UNCHANGED <<settings, parent, timer, invocation, pc, idOf, nextId, items, counters,
                 returned, output, interruptions, first>>

\* ... or runs the item's code, after the START if there was none.
EnterChild(i) ==
  /\ Runs(i, "check")
  /\ child[idOf[i]].status \in {"none", "started"}
  /\ child' = [child EXCEPT ![idOf[i]] = Entry("started", 0)]
  /\ task' = [task EXCEPT ![i] = "body"]
  /\ UNCHANGED <<settings, parent, timer, invocation, pc, idOf, nextId, items, counters,
                 returned, output, interruptions, first>>

\* The item's code waits below its child context; a suspension is not recorded.
SuspendChild(i) ==
  /\ Runs(i, "body")
  /\ i \in Waits
  /\ timer[idOf[i]] # "done"
  /\ timer' = [timer EXCEPT ![idOf[i]] = "pending"]
  /\ Finish(i, "suspended", 0)
  /\ UNCHANGED <<settings, parent, child, invocation, pc, idOf, nextId, returned, output,
                 interruptions, first>>

\* The item's code ends, and so does its child context.
EndChild(i) ==
  /\ Runs(i, "body")
  /\ i \in Waits => timer[idOf[i]] = "done"
  /\ \E status \in {"succeeded", "failed"} :
       /\ child' = [child EXCEPT ![idOf[i]] = Entry(status, i)]
       /\ Finish(i, status, i)
  /\ UNCHANGED <<settings, parent, timer, invocation, pc, idOf, nextId, returned, output,
                 interruptions, first>>

\* A checkpoint of the child context fails, recorded or not: the item has failed,
\* whatever the service holds.
ChildFails(i) ==
  /\ Runs(i, "body") \/ (Runs(i, "check") /\ child[idOf[i]].status = "none")
  /\ child' \in {child} \cup
       {[child EXCEPT ![idOf[i]] = entry] : entry \in
          IF task[i] = "check" THEN {Entry("started", 0)}
          ELSE {Entry(status, i) : status \in {"succeeded", "failed"}}}
  /\ Finish(i, "failed", i)
  /\ UNCHANGED <<settings, parent, timer, invocation, pc, idOf, nextId, returned, output,
                 interruptions, first>>

\* The item's code panics: its result stays pending, and nothing counts it.
Panic(i) ==
  /\ Runs(i, "body")
  /\ task' = [task EXCEPT ![i] = "panicked"]
  /\ UNCHANGED <<settings, stored, invocation, pc, idOf, nextId, items, counters,
                 returned, output, interruptions, first>>

-----------------------------------------------------------------------------

TaskStep(i) == \/ Cancel(i) \/ Begin(i) \/ ReplayChild(i) \/ EnterChild(i)
               \/ SuspendChild(i) \/ EndChild(i) \/ ChildFails(i) \/ Panic(i)

MapStep == Replay \/ Spawn \/ Suspend \/ Complete \/ MapFails \/ Return

Next == \/ Invoke
        \/ MapStep
        \/ \E i \in Item : TaskStep(i)
        \/ \E id \in ChildId : TimerFires(id)
        \/ Crash

Spec == Init /\ [][Next]_vars

\* The runtime polls every task, timers fire, and the service invokes what is due.
FairSpec == /\ Spec
            /\ WF_vars(Invoke)
            /\ WF_vars(MapStep)
            /\ \A i \in Item : WF_vars(TaskStep(i))
            /\ \A id \in ChildId : WF_vars(TimerFires(id))

-----------------------------------------------------------------------------

TypeOK ==
  /\ [config |-> config, threads |-> threads] \in Settings
  /\ parent \in [done : BOOLEAN, batch : BatchResult]
  /\ child \in [ChildId -> Child]
  /\ timer \in [ChildId -> {"none", "pending", "done"}]
  /\ invocation \in {"due", "running", "suspended", "over"}
  /\ pc \in {"call", "join", "after"}
  /\ task \in [Item -> {"none", "spawned", "check", "body", "done", "panicked"}]
  /\ idOf \in [Item -> 0..N]
  /\ nextId \in 0..N
  /\ items \in [Item -> BatchItem]
  /\ counters \in [success : 0..N, failure : 0..N, suspended : 0..N]
  /\ returned \in BatchResult
  /\ output \in {"none", "succeeded", "failed"}
  /\ interruptions \in 0..MaxInterruptions
  /\ first \in BatchResult

-----------------------------------------------------------------------------
(* Properties.                                                             *)

\* Whichever invocation the map returns in, it returns the batch it returned first:
\* what the handler decides from a batch, a crash does not revise.
BatchIsStable == returned # NoBatch => returned = first

ReturnedCount(status) == Cardinality(ItemsThat(returned, status))

\* The reason that a batch gives, computed from counters, is what its items show,
\* and a batch that claims to be complete leaves no item behind, unless the code of
\* an item has panicked.
ReasonIsJustified ==
  LET enough  == \E k \in config.minSuccessful : ReturnedCount("succeeded") >= k
      tooMany == \/ \E k \in config.toleratedCount : ReturnedCount("failed") > k
                 \/ \E p \in config.toleratedPercentage :
                      ReturnedCount("failed") * 100 > p * N
  IN  returned # NoBatch =>
        /\ (returned.reason = "MinSuccessfulReached") <=> enough
        /\ (returned.reason = "FailureToleranceExceeded") <=> ~enough /\ tooMany
        /\ (returned.reason = "AllCompleted" /\ ReturnedCount("pending") = 0) =>
             ReturnedCount("succeeded") + ReturnedCount("failed") = N

\* Once the map is recorded nothing below it changes by its tasks any more: an item
\* that an early completion has overtaken is awaited, not orphaned.
NothingRunsAfterTheMap == [][parent.done => UNCHANGED child]_vars

\* What the service has recorded of a child context that has ended stays, through
\* crashes, suspensions and new invocations: no item's code runs again after it.
EndedChildIsFinal ==
  [][\A id \in ChildId : child[id].status \in {"succeeded", "failed"} =>
       child'[id] = child[id]]_vars

\* A result stands at the index of the item whose code has produced it.
ItemKeepsItsResult ==
  \A i \in Item : items[i].status = "succeeded" => items[i].by = i

\* It does so on a runtime of one thread, where the tasks take their ids in the
\* order they were spawned in, also below a semaphore and after early completion.
OneThreadKeepsItems == threads = "one" => ItemKeepsItsResult

\* Every execution of a map ends, whatever its items do: succeed, fail, wait or panic.
MapEnds == <>(invocation = "over")

=============================================================================
