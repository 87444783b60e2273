# Verification of the AWS durable execution SDK for Rust

The SDK lets an AWS Lambda function be written as one long handler. Every durable
operation of the handler (a step, a wait, a callback, an invoked function, a
condition, a child context, a map, a race) is checkpointed to a service; when the
function crashes, is timed out, or suspends, a later invocation runs the handler again
from the beginning, and each operation that has ended returns its recorded result
instead of running. The promise is that the handler appears to run once. This directory
models how the code keeps that promise, checks the models with TLC, and proves part of
what is checked with TLAPS. Paths below are relative to `aws-durable-execution-sdk/`.

## Inventory

| Component | State | Operations | Interacts with | What is hard | Must hold |
|---|---|---|---|---|---|
| Checkpoint batcher (`sdk/src/state/batcher.rs`) | bounded `mpsc` queue, the batch being collected, attempts | `CheckpointSender::checkpoint`, `run`, `collect_batch`, `sort_checkpoint_batch`, `process_batch`, `checkpoint_with_retry` | callers, the shared token, the service | a task of its own; a full queue; throttling; lost answers; stopping while others still send | acknowledged means recorded; recorded once, in order; every waiter answered |
| Execution state (`sdk/src/state/execution_state.rs`) | cache of operations, checkpoint token, completed parents, replay status, next page marker | `create_checkpoint`, `create_checkpoint_with_response`, `get_checkpoint_result`, `mark_parent_done`, `track_replay`, `complete_execution_success` | every handler, the batcher, the service | the token has two writers; the orphan check and the send are two steps; the cache may lag | the cache shows what is recorded; the token never goes back; no orphans |
| Runtime (`sdk/src/runtime.rs`, `termination.rs`) | the handler's future, the batcher's task | `run_durable_handler`, `process_result` | Lambda, handler, batcher | the deadline wins at any point; drop of the handler; drain with a timeout | nobody is stranded; outputs mean what they say |
| Handlers (`sdk/src/handlers/`: step, wait, callback, invoke, wait_for_condition) | none but the cache | replay check, START, user code, SUCCEED, FAIL or RETRY, CANCEL | execution state | a crash between any two of these; operations that end while nobody looks | replay agrees with the first time; nothing that ended runs again |
| Child context (`handlers/child.rs`), ids (`context.rs`) | the step counter of each context, completed parents | `child_handler`, `next_operation_id`, `create_child_context` | every handler | suspension from within; bodies that are replayed for their result | same call, same id; ended means all of it has ended |
| Map, parallel (`handlers/map.rs`, `parallel.rs`) and executor (`concurrency.rs`) | tasks, counters, results, permits | `map_handler`, `parallel_handler`, `ConcurrentExecutor::execute` | tokio, child contexts | real concurrency; early completion; suspended and panicking tasks; ids taken by racing tasks | results at their items; the reason true; the batch stable |
| Promise combinators (`handlers/promise.rs`, `macros.rs`) | spawned branches, a channel of results | `all`, `all_settled`, `race`, `any` and their macros | tokio, steps of a cloned context | which branch is first; losers that run on; panics | the choice is replayed, and rests on what is recorded |
| Errors (`error.rs`) | none | variants of `DurableError`, `ErrorObject` and back | every handler | an error is stored as one thing and read as another | replay fails as the first run did |
| Configuration (`config.rs`, `retry_presets.rs`, `duration.rs`) | none | completion, wait and retry strategies, `ItemBatcher` | handlers | boundaries, clamping, jitter | limits are respected |
| Service client (`client.rs`) and service | operations, token, invocations | `checkpoint`, `get_operations` | execution state | it is remote | (assumed) |
| Checkpoint server (`testing/src/checkpoint_server/`) | operations, dirty set, open invocations, callbacks, events | checkpoints, `start_invocation`, callback answers, `get_operations` | the SDK under test, the orchestrator | copies of operations that lag | behaves as the service does |
| Orchestrator (`orchestrator.rs`) and local runner | pending operations, iteration and poll counts, handles | the loop of invocations | server, handler, test | a test that answers at any time; limits; what stays pending | a run ends and reports what happened |
| Examples (`examples/src/bin/`) | none | some eighty handlers | the SDK | | each keeps the promises above |
| Serialisation, logging, Lambda glue, procedural macros | none shared | | | | |

`PROJECT.json` lists every component with its status, every hazard at its line and the
property that covers it.

## The modules

| Module | Models | About |
|---|---|---|
| `CheckpointOrder` | `sort_checkpoint_batch` | the comparator with its four rules, and the sort as `slice::sort_by` does it on short slices |
| `CheckpointOrderProofs` | | what the sort makes of a batch of any length |
| `CheckpointBatcher` | `state/batcher.rs`, `ExecutionState`, `runtime.rs` | one invocation seen from its checkpoints |
| `CheckpointBatcherProofs` | | theorems about it |
| `OperationRecords` | `operation.rs`, the cache of `execution_state.rs`, `checkpoint_result.rs`, the server's `checkpoint_manager.rs` | one operation field by field, in the cache and at the service |
| `DurableExecution` | (abstract) | the promise: one run, one result for each operation |
| `ReplayChecks` | the replay check of each handler, `replay.rs`, `operation.rs` | what a recorded operation makes a handler do and return; shared by three models |
| `DurableReplay` | the handlers of `handlers/`, `runtime.rs` | a flat handler over all its invocations; implements `DurableExecution` |
| `DurableReplayProofs` | | theorems about it |
| `HandlerCalls` | configurations and constructors of calls | a handler as data |
| `ExampleHandlers`, `MapExamples`, `PromiseExamples` | `examples/src/bin` | the examples as data, each under its own name |
| `DurableContexts` | `child.rs`, `context.rs`, all operations | a handler with nested contexts over all its invocations |
| `DurableContextsProofs` | | theorems about it: what invocations find and return; how often user code runs and what is left behind |
| `MapOperation` | `map.rs`, `parallel.rs`, `concurrency.rs`, `child.rs`, ids | one map over all the invocations of its execution |
| `MapOperationProofs` | | theorems about it |
| `PromiseCombinators` | `promise.rs` | combinators and their branches over all invocations |
| `PromiseCombinatorsProofs` | | theorems about it |
| `Errors`, `Strategies` | `error.rs`; `config.rs`, `retry_presets.rs` | pure functions |
| `Algorithms` | | the inputs of the pure functions and of `OperationRecords`, one step longer at a time, and their properties |
| `AlgorithmsProofs` | | theorems about it |
| `CheckpointServer` | the testing crate's server | stands in for the service |
| `TestOrchestrator` | the testing crate's loop, with the server, the handler and the test | one run of a test |
| `TestOrchestratorProofs` | | theorems about it |
| `*MC` | | the constants of the runs |

The components are modelled apart because they are hard for different reasons, and meet at four
abstractions. `CheckpointBatcher` shows that a synchronous checkpoint that returns `Ok` is
recorded once, which is what all other modules take a checkpoint to be. `ReplayChecks` is one
definition of what a handler decides, used by `DurableReplay`, `DurableContexts` and
`TestOrchestrator`; `OperationRecords` shows that a record of four fields is all that these three
need to keep of an operation. `MapOperation` and `PromiseCombinators` treat what an item or a
branch does below its own operation as what `DurableReplay` and `DurableContexts` are about.
`TestOrchestrator` is composed of `CheckpointServer`, whose operations its actions call, and a
handler with a cache of its own.

### CheckpointBatcher

`call[r]` is how far the caller of request `r` has got, from the orphan check
(`Issue`), over the queue (`Enqueue`) or past it (`SendDirect`), to the update of the
cache (`Return`) and `mark_parent_done` (`MarkParentDone`). These are separate actions
because the code awaits, or releases a lock, between them. `batcher`, `batch`,
`batchToken`, `attempt` and `batchReply` are the locals of the batcher's task. `queue`
is the channel. The service (`serviceToken`, `log`) accepts a call that carries its
current token; it may refuse, throttle, or record and have its answer lost. `runtime`
and `output` are those of `run_durable_handler`: when the handler is done or the
deadline has won, the handler's future and all calls in it are dropped, tasks that it
has spawned go on, and the batcher is drained until its channel closes or the drain
times out. The size limit and the 100 ms window of a batch are abstracted to "a batch
may end after any request"; batched mode is modelled, the default.

### DurableReplay

`ops` is the service's table of operations, `cache` the copy an invocation works on.
The handler is a function `Code` from the results so far to its next call: a
deterministic handler, as the SDK demands. The `...Decision` operators of `ReplayChecks`
are the replay checks of the handlers, one per kind of operation; the actions are what
follows the check: replay, send START, run the user code, suspend, send the result.
`Crash` and `Deadline` interrupt any step, and an update in flight may or may not be
recorded. `observed` and `runs` are history variables. A step runs once:
`execute_with_retry` takes a retry strategy and does not use it (`step.rs:545`).

### DurableContexts

Handlers are data here (`HandlerCalls`): a sequence of calls, each with the outcomes its user
code can have, what the code around it makes of each outcome (pass it on with `?`, catch it,
return), and, for a child context, the calls of its closure. `stack` is the contexts that are
open, each with its counter, the ids its calls have got and their results; an id is the path of
counters, as the code's is a hash of the parent's id and the counter. `Invoke` starts again with
an empty stack over the same `log`. `EnterChild`, `EndChild` and `ReplayChild` are
`child_handler`: an error mapper, a summary in place of a result that is too large, and
`replay_children`, which runs the closure of a context that has succeeded again, in replay.
`CancelWait` and `CancelTooLate` are `wait_cancel_handler`; no method of the context gives a
caller the id of a wait it has made, and the handlers of the model keep it. `TrackReplay` is the
replay status of `ExecutionState`. `RecordLargeResult` records a result above 6 MB as that of the
execution before `EndHandler` returns, so that a crash can come between the two. Compared with
`DurableReplay`, user code and its checkpoint are one step each and the cache is left out: a
running invocation does not see what the service does meanwhile.

`ExampleHandlers` has 57 examples of the repository. Durations, names and payloads are
left out; what is kept is the order of the calls, how each can end, what the handler makes
of that, and the flags of `ChildConfig` and the other configurations.

### OperationRecords

The same update is applied twice, by different code: `update_local_cache_from_update`
changes the `Operation` of the running invocation (`cached`), the service its own
(`recorded`; the testing crate's `merge_operation_update` stands for it). The two do not
agree field by field: the server merges, so that an update without a result leaves the
old one, and keeps the payload of a RETRY both as a result and in the step's details; the
cache overwrites, counts the attempts and begins again with a START. What a handler reads
through `CheckpointedResult` (`Read`) must be the same all the same, and must be the
operation of `ReplayChecks`, which `known` and `truth` follow. The updates are those that
the handlers send (`HandlerUpdates`), given what they have read in the cache.

### MapOperation

`task[i]` is the task that `ConcurrentExecutor::execute` spawns for item `i`; it waits
for a permit, checks for early completion, takes the next id (`Begin`), and runs
`child_handler` under it. `child` and `timer` are the service's and are keyed by id,
`items` by item: that they can differ is the point. `threads` is the flavour of the
tokio runtime: on one thread the tasks begin in the order they were spawned in (tasks
are first polled in order, the semaphore is fair), on many in any order. A `by` field
says which item's code has produced a result. `parallel_handler` differs from
`map_handler` in what a task runs alone, so that the one module stands for both.

### PromiseCombinators

A handler calls combinators one after the other. `branch` is the tasks that a combinator
has spawned: they begin, end, panic and deliver their results at any time, those of
earlier combinators too, since `race` and `any` do not cancel the losers. `settled` is the
channel; `Decide` is what each combinator makes of it, recorded as one STEP operation;
`Replay` is `check_replay`. A branch is a plain future or awaits one step; its id comes
from the handler's own counter, as in the examples, which clone the context, or from a
context of its own (`own`). `Crash` loses all tasks, recorded steps stay.

### CheckpointServer and TestOrchestrator

`operations`, `dirty`, `open`, `callbacks`, `completed` and `history` are the server's
maps; its worker thread serves one request at a time, so a request is a step.
`TestOrchestrator` adds the orchestrator's loop (`phase`, `iterations`, `polls`,
`pending`, what it has last `fetched`), the operations the test's handles show (`shared`),
the SDK's `cache`, and the handler. Between two steps of the loop the test may answer any
callback that a handle shows (`Answer`), which the code allows while it polls or awaits.
Simulated time is left out, because with `skip_time` or without the loop resolves a wait
as soon as it sees it (`testing/src/time_control.rs:37`).

### Errors and Strategies

`Errors` has the variants of `DurableError`, the `ErrorObject` each is stored as, and what
each operation returns when it reads one back. `Strategies` has the delays of the retry and
wait strategies in whole seconds, with a growth factor in halves and a jitter in quarters
where the code has floating point, and `ItemBatcher::create_batches`.

## What the runs show

Passing runs:

- **batcher** (`FairSpec`): five requests with every feature (a context with a
  fire-and-forget update in it, an update below it from a spawned task, a direct callback),
  a queue of two, batches of two, one retry: the smallest bounds at which the queue blocks,
  a batch mixes callers, a batch is cut off, and a retry succeeds or runs out. It shows
  that acknowledged updates are recorded (`AckImpliesRecorded`), once (`RecordedOnce`), in
  an order that replay can rely on (`RecordedInProgramOrder`); that the cache does not run
  ahead (`CacheIsRecorded`); that the two writers of the token do no harm to it
  (`TokenNeverRegresses`); that stopping is safe (`StopStrandsNobody`) and waiting ends
  (`WaiterIsAnswered`).
- **algorithms** (each state is an input): `SortIsSafe` on all batches of up to
  five updates, in all orders, of a small set that holds a nested context, a root step and
  the end of the execution: on batches in program order, which are those that arise, the
  sort moves nothing but the end of the execution, and this is why a comparator that is not
  a total order does no harm. `DelaysAreBounded` on every strategy with up to five
  attempts and each jitter. `BatchesPartitionItems` on up to five items of three sizes.
  `StoredErrorIsStable` on errors that pass through up to four nested operations, each
  live or replayed. And, from one initial state for each kind of operation, every history of
  its record under three checks at most, with batched and direct checkpoints, crashes before
  and after the recording, and every ending (`RecordsReadTheSame`).
- **replay** (`FairSpec`): a handler of both kinds of steps, a condition, a wait, a callback
  with its result and an invoke, with two interruptions at any point. Each
  invocation agrees with those before it (`ReplayAgrees`), is never accused of being
  non-deterministic, and replays what `check_replay` would (`NoFalseAlarm`); it sends
  nothing about operations that have ended (`UpdatesAreLive`), runs user code only under a
  recorded START where it promised to (`StartedBeforeRun`) and never for an operation that
  has ended (`EndedIsNotRerun`); the execution ends (`ExecutionEnds`); and the
  whole implements `DurableExecution` under the mapping of its results to `observed`
  (`ImplementsOneRun`).
- **contexts** (`FairSpec`): those 57 examples and three handlers in which more can differ:
  contexts in contexts that fail and wait, a context that is reconstructed from its
  children, a wait that is cancelled, perhaps too late. Two crashes at any point. Each call
  returns what it returned first (`ReplayAgrees`), a context ends after its parts
  (`EndsAfterItsParts`) and nothing is recorded below it afterwards (`ContextIsSealed`),
  user code is rerun for a crash alone and, but for a submitter (see the run **submitter**),
  never once its end is recorded (`RerunsAreCaused`), and the execution ends.
- **map** (`FairSpec`): three items, the second of which waits, the configurations of the
  examples and one of each kind on one thread, one that ends early on many, one crash. The
  batch is the same in each invocation (`BatchIsStable`), its reason is what its items show
  (`ReasonIsJustified`), on one thread the results stay with their items
  (`OneThreadKeepsItems`), nothing runs on below a finished map
  (`NothingRunsAfterTheMap`), no child context that ended is run again
  (`EndedChildIsFinal`), and the map ends even when items panic (`MapEnds`).
- **promise** (`FairSpec`): the seven examples with one combinator over steps, a handler with
  all four over branches that have contexts of their own, and one without branches; many
  threads, two crashes. Whichever branch was first, a combinator returns what it returned
  before the crash (`CombinatorReplays`); it never decides by a step that a crash can still
  undo (`DecisionIsDurable`); `all` keeps its indices and blames the first failure
  (`AllKeepsIndices`); panicking branches keep nobody waiting (`HandlerEnds`).
- **orchestrator** (`FairSpec`): thirteen examples without contexts and seven handlers, two that
  leave several kinds of operations pending and five that record the end of the execution
  themselves (a result, one of another type than the handler's, a failure) and return or suspend
  afterwards, with and without handles; four iterations for the code's 100 and two polls for its
  6000, which suffice to reach both limits and every way of not reaching them. A run ends
  whatever the test does (`RunEnds`); what the test is told fits the run (`RunIsTold`: polling
  goes on only for callbacks and gives up only for reasons there are, the history tells of what
  has happened, and of the end of the execution if and only if it has ended); and the handler is
  invoked again only when something has happened (`InvocationsProgress`), so that the loop cannot
  spin.

Runs that end in a violation; each is a place where the code does something other
than its documents say (`findings` in `PROJECT.json` quotes both):

- **invalid_token**: a direct call and a batch share a token, and the loser fails the execution.
- **orphan**: an update overtakes the completion of its context between its check and its send.
- **replay_behavior**: the example of that name, crashed after its second combinator. A
  combinator that is replayed does not poll its branches, which took ids from the counter of
  the handler's context the first time; so the race that follows gets the id of a step and
  returns that step's result.
- **item_ids**: on many threads a replayed result lands at another item's index.
- **submitter**: the submitter of `wait_for_callback` has returned, the invocation crashes before
  the context of the submission has ended, and the next invocation submits a second time:
  nothing is recorded between the submitter and the end of its context.

`CHECK_DEADLOCK FALSE` stands in the configurations because invocations, executions and
runs end. Bounds that are limits of the code, scaled down: `QueueCap`, `MaxBatchOps`,
`MaxRetries`, `MaxIterations`, `MaxPolls`. Bounds of the handler: `MaxCalls`,
`MaxAttempts`. Bounds of the inputs of the pure functions: `MaxBatch`, `MaxAttempts`,
`MaxItems`, `MaxNesting`. Bounds that are no part of the program: `MaxInterruptions` and
`MaxCrashes`; two of them crash an execution before and after any one checkpoint.

### Fairness

`CheckpointBatcher`: tokio polls the batcher's task when it can run, and every HTTP call is
answered. The latter is an assumption about the service: `client.rs` builds its
`reqwest` client without a timeout, so a call that hangs keeps the batcher, and all who
wait for it, until the deadline of the invocation. Nothing is assumed of the handler
or of the drain: `WaiterIsAnswered` allows the process to end. `DurableReplay`,
`DurableContexts` and `MapOperation`: tasks are polled, the service starts invocations that
are due, and timers, callbacks and invoked functions end, in success or by a timeout of
the service. `PromiseCombinators`: the handler and every branch are polled.
`TestOrchestrator`: handler and loop are polled, as parts of one future; nothing is
assumed of the test, which may never answer. User code is assumed to return or to panic.
No fairness is assumed of crashes and deadlines.

## What is proved

Thirty-five theorems, for all values of the constants: any number of requests, calls,
contexts, items, branches, iterations and crashes, and inputs of any length. Each but
`BatchesAreSorted`, which is about the sort alone, rests on an inductive invariant.

The assumptions on the constants are evaluated by TLC in the runs. They say what kind of
thing a constant is, but for these:

- `ProgramAssumption` (batcher): what the callers of the SDK are. Only the START of a step is
  sent without waiting, its completion is awaited before its code goes on (`step.rs`), and no
  call starts a context around an update issued before it. The first is
  `execute_at_least_once` and its like; the second is the shape of Rust futures: a context is
  started before its closure is called.
- `HandlerAssumption` (replay): handlers are deterministic, as the SDK demands, and end.
  `IdAssumption`: `OperationIdGenerator` counts, so that no two calls have one id, and a
  result is asked of a callback that was created.
- `OptionAssumption` (records): `None` is no payload.
- `AboveAssumption` (algorithms): an operation does not lie in itself, lies in its parent, and
  in whatever that lies in.
- `StrategyAssumption` (algorithms): no multiplier is below 1, the delay of a fixed strategy is
  also its limit (`FixedDelay::new`), and the interval of `from_interval` is not of no seconds.
  The code checks none of this. A smaller multiplier makes the delays shrink, and an interval of
  no seconds is not rounded up and would be refused by `wait`.
- `BatcherAssumption` (algorithms): a batch may hold an item. With a limit of none the first
  batch of the code is empty.
- `BodyAssumption` (contexts): handlers and closures are finite sequences of calls, a result
  is asked of a callback that the same body has created, user code does not return the
  suspension of an operation, and a value it returns is not that of an operation without one.
- `LimitAssumption` (orchestrator): a callback is polled for at least once (the code: 6000
  times). With none the loop would give up before it has looked.
- `HandlerAssumption` (orchestrator): the same of a flat handler (`IsHandler`), and a handler
  that records the end of the execution itself does so at its own end (`RecordsAtEnd`):
  waits may follow, user code may not, and what it returns agrees with what it has recorded, a
  success with a success and a failure with a failure. `large_payload.rs` returns at once; that
  the recorded result is of the handler's type is not supposed. The SDK enforces none of it: a
  handler that fails after a recorded success would make the history tell of both.

Eleven theorems have a hypothesis as well, of these:

- `FirstPage = OpId` in the six theorems of `DurableReplayProofs` about replay: the history fits
  the first page of the initial state. The runtime loads no other (`runtime.rs:222`), and
  without the hypothesis the theorems are false.
- `IdsApart` in `CombinatorsReplay`: in every handler the branches have contexts of their own,
  or there is one combinator. `replay_behavior` breaks it, and the run of that name shows what
  follows. The other two theorems of the module need no such thing.
- `OwnContexts` in the four theorems about `DurableContexts`: a closure makes its calls on the
  context that it is given, and no context has `replay_children`. The theorems say nothing
  therefore of contexts that are reconstructed, which are only model-checked. The `ParentIn...`
  examples call through the parent's context, so that a child which has ended can be followed by
  calls that its replay skips; a context that is replayed for its result has calls open below an
  operation that has ended. The run has both, and the properties hold there; 40 of its 44
  different handlers satisfy the hypothesis.
- `SubmittersLast` in `RerunsHaveACause` and `EndsComeLast`: the submitter of a callback is the
  last call in its context, as in `wait_for_callback`, which gives it a context of its own. A
  submitter has no operation, and would run again whenever a call after it suspends.
- `SteadyBodies` in `EndsComeLast`: the course of a body does not hang on which error an
  operation has failed with, since a replay may return another variant (see below); a
  suspension is not handled; nothing is cancelled; every recorded result can be replayed, which
  a summary without `replay_children` cannot; and nothing follows the recording of the result of
  the execution. 36 of the 44 handlers satisfy all three.

Along these arguments:

- `CheckpointOrderProofs`: `BatchesAreSorted` by induction over the updates inserted so far
  (`SortedTo`). It needs no order: an update that is inserted stops behind the last one that it
  does not compare Less than, which is all that `IsSorting` asks. Rule 2 of the comparator,
  which alone decides where it applies, is carried along. `slice::sort_by` is this sort on up to
  twenty elements; of a longer slice Rust promises nothing where the comparator is no order, and
  for such batches the theorem is about the model alone.
- `CheckpointBatcherProofs`: `TypeCorrectness` by induction over the actions, with two facts that
  the types need: a batch exists exactly while the batcher collects or sends, and a batch that is
  being sent has attempts left. `TokenMonotonicity` and `StopIsSafe` each rest on a stronger
  invariant. `TokenInv`: a request is accepted only with the newest token, which the SDK knows
  only once the previous writer has stored it; so at most one new token is on its way back, it is
  the service's, and the SDK's is older. `StopInv`: after the handler has been dropped none of
  its calls is alive, and the batcher is done only with its channel closed and empty; `Closed` is
  stable, because what ended a spawned task, or kept it from starting, is final.
  `AcknowledgedIsDurable` (`AckInv`: every answer `ok` under way belongs to a recorded request),
  `CacheIsDurable`, which follows from it, and `ExactlyOnce` (`PlaceInv`: a request is in the
  queue, in the batch, on the wire or in the log, and, until an answer is there, in no two of
  them). None of the properties is inductive alone: what makes an acknowledgement true lies in
  the answer before it, and what makes a batch new lies in where its requests have been.
  `LogInProgramOrder` adds `IssuedInv` (what has been sent was issued after the calls before it
  had returned) and `OrderInv`: queue and batch are in program order, and while an update is in
  one of them nothing issued after it has got further. The sort could break it, and a direct call
  that goes past the queue; `BatchesAreSorted` and `ProgramAssumption` are what it takes that
  neither does.
- `DurableReplayProofs`: `ReplayTypes`, and six theorems from `ReplayInv`. Its heart is
  `CacheInv`: the cache of a running invocation is the service's table but for operations that
  the service has ended since (`Behind`), and every call that has ever returned would, replayed
  from it, return the same (`SettledIn`). Around it: recorded operations belong to calls that
  have been made (`HistoryOf`), an update on its way suits the call that sends it
  (`CheckpointInv`), and an invocation past a replay check is where no invocation has been before
  (`FrontierInv`). `ReplaysAgree`, `DeterminismIsRecognized`, `LiveUpdates`, `StartsComeFirst`
  and the action property `EndedStaysEnded` are read off it; `OneRunOnly` maps each step to a
  step of `DurableExecution` or to a stutter: the first return of a call is the abstract step,
  replays and crashes stutter.
- `MapOperationProofs`: `TypeCorrectness`, `NoOrphans` and `EndedStays` follow from three
  invariants. `TaskInv`: tasks are alive only between the spawn and the join of an invocation.
  `CountInv`: the counters of the executor and of the generator count the results and the tasks
  that have begun, so they stay in range. `IdInv`: no two tasks hold the same id, and a task
  whose body runs holds a child that has started and not ended. `OneThreadIsFaithful` needs a
  fourth, `OneThreadInv`: on one thread the k-th task to begin is task k. A task that finds the
  batch complete begins nothing, and would leave a gap; but the counters only grow within an
  invocation, so once the batch is complete no later task begins either. `OneBatch` from
  `StableInv` (what is returned is what is recorded, and a map that is recorded does not spawn).
  `ReasonsAreJustified`: the reason is computed from the counters when all tasks are joined, and
  the batch from the items; `CountInv` says that the first count the second, and `CancelInv` that
  a cancelled item means that a completion condition held, which a grown counter cannot undo.
- `DurableContextsProofs`: `ContextsAreSealed` from `ContextsInv`. Each open context is where
  its body's calls have brought it, its counter counts those of them that take an id
  (`StackOK`), and none has ended (`OpenInv`); what is recorded under an id is of the type of
  every call that has the id (`LogTyped`). A step that records something new does so below
  the open contexts, so never below one that has ended. `InvocationsAgree` from `AgreesInv`:
  what has been observed at a place is what a replay of the log returns there (`ObservedOK`),
  and the open contexts have had, at the calls behind them, the results that were observed
  (`ResultsOK`). It is `ReplayInv` with a stack in place of a sequence; an induction over the
  handler is not needed, because the invariant speaks of all places at once.
- The same module: `RerunsHaveACause` from `RunsInv`: until its operation has ended, the
  user code at a place has run at most as often as there are recorded attempts and crashes,
  and once more while it runs (`RunsOK`). A suspension must not add to them, and does not,
  since it comes from a later call, before which this one has ended for good. That the code of an
  ended operation does not run needs `AgreesInv` besides: what was observed at a place is what a
  replay returns there (`ObservedOK`), so that a call which gets past its replay check, to its
  user code, has not been observed before (`RunningIsUnobserved`). `EndsComeLast`
  from `PartsInv`: what is recorded below a context is where its body has come to in some
  invocation (`LogPlaced`), and as bodies are steady, the invocation in which the context
  returns has come there as well; it has a result from there then, and no suspension, so that
  the operation has ended.
- `PromiseCombinatorsProofs`: `CombinatorsReplay` from `ReplayInv`: a combinator has the same
  id in every invocation (`ProgressInv`), branches record nothing under the id of a combinator
  (`BranchInv`), and what was returned is what is on record (`AgreeInv`). With one combinator
  in a shared context the second needs `CountInv`: the counter and the branches yet to begin
  stay within the ids there are. `DecisionsAreDurable` and `AllInOrder` come from
  `DurableInv`: a branch that is done has recorded its result, in the channel or out of it
  (`TaskInv`, `ChannelInv`), a recorded step is not run again in the same invocation, and once
  all branches of `any` have failed none is left that could succeed (`FailedInv`).
- `AlgorithmsProofs`: `SortingIsSafe`, `DelaysStayBounded`, `ItemsArePartitioned` and
  `ErrorsAreStable` from `InputsInv`, which but for `NestInv` says no more than what the inputs
  are; each property then follows for every input of that kind. The recursive functions of the
  model are shown to be what they are defined as (`MadeExists`, `WalkExists`, `PowerExists`), and
  to compute what they should, by induction in the form that a set of naturals has a least
  element (`InductionTo`), since the rule of the library takes a predicate as a parameter. For
  the batches the induction carries where the current one begins, what is in it and its size
  (`MadeOK`). For the sort, an ancestor in the parent map of a batch is one
  (`AncestorsAreAbove`), so that in program order no later update compares Less. For the errors,
  `NestInv`: all that may be recorded is one object, or of one type.
- The same module: `RecordsAgree` from `RecordsInv`: both records are such as the updates of
  their kind can make them (`WellFormed`: a result in the details of a callback alone, a payload
  and attempts in those of a condition, no result of a wait), and the cache is behind the service
  at most by what the service has resolved (`Behind`). It took the invariant to see why the merge
  of the server does no harm: no handler sends an update for an operation whose left-over fields
  another update would expose.
- `TestOrchestratorProofs`: `RunsAreTold` and `InvocationsHaveNews` from `OrchestratorInv`. There
  are four copies of the operations: the server's, the cache of the handler, what the loop has
  last fetched, and what the handles show. The first three differ by waits and callbacks alone
  that have ended since the copy was made (`CacheInv`, `FetchInv`). `ReachedInv`: a handler that
  has suspended has done so at a call that is not settled and has not got past it, so that some
  operation is pending when the loop looks. `MarkInv` remembers what the operations were when
  the handler was last invoked; what the loop resolves, or finds answered, was pending then,
  and is news therefore. For the history, `EventsInv` (an event of success is that of an
  operation that has ended, of which nothing is told any more) and `HistoryInv` (the end of the
  execution is told when it is recorded, and only then), which needs `RecordedInv`: what the
  handler records itself is the end, and what it returns agrees with it. There are two cases in
  which run and history differ, and `HistoryIsWellFormed` names both. A run reports an error and
  the history the end, when the handler has recorded it in the last iteration that the limit
  allows, and has suspended afterwards. And a run is Running and the history tells a success,
  when the handler has suspended after a recorded result that does not parse as one of its own.

Only model-checked:

- Liveness (`WaiterIsAnswered`, `ExecutionEnds`, `MapEnds`, `HandlerEnds`, `RunEnds`), which
  is out of the prover's reach.
- `DurableContexts` with contexts that are reconstructed from their children, and with closures
  that call through the context of their parent: the theorems exclude both (`OwnContexts`), the
  run **contexts** has both.

## What the models agree to

Behaviour that the models follow and that a reader of the code may not expect. Where a
property has to exempt it, its comment says so. The code does these things, so that no passing
run can forbid them, and a hazard of `PROJECT.json` that is one of them has a note instead of a
property.

- A condition that has failed returns one error and records another (`StoredErrorIsStable`
  exempts conditions and `all`, `ReplayAgrees` compares errors of a condition by failure
  alone), and so does `all`, whose error names the combinator while the recorded one is the
  branch's.
- A submitter that has returned runs again after a crash before the end of its context (run
  **submitter**), where `context.rs:1981` and the example `wait_for_callback` say that it does
  not. `RerunsAreCaused` bounds how often, by the crashes.
- An at-most-once step runs again after a crash between its START and its result, where
  `sdk/README.md:79` guarantees at-most-once execution: `handle_replay` (`step.rs:391`) does not
  ask for the semantics. What the semantics adds is `StartedBeforeRun`; the reruns are bounded by
  the crashes.
- A context that stores a summary without `replay_children` fails with `SerDes` in replay,
  where `config.rs:1086` speaks of reconstruction; `ReplayAgrees` exempts it.
- A PENDING with nothing pending ends the execution, rejected by the service, where
  `docs/language_sdk_specification.md:186` forbids it: after a deadline (`runtime.rs:248`), or
  over a callback that has succeeded without a result (`callback.rs:160`). `ExecutionEnds` counts
  it as an end, and the abstract specification allows it.
- A map with a suspended item returns `Ok`, and it is for the handler to suspend.
  `parallel/with_wait` does; `parallel/min_successful_callback` does not and succeeds without
  a result, as its test expects, where `min_successful_callback.rs:23` (in the comment of the
  handler) says that it stays Running. The handler of `MapOperation` suspends.
- The test server stores the payload of an invoke as its result, and the payload of a RETRY
  besides; `CheckpointedResult::error` reads only the error of the operation itself, not those
  in its details. With the updates the handlers send neither shows (`RecordsReadTheSame`);
  `OperationUpdate::retry_with_error`, which nothing sends, would leave payloads that differ
  between cache and server.
- A panicked item of a map is counted nowhere, so that a batch in which another is suspended is
  recorded as `AllCompleted`, by `concurrency.rs:283` "All tasks completed", and the suspended item
  is never resumed. `ReasonIsJustified` exempts such batches.
- `all` waits for all of its branches, also when one has failed.
- Where two combinators share the ids of the handler's context the second gets other ids in
  replay (`replay_behavior`), and on many threads a loser that takes its id late shifts them
  as well. The other examples have one combinator each, and the handlers of the passing run
  that have more give their branches contexts.
- Operations beyond the first page of the initial state are not loaded: nothing in the runtime
  calls `load_all_operations`, where `docs/language_sdk_specification.md:134` asks for it. With a
  `FirstPage` that lacks an operation that has ended it is run again, and `EndedIsNotRerun`
  fails; the passing run of `DurableReplay` has executions that fit on the first page.
- `pending_operations` of the orchestrator never shrinks, so that after a wait or a
  condition the polling for callbacks cannot succeed and times out, where the comment at
  `orchestrator.rs:611` polls "until the callback completes"; `RunIsTold`
  allows it. `callback_mixed_ops` with a handle is such a handler.
- A callback that is answered between `populate_handles` and `get_operations` leaves nothing
  pending, and the run ends as Running although the handler could go on.
- A handler that records a result of another type than its own, and then suspends, completes the
  execution and leaves a run that is Running (`orchestrator.rs:581`), a status that
  `testing/src/types.rs:27` explains by "Execution is currently running". The example of
  `complete_execution_success` (`context.rs:1301`) has such a result. `RunIsTold` names the case
  as an exception.
- Waits are resolved together when they are seen, also with `skip_time` off, where
  `testing/src/time_control.rs:37` asks for real timing.
- The answer to a callback leaves no event in the history.
- `track_replay` compares the replayed operations with all there are, and the EXECUTION
  operation, which the initial state lists, is never replayed: the status never leaves
  Replay then, not even in the first invocation. It decides nothing but `is_replay` of a log
  message, by which `context.rs:1001` tells fresh executions from replayed ones.

## Not modelled, and why

- Serialisation, logging, replay-safe helpers, Lambda glue and procedural macros keep no
  state that others read; a value and its serialised form are one thing, and the hash of
  operation ids is taken to be injective.
- Dead code: `load_more_operations` and `load_all_operations` have no caller outside tests,
  nor have `check_timeouts` (heartbeats and timeouts of callbacks), the schedulers of the
  testing crate and `invoke_handler`; `check_replay` has none but is compared with the
  handlers. The retry strategy of a step is never consulted.
- The Eager and Optimistic modes choose a path that Batched mode has.
- An `item_batcher` in a map: its batches are checked as a pure function, but a map under
  it drops all but the first item of a batch (`map.rs:216`), which no document describes.
- Branches of a combinator that suspend: `all_with_wait` states that they must not, and
  the code records a suspended branch as a failed one.
- Examples: `concurrency/*` join futures of one context by hand
  (`concurrent_callback_submitter` joins two `wait_for_callback` whose operations take their
  ids from one counter in the order in which they are polled), `all_with_wait` waits before its
  combinator, and `map_empty_array` and `parallel_empty_array` have no items.
- The cloud runner and its poller drive the real service; the mock clients of the tests are
  scripts; the HTTP client is I/O. Simulated time (`tokio::time::advance`) does not
  influence the loop. The operations that a finished run shows in `OperationStorage` after
  a re-invocation, and the text of results, are presentation.

## Plan

Done: the batching core, because every other component rests on checkpoints; replay, with
the abstract promise it implements; map and executor; nested contexts with the examples as
handlers, promise combinators, the pure algorithms and errors, the records of an operation,
and the testing crate. Proved: every invariant and every action property that a passing run
checks.

Left:

1. `DurableContexts` without the hypotheses of its theorems: contexts that are replayed for
   their result, and closures that call through the context of their parent.
2. Maps and combinators whose branches suspend, and maps under an `item_batcher`.
3. The pages of the initial state, should the runtime come to load more than the first.
