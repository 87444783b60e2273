------------------------- MODULE DurableContextsMC -------------------------
(***************************************************************************)
(* The examples of the repository, and handlers in which more can differ   *)
(* from one invocation to the next.                                        *)
(***************************************************************************)
EXTENDS DurableContexts, ExampleHandlers

Examples ==
  {HelloWorld, StepBasic, StepNamed, StepWithConfig, StepErrorDeterminism,
   StepRetryExponentialBackoff, StepRetryWithFilter, RetryExhaustion,
   CheckpointingBatched, CheckpointingEager, CheckpointingOptimistic, HandlerError,
   LargePayload, StepError, StepValidation, CustomLogger, CustomSerialization,
   UuidGeneration, WaitBasic, WaitNamed, WaitExtended, MultipleWaits,
   WaitForConditionBasic, InvokeBasic, InvokeWithTimeout,
   CallbackSimple, CallbackTimeout, CallbackHeartbeat, CallbackCustomSerdes,
   CallbackFailure, CallbackConcurrent, CallbackMixedOps,
   WfcTimeout, WfcHeartbeat, WfcCustomSerdes, WfcMultiple, WfcNested, WfcChildContext,
   WfcFailure, PaymentWithErrorHandling, BasicPaymentWorkflow, ComparisonExample,
   MultiStageOrderWorkflow, MultiStageOrderWorkflowSmall,
   ChildContextBasic, ChildContextNested, ChildContextWithFailingStep,
   ChildContextLargeData, ChildContextCheckpointSizeLimit,
   ParallelHeterogeneous, ParentInChild, ParentInStep, ParentInWaitCondition,
   ProcessOrder, ApprovalWorkflow, MultiLevelApproval, OrderWorkflow}

UnsureStep == Ending(Step, {Success(A), Success(B), Failed("UserCode")})

\* Contexts within contexts that fail, wait and go on.
Nested ==
  <<UnsureStep,
    Catching(Child(<<UnsureStep, Child(<<Wait, UnsureStep>>)>>), {"UserCode"}),
    StepAtMostOnce>>

\* A context whose result is too large to store, and whose children are replayed.
Reconstructed ==
  <<[Child(<<UnsureStep, Wait, Condition(2)>>) EXCEPT
       !.big = TRUE, !.summary = TRUE, !.replayChildren = TRUE],
    Wait, Step>>

\* A wait that another part of the handler cancels, which may come too late.
Cancelled ==
  <<Catching(Wait, {"Suspend"}), Catching(Cancel(1), {"Checkpoint"}),
    UnsureStep, Catching(Cancel(3), {"Validation"}), Wait>>

MCHandlers == Examples \cup {Nested, Reconstructed, Cancelled}

\* The closures of these bodies, and of their closures: no handler nests any deeper.
Closures(bodies) ==
  UNION {{body[n].body : n \in {m \in DOMAIN body : body[m].kind = "child"}} : body \in bodies}

MCBodies == MCHandlers \cup Closures(MCHandlers \cup Closures(MCHandlers))
                       \cup Closures(MCHandlers)

=============================================================================
