-------------------------- MODULE ExampleHandlers --------------------------
(***************************************************************************)
(* The handlers of the repository's examples that call their operations    *)
(* one after the other, each with the name of its example.  Durations,     *)
(* names, payloads and messages are left out: they change no call.         *)
(***************************************************************************)
EXTENDS HandlerCalls

LOCAL UserError == Failed("UserCode")
LOCAL MayFail(call) == Ending(call, {Success(A), UserError})
LOCAL MayDiffer(call) == Ending(call, {Success(A), Success(B)})
LOCAL SubmitsWell == {Success(<<>>)}

(* Hello world, steps and the checkpointing modes.                         *)
HelloWorld == <<>>
StepBasic == <<Step>>
StepNamed == <<Step, Step, Step>>
StepWithConfig == <<StepAtMostOnce, Step>>
StepErrorDeterminism == <<Ending(Step, {UserError})>>
StepRetryExponentialBackoff == <<Step>>
StepRetryWithFilter == <<Step>>
RetryExhaustion == <<Ending(Step, {UserError})>>
CheckpointingBatched == <<Step, Step, Step>>
CheckpointingEager == <<Step, Step>>
CheckpointingOptimistic == <<Step, Step, Step>>
HandlerError == <<FailingOn(Step, {Success(A)})>>
LargePayload == <<Step, CompleteIfLarge(TRUE)>>
StepError == <<FailingOn(MayFail(Step), {UserError})>>
StepValidation == <<FailingOn(MayDiffer(Step), {Success(B)}), Step>>
CustomLogger == <<Step>>
CustomSerialization == <<Step>>
UuidGeneration == <<NextOperationId, Step, NextOperationId, Step, NextOperationId, Step>>

(* Waits, conditions and functions.                                        *)
WaitBasic == <<Wait>>
WaitNamed == <<Wait, Step, Wait>>
WaitExtended == <<Wait, Wait>>
MultipleWaits == <<Step, Wait, Step, Wait, Step, Wait>>
WaitForConditionBasic == <<Condition(10)>>
InvokeBasic == <<Invoked>>
InvokeWithTimeout == <<Invoked>>

(* Callbacks.                                                              *)
CallbackSimple == <<Callback, Result(1)>>
CallbackTimeout == <<Callback, Result(1)>>
CallbackHeartbeat == <<Callback, Result(1)>>
CallbackCustomSerdes == <<Callback, Result(1)>>
CallbackFailure == <<Callback, Leaving(Result(1), {Failed("Callback")})>>
CallbackConcurrent == <<Callback, Callback, Result(1), Result(2)>>
CallbackMixedOps == <<Step, Wait, Callback, Result(3)>>

WfcTimeout == WaitForCallback(1, SubmitsWell)
WfcHeartbeat == WaitForCallback(1, SubmitsWell)
WfcCustomSerdes == WaitForCallback(1, SubmitsWell)
WfcMultiple == WaitForCallback(1, SubmitsWell) \o WaitForCallback(4, SubmitsWell)
WfcNested == <<Child(WaitForCallback(1, SubmitsWell))>>
WfcChildContext == <<Step, Child(WaitForCallback(1, SubmitsWell))>>

\* The error that these two handle is told by the call of wait_for_callback that fails.
WfcFailure == [WaitForCallback(1, {UserError}) EXCEPT ![2] = Leaving(@, {UserError})]
PaymentWithErrorHandling ==
  [WaitForCallback(1, {Success(<<>>), UserError}) EXCEPT
     ![2] = Leaving(@, {UserError}), ![3] = Leaving(@, {Failed("Callback")})]

BasicPaymentWorkflow == <<MayFail(Step)>> \o WaitForCallback(2, SubmitsWell)
ComparisonExample == WaitForCallback(1, SubmitsWell)

\* With a total that needs a manager's approval, and one that does not.
MultiStageOrderWorkflow ==
  [WaitForCallback(1, SubmitsWell) EXCEPT ![3] = Leaving(@, {Success(B)})]
    \o WaitForCallback(4, SubmitsWell)
MultiStageOrderWorkflowSmall == WaitForCallback(1, SubmitsWell)

(* Child contexts.                                                         *)
ChildContextBasic == <<Child(<<Step, Step>>)>>
ChildContextNested == <<Child(<<Step, Child(<<Step>>)>>)>>
ChildContextWithFailingStep ==
  <<Catching([Child(<<Ending(Step, {UserError})>>) EXCEPT !.mapper = TRUE], AnyError)>>

LOCAL Summarised(call) == [call EXCEPT !.big = TRUE, !.summary = TRUE]

ChildContextLargeData == <<Summarised(Child(<<Step>>))>>
ChildContextCheckpointSizeLimit == <<Summarised(Child(<<Step>>))>>

ParallelHeterogeneous == <<Child(<<Step>>), Child(<<Wait, Step>>), Child(<<Step>>)>>

LOCAL OnParent(call) == [call EXCEPT !.outer = TRUE]

ParentInChild == <<Catching(Child(<<OnParent(Step)>>), AnyError)>>
ParentInStep == <<Step, Catching(Child(<<OnParent(Step)>>), AnyError)>>
ParentInWaitCondition ==
  <<Catching(Child(<<OnParent(Ending(Condition(3), {Success(A)}))>>), AnyError)>>

(* Workflows.                                                              *)
ProcessOrder == <<FailingOn(MayDiffer(Step), {Success(B)}), Step, Wait, Step>>

ApprovalWorkflow == <<MayFail(Step), Callback, Step, Result(2), Step>>

\* With an amount that the director has to approve, too.
MultiLevelApproval ==
  <<Callback, Step, Leaving(Result(1), {Success(B)}),
    Callback, Step, Leaving(Result(4), {Success(B)})>>

\* With two items and an approval.  The items are processed one after the other here;
\* MapOperation is about their concurrency.
OrderWorkflow ==
  <<FailingOn(MayDiffer(Step), {Success(B)}),
    Child(<<Step>>), Child(<<Step>>),
    Child(<<Child(<<Step>>), Child(<<Step>>)>>),
    Callback, Leaving(Result(5), {Success(B)}),
    Wait, Step>>

=============================================================================
