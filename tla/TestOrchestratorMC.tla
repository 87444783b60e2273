------------------------- MODULE TestOrchestratorMC -------------------------
(***************************************************************************)
(* Examples of the repository that have no child contexts, and handlers    *)
(* that leave more than one kind of operation pending.                     *)
(***************************************************************************)
EXTENDS TestOrchestrator, ExampleHandlers

Examples ==
  {StepBasic, StepWithConfig, WaitBasic, MultipleWaits, WaitForConditionBasic, InvokeBasic,
   CallbackSimple, CallbackFailure, CallbackConcurrent, CallbackMixedOps, ApprovalWorkflow,
   ProcessOrder, LargePayload}

\* Waits that have started together.
Together == <<Catching(Wait, {"Suspend"}), Callback, Wait, Result(2)>>

\* A condition and a callback.
Checked == <<Callback, Condition(2), Result(1)>>

\* The result is recorded by the handler itself, which may then have more to wait for.
Recorded == <<Wait, CompleteIfLarge(TRUE)>>
RecordedEarly == <<Wait, CompleteIfLarge(TRUE), CompleteIfLarge(FALSE), Wait>>

\* The result is one of another type, as in the documentation of complete_execution_success,
\* or the end that is recorded is a failure, as in that of complete_execution_failure.
RecordedForeign == <<Wait, Completing({Success(Foreign)}), Wait>>
RecordedFailure == <<Wait, FailingOn(Completing({Failed("UserCode")}), {Success(Nothing)})>>
RecordedFailureEarly ==
  <<Wait, Completing({Failed("UserCode")}), FailingOn(Wait, {Success(Nothing)})>>

MCHandlers == Examples \cup {Together, Checked, Recorded, RecordedEarly, RecordedForeign,
                             RecordedFailure, RecordedFailureEarly}

=============================================================================
