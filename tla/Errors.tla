------------------------------- MODULE Errors -------------------------------
(***************************************************************************)
(* DurableError, the ErrorObject that is recorded of it, and the error     *)
(* that a replay makes of the record.  A message is a sequence of the      *)
(* texts it is put together from.                                          *)
(***************************************************************************)
EXTENDS Sequences

\* The type that ErrorObject gives each variant; a UserCode error brings its own.
ErrorName ==
  [Execution |-> "ExecutionError", Invocation |-> "InvocationError",
   Checkpoint |-> "CheckpointError", Callback |-> "CallbackError",
   NonDeterministic |-> "NonDeterministicExecutionError",
   Validation |-> "ValidationError", SerDes |-> "SerDesError",
   Suspend |-> "SuspendExecution", OrphanedChild |-> "OrphanedChildError",
   SizeLimit |-> "SizeLimitExceededError", Throttling |-> "ThrottlingError",
   ResourceNotFound |-> "ResourceNotFoundError", Configuration |-> "ConfigurationError"]

\* detail is what the variant knows beyond its message, trace the stack trace.
DurableError(variant, message, detail) ==
  [variant |-> variant, message |-> message, detail |-> detail, type |-> "none",
   trace |-> <<>>]

UserCode(type, message, trace) ==
  [variant |-> "UserCode", message |-> message, detail |-> <<>>, type |-> type,
   trace |-> trace]

\* The variants whose constructors can add a size, a delay or an id to the message.
Detailed == {"SizeLimit", "Throttling", "ResourceNotFound"}

Constructed(message) ==
  {DurableError(v, message, <<>>) : v \in DOMAIN ErrorName} \cup
  {DurableError(v, message, <<"detail">>) : v \in Detailed}

IsSuspend(error) == error.variant = "Suspend"

\* How the error is displayed in the message of another one.
Display(error) ==
  <<IF error.variant = "UserCode" THEN "UserCode" ELSE ErrorName[error.variant]>>
    \o error.message

\* Mutant: the type of a user's error is not kept.
ErrorObjectUntyped(error) ==
  CASE IsSuspend(error) -> [type |-> "SuspendExecution", message |-> <<>>, trace |-> <<>>]
    [] error.variant = "UserCode" ->
         [type |-> "UserCodeError", message |-> error.message, trace |-> error.trace]
    [] OTHER -> [type |-> ErrorName[error.variant],
                 message |-> error.message \o error.detail, trace |-> <<>>]

\* ErrorObject::from
ErrorObject(error) ==
  CASE IsSuspend(error) -> [type |-> "SuspendExecution", message |-> <<>>, trace |-> <<>>]
    [] error.variant = "UserCode" ->
         [type |-> error.type, message |-> error.message, trace |-> error.trace]
    [] OTHER -> [type |-> ErrorName[error.variant],
                 message |-> error.message \o error.detail, trace |-> <<>>]

\* What a failed operation is replayed as.
ReplayedError(object) == UserCode(object.type, object.message, object.trace)

-----------------------------------------------------------------------------
(* Operations that fail because of an error below them: what they record   *)
(* and what they return.                                                   *)

ChildFails(error) == [stored |-> ErrorObject(error), returned |-> error]

RaceFails(error) == [stored |-> ErrorObject(error), returned |-> error]

\* All of the branches have failed, with errors like this one.
AnyFails(error) ==
  LET combined == UserCode("AnyCombinatorError", Display(error), <<>>)
  IN  [stored |-> ErrorObject(combined), returned |-> combined]

\* The branch's error is recorded, and the combinator's own returned.
AllFails(error) ==
  [stored   |-> ErrorObject(error),
   returned |-> UserCode("AllCombinatorError", Display(error), <<>>)]

\* Reports an error that is not the one it records.
ConditionFails(error) ==
  [stored   |-> [type |-> "MaxAttemptsExceeded", message |-> Display(error), trace |-> <<>>],
   returned |-> DurableError("Execution", <<"attempts">>, <<>>)]

\* A step knows its user code's error by its text alone.
StepFails(text) ==
  [stored   |-> [type |-> "UserCodeError", message |-> text, trace |-> <<>>],
   returned |-> UserCode("UserCodeError", text, <<>>)]

=============================================================================
