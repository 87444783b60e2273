-------------------------- MODULE DurableExecution --------------------------
(***************************************************************************)
(* What durable execution promises its user: the handler appears to run    *)
(* once, from its first operation to its end, each operation giving one    *)
(* result, whatever crashes, timeouts and suspensions happen underneath.   *)
(***************************************************************************)
EXTENDS Sequences

CONSTANTS Code(_),       \* the operation the handler calls after these results
          Outcomes(_)    \* the outcomes an operation of a kind may have

VARIABLES outcomes,      \* the results of the operations so far
          output         \* the execution's output

visible == <<outcomes, output>>

Start == outcomes = <<>> /\ output = "none"

Perform ==
  /\ output = "none"
  /\ Code(outcomes).kind # "return"
  /\ \E o \in Outcomes(Code(outcomes).kind) : outcomes' = Append(outcomes, o)
  /\ UNCHANGED output

Succeed ==
  /\ output = "none"
  /\ Code(outcomes).kind = "return"
  /\ output' = "succeeded"
  /\ UNCHANGED outcomes

\* A checkpoint error, or a PENDING that the service rejects, ends the execution at
\* any point.
Abort ==
  /\ output = "none"
  /\ output' \in {"failed", "rejected"}
  /\ UNCHANGED outcomes

OneRun == Start /\ [][Perform \/ Succeed \/ Abort]_visible

=============================================================================
