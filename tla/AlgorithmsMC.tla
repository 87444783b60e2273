---------------------------- MODULE AlgorithmsMC ----------------------------
(***************************************************************************)
(* Small inputs of the pure algorithms: a root step, a context with a      *)
(* nested context and a step in it, and the completion of the execution;   *)
(* the strategies of the code and some of each kind; items of three sizes; *)
(* and every error that there is.                                          *)
(***************************************************************************)
EXTENDS Algorithms

MCNoParent == "none"

MCOperation(id, type, action, parent) ==
  [id |-> id, type |-> type, action |-> action, parent |-> parent]

MCUpdate ==
  << MCOperation("ctx",  "CONTEXT",   "START",   MCNoParent),
     MCOperation("sub",  "CONTEXT",   "START",   "ctx"),
     MCOperation("step", "STEP",      "START",   "sub"),
     MCOperation("step", "STEP",      "SUCCEED", "sub"),
     MCOperation("sub",  "CONTEXT",   "SUCCEED", "ctx"),
     MCOperation("root", "STEP",      "SUCCEED", MCNoParent),
     MCOperation("exec", "EXECUTION", "SUCCEED", MCNoParent) >>

MCRequest == DOMAIN MCUpdate

MCOpId == {"ctx", "sub", "step", "root", "exec"}

\* The contexts an operation lies in.
MCAbove == [id \in MCOpId |-> CASE id = "step" -> {"sub", "ctx"}
                              [] id = "sub"  -> {"ctx"}
                              [] OTHER       -> {}]

Jitters == {NoJitter, Half, Full}

MCRetryStrategies ==
  {DefaultRetry, DefaultBuilder, NoRetry, NewExponentialBackoff(2, 0),
   NewFixedDelay(3, 0)}
  \cup {WithJitter(s, j) : s \in {NewFixedDelay(3, 4), NewLinearBackoff(4, 2),
                                  WithMaxDelay(NewLinearBackoff(4, 3), 7)}, j \in Jitters}
  \cup [kind : {"exponential"}, attempts : {4}, base : {1, 3}, most : {0, 2, 10},
        halves : {2, 3, 4}, jitter : Jitters]

MCWaitStrategies ==
  [maxAttempts : {{}, {3}}, base : {0, 1, 3}, most : {2, 10}, halves : {2, 3, 4},
   jitter : Jitters]

MCIntervals ==
  [maxAttempts : {{}, {3}}, base : {1, 5}, most : {5}, jitter : {NoJitter}]

MCBatchers == [items : 1..3, bytes : {0, 2, 4}]

MCText == <<"text">>

MCOrigins ==
  {e \in Constructed(MCText) : ~IsSuspend(e)} \cup
  {UserCode("UserCodeError", MCText, <<>>), UserCode("Own", MCText, <<"at">>)}

MCSizes == 1..3

=============================================================================
