-------------------------- MODULE DurableReplayMC --------------------------
(***************************************************************************)
(* A handler with an operation of every kind, whose course depends on what *)
(* its operations return: it charges a card, creates a callback, waits or  *)
(* polls, takes the callback's result, and runs a step or a function.      *)
(***************************************************************************)
EXTENDS DurableReplay

MCNoValue == "nothing"

MCCall(kind, id) == [kind |-> kind, id |-> id]

MCCode(r) ==
  CASE Len(r) = 0 -> MCCall("atMostOnce", 1)
    [] Len(r) = 1 -> MCCall("callback", 2)
    [] Len(r) = 2 -> MCCall(IF r[1].ok THEN "wait" ELSE "condition", 3)
    [] Len(r) = 3 -> MCCall("result", 2)
    [] Len(r) = 4 -> MCCall(IF r[4].value = "a" THEN "atLeastOnce" ELSE "invoke", 4)
    [] OTHER      -> MCCall("return", 4)

=============================================================================
