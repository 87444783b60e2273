-------------------------- MODULE PromiseExamples --------------------------
(***************************************************************************)
(* The handlers of the examples that call promise combinators, each with   *)
(* the name of its example.  Their branches are steps of a clone of the    *)
(* handler's own context, so that they share its ids.                      *)
(***************************************************************************)
EXTENDS Naturals, Sequences

\* The methods of a context, over these branches.
All(branches) == [kind |-> "all", body |-> branches]
AllSettled(branches) == [kind |-> "all_settled", body |-> branches]
Race(branches) == [kind |-> "race", body |-> branches]
AnyOf(branches) == [kind |-> "any", body |-> branches]

\* The macros box their branches, which may be of different types, for the methods.
AllMacro(first, others) == All(<<first>> \o others)
AllSettledMacro(first, others) == AllSettled(<<first>> \o others)
RaceMacro(first, others) == Race(<<first>> \o others)
AnyMacro(first, others) == AnyOf(<<first>> \o others)

Sharing(calls) == [calls |-> calls, own |-> FALSE]

PromiseAll == Sharing(<<All(<<"step", "step", "step">>)>>)
PromiseAllWithMacro == Sharing(<<AllMacro("step", <<"step", "step">>)>>)
PromiseAllSettledWithMacro == Sharing(<<AllSettledMacro("step", <<"step", "step">>)>>)
PromiseAnyWithMacro == Sharing(<<AnyMacro("step", <<"step", "step">>)>>)
PromiseRaceWithMacro == Sharing(<<RaceMacro("step", <<"step">>)>>)
PromiseRaceWithTimeout == Sharing(<<RaceMacro("step", <<"step">>)>>)
RaceWithTimeout == Sharing(<<RaceMacro("step", <<"step">>)>>)
ReplayBehavior ==
  Sharing(<<AllMacro("step", <<"step", "step">>), RaceMacro("step", <<"step">>)>>)

=============================================================================
