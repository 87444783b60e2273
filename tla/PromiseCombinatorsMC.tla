------------------------ MODULE PromiseCombinatorsMC ------------------------
(***************************************************************************)
(* The constants of the runs: the examples with one combinator, a handler  *)
(* with all four whose branches have contexts of their own, and, for a run *)
(* of its own, the example with two combinators whose branches share ids.  *)
(***************************************************************************)
EXTENDS PromiseCombinators, PromiseExamples

\* Every combinator, over steps and over futures that no checkpoint guards.
EveryCombinator == [own |-> TRUE,
                    calls |-> <<Race(<<"step", "plain">>), All(<<"step", "step">>),
                                AnyOf(<<"step", "plain">>), AllSettled(<<"step">>)>>]

NoBranches == [own |-> TRUE, calls |-> <<AllSettled(<<>>), AnyOf(<<>>)>>]

MCHandlers == {EveryCombinator, NoBranches,
               PromiseAll, PromiseAllWithMacro, PromiseAllSettledWithMacro,
               PromiseAnyWithMacro, PromiseRaceWithMacro, PromiseRaceWithTimeout,
               RaceWithTimeout}

MCReplayBehavior == {ReplayBehavior}

=============================================================================
