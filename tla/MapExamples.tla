---------------------------- MODULE MapExamples ----------------------------
(***************************************************************************)
(* The MapConfigs of the examples that process a collection, each with the *)
(* name of its example.  What an item does is a child context with one     *)
(* step; how many items there are is the model's to say.                   *)
(***************************************************************************)
EXTENDS Integers

\* CompletionConfig: an Option is a set of one number or none.
AllCompletedConfig ==
  [minSuccessful |-> {}, toleratedCount |-> {}, toleratedPercentage |-> {}]

FirstSuccessful == [AllCompletedConfig EXCEPT !.minSuccessful = {1}]

AllSuccessful ==
  [AllCompletedConfig EXCEPT !.toleratedCount = {0}, !.toleratedPercentage = {0}]

WithMinSuccessful(k) == [AllCompletedConfig EXCEPT !.minSuccessful = {k}]

WithFailureTolerance(k) == [AllCompletedConfig EXCEPT !.toleratedCount = {k}]

WithPercentage(p) == [AllCompletedConfig EXCEPT !.toleratedPercentage = {p}]

\* MapConfig
MapConfig(concurrency, completion) ==
  [maxConcurrency |-> concurrency, minSuccessful |-> completion.minSuccessful,
   toleratedCount |-> completion.toleratedCount,
   toleratedPercentage |-> completion.toleratedPercentage]

\* ParallelConfig, which parallel_handler uses as map_handler uses a MapConfig.
ParallelConfig(concurrency, completion) == MapConfig(concurrency, completion)

DefaultMapConfig == MapConfig({}, AllCompletedConfig)

MapBasic == DefaultMapConfig
MapConcurrency == MapConfig({3}, AllCompletedConfig)
MapHighConcurrency == MapConfig({10}, AllCompletedConfig)
MapLargeScale == MapConfig({10}, AllCompletedConfig)
MapErrorPreservation == MapConfig({8}, WithFailureTolerance(3))
MapFailureTolerance == MapConfig({5}, WithPercentage(10))
MapMinSuccessful(n) == MapConfig({}, WithMinSuccessful((n + 1) \div 2))

ParallelBasic == ParallelConfig({3}, AllCompletedConfig)
ParallelWithWait == ParallelConfig({3}, AllCompletedConfig)
ParallelErrorPreservation == ParallelConfig({5}, WithFailureTolerance(3))
ParallelFailureThresholdExceeded == ParallelConfig({5}, WithFailureTolerance(1))
ParallelFirstSuccessful == ParallelConfig({}, FirstSuccessful)
ParallelMinSuccessful == ParallelConfig({5}, WithMinSuccessful(2))
ParallelToleratedFailureCount == ParallelConfig({6}, WithFailureTolerance(2))
ParallelToleratedFailurePct == ParallelConfig({10}, WithPercentage(25))

PromiseAllWithMap == MapConfig({3}, AllCompletedConfig)
PromiseAllSettledWithMap == DefaultMapConfig
PromiseAnyWithMap == MapConfig({3}, FirstSuccessful)
PromiseRaceWithMap == MapConfig({3}, FirstSuccessful)

ProcessBatch == MapConfig({5}, WithPercentage(10))
QuorumProcessing(n) == MapConfig({}, WithMinSuccessful((n + 1) \div 2))
StrictProcessing == MapConfig({3}, AllSuccessful)

=============================================================================
