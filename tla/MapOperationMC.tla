--------------------------- MODULE MapOperationMC ---------------------------
(***************************************************************************)
(* Three items, of which the second waits, under one MapConfig of each     *)
(* kind, limited and unlimited, and each way for a batch to end early; and *)
(* under the configs of the examples.                                      *)
(***************************************************************************)
EXTENDS MapOperation, MapExamples

MCConfigs ==
  { DefaultMapConfig,
    MapConfig({1}, AllCompletedConfig),     \* one at a time
    MapConfig({2}, FirstSuccessful),
    MapConfig({}, [WithMinSuccessful(2) EXCEPT !.toleratedCount = {1}]),
    MapConfig({2}, AllSuccessful),
    MapConfig({2}, WithPercentage(40)) }    \* two failures of three are too many

MCExamples ==
  { MapBasic, MapConcurrency, MapHighConcurrency, MapLargeScale, MapErrorPreservation,
    MapFailureTolerance, MapMinSuccessful(N), ParallelBasic, ParallelWithWait,
    ParallelErrorPreservation, ParallelFailureThresholdExceeded, ParallelFirstSuccessful,
    ParallelMinSuccessful, ParallelToleratedFailureCount, ParallelToleratedFailurePct,
    PromiseAllWithMap, PromiseAllSettledWithMap, PromiseAnyWithMap, PromiseRaceWithMap,
    ProcessBatch, QuorumProcessing(N), StrictProcessing }

Setting(c, workers) == [config |-> c, threads |-> workers]

\* Each config on one thread; on many, one that a success or a failure ends early.
MCSettings ==
  {Setting(c, "one") : c \in MCConfigs \cup MCExamples} \cup
  {Setting(MapConfig({2}, [FirstSuccessful EXCEPT !.toleratedCount = {0}]), "many")}

MCManyThreads == {Setting(c, "many") : c \in MCConfigs}

=============================================================================
