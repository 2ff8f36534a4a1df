SPECIFICATION FairSpec
CONSTANTS
  Setups <- Datasets
  Pool = 4
  Accum = 2
  MaxBatches = 5
  MaxLoads = 2
INVARIANTS
  Pipelined
  ReadsItsBatch
  NeverOverwritesARead
PROPERTIES
  EveryBatchIsUsed
CHECK_DEADLOCK FALSE
