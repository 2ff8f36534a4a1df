SPECIFICATION Spec
CONSTANTS
  Setups <- Streams
  Accum = 1
  MaxBatches = 7
  MaxLaunch = 3
INVARIANTS
  ReadsItsBatch
  NeverOverwritesARead
