SPECIFICATION LayerSpec
CONSTANTS
  NoLayer = NoLayer
  BlockCounts <- Counts
  Sizes <- SmallSizes
  Layers <- AllLayers
INVARIANTS
  ActiveBlocksOnce
  KVBlocksOnce
  EveryWorkerHasABlock
  CostIsBalanced
  EveryRowSeesItsContext
  GradientsComeHome
