SPECIFICATION LayerSpec
CONSTANTS
  NoLayer = NoLayer
  BlockCounts <- Counts
  Sizes <- SmallSizes
  Layers <- ResponseLayers
INVARIANT EveryRowSeesItsContext
