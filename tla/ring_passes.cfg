SPECIFICATION FairSpec
CONSTANTS
  RingSizes <- Sizes
  Iterations <- Layers
INVARIANTS
  ComputesOnItsOwner
  PacketsMatch
  OwnersHoldFullSum
PROPERTIES
  AllFinish
