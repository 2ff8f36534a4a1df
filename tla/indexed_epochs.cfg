SPECIFICATION Spec
CONSTANTS
  Setups <- SmallSetups
  MaxStep = 4
  MaxEpoch = 3
  MaxLaunch = 2
INVARIANTS
  StepDeterminesBatches
  OncePerEpoch
  RanksShareShapes
  ServesForEver
PROPERTIES
  EpochIsUsedUp
CHECK_DEADLOCK FALSE
