SPECIFICATION Spec
CONSTANTS
  MaxWorld = 2
  Instances <- OneReplica
INVARIANTS
  GradientIsMean
