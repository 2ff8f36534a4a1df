SPECIFICATION Spec
CONSTANTS
  MaxWorld = 8
  Instances <- Supported
INVARIANTS
  GroupsAgree
  RingInOrder
  PartitionsAlign
  NodeLocality
  NeverStuck
  GradientIsMean
  NormCountsOnce
