SPECIFICATION Spec
CONSTANTS
  Ranks = {r0, r1}
  Coordinator = r0
  KeepLast = 1
  MaxStep = 3
  MaxLaunch = 3
  MaxFaults = 2
  Faulty <- BeforePrune
INVARIANTS
  LatestIsWhole
PROPERTIES
  AttemptLeavesNoTemporary
