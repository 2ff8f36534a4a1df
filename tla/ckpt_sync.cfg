SPECIFICATION FairSpec
CONSTANTS
  Coordinator = r0
  NoTag = NoTag
  Ranks = {r0, r1, r2}
  Async = FALSE
  AutoResume = TRUE
  KeepLast = 1
  MaxStep = 3
  MaxParts = 2
  MaxLaunch = 2
  MaxFaults = 1
  Faults = {"disk", "rank"}
INVARIANTS
  TypeOK
  LatestComplete
  BarriersAgree
CHECK_DEADLOCK FALSE
