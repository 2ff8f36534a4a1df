SPECIFICATION FairSpec
CONSTANTS
  Coordinator = r0
  NoTag = NoTag
  Ranks = {r0, r1}
  Async = TRUE
  AutoResume = TRUE
  KeepLast = 0
  MaxStep = 2
  MaxParts = 1
  MaxLaunch = 2
  MaxFaults = 1
  Faults = {"disk"}
INVARIANTS
  DurableIsPublished
CHECK_DEADLOCK FALSE
