SPECIFICATION FairSpec
CONSTANTS
  Coordinator = r0
  NoTag = NoTag
  Ranks = {r0, r1}
  Async = TRUE
  AutoResume = TRUE
  KeepLast = 1
  MaxStep = 3
  MaxParts = 1
  MaxLaunch = 3
  MaxFaults = 1
  Faults = {"disk"}
INVARIANTS
  PublishedWhenDurable
  PruneSparesPending
  EndsOnNewest
  CleanRunPublishes
PROPERTIES
  ImplementsRegister
  VerdictMatchesDirectory
  AllExit
CHECK_DEADLOCK FALSE
