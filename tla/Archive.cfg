SPECIFICATION FairSpec
CONSTANTS
  Pods = {p1, p2}
  Ids = {1, 2}
  MaxTime = 3
  After = 1
  MaxDelay = 1
  PageSize = 1
  PagesPerCycle = 1
  BatchSize = 1
  BatchesPerCycle = 2
  MaxCrashes = 1
  Tiered = FALSE
  None = None
INVARIANTS DeletedArchived
PROPERTIES  BacklogDrains
CHECK_DEADLOCK FALSE
