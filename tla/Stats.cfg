SPECIFICATION StatsSpec
CONSTANTS
  None = None
  f1 = f1
  f2 = f2
  Entries <- FourEntries
  TimeOf <- Times
  DurationOf <- Durations
  FamilyOf <- Families
  Readable <- Contents
  WindowStart = 1
  WindowEnd = 5
  MinuteLength = 4
  Boundaries <- SomeBoundaries
  PageSize = 1
  ScanCap = 3
  HydrateChunk = 2
  MaxChunk = 2
INVARIANTS ScanComplete RollupsExact EstimateSound LeftOutOnlyIfGone
CHECK_DEADLOCK FALSE
