SPECIFICATION FairSpec
CONSTANTS
  m1 = m1
  m2 = m2
  Maintainers <- TwoMaintainers
  MaxRow = 2
  BigFile = 2
  ClosedAfter = 0
  Retention = 1
  Limit = 1
  MaxTime = 2
  MaxFiles = 4
  MaxFaults = 1
INVARIANTS RowsKept ReadComplete
 
CHECK_DEADLOCK FALSE
