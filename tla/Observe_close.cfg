SPECIFICATION Spec
CONSTANTS
  b1 = b1
  b2 = b2
  Batches <- TwoBatches
  Flushes <- SomeFlushes
  JobBatches <- OneOfThem
  Unsampled <- OneOfThem
  Grace = 1
  MaxOpen = 1
  MaxRecords = 1
  MaxLogs = 1
  CapFactor = 2
  MaxRetries = 2
  RuntimeInterval = 2
  MaxTime = 2
  MaxEntries = 3
  MaxObserved = 1
INVARIANTS CloseSendsWhatIsHeld
CHECK_DEADLOCK FALSE
