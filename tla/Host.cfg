SPECIFICATION HostFairSpec
CONSTANTS
  BufferSize = 2
  FlushBatchSize = 1
  MaxRecords = 2
  NoEntry = NoEntry
  Crashes = {c1}
  WarmupSamples = 1
  None = None
INVARIANTS CloseAfterStores FlushPromisesKept 
PROPERTIES CrashExits ShutdownCompletes
CHECK_DEADLOCK FALSE
