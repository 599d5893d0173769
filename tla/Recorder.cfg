SPECIFICATION FairSpec
CONSTANTS
  BufferSize = 3
  FlushBatchSize = 2
  MaxRecords = 4
  NoEntry = NoEntry
INVARIANTS Conservation PipelineInOrder ObservedPersisted
PROPERTIES ImplementsPipe
CHECK_DEADLOCK FALSE
