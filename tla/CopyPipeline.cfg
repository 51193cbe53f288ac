SPECIFICATION Spec
CONSTANTS
  NumRows = 4
  RowBytes <- MCRowBytes
  MaxBatchBytes = 2
  BatchSize = 2
  RowBuf = 1
  BatchBuf = 2
  MaxRetries = 1
  Unlogged = FALSE
  Faults = {"cancel", "connect", "copy", "commit", "read"}
  MaxFaults = 2
INVARIANTS TypeOK OwnConnection
PROPERTY ImplementsBatchCopy
CHECK_DEADLOCK FALSE
