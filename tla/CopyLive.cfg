SPECIFICATION FairSpec
CONSTANTS
  NumRows = 6
  RowBytes <- MCRowBytes
  MaxBatchBytes = 0
  BatchSize = 1
  RowBuf = 2
  BatchBuf = 4
  MaxRetries = 1
  Unlogged = TRUE
  Faults = {"cancel", "connect", "copy", "commit", "lost_ack", "read"}
  MaxFaults = 3
INVARIANT NoRowMissing
PROPERTY CopyReturns
CHECK_DEADLOCK FALSE
