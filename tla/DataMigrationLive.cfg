SPECIFICATION ResumedSpec
CONSTANTS
  a = a
  b = b
  c = c
  p1 = p1
  p2 = p2
  none = none
  Table <- MCTable
  Partition <- MCPartition
  NoPartition = none
  NumJobs = 4
  TableOf <- MCTableOf
  PartOf <- MCPartOf
  Chunked <- MCChunked
  Row <- MCRow
  RowTable <- MCRowTable
  RowPart <- MCRowPart
  Old <- MCOld
  Plans <- MCPlans
  Mode <- MCMode
  MaxParallel <- MCMaxParallel
  Worker = {w1, w2}
  PipelineRetries = 1
  Faults = {"cancel", "crash", "copy", "store", "truncate"}
  MaxFaults = 3
PROPERTIES PoolTerminates EventuallySucceeds
INVARIANT NothingLost
