SPECIFICATION Spec
CONSTANTS
  t = t
  p1 = p1
  none = none
  Table = {t}
  Partition = {p1}
  NoPartition = none
  NumJobs = 2
  TableOf <- SubTableOf
  PartOf <- SubPartOf
  Chunked <- SubChunked
  Row = {1, 2}
  RowTable <- Rows2Table
  RowPart <- SubRowPart
  Old = {}
  Plans <- ChunkPlans
  Mode <- Recreate
  MaxParallel <- NoLimit
  Worker = {w1, w2}
  PipelineRetries = 1
  Faults = {"crash"}
  MaxFaults = 1
INVARIANT TargetExact
