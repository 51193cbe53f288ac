SPECIFICATION Spec
CONSTANTS
  a1 = a1
  a2 = a2
  b1 = b1
  ga = ga
  gb = gb
  t1 = t1
  Worker = {w1, w2}
  Task = {a1, a2, b1}
  Group = {ga, gb}
  Table = {t1}
  GroupOf <- MCGroupOf
  TableOf <- MCTableOf
  Chunked = {ga}
  Batches = 2
  MaxFails = 1
  MaxResumes = 1
INVARIANTS TypeOK CompletionIsTold RowsNotOverstated ListMatchesSummary
PROPERTY NoFalseCompletion
SYMMETRY Symmetric
CHECK_DEADLOCK FALSE
