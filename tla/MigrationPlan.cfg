SPECIFICATION Spec
CONSTANTS
  Schemas <- MCSchemas
  Strategies = {"auto", "ora_hash"}
  Workers = 1
  BatchSize = 1
  MaxTableChunks = 10
  Extent = 12
  MaxParts = 3
  Estimates = {1, 3, 12}
  Cuts <- MCCuts
  Hash <- MCHash
  Faults = {"estimate", "dbms_pe", "short_list"}
INVARIANTS TypeOK RowsReadOnceInPlace JobsAreDistinct ChunksAreBounded ParentsFirst PruningIsExact WorkersSpread
CHECK_DEADLOCK FALSE
