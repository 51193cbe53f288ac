SPECIFICATION Spec
CONSTANTS
  Schemas <- Behind
  Strategies = {"auto", "ora_hash"}
  Workers = 1
  BatchSize = 1
  MaxTableChunks = 10
  Extent = 12
  MaxParts = 3
  Estimates = {1, 3, 12}
  Cuts <- MCCuts
  Hash <- MCHash
  Faults = {}
INVARIANT ReadsEachRowOnce
CHECK_DEADLOCK FALSE
