SPECIFICATION FairSpec
CONSTANTS
  p = p
  c = c
  p1 = p1
  p2 = p2
  c1 = c1
  Order <- MCOrder
  Refs <- MCRefs
  Partitioned <- MCPartitioned
  TaskOrder <- MCTaskOrder
  TableOf <- MCTableOf
  BatchRows <- MCBatchRows
  Threshold = 500
  Configs <- MCConfigs
  Faults = {"pg", "store", "oracle", "cancel", "crash"}
  MaxFaults = 2
INVARIANTS TypeOK SuccessMeansSettled  KeysBeforeReferences 
PROPERTY RunAgainSucceeds
CHECK_DEADLOCK FALSE
