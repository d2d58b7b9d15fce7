SPECIFICATION Spec
CONSTANTS
  Tx = {t1}
  MaxTime = 2
  MaxBlocks = 2
  MaxReorgs = 1
  MaxFaults = 1
INVARIANTS
  ArrivalAgrees
PROPERTIES
  SnapshotComplete
  Settles
CHECK_DEADLOCK FALSE
