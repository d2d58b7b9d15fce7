SPECIFICATION Spec
CONSTANTS
  MaxHeight = 2
  MaxTime = 1
  Fine = 1
  Coarse = 2
  YearSpan = 1
  MaxReorgs = 1
  MaxFaults = 1
  Deferred = {d1}
INVARIANTS
  StaleIsCovered
  SuperblocksFollow
PROPERTIES
  Settles
CHECK_DEADLOCK FALSE
