SPECIFICATION Spec
CONSTANTS
  Jobs = {"clusters", "claims", "weights"}
  Addr = {1, 2, 3, 4}
  Groups = {{1, 2}, {3, 4}, {2, 3}}
  MaxReorgDepth = 1
  SeedReplay = 1
  PollEnd = 3
  Fresh = 1
  MaxTime = 5
  MaxHeight = 3
  MaxBlocks = 4
  MaxReorgs = 1
  MaxWipes = 1
  MaxRebuilds = 1
  MaxFaults = 1
INVARIANTS
  NoOverMerge
  WindowCovers
  WeighedWhenFinal
PROPERTIES
  NeverSplit
  CatchesUp
CHECK_DEADLOCK FALSE
