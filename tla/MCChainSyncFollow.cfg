SPECIFICATION Spec
CONSTANTS
  Jobs = {"tip"}
  Fresh = FALSE
  InitialTip = 2
  SafeConfirmations = 1
  MaxReorgDepth = 2
  LagThreshold = 9
  CatchupSpan = 2
  SweepWindow = 3
  MinGain = 0
  DaemonDepth = 3
  MaxHeight = 5
  MaxReorgs = 2
  MaxFaults = 1
  MaxRounds = 0
INVARIANTS
  RowsLinked
  SettledConsistent
PROPERTIES
  OnlyAbandonedDeleted
  Converges
  ImplementsMirror
CHECK_DEADLOCK FALSE
