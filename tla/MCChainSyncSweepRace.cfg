SPECIFICATION Safety
CONSTANTS
  Jobs = {"tip", "sweep"}
  Fresh = FALSE
  InitialTip = 2
  SafeConfirmations = 1
  MaxReorgDepth = 5
  LagThreshold = 9
  CatchupSpan = 2
  SweepWindow = 3
  MinGain = 0
  DaemonDepth = 2
  MaxHeight = 5
  MaxReorgs = 1
  MaxFaults = 0
  MaxRounds = 1
INVARIANTS
  CursorVouches
CHECK_DEADLOCK FALSE
