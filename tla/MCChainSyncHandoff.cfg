SPECIFICATION Spec
CONSTANTS
  Jobs = {"fill", "tip", "sweep"}
  Fresh = TRUE
  InitialTip = 2
  SafeConfirmations = 1
  MaxReorgDepth = 5
  LagThreshold = 2
  CatchupSpan = 2
  SweepWindow = 3
  MinGain = 0
  DaemonDepth = 2
  MaxHeight = 5
  MaxReorgs = 0
  MaxFaults = 1
  MaxRounds = 1
INVARIANTS
  Watermark
  CursorWithinData
PROPERTIES
  Converges
CHECK_DEADLOCK FALSE
