SPECIFICATION Spec
CONSTANTS
  Addresses = {"staker", "payee"}
  Contents = {{"staker"}, {"staker", "payee"}}
  BatchSize = 2
  MaxHeight = 3
  MaxReorgs = 1
  MaxFaults = 1
  MaxRebuilds = 1
INVARIANTS
  ProjectionExact
  LogFollowsBlocks
PROPERTIES
  TotalsConverge
CHECK_DEADLOCK FALSE
