SPECIFICATION Spec
CONSTANTS
  MaxEra = 2
  MaxLen = 3
  BatchSize = 2
  Punctual = TRUE
  MaxIds = 4
  MaxWipes = 2
  MaxFaults = 1
INVARIANTS
  PositionCovered
PROPERTIES
  Converges
  NoResurrection
CHECK_DEADLOCK FALSE
