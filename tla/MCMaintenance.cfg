SPECIFICATION Spec
CONSTANTS
  Tip = 2
  Safe = 1
  LagThreshold = 1
  LockTTL = 1
  Slot = {1, 2}
  MaxEvents = 1
  MaxFaults = 1
INVARIANTS
  Vouches
PROPERTIES
  Rebuilt
