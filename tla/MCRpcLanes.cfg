SPECIFICATION Spec
CONSTANTS
  Capacity = 2
  MinConcurrency = 1
  MinSpan = 1
  MaxSpan = 3
  RampThreshold = 2
  Debounce = 1
  Quiet = 2
  BreakerThreshold = 2
  Cooldown = 2
  Job = {j1, j2}
  Claims = claims
  MaxLive = 2
  MaxResume = 1
  MaxFaults = 3
PROPERTIES
  DrainWindow
  Recovers
  Reopens
