SPECIFICATION LiveSpec
CONSTANTS
  c1 = c1
  c2 = c2
  None = None
  Callers <- OneCaller
  MaxRuns = 3
  Faults <- NoFaults
  Polling = FALSE
INVARIANTS
  NoPanic
  UpIsOwnMatlab
PROPERTIES
  StopReachesMatlab
  ImplementsService
