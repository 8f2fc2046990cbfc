SPECIFICATION LiveSpec
CONSTANTS
  c1 = c1
  c2 = c2
  None = None
  Callers <- TwoCallers
  MaxRuns = 1
  Faults <- AllFaults
  Polling = TRUE
INVARIANTS
  TypeOK
PROPERTIES
  CallsReturn
  StartResolves
