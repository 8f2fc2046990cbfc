SPECIFICATION Spec
CONSTANTS
  c1 = c1
  c2 = c2
  None = None
  Callers <- OneCaller
  MaxRuns = 2
  Faults <- ScheduledFaults
  Polling = FALSE
INVARIANTS
  DoneMeansFinished
  UpHasConnector
  ConnectorVerified
  NoAbandonedMatlab
CHECK_DEADLOCK FALSE
