SPECIFICATION LiveSpec
CONSTANTS
  c1 = c1
  c2 = c2
  None = None
  Callers <- TwoCallers
  MaxAttaches = 2
  MaxFailures = 2
  Faults <- AllFaults
INVARIANTS
  TypeOK
  UpHasConnector
  ConnectorWatched
PROPERTIES
  CallsReturn
  AttachResolves
  EndNoticed
