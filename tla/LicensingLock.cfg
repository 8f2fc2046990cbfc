SPECIFICATION LiveSpec
CONSTANTS
  h1 = h1
  h2 = h2
  single = single
  multiple = multiple
  c1 = c1
  Existing = Existing
  None = None
  MaxCalls = 1
  Handlers <- TwoHandlers
  Identities <- OneIdentity
  Several = {}
  Conns <- OneConn
  Presets <- NoPreset
  Faults <- NoFaults
PROPERTIES
  RemovalEnds
