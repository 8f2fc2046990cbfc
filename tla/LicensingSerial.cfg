SPECIFICATION Spec
CONSTANTS
  h1 = h1
  h2 = h2
  single = single
  multiple = multiple
  c1 = c1
  Existing = Existing
  None = None
  MaxCalls = 2
  Handlers <- OneHandler
  Identities <- BothIdentities
  Several <- HasSeveral
  Conns <- OneConn
  Presets <- AllPresets
  Faults <- AllFaults
INVARIANTS
  TypeOK
  
PROPERTIES
  RestartRestores
  LaunchedAsLicensed
  OwnEntitlement
