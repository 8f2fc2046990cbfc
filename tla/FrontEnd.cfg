\* Two answers under way, in any order.
SPECIFICATION Spec
CONSTANTS
  MaxPolls = 2
  MaxChecks = 1
  MaxGranted = 1
  None = None
  FirstWorlds <- MCFirstWorlds
INVARIANTS
  TypeOK
  GateHolds
PROPERTIES
  OnePageDisplays
  PanelCatchesUp
