SPECIFICATION LiveSpec
CONSTANTS
  t1 = t1
  t2 = t2
  None = None
  Clients <- TwoTabs
  ActiveClientTimeout = 2
  IdleTimeout = 4
  MaxLosses = 1
INVARIANTS
  TypeOK
PROPERTIES
  OwnerKept
  OpenTabKeepsServer
  FrameFollowsOwner
  SessionReleased
  IdleServerStops
