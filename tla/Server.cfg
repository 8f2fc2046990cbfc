SPECIFICATION Spec
CONSTANTS
  m1 = m1
  Launches <- MCLaunches
  Faults <- PortTaken
CHECK_DEADLOCK FALSE
INVARIANTS
  TypeOK
  ExitLeavesNoMatlab
  InfoFileRemoved
PROPERTIES
  ShutdownEnds
