SPECIFICATION Spec
CONSTANTS
  m1 = m1
  Launches <- MCLaunches
  Faults <- NoFaults
CHECK_DEADLOCK FALSE
INVARIANTS
  ShutdownStopsMatlab
