\* Two terminals, one after the other.
SPECIFICATION Spec
CONSTANTS
  s1 = s1
  s2 = s2
  Sockets <- MCSockets
  MaxResizes = 1
  None = None
CHECK_DEADLOCK FALSE
INVARIANTS
  TypeOK
PROPERTIES
  ShellEndsWithTerminal
  HandlerEnds
  SizeFollows
