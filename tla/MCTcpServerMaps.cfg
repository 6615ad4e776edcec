SPECIFICATION Spec
CONSTANTS
  Conn = {c1, c2}
  Fd = {3, 4}
  Worker = {w1}
  NoConn = NoConn
  MaxMessage = 1
SYMMETRY symmetry
INVARIANTS TypeOK MapsOwnTheirKeys NobodyForgotten ClosedLeavesEpoll GoneWasTimedOut
PROPERTY HandlersDestroyNothing
CHECK_DEADLOCK FALSE
