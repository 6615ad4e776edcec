SPECIFICATION Spec
CONSTANTS
  Conn = {c1, c2}
  Fd = {3}
  Worker = {w1}
  NoConn = NoConn
  MaxMessage = 1
PROPERTIES ImplementsConnectionLife
CHECK_DEADLOCK FALSE
