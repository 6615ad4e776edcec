SPECIFICATION Spec
CONSTANTS
  Conn = {c1}
  Fd = {3}
  Worker = {w1}
  NoConn = NoConn
  MaxMessage = 1
INVARIANTS SendFromAnyThread
CHECK_DEADLOCK FALSE
