SPECIFICATION Spec
CONSTANTS
  Conn = {c1}
  Fd = {3}
  Worker = {}
  NoConn = NoConn
  MaxMessage = 1
INVARIANTS CallbacksSetFirst
CHECK_DEADLOCK FALSE
