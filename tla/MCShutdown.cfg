SPECIFICATION Spec
CONSTANTS
  Io = {i1}
  Worker = {w1, w2}
  Main = main
  Request = {r1}
  MaxSignal = 2
INVARIANTS TypeOK NoThreadOutlivesServer WorkersLeaveFirst OneSignalIsOrderly MissesOneAtMost
PROPERTIES StopsUnlessStuck
CHECK_DEADLOCK FALSE
