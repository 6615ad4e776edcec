SPECIFICATION Spec
CONSTANTS
  Caller = {c1, c2}
  Task = {t1, t2, t3}
  OtherChannel = {timer, conn}
  MaxEvents = 2
INVARIANTS TypeOK NoLostWakeup NoLostStop
PROPERTIES StopReturns ImplementsTaskQueue
CHECK_DEADLOCK FALSE
