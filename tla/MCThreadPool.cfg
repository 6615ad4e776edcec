SPECIFICATION Spec
CONSTANTS
  Worker = {w1, w2, w3}
  Submitter = {s1, s2}
  Task = {t1, t2, t3}
INVARIANTS TypeOK EnoughAwake AtMostOneLeftAsleep
PROPERTIES StopReturnsUnlessMissed ImplementsTaskQueue
CHECK_DEADLOCK FALSE
