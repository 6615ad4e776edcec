SPECIFICATION Spec
CONSTANTS
  Worker = {w1, w2}
  Submitter = {s1, s2}
  Task = {t1, t2, t3}
PROPERTY StopTerminates
CHECK_DEADLOCK FALSE
