SPECIFICATION Spec
CONSTANTS
  Conn = {c1, c2}
  PerSecond = 2
  Timeout = 10
  Interval = 5
  Delay = 1
  Skew = 2
  MaxTime = 50
INVARIANTS TypeOK GoneInTime
PROPERTIES NeverEarly
CHECK_DEADLOCK FALSE
