SPECIFICATION Spec
CONSTANTS
  Worker = {w1}
  MessageCells = 1
  MaxMessage = 2
  Room = 2
PROPERTY DataOutlivesSend
CHECK_DEADLOCK FALSE
