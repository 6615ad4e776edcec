SPECIFICATION Spec
CONSTANTS
  Worker = {w1, w2}
  MessageCells = 2
  MaxMessage = 3
  Room = 2
INVARIANTS TypeOK NothingUnnoticed RepliesInOrder NoneTwice NoneLost NoReplyUnannounced ResetIsSurvived
PROPERTIES EveryRequestHandled EveryReplySent
CHECK_DEADLOCK FALSE
