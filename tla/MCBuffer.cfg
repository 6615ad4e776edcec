SPECIFICATION Spec
CONSTANTS
  Base = 4
  Sep = 1
  Payload <- payloads
  MaxMessage = 3
INVARIANTS TypeOK MessagesIntact NothingStuck
CHECK_DEADLOCK FALSE
