SPECIFICATION Spec
CONSTANTS
  MaxPacket = 3
  Timely = FALSE
INVARIANTS AnswerIsForRequest
CHECK_DEADLOCK FALSE
