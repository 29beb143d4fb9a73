SPECIFICATION SessSpec
CONSTANTS
  Callers = {a, b}
  MaxOps = 3
INVARIANTS
  OwnReply
  DeadlineIsOwn
PROPERTIES
  OperationsReturn
CHECK_DEADLOCK FALSE
