SPECIFICATION ProcSpec
CONSTANTS
  Helpers = 1
INVARIANTS
  ReverseOrder
  SurvivorsReported
PROPERTIES
  CloseReturns
CHECK_DEADLOCK FALSE
