SPECIFICATION CoordSpec
CONSTANTS
  Clients = {c1, c2, c3}
INVARIANTS
  NoLostWaiter
  NoLostWakeup
PROPERTIES
  ImplementsOutcome
CHECK_DEADLOCK FALSE
