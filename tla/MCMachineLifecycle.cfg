SPECIFICATION Spec
CONSTANTS
  Clients = {c1}
  Callers = {k1}
INVARIANTS
  LockOutlivesQEMU
  ReportsAreTrue
  SuspendSkipsWriteBack
PROPERTIES
  
  
  MachineReleased
CHECK_DEADLOCK FALSE
