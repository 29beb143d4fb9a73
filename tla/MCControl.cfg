SPECIFICATION Spec
CONSTANTS
    c1 = c1
    c2 = c2
    Clients <- MCClients
    Programs <- MCPrograms
    MaxHandlers = 2
INVARIANTS
    CleanExitIsReal
    SuccessMeansStopped
PROPERTY AbandonedSlotReturns
CHECK_DEADLOCK FALSE
