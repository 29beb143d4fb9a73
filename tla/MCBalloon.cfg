SPECIFICATION Spec
CONSTANTS
    Memory = 6
    Inputs <- MCInputs
    Second = 2
    DefaultStep = 4
    DefaultPoll = 2
    DefaultHoldoff = 3
    MaxFailures = 2
    Demands = {2, 3}
    SavedSizes = {2}
    Resizes = {1, 9}
    MaxDelay = 2
    MaxDisturbances = 1
INVARIANTS
    StaysInLimits
    GivesUpForCause
PROPERTY Settles
CHECK_DEADLOCK FALSE
