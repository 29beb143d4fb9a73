SPECIFICATION Spec
CONSTANTS
  Launches = {l1, l2}
  MaxSaves = 2
PROPERTIES
  AutoNeverAbandons
CHECK_DEADLOCK FALSE
