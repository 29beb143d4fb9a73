SPECIFICATION Spec
CONSTANTS
  Launches = {l1, l2}
  MaxSaves = 2
SYMMETRY LaunchSymmetry
INVARIANTS
  OneQEMU
  PIDFileNamesOwner
  MarkerImpliesStream
PROPERTIES
  AutoKeepsWhatItSaw
CHECK_DEADLOCK FALSE
