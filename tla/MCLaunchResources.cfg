SPECIFICATION Spec
CONSTANTS
  Launches = {a, b}
  MaxCrashes = 1
SYMMETRY LaunchSymmetry
INVARIANTS
  NothingLeftRunning
  VolumeUsable
  TalksToItsOwn
PROPERTIES
  LiveSocketKept
CHECK_DEADLOCK FALSE
