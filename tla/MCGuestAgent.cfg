SPECIFICATION Spec
CONSTANTS
  MaxConns = 4
  Chunks = 2
INVARIANTS StaleNeverMixes HostFileWhole
