SPECIFICATION Spec
CONSTANTS
  share = share
  disk = disk
  bare = bare
  Shares = {share, bare}
  Targeted = {share}
  Plain = {disk}
  Declared <- MCDeclared
  Ports = 2
  MaxHelpers = 2
INVARIANTS
  RegistryMatchesQEMU
  HelpersAccountedFor
  SurvivorsWereLate
  NoHalfDetach
CHECK_DEADLOCK FALSE
