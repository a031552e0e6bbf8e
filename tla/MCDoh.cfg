CONSTANTS
  Hosts <- MCHosts
  Providers = 2
  Parts = 2
SPECIFICATION Spec
INVARIANTS TypeOK Understood OnlyOwn AllFound
PROPERTY DohEnds
CHECK_DEADLOCK FALSE
