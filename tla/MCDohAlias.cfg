CONSTANTS
  Hosts <- MCHosts
  Providers = 2
  Parts = 2
SPECIFICATION Spec
INVARIANTS AliasResolves
CHECK_DEADLOCK FALSE
