CONSTANTS
  Hosts = {h1}
  Requests = {r1, r2, r3}
  EdpLists = {e1, e2}
  NoHost = NoHost
  NoEntry = NoEntry
SPECIFICATION Spec
INVARIANTS TypeOK NoLostWakeup SingleFlight Coherent
PROPERTIES EntryStable ImplementsService RequestEnds HostFreed
CHECK_DEADLOCK FALSE
