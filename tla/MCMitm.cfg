CONSTANTS
  Clients = {1, 2, 3}
  Hosts = {"h1", "h2"}
  Cap = 1
  NoCert = NoCert
SPECIFICATION MCSpec
INVARIANTS TypeOK OneOwner VerifiedFirst
PROPERTIES CacheStays NotHeldUp
CHECK_DEADLOCK FALSE
