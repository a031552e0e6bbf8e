CONSTANTS
  ClientLen = 2
  ServerLen = 3
  MaxChunk = 2
  MaxEarly = 1
SPECIFICATION Spec
INVARIANTS TypeOK InOrder OnlyEarlyLost
PROPERTY Released
CHECK_DEADLOCK FALSE
