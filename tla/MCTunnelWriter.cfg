CONSTANTS
  ClientLen = 1
  ServerLen = 1
  MaxChunk = 2
  MaxEarly = 0
SPECIFICATION Spec
INVARIANT OneWriter
CHECK_DEADLOCK FALSE
