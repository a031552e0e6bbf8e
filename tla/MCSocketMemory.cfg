CONSTANTS
  StreamLen = 7
  IntMax = 8
SPECIFICATION Spec
INVARIANTS TypeOK AlwaysInserted
PROPERTY ImplementsByteStream
CHECK_DEADLOCK FALSE
