CONSTANTS
  Bodies <- MCBodies
  MaxTail = 6
  LineMax = 4
  MaxPiece = 5
SPECIFICATION Spec
INVARIANTS TypeOK KmpExact Framed
PROPERTIES RelayEnds
CHECK_DEADLOCK FALSE
