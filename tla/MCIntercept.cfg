CONSTANTS
  Configs <- MCConfigs
  Conns = {c1, c2}
  Names <- MCNames
  Ports = {"80"}
  MaxReq = 2
  Edps = {e}
  NoAnswer = NoAnswer
SPECIFICATION Spec
INVARIANTS TypeOK OwnSettings DohKept
CHECK_DEADLOCK FALSE
SYMMETRY Symmetry
