CONSTANTS
  Configs <- MCConfigs
  Conns = {c1}
  Names <- MCNames
  Ports = {"80"}
  MaxReq = 1
  Edps = {e}
  NoAnswer = NoAnswer
SPECIFICATION Spec
INVARIANT DohAsConfigured
CHECK_DEADLOCK FALSE
