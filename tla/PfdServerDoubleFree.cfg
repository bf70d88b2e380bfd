CONSTANTS
  s1 = s1
  s2 = s2
  NULL = NULL
  Sess <- MCSess
SPECIFICATION Spec
INVARIANTS
  SdpMemorySafe
CHECK_DEADLOCK FALSE
