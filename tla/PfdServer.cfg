CONSTANTS
  s1 = s1
  s2 = s2
  NULL = NULL
  Sess <- MCSess
SPECIFICATION Spec
INVARIANTS
  SdpReadSafe
  SdpReleased
  ServerCloseOnce
  IInv
CHECK_DEADLOCK FALSE
