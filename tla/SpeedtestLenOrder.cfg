CONSTANTS
  FileLen = 2
  Window = 2
SPECIFICATION Spec
INVARIANTS
  FinishedWhenFileReceived
CHECK_DEADLOCK FALSE
