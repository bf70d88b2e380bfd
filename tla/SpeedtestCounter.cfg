CONSTANTS
  FileLen = 2
  Window = 2
SPECIFICATION Spec
INVARIANTS
  UnchangedStreamsCounted
CHECK_DEADLOCK FALSE
