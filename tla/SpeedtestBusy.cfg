CONSTANTS
  FileLen = 2
  Window = 1
SPECIFICATION Spec
INVARIANTS
  FinishMeansWholeFile
CHECK_DEADLOCK FALSE
