CONSTANTS
  FileLen = 2
  Window = 1
SPECIFICATION Spec
INVARIANTS
  ChecksumOnFullFile
  StartAfterTransportReady
  IInv
PROPERTIES
  WriterFinishes
CHECK_DEADLOCK FALSE
