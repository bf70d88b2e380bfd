CONSTANTS
  MaxControls = 3
SPECIFICATION Spec
INVARIANTS
  AcceptedOnce
CHECK_DEADLOCK FALSE
