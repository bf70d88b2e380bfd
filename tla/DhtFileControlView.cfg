CONSTANTS
  MaxControls = 3
SPECIFICATION Spec
INVARIANTS
  CarrierSeesPeerState
CHECK_DEADLOCK FALSE
