CONSTANTS
  MaxTurnOns = 1
  MaxTurnOffs = 0
  MaxFaults = 0
SPECIFICATION Spec
INVARIANTS
  IdleIsTerminated
CHECK_DEADLOCK FALSE
