CONSTANTS
  MaxTurnOns = 2
  MaxTurnOffs = 1
  MaxFaults = 1
SPECIFICATION FairSpec
INVARIANTS
  OneInstance
PROPERTIES
  TurnOffLeavesNothing
  TurnOnWorks
  BootstrapEnds
CHECK_DEADLOCK FALSE
