SPECIFICATION FairSpec
CONSTANTS
  None = None
  N = 2
  Configs <- AllConfigs
  FreeMem = {79, 81, 82}
  Drift = {0, 1}
  LoadMem = 10
  KVHeads = 4
  KVHeadMem = 1
  RatioPercent = 97
  MaxFail = 1
INVARIANTS
  CollectivesMatch
  RanksAgree
  ServesWhole
  LinksPair
PROPERTIES
  StartEnds
CHECK_DEADLOCK FALSE
