CONSTANTS
  p1 = p1
  p2 = p2
  N = 2
  Foreign <- MCForeign
  MaxFaults = 1
  MaxSignals = 2
  Session <- MCSession
  Rows = 2
  MaxCount = 2
  MaxClicks = 2
  Concurrency = 1
SPECIFICATION FairSpec
INVARIANTS
  NothingOutlivesRun
  CleanupTruth
  ReadyMeansWarm
  CursorBehind
  ProcessingHasBatch
PROPERTIES
  RunEnds
CHECK_DEADLOCK FALSE
