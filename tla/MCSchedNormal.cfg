CONSTANTS
  PageSize = 2
  NumPages = 3
  MaxRunning = 3
  MaxRow = 3
  Req = {1, 2, 3}
  Token <- MCToken
  Block <- MCBlock
  Key <- MCKey
  Eos = 2
  UserMsgs <- PagesMsgs
  MaxSeqLen = 6
  Budget = 3
  Overlap = FALSE
  MaxAborts = 1
  GraphSizes = {1, 3}
  TableAlign = 4
SPECIFICATION FairSpec
PROPERTIES
  EveryRequestServed
INVARIANTS
  IdleIntegrity
  AnswerLength
  PlanWrites
  PlanReads
