CONSTANTS
  PageSize = 1
  NumPages = 5
  MaxRunning = 2
  MaxRow = 5
  Req = {1, 2, 3}
  Token <- MCToken
  Block <- MCBlock
  Key <- MCKey
  Eos = 2
  UserMsgs <- AllMsgs
  MaxSeqLen = 5
  Budget = 2
  Overlap = TRUE
  MaxAborts = 0
  GraphSizes = {1, 2}
  TableAlign = 1
SPECIFICATION FairSpec
PROPERTIES
  CMSpec
  ServiceSpec
  EveryRequestServed
INVARIANTS
  EvictionSuffices
  TokensReachInputs
