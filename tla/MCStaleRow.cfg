CONSTANTS
  PageSize = 1
  NumPages = 5
  MaxRunning = 2
  MaxRow = 5
  Req = {1, 2}
  Token <- MCToken
  Block <- MCBlock
  Key <- MCKey
  Eos = 2
  UserMsgs <- SamePrompt
  MaxSeqLen = 5
  Budget = 2
  Overlap = FALSE
  MaxAborts = 0
  GraphSizes = {1, 2}
  TableAlign = 1
SPECIFICATION Spec
INVARIANTS
  RowsReadCachedPages
