CONSTANTS
  Req <- MCReq
  MaxReplies = 2
  Overlap = TRUE
  NumTokenizers = 1
SPECIFICATION FairSpec
INVARIANTS
  TypeOK
  RepliesInOrder
  AbortIsFinal
  DecodeStateGoes
PROPERTIES
  EveryClientAnswered
