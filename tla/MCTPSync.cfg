CONSTANTS
  NumRanks = 2
  Message <- MCMessage
  Overlap = TRUE
  MaxMsgs = 4
SPECIFICATION FairSpec
INVARIANTS
  SameMessages
PROPERTIES
  GroupKeepsUp
