SPECIFICATION Spec
CONSTANTS
  None = None
  Every = Every
  Models <- AllModels
INVARIANTS
  ShardsMeet
  VocabularyInPlace
  LoadsWhole
CHECK_DEADLOCK FALSE
