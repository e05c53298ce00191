SPECIFICATION Spec
CONSTANTS
  Documents = {"a", "b", "c"}
  Texts = {old, new}
  Length <- SameLengths
  Selections <- SomeSelections
  Provider = "gutenberg"
  SaveEvery = 2
  MaxAttempts = 2
  None = None
INVARIANTS
  FinishedIsVerified
  BoundedLoss
  NothingForgotten
PROPERTIES
  EveryRunEnds
