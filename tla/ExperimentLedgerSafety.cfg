SPECIFICATION Spec
CONSTANTS
  Processes = {p1, p2}
  Corpora = {"sec", "pan"}
  Recordings <- SomeRecordings
  Selections <- SomeSelections
  Allowed <- Losses
  MaxScore = 3
  MaxPieces = 9
  None = None
SYMMETRY Symmetry
INVARIANTS
  UniqueRuns
  WritesDoNotMix
  PromotedWasRecorded
CHECK_DEADLOCK FALSE
