SPECIFICATION FairSpec
CONSTANTS
  Handles = {h1, h2}
  Paths = {p1}
  Texts = {t1}
  MaxBatch = 1
  GenerationLimit = 3
  SegmentLimit = 3
  DocumentLimit = 2
  RenameMayRefuse = TRUE
  None = None
INVARIANTS
  GenerationIdentifies
PROPERTIES
  NoLostUpdate
  OperationsReturn
