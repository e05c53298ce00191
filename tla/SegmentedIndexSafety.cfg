SPECIFICATION Spec
CONSTANTS
  Handles = {h1, h2}
  Paths = {p1, p2}
  Texts = {t1, t2}
  MaxBatch = 2
  GenerationLimit = 3
  SegmentLimit = 3
  DocumentLimit = 3
  RenameMayRefuse = FALSE
  None = None
SYMMETRY Symmetry
INVARIANTS
  OneWriter
  Intact
  NoForeignBytes
  PlansAreValid
  SearchIsSnapshot
PROPERTIES
  ImplementsStore
