SPECIFICATION FairSpec
CONSTANTS
  Connections = {c1, c2, c3}
  Workers = {w1, w2}
  QueueCapacity = 1
  MaxBytes = 2
  MaxHeaderBytes = 1
  Chunk = 1
  Terminator = 1
  None = None
INVARIANTS
  OnePlace
  Accounting
PROPERTIES
  EveryConnectionEnds
CHECK_DEADLOCK FALSE
