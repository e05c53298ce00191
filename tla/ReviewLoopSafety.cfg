SPECIFICATION Spec
CONSTANTS
  Processes = {p1}
  Documents = {"t", "u", "a", "b"}
  Starts = {1, 2}
  Ends = {1, 2}
  Reviews <- SomeReviews
  Requests <- SomeRequests
  Additions <- SomeAdditions
  MaxRun = 2
  None = None
INVARIANTS
  CompletedIsComplete
  AuditTrail
