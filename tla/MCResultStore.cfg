\* Two clients, pages of three rows or nine bytes, two results retained.
CONSTANTS
  Clients = {c1, c2}
  Results <- MCResults
  Size <- MCSize
  PageSize = 3
  MaxBytes = 9
  MaxHandles = 2
  TTL = 1
  MaxInserts = 4
  MaxTime = 2
SPECIFICATION Spec
INVARIANTS TypeOK StoreBounded LostMeansDisplaced PageWithinLimits
PROPERTIES ImplementsPaging
\* The model stops when its bounds on insertions and time are reached.
CHECK_DEADLOCK FALSE
