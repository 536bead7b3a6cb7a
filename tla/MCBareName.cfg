\* A bare file name, and no I/O error at all.
CONSTANTS
  c1 = c1
  c2 = c2
  p1 = p1
  p2 = p2
  None = None
  EmptyPath = ""
  Calls <- MCCalls
  Paths <- TwoPaths
  Target <- TwoTargets
  Parent <- TwoParents
  Windows = FALSE
  MaxFaults = 0
SPECIFICATION Spec
INVARIANTS ErrMeansFault

\* The model stops when every call has returned or died.
CHECK_DEADLOCK FALSE
