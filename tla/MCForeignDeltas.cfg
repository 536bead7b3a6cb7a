\* A writer builds on a chain that another tool appends to as well.
CONSTANTS
  o1 = o1
  o2 = o2
  w1 = w1
  w2 = w2
  Objects = {o1}
  Props = {"a"}
  ColumnSets <- AllColumns
  Writers = {w1, w2}
  OtherTools = {w2}
  NoState = NoState
  NoArtifact = NoArtifact
  RefInvalid = RefInvalid
  MaxCsn = 3
  MaxTime = 2
  MaxRows = 1
  MaxDeltas = 2
  ForeignKinds = {"Delta"}
  MaxCompactions = 0
  FirstStarts <- FewStarts
SPECIFICATION Spec
INVARIANTS CsnPruningSound
PROPERTIES BuiltOnWhatItExtends CsnSnapshotsStable
\* The bounds on CSNs, times and the chain end every behaviour.
CHECK_DEADLOCK FALSE
