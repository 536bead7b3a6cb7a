\* Deltas of other tools and reads as of a commit time.
CONSTANTS
  o1 = o1
  o2 = o2
  w1 = w1
  w2 = w2
  Objects = {o1, o2}
  Props = {"a"}
  ColumnSets <- AllColumns
  Writers = {w1}
  OtherTools = {w1}
  NoState = NoState
  NoArtifact = NoArtifact
  RefInvalid = RefInvalid
  MaxCsn = 3
  MaxTime = 3
  MaxRows = 1
  MaxDeltas = 1
  ForeignKinds = {"Delta", "Tombstone"}
  MaxCompactions = 0
  FirstStarts <- FewStarts
SPECIFICATION Spec
SYMMETRY Symmetry
INVARIANTS CommitPruningSound
\* The bounds on CSNs, times and the chain end every behaviour.
CHECK_DEADLOCK FALSE
