\* Overlapping commit times: a re-created object.
CONSTANTS
  o1 = o1
  o2 = o2
  w1 = w1
  w2 = w2
  Objects = {o1, o2}
  Props = {"a"}
  ColumnSets <- AllColumns
  Writers = {w1}
  OtherTools = {}
  NoState = NoState
  NoArtifact = NoArtifact
  RefInvalid = RefInvalid
  MaxCsn = 5
  MaxTime = 3
  MaxRows = 2
  MaxDeltas = 2
  ForeignKinds = {}
  MaxCompactions = 0
  FirstStarts <- FewStarts
SPECIFICATION Spec
SYMMETRY Symmetry
INVARIANTS ReadbackFollowsChain
\* The bounds on CSNs, times and the chain end every behaviour.
CHECK_DEADLOCK FALSE
