\* Two tasks on one page, one with a selection.
CONSTANTS
  t1 = t1
  t2 = t2
  k1 = k1
  r1 = r1
  r2 = r2
  Tasks <- MCTasks
  Pages <- MCPages
  Rows <- MCRows
  PageOf <- MCPageOf
  Selected <- MCSelected
  Invalid <- MCInvalid
  Capacity = 2
  MaxEpoch = 4
SPECIFICATION ProofSpec
INVARIANTS ProofCoversPage
\* The model stops when every task has ended.
CHECK_DEADLOCK FALSE
