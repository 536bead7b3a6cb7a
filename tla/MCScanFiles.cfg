\* Two replacements of the data file and one of a sidecar; two queries.
CONSTANTS
  data = data
  cache = cache
  covi = covi
  n1 = n1
  n2 = n2
  s1 = s1
  q1 = q1
  q2 = q2
  t1 = t1
  t2 = t2
  t3 = t3
  t4 = t4
  k1 = k1
  k2 = k2
  k3 = k3
  r1 = r1
  r2 = r2
  None = None
  Calls <- MCCalls
  Paths <- MCPaths
  Target <- MCTarget
  DataPath = data
  SidecarPath <- MCSidecarPath
  Length <- MCLength
  Layout <- MCLayout
  BuiltFor <- MCBuiltFor
  Queries <- MCQueries
  QueryOf <- MCQueryOf
  Tasks <- MCTasks
  Pages <- MCPages
  Rows <- MCRows
  PageOf <- MCPageOf
  Selected <- MCSelected
  Invalid <- MCInvalid
  Capacity = 2
  MaxEpoch = 3
SPECIFICATION ScanSpec
INVARIANTS ScanTypeOK OneFilePerQuery SidecarIsForTable OnlyReplacementDisturbs
PROPERTIES ImplementsLru ScansFinish
\* The model stops when every publication and every partition has ended.
CHECK_DEADLOCK FALSE
