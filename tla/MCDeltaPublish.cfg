\* Two publications and a reader; both use the same two paths; one I/O error.
CONSTANTS
  d1 = d1
  m1 = m1
  d2 = d2
  m2 = m2
  man = man
  a = a
  r1 = r1
  None = None
  EmptyPath = ""
  Calls <- MCCalls
  Paths <- MCPaths
  Target <- MCTargets
  Parent <- MCParents
  Windows = FALSE
  MaxFaults = 1
  Manifests <- MCManifests
  DeltaOf <- MCDeltaOf
  Readers = {r1}
SPECIFICATION PubSpec
INVARIANTS PubTypeOK FinalPathComplete AckedNeverReverts OnlyBareNamesFail ManifestNeverDangles ReaderErrMeansOverwritten
PROPERTIES TempsCleaned DurablePathStays PublishedBytesNeverChange ImplementsFileStore CallsReturn ManifestFollows
\* The model stops when every publication has returned or died.
CHECK_DEADLOCK FALSE
