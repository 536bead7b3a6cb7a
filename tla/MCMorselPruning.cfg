CONSTANTS
  None = None
  Null = Null
  NaN = NaN
  Columns = {"i", "f", "c", "d"}
  CodeColumns = {"c", "d"}
  FloatColumns = {"f"}
  Dictionary <- MCDictionary
  Morsels <- MCMorsels
  Tables <- MCTables
  KeyColumns <- MCKeyColumns
  Metadata <- MCMetadata
  Coverages <- MCCoverages
  Queries <- MCQueries
SPECIFICATION PruneSpec
INVARIANTS PruneTypeOK LossMeansMisread ReadsWithinBounds OutcomesSound
CHECK_DEADLOCK FALSE
