CONSTANTS
  None = None
  Null = Null
  NaN = NaN
  Columns = {"i", "f", "c", "d"}
  CodeColumns = {"c", "d"}
  FloatColumns = {"f"}
  Dictionary <- MCDictionary
  Morsels <- ConvertedMorsels
  Tables <- ConvertedTables
  KeyColumns <- MCKeyColumns
  Metadata <- ConvertedMetadata
  Coverages = {{}}
  Queries <- ConvertedQueries
SPECIFICATION PruneSpec
INVARIANT PrunedHasNoMatch
CHECK_DEADLOCK FALSE
