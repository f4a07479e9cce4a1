SPECIFICATION Spec
CHECK_DEADLOCK FALSE
CONSTANTS
  Lexicon <- MCLexicon
  Schema <- MCSchema
  Stored <- MCStored
  RowFunctions = {"row_to_json"}
  Entries <- MCEntries
  Leaves <- MCLeaves
  Targets <- MCTargets
  ColumnLists <- MCColumnLists
  Values <- MCValues
  Others <- MCOthers
  MaxEntries = 1
  MaxParts = 2
  MaxValues = 1
  NonAscii = {"x80"}
  kMaxReferencedTables = 2
  kMaxTableNameLength = 63
INVARIANT
  PiiIsReturnedMasked
