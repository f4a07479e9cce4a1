SPECIFICATION Spec
CHECK_DEADLOCK FALSE
CONSTANTS
  Lexicon <- MCLexicon
  Schema <- MCSchema
  Stored <- MCStored
  RowFunctions = {"row_to_json"}
  Entries <- MCEntries
  Leaves <- MCLeaves
  Targets <- MCTargets
  ColumnLists <- MCColumnLists
  Values <- MCValues
  Others <- MCOthers
  MaxEntries = 3
  MaxParts = 4
  MaxValues = 3
  NonAscii = {"x80"}
  kMaxReferencedTables = 2
  kMaxTableNameLength = 63
INVARIANTS
  PiiReadByNameIsMasked
  ComputedPiiIsRefused
  NoInternalContradiction
  OnlyTheAuthorizedWriteIsAllowed
  TableNamesAreAllOrNothing
