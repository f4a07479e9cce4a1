SPECIFICATION Spec
CONSTANTS
  t1 = t1
  t2 = t2
  Threads = {t1, t2}
  NoThread = NoThread
  MaxBoots = 1
  MaxRequests = 1
  AffectedCounts = {1}
  Lexicon <- MCLexicon
  Schema <- MCSchema
  Stored <- MCStored
  RowFunctions = {}
  NonAscii = {"x80"}
  kMaxReferencedTables = 8
  kMaxTableNameLength = 63
  Sqls <- BriefSqls
INVARIANT
  QueryFailedWroteNothing
