SPECIFICATION StalledSpec
CONSTANTS
  t1 = t1
  t2 = t2
  Threads = {t1, t2}
  NoThread = NoThread
  MaxBoots = 1
  MaxRequests = 2
  AffectedCounts = {1}
  Lexicon <- MCLexicon
  Schema <- MCSchema
  Stored <- HttpStored
  RowFunctions = {}
  NonAscii = {"xC3", "xA9"}
  kMaxReferencedTables = 8
  kMaxTableNameLength = 63
  kMaxSqlLength = 65536
  Sqls <- WriteSqls
  Requests <- WriteRequests
PROPERTY
  HealthNeedsNoDatabase
