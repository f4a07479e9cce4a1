SPECIFICATION HttpSpec
CONSTANTS
  t1 = t1
  t2 = t2
  Threads = {t1, t2}
  NoThread = NoThread
  MaxBoots = 2
  MaxRequests = 2
  AffectedCounts = {1}
  Lexicon <- MCLexicon
  Schema <- MCSchema
  Stored <- HttpStored
  RowFunctions = {}
  NonAscii = {"xC3", "xA9"}
  kMaxReferencedTables = 8
  kMaxTableNameLength = 63
  kMaxSqlLength = 65536
  Sqls <- MixedTexts
  Requests <- MixedRequests
SYMMETRY Symmetry
CONSTRAINT AlikeConnections
INVARIANTS
  AnsweredAsRecorded
  RejectionsLookAlike
