SPECIFICATION Spec
CONSTANTS
  t1 = t1
  t2 = t2
  Threads = {t1, t2}
  NoThread = NoThread
  MaxBoots = 2
  MaxRequests = 2
  AffectedCounts = {0, 1, 2}
  Lexicon <- MCLexicon
  Schema <- MCSchema
  Stored <- MCStored
  RowFunctions = {}
  NonAscii = {"x80"}
  kMaxReferencedTables = 8
  kMaxTableNameLength = 63
  Sqls <- MixedSqls
SYMMETRY Symmetry
INVARIANTS
  TypeOK
  OneRequestAtATime
  SuccessIsAudited
  TrailAgreesWithReplies
  TrailIsInRequestOrder
  OnlyOrderInsertsCommit
  ConfirmedWriteIsCommittedOnce
  OtherFailuresWroteNothing
  RowsAreMaskedAnswers
PROPERTY
  ImplementsAuditedGateway
