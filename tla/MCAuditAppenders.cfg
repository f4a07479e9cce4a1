SPECIFICATION Spec
CONSTANTS
  t1 = t1
  t2 = t2
  Threads = {t1, t2}
  NoThread = NoThread
  r1 = r1
  r2 = r2
  r3 = r3
  Records = {r1, r2, r3}
  MaxBoots = 3
INVARIANTS
  TypeOK
  AcknowledgedIsWhole
  TornTailStaysLast
  AtMostOneCopy
PROPERTY
  AuditLockIsReleased
  ImplementsAuditTrail
