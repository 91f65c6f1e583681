SPECIFICATION FairSpec
CONSTANTS
  q1 = q1
  t1 = t1
  t2 = t2
  c1 = c1
  c2 = c2
  Requests = {q1, t1, t2}
  Transactions = {t1, t2}
  Conns = {c1, c2}
  QueueLimit = 1
  Faults = {"connect", "setup", "lock", "other", "lost", "rollback"}
  None = None
CHECK_DEADLOCK FALSE
INVARIANTS ConnectionsExclusive TransactionsContained AppliedAtMostOnce QueueServed
PROPERTY AnsweredUnlessPoolBroken
