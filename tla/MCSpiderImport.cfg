SPECIFICATION Spec
CONSTANTS
  a1 = a1
  a2 = a2
  s1 = s1
  s2 = s2
  c1 = c1
  c2 = c2
  Crawlers = {c1, c2}
  Accounts = {a1, a2}
  Submits = {s1, s2}
  Owner <- MCOwnerSmall
  FinalVerdict <- MCVerdictSmall
  Corrects = TRUE
  HasRating = FALSE
  HasContests = FALSE
  NoAccount = NoAccount
  Rebinder = Rebinder
  Free = Free
  Orphan = Orphan
  LockFaults = FALSE
  MaxAttempts = 1
  MaxRebind = 1
  MaxRetry = 1
  MaxPurge = 0
  MaxDeletions = 1
SYMMETRY CrawlerSymmetry
INVARIANTS
  TypeOK
  AggregatesMatchLogs
  WriterExclusion
  StaleFetchDiscarded
PROPERTY LedgerKept
