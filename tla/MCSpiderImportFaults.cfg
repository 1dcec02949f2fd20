SPECIFICATION Spec
CONSTANTS
  a1 = a1
  a2 = a2
  s1 = s1
  s2 = s2
  c1 = c1
  c2 = c2
  Crawlers = {c1, c2}
  Accounts = {a1}
  Submits = {s1}
  Owner <- MCOwnerOne
  FinalVerdict <- MCVerdictOne
  Corrects = TRUE
  HasRating = FALSE
  HasContests = FALSE
  NoAccount = NoAccount
  Rebinder = Rebinder
  Free = Free
  Orphan = Orphan
  LockFaults = TRUE
  MaxAttempts = 1
  MaxRebind = 1
  MaxRetry = 0
  MaxPurge = 1
  MaxDeletions = 1
SYMMETRY CrawlerSymmetry
INVARIANT AggregatesMatchLogs
PROPERTY LedgerKept
