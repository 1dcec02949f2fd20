SPECIFICATION LiveSpec
CONSTANTS
  a1 = a1
  a2 = a2
  s1 = s1
  s2 = s2
  c1 = c1
  c2 = c2
  Crawlers = {c1}
  Accounts = {a1}
  Submits = {s1}
  Owner <- MCOwnerOne
  FinalVerdict <- MCVerdictOne
  Corrects = TRUE
  HasRating = TRUE
  HasContests = TRUE
  NoAccount = NoAccount
  Rebinder = Rebinder
  Free = Free
  Orphan = Orphan
  LockFaults = FALSE
  MaxAttempts = 2
  MaxRebind = 1
  MaxRetry = 2
  MaxPurge = 0
  MaxDeletions = 1
PROPERTIES
  RebindSettles
