SPECIFICATION FairSpec
CONSTANTS
  b1 = b1
  b2 = b2
  Body = {b1, b2}
  Slot = {1, 2}
  Limits = {1}
  MaxRetry = 1
  HasRecovery = TRUE
  Nobody = Nobody
  FaultKinds <- AllFaults
  MaxFaults = 2
INVARIANTS TypeOK NothingLost WorkersBounded
PROPERTIES Implements EverySettled
CHECK_DEADLOCK FALSE
