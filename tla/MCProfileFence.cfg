SPECIFICATION Spec
CONSTANTS
  Ops = {o1, o2}
  Workers = {w1, w2}
  Builders = {b1}
  Nobody = Nobody
  Dead = Dead
  LeaseFaults = TRUE
  MaxFaults = 1
SYMMETRY MCSymmetry
INVARIANTS
  TypeOK
  FenceNotCorrupt
  FactsOnce
  StaleCacheIsOwed
  AppliedReachesTail
PROPERTY
  MaintenanceKept
