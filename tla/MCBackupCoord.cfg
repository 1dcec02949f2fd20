SPECIFICATION Spec
CONSTANTS
  Nodes = {n1, n2}
  MaxRuns = 2
  MaxFaults = 1
SYMMETRY MCSymmetry
INVARIANTS
  TypeOK
  RunExclusion
  KeepsOnlyNewest
  SucceededIsRestorable
  DayCompletedOnce
PROPERTY
  ArchivesKept
