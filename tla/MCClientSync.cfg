SPECIFICATION Spec
CONSTANTS
  Session = {1, 2}
  h1 = h1
  h2 = h2
  Handler = {h1, h2}
  Nobody = Nobody
  Sites = {"LuoGu", "QOJ"}
  PerPage = 1
  InitialTop = 2
  MaxTop = 3
  MaxRestarts = 1
  MaxRebinds = 1
  MaxFaults = 1
INVARIANTS TypeOK CheckpointHidesNothing CountersExact StaleCacheIsOwed
SYMMETRY MCSymmetry
CHECK_DEADLOCK FALSE
CONSTRAINT MCBound
