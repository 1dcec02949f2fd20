SPECIFICATION Spec
CONSTANTS
  Session = {1, 2}
  h1 = h1
  h2 = h2
  Handler = {h1, h2}
  Nobody = Nobody
  Sites = {"LuoGu"}
  PerPage = 1
  InitialTop = 2
  MaxTop = 3
  MaxRestarts = 1
  MaxRebinds = 0
  MaxFaults = 0
INVARIANTS ScanComplete
SYMMETRY MCSymmetry
CHECK_DEADLOCK FALSE
