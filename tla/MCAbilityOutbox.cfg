SPECIFICATION Spec
CONSTANTS
  Users = {u1, u2}
  Solvers = {u1}
  Workers = {w1, w2}
  Consumers = {c1}
  Nobody = Nobody
  Dead = Dead
  MaxEdits = 2
  HardEdits = {2}
  MaxFaults = 1
SYMMETRY MCSymmetry
CHECK_DEADLOCK FALSE
PROPERTY EditsKept
INVARIANTS TypeOK StaleProfileIsOwed StaleAggregatesArePending DirtyIsOwed DeliveredIsUnderWay
