SPECIFICATION LiveSpec
CONSTANTS
  Ops = {o1, o2}
  Workers = {w1, w2}
  Builders = {}
  Nobody = Nobody
  Dead = Dead
  LeaseFaults = TRUE
  MaxFaults = 1
PROPERTIES
  MaintenanceSettles
  FenceReopens
CHECK_DEADLOCK FALSE
