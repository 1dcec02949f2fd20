SPECIFICATION LiveSpec
CONSTANTS
  Nodes = {n1, n2}
  MaxRuns = 1
  MaxFaults = 1
PROPERTIES
  RestartClearsRunning
