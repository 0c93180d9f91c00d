SPECIFICATION Spec
CONSTANTS
  N = 2
  Clients = {c1, c2}
  MaxKills = 1
  Faults = {"send"}
CHECK_DEADLOCK FALSE
PROPERTY OthersKeepRunning
