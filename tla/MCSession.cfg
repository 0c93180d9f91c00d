SPECIFICATION Spec
CONSTANTS
  N = 2
  Clients = {c1, c2}
  MaxKills = 2
  Faults = {"send", "fork"}
CHECK_DEADLOCK FALSE
INVARIANT CountsClients
PROPERTIES StopsWithLast EveryTurn Stops
