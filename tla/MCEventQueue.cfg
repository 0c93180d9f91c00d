CONSTANTS
  w1 = w1
  w2 = w2
  Widget <- MCWidget
  NoWidget = NoWidget
  EVENTQ_LEN = 3
  MaxPosts = 4
SPECIFICATION Spec
SYMMETRY Symmetry
INVARIANTS
  WaiterHasNothing
  CargoOwnedOnce
  DeliveredInOrder
CHECK_DEADLOCK FALSE
PROPERTY Refines
