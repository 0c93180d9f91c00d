SPECIFICATION Spec
CONSTANTS
  Capacity = 2
  w1 = w1
  Widget = {w1}
  NoWidget = NoWidget
  MaxPosts = 4
  MaxCalls = 3
  IDS = 4
INVARIANTS Matched Conserved Answerable PollReturns
PROPERTY Arrives
CHECK_DEADLOCK FALSE
