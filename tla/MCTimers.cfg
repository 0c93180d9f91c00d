CONSTANTS
  w1 = w1
  w2 = w2
  w3 = w3
  Widget = {w1, w2, w3}
  Interval = {1, 3}
  Period <- TwoPeriods
  Longest = 2
  Preempt = TRUE
  Off = Off
  NoWidget = NoWidget
SPECIFICATION Spec
INVARIANTS
  Truthful
  Covered
  Watched
PROPERTIES
  Implements
  AllRing
