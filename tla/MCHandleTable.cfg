CONSTANTS
  c1 = c1
  c2 = c2
  Client <- MCClient
  System = System
  HANDLE_SIZE = 5
  CTX_HALF = 2
  MaxContext <- MCMaxContext
  MaxDepth <- MCMaxDepth
  Deltas <- MCDeltas
SPECIFICATION Spec
INVARIANTS ContextStack OwnersOpen LeadersLive
PROPERTY ForeignKept
