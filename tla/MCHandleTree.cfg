CONSTANTS
  Size = 7
  Handle <- MCHandle
  NIL = NIL
  NULL = NULL
SPECIFICATION TreeSpec
INVARIANTS SentinelConst NoNodeLost ParentLinks
PROPERTY ImplementsMap
