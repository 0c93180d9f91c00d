CONSTANTS
  w = w
  s1 = s1
  s2 = s2
  activate = activate
  theme = theme
  n1 = n1
  n2 = n2
  n3 = n3
  n4 = n4
  ClientWidget = {w}
  Source = {s1, s2}
  WidgetEvent = {activate}
  OtherEvent = {theme}
  APPMSG = APPMSG
  PGBIND_ANY = PGBIND_ANY
  Binding <- Bindings
  Node = {n1, n2, n3, n4}
  NULL = NULL
  Depth = 4
SYMMETRY Symmetry
SPECIFICATION Spec
INVARIANTS
  AnswerHasWaiter
PROPERTIES
  EachOnce
