CONSTANTS
  app = app
  guest = guest
  root = root
  scrollbox = scrollbox
  canvas = canvas
  Client = {app, guest}
  Box = {root}
  Scrollbox = {scrollbox}
  Leaf = {canvas}
  Root = {root}
  Public = {root, scrollbox, canvas}
  Owner <- OwnerOf
  Screen = Screen
  None = None
SPECIFICATION Spec
PROPERTIES
  BeforeParent
