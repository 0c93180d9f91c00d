CONSTANTS
  w1 = w1
  w2 = w2
  mouse = mouse
  nav = nav
  p1 = p1
  p2 = p2
  None = None
  Widget = {w1, w2}
  Mouse = {mouse}
  HotCursor = {nav}
  Point = {p1, p2}
  Hotspot = {p1}
  Chord = {{}, {1}, {1, 2}}
  Container <- Inside
  Accepts <- Mask
  Redraws = {w2}
  Bitmap <- Arrow
  Scene <- Scenes
  MaxForgotten = 1
SPECIFICATION PointerSpec
INVARIANTS
  Hovered
PROPERTIES
  Kept
