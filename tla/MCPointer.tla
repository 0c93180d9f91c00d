----------------------------- MODULE MCPointer ------------------------------
(* A button inside a box that scrolls, a cursor that points and one that   *)
(* goes from hotspot to hotspot, two points, and two scenes: both widgets  *)
(* in the root divtree, or the box there until a popup shows both.         *)
EXTENDS Pointer
CONSTANTS w1, w2, mouse, nav, p1, p2
Inside == [w \in Widget |-> IF w = w1 THEN w2 ELSE None]
Arrow == [w \in Widget \union {None} |-> "arrow"]
Of(a, b, c, d) ==
  [p \in {1, 2} \X Point |-> CASE p = <<1, p1>> -> a [] p = <<1, p2>> -> b
                             [] p = <<2, p1>> -> c [] p = <<2, p2>> -> d]
Scenes == {Of(w1, w2, None, None), Of(w2, None, w1, w2)}
Mask == [w \in Widget |-> {"DOWN", "UP", "RELEASE"}
           \union (IF w = w2 THEN {"MOVE", "DRAG", "SCROLLWHEEL"} ELSE {})]
=============================================================================
