---------------------------- MODULE MCWidgetTree ----------------------------
(* An application with its root and a scrollbox, the canvas of a second    *)
(* client, and all of them open to the widgets of the other.               *)
EXTENDS WidgetTree
CONSTANTS app, guest, root, scrollbox, canvas
OwnerOf == [w \in {root, scrollbox, canvas} |-> IF w = root THEN app ELSE guest]
=============================================================================
