--------------------------- MODULE MCHandleTable ----------------------------
(* A model-checking instance of HandleTable: one client loads files, files *)
(* inside files, and the other enters contexts, one more than a node can   *)
(* number, and moves its handles between them.                             *)
EXTENDS HandleTable, TLC

CONSTANTS c1, c2

MCClient == {c1, c2}

MCMaxDepth == (c1 :> 2) @@ (c2 :> 0)
MCMaxContext == (c1 :> 0) @@ (c2 :> CTX_HALF)
MCDeltas == (c1 :> {}) @@ (c2 :> {1})
=============================================================================
