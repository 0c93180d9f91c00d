---------------------------- MODULE MCHandleTree ----------------------------
(* Model-checking instance of HandleTree.    *)
EXTENDS HandleTree

CONSTANT Size

MCHandle == 1..Size
=============================================================================
