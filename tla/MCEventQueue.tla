---------------------------- MODULE MCEventQueue ----------------------------
(* Model-checking instance of EventQueue and of its refinement.            *)
EXTENDS EventQueueProofs, TLC

CONSTANTS w1, w2

MCWidget == {w1, w2}

Symmetry == Permutations(MCWidget)
=============================================================================
