---------------------------- MODULE MCEventWait -----------------------------
(* One widget that may disappear, and events that no widget has sent.      *)
EXTENDS EventWait
CONSTANT w1
=============================================================================
