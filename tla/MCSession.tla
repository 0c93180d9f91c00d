----------------------------- MODULE MCSession ------------------------------
(* A calibrator and a session manager, and the clients they may start.     *)
EXTENDS Session
=============================================================================
