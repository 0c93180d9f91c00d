------------------------------ MODULE MCTimers ------------------------------
(* Three widgets and two of the four inactivity timers: the cursor is      *)
(* hidden after 1, the screen is blanked after 2.                          *)
EXTENDS Timers
CONSTANTS w1, w2, w3
TwoPeriods == <<1, 2>>
=============================================================================
