----------------------------- MODULE AlarmClock -----------------------------
(***************************************************************************)
(* What timer.c promises to a widget: an alarm rings once, not before its  *)
(* time and not before an earlier one, unless it is set anew or cancelled, *)
(* and one at a time. Times count down to the present, which is 0; what is *)
(* past stays at -1.                                                       *)
(***************************************************************************)
EXTENDS Integers

CONSTANTS Widget, NoWidget, Interval, Off

VARIABLES
  due,      \* per widget the time left of its alarm, or Off
  ringing   \* the widget whose alarm rings, or NoWidget

clock == <<due, ringing>>

CountDown(t) == IF t = Off \/ t = -1 THEN t ELSE t - 1

ClockInit == due = [w \in Widget |-> Off] /\ ringing = NoWidget

Set(w, t) == due' = [due EXCEPT ![w] = t] /\ ringing' = NoWidget
Cancel(w) == due' = [due EXCEPT ![w] = Off] /\ UNCHANGED ringing

Ring(w) ==
  /\ ringing = NoWidget
  /\ due[w] # Off /\ due[w] <= 0
  /\ \A v \in Widget : due[v] # Off => due[w] <= due[v]
  /\ due' = [due EXCEPT ![w] = Off] /\ ringing' = w

Silence == ringing # NoWidget /\ ringing' = NoWidget /\ UNCHANGED due

Elapse == due' = [w \in Widget |-> CountDown(due[w])] /\ UNCHANGED ringing

ClockNext ==
  \/ \E w \in Widget : Cancel(w) \/ Ring(w) \/ \E t \in Interval : Set(w, t)
  \/ Silence \/ Elapse
ClockSpec == ClockInit /\ [][ClockNext]_clock
=============================================================================
