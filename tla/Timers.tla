------------------------------- MODULE Timers -------------------------------
(***************************************************************************)
(* The timers of the display server (timer.c): a list of widget timers in  *)
(* the order of their times and a few inactivity timers, all over one      *)
(* itimer of the process (posix.c), whose SIGALRM calls master_timer.      *)
(*                                                                         *)
(* Signals are blocked except around select, so the handler runs while the *)
(* main code is idle. But the clock goes on all the time, and every        *)
(* os_getticks reads it again.                                             *)
(*                                                                         *)
(* Times are counted down from the present, which is 0; what is past stays *)
(* at -1. (In C they are counted up, in milliseconds since the start; that *)
(* count wraps after seven weeks, which is left out.)                      *)
(***************************************************************************)
EXTENDS Integers, Sequences

CONSTANTS
  Widget, NoWidget,
  Interval,   \* intervals of widget timers
  Period,     \* cursorhide, backlightoff, sleep and vidblank; 0 for never
  Longest,    \* inactivity is counted up to here
  Preempt,    \* the clock may advance between the two readings of os_set_timer
  Off         \* no timer

ASSUME TimersAssumption ==
  /\ Interval \subseteq Nat \ {0}
  /\ Period \in Seq(Nat) /\ \A i \in DOMAIN Period : Period[i] <= Longest
  /\ Longest \in Nat /\ Preempt \in BOOLEAN
  /\ Off \notin Int /\ NoWidget \notin Widget

VARIABLES
  list,      \* timer_widgets
  time,      \* time of each widget
  timer,     \* os_posix_timer: when the program believes the itimer fires
  itimer,    \* when it does
  alarm,     \* SIGALRM is pending
  inactive,  \* the time since timer_lastactivity
  acted,     \* inactivity timers that have gone off since the last activity
  pc, at,    \* where master_timer is, and which timer it is looking at
  target,    \* the time os_set_timer has been called with
  firing,    \* the widget that gets PG_TRIGGER_TIMER
  slipped,   \* (history) the itimer was set for a moment already past
  stalled    \* (history) a handler has returned without a new timer

master == <<pc, at, target, firing>>
vars == <<list, time, timer, itimer, alarm, inactive, acted, master, slipped, stalled>>

Countdown(t) == IF t = Off \/ t = -1 THEN t ELSE t - 1

Slots == 1..Len(Period) + 1                  \* the last one is the head of the list

-----------------------------------------------------------------------------
(* posix.c. An interval that is not positive either disarms the itimer or, *)
(* as an unsigned number, is seven weeks long: both are Off.               *)
ItimerFor(t) == IF t > 0 THEN t ELSE Off

os_set_timer(t) == timer' = t /\ itimer' = IF t = Off THEN Off ELSE ItimerFor(t)

(* The time left of the timer in slot i, if it is in use.                  *)
InUse(i) == IF i \in DOMAIN Period THEN Period[i] # 0 ELSE list # <<>>
OneEarly(i) ==                                    \* mutant of Left
  IF i \in DOMAIN Period THEN Period[i] - inactive ELSE time[Head(list)] - 1
Left(i) == IF i \in DOMAIN Period THEN Period[i] - inactive ELSE time[Head(list)]

Latest(t) == IF timer = Off \/ timer < t THEN t ELSE timer  \* mutant of Nearest
Nearest(t) == IF timer = Off \/ t < timer THEN t ELSE timer

-----------------------------------------------------------------------------
(* master_timer begins. *)
KeepTimer ==                                      \* mutant of master_timer
  /\ UNCHANGED <<timer, itimer>>
  /\ pc' = "eval" /\ at' = 1 /\ firing' = NoWidget /\ UNCHANGED target
  /\ slipped' = FALSE /\ stalled' = FALSE
master_timer ==
  /\ os_set_timer(Off)
  /\ pc' = "eval" /\ at' = 1 /\ firing' = NoWidget /\ UNCHANGED target
  /\ slipped' = FALSE /\ stalled' = FALSE

NextSlot ==
  IF at \in DOMAIN Period THEN at' = at + 1 /\ pc' = "eval"
                          ELSE pc' = "idle" /\ at' = 1

(* timer_eval, up to the first reading of the clock: what is due is done,  *)
(* and of the widgets' timers only the first.                              *)
Pop == list' = Tail(list)

Skip ==
  /\ ~InUse(at)
  /\ NextSlot /\ UNCHANGED <<list, acted, target, firing>>
Await ==
  /\ InUse(at) /\ Left(at) > 0
  /\ target' = Nearest(Left(at)) /\ pc' = "set"
  /\ UNCHANGED <<list, acted, at, firing>>
GoOff ==
  /\ InUse(at) /\ Left(at) <= 0
  /\ IF at \in DOMAIN Period
     THEN /\ acted' = acted \cup {at}
          /\ NextSlot /\ UNCHANGED <<list, firing>>
     ELSE /\ Pop /\ firing' = Head(list) /\ pc' = "trigger"
          /\ at' = 1 /\ UNCHANGED acted
  /\ UNCHANGED target

timer_eval ==
  /\ pc = "eval"
  /\ Skip \/ Await \/ GoOff
  /\ UNCHANGED <<time, timer, itimer, alarm, inactive, slipped, stalled>>

(* timer_eval, from the second reading of the clock on.                    *)
SetTimer ==
  /\ pc = "set"
  /\ os_set_timer(target) /\ target' = Off
  /\ NextSlot
  /\ UNCHANGED <<list, time, alarm, inactive, acted, firing, slipped, stalled>>

-----------------------------------------------------------------------------
(* The list of widget timers. *)
InList(w) == \E i \in DOMAIN list : list[i] = w
Place(w) == CHOOSE i \in DOMAIN list : list[i] = w
CutOut(p) == [i \in 1..Len(list) - 1 |-> list[IF i < p THEN i ELSE i + 1]]
Without(w) == IF InList(w) THEN CutOut(Place(w)) ELSE list

PutIn(l, k, w) ==
  [i \in 1..Len(l) + 1 |-> IF i < k THEN l[i] ELSE IF i = k THEN w ELSE l[i - 1]]
Insert(l, w, t) ==
  \E k \in 1..Len(l) + 1 :
    /\ \A i \in 1..k - 1 : time[l[i]] < t
    /\ k <= Len(l) => time[l[k]] >= t
    /\ list' = PutIn(l, k, w)

install_timer(w, t) ==
  /\ Insert(Without(w), w, t) /\ time' = [time EXCEPT ![w] = t]
  /\ master_timer
  /\ UNCHANGED <<alarm, inactive, acted>>

(* A handler of PG_TRIGGER_TIMER installs the timer of its widget again,   *)
(* as that of a text box does, or not.                                     *)
HandlerReinstalls ==
  /\ pc = "trigger" /\ \E t \in Interval : install_timer(firing, t)
HandlerReturns ==
  /\ pc = "trigger" /\ pc' = "idle" /\ firing' = NoWidget
  /\ stalled' = TRUE
  /\ UNCHANGED <<list, time, timer, itimer, alarm, inactive, acted, at, target, slipped>>

(* The main code. *)
Install(w, t) == pc = "idle" /\ install_timer(w, t)

remove_timer(w) ==
  /\ pc = "idle" /\ list' = Without(w)
  /\ UNCHANGED <<time, timer, itimer, alarm, inactive, acted, master, slipped, stalled>>

(* Activity when t is 0; otherwise a request (rqh_setinactive).            *)
NotAtAll == UNCHANGED <<timer, itimer, master, slipped, stalled>>  \* mutant of Reevaluate
Reevaluate ==
  IF timer = Off THEN master_timer ELSE UNCHANGED <<timer, itimer, master, slipped, stalled>>

inactivity_set(t) ==
  /\ pc = "idle"
  /\ inactive' = t
  /\ acted' = IF t = 0 THEN {} ELSE acted
  /\ Reevaluate
  /\ UNCHANGED <<list, time, alarm>>

-----------------------------------------------------------------------------
(* The operating system: the signal, and the passing of time. *)
SIGALRM ==
  /\ pc = "idle" /\ alarm /\ alarm' = FALSE
  /\ master_timer
  /\ UNCHANGED <<list, time, inactive, acted>>

Tick ==
  /\ Preempt \/ pc # "set"
  /\ time' = [w \in Widget |-> Countdown(time[w])]
  /\ timer' = Countdown(timer)
  /\ itimer' = IF itimer = 1 THEN Off ELSE Countdown(itimer)
  /\ alarm' = (alarm \/ itimer = 1)
  /\ inactive' = IF inactive < Longest THEN inactive + 1 ELSE inactive
  /\ target' = Countdown(target)
  /\ slipped' = (slipped \/ (pc = "set" /\ target = 1))
  /\ UNCHANGED <<list, acted, pc, at, firing, stalled>>

-----------------------------------------------------------------------------
(* timer_init calls master_timer. *)
Init ==
  /\ list = <<>> /\ time \in [Widget -> {-1}]
  /\ timer = Off /\ itimer = Off /\ alarm = FALSE
  /\ inactive = Longest /\ acted = {}
  /\ pc = "eval" /\ at = 1 /\ target = Off /\ firing = NoWidget
  /\ slipped = FALSE /\ stalled = FALSE

Running == timer_eval \/ SetTimer \/ HandlerReinstalls \/ HandlerReturns

Next ==
  \/ Running \/ SIGALRM \/ Tick
  \/ \E w \in Widget : remove_timer(w) \/ \E t \in Interval : Install(w, t)
  \/ \E t \in 0..Longest : inactivity_set(t)

(* The program runs, signals are delivered and time passes; users and      *)
(* clients need not do anything.                                           *)
Fairness == WF_vars(Running) /\ WF_vars(SIGALRM) /\ WF_vars(Tick)
Spec == Init /\ [][Next]_vars /\ Fairness

-----------------------------------------------------------------------------
TypeOK ==
  /\ list \in Seq(Widget) /\ time \in [Widget -> Int]
  /\ timer \in Int \cup {Off} /\ itimer \in (Nat \ {0}) \cup {Off}
  /\ alarm \in BOOLEAN
  /\ inactive \in 0..Longest /\ acted \subseteq DOMAIN Period
  /\ pc \in {"idle", "eval", "set", "trigger"} /\ at \in Slots
  /\ target \in Int \cup {Off} /\ firing \in Widget \cup {NoWidget}
  /\ slipped \in BOOLEAN /\ stalled \in BOOLEAN

(* The list is in the order of the times, each widget is in it once, and   *)
(* not the one whose trigger runs: its handler may install it again.       *)
Sorted ==
  /\ \A i, j \in DOMAIN list : i < j => list[i] # list[j] /\ time[list[i]] <= time[list[j]]
  /\ pc = "trigger" => \A i \in DOMAIN list : list[i] # firing

(* What os_get_timer says is so: inactivity_set leaves everything as it is *)
(* when there is a timer. Unless the clock has slipped by.                 *)
Truthful == timer # Off /\ ~slipped => itimer = timer \/ alarm

(* Between two events the next widget timer has an itimer or a signal, no  *)
(* later than its time; what may be missing is a timer after a handler     *)
(* that has installed none, because master_timer looks at the first only.  *)
Covered ==
  pc = "idle" /\ list # <<>> /\ ~slipped /\ ~stalled
    => alarm \/ (itimer # Off /\ itimer <= time[Head(list)])

(* So are the inactivity timers, even then, though perhaps too late when a *)
(* client has set the inactivity forward.                                  *)
Watched ==
  pc = "idle" /\ ~slipped
    => \A i \in DOMAIN Period : Period[i] # 0 => i \in acted \/ alarm \/ itimer # Off

(* No widget gets a trigger before its time, before an earlier timer, or   *)
(* without one: the timers are alarm clocks.                               *)
due == [w \in Widget |-> IF InList(w) THEN time[w] ELSE Off]
Clock == INSTANCE AlarmClock WITH ringing <- firing
Implements == Clock!ClockSpec

(* A user who is active now and then sees every timer through, whatever    *)
(* the handlers do, as long as the clock does not slip for good.           *)
Due(w) == InList(w) /\ time[w] <= 0
AllRing ==
  <>[]~slipped /\ []<>(inactive = 0) => \A w \in Widget : Due(w) ~> ~Due(w)
=============================================================================
