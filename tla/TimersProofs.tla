---------------------------- MODULE TimersProofs ----------------------------
(***************************************************************************)
(* The timers for any set of widgets, any intervals and any number of      *)
(* inactivity timers. The inductive invariant says of every moment inside  *)
(* master_timer what the invariants say of the moments between events:     *)
(* what has been looked at so far is covered by the timer set so far.      *)
(***************************************************************************)
EXTENDS Timers, TLAPS

USE TimersAssumption

Types ==
  /\ list \in Seq(Widget) /\ time \in [Widget -> Int]
  /\ \A w \in Widget : time[w] >= -1
  /\ timer \in Int \cup {Off} /\ itimer \in (Nat \ {0}) \cup {Off}
  /\ alarm \in BOOLEAN
  /\ inactive \in 0..Longest /\ acted \subseteq DOMAIN Period
  /\ pc \in {"idle", "eval", "set", "trigger"} /\ at \in Slots
  /\ target \in Int \cup {Off} /\ firing \in Widget \cup {NoWidget}
  /\ slipped \in BOOLEAN /\ stalled \in BOOLEAN

Ordered(l, t) ==
  \A i, j \in DOMAIN l : i < j => l[i] # l[j] /\ t[l[i]] <= t[l[j]]

(* A widget's trigger runs or none, and it has been taken off the list.    *)
Trigger ==
  /\ pc = "trigger" <=> firing # NoWidget
  /\ \A i \in DOMAIN list : list[i] # firing

(* os_set_timer is about to be called with a time that is not past, unless *)
(* the clock has slipped or the signal is there already; and for a widget  *)
(* with one that is not too late.                                          *)
Setting ==
  pc = "set" =>
    /\ target # Off
    /\ ~slipped => alarm \/ target > 0
    /\ at \notin DOMAIN Period => list # <<>> /\ target <= time[Head(list)]

(* The inactivity timers looked at so far have acted or set the timer.     *)
Looked(i) == pc \in {"eval", "set"} => i < at
Watching ==
  \A i \in DOMAIN Period : Period[i] # 0 /\ Looked(i) => i \in acted \/ timer # Off

IInv == Types /\ Ordered(list, time) /\ Trigger /\ Setting /\ Watching /\ Truthful /\ Covered

-----------------------------------------------------------------------------
LEMMA Appended ==
  ASSUME NEW S, NEW n \in Nat, NEW f \in [1..n -> S]
  PROVE  f \in Seq(S) /\ Len(f) = n /\ DOMAIN f = 1..n
OBVIOUS

(* remove_timer leaves the order of the others alone.                      *)
LEMMA WithoutProps ==
  ASSUME list \in Seq(Widget), Ordered(list, time), NEW w
  PROVE  /\ Without(w) \in Seq(Widget)
         /\ Ordered(Without(w), time)
         /\ \A j \in DOMAIN Without(w) : Without(w)[j] # w
         /\ \A j \in DOMAIN Without(w) : \E i \in DOMAIN list : list[i] = Without(w)[j] /\ j <= i
         /\ \A i \in DOMAIN list : list[i] # w => \E j \in DOMAIN Without(w) : Without(w)[j] = list[i]
<1>1. CASE ~InList(w)
  BY <1>1 DEF Without, InList, Ordered
<1>2. CASE InList(w)
  <2> DEFINE p == Place(w)
             l == Without(w)
             n == Len(list)
  <2>1. p \in DOMAIN list /\ list[p] = w
    BY <1>2 DEF InList, Place
  <2>2. n \in Nat /\ p \in 1..n /\ n - 1 \in Nat /\ DOMAIN list = 1..n  BY <2>1
  <2>3. l = [i \in 1..n - 1 |-> list[IF i < p THEN i ELSE i + 1]]
    BY <1>2 DEF Without, CutOut
  <2> HIDE DEF p, l, n
  <2>4. l \in [1..n - 1 -> Widget]
    BY <2>2, <2>3
  <2>5. l \in Seq(Widget) /\ DOMAIN l = 1..n - 1
    BY <2>2, <2>4, Appended
  <2>11. \A i \in 1..n - 1 : i < p => l[i] = list[i]  BY <2>3
  <2>12. \A i \in 1..n - 1 : i >= p => l[i] = list[i + 1]  BY <2>2, <2>3
  <2>13. ASSUME NEW j \in DOMAIN l
         PROVE  \E i \in DOMAIN list : i # p /\ l[j] = list[i] /\ i = IF j < p THEN j ELSE j + 1
    <3>1. CASE j < p
      <4>1. j \in DOMAIN list /\ l[j] = list[j]  BY <3>1, <2>2, <2>5, <2>11
      <4> QED BY <3>1, <4>1
    <3>2. CASE ~(j < p)
      <4>1. j + 1 \in DOMAIN list /\ l[j] = list[j + 1] /\ j + 1 # p  BY <3>2, <2>2, <2>5, <2>12
      <4> QED BY <3>2, <4>1
    <3> QED BY <3>1, <3>2
  <2>6. ASSUME NEW i \in DOMAIN l, NEW j \in DOMAIN l, i < j
        PROVE  l[i] # l[j] /\ time[l[i]] <= time[l[j]]
    <3>1. PICK a \in DOMAIN list : l[i] = list[a] /\ a = IF i < p THEN i ELSE i + 1  BY <2>13
    <3>2. PICK b \in DOMAIN list : l[j] = list[b] /\ b = IF j < p THEN j ELSE j + 1  BY <2>13
    <3>3. a < b  BY <2>2, <2>5, <2>6, <3>1, <3>2
    <3> QED BY <3>1, <3>2, <3>3 DEF Ordered
  <2>7. \A i \in DOMAIN list : i # p => list[i] # w
    BY <2>1, <2>2 DEF Ordered
  <2>8. \A j \in DOMAIN l : l[j] # w
    BY <2>7, <2>13
  <2>9. ASSUME NEW j \in DOMAIN l PROVE \E i \in DOMAIN list : list[i] = l[j] /\ j <= i
    <3>1. CASE j < p  BY <3>1, <2>2, <2>5, <2>11
    <3>2. CASE ~(j < p)
      <4>1. j + 1 \in DOMAIN list /\ list[j + 1] = l[j] /\ j <= j + 1
        BY <3>2, <2>2, <2>5, <2>12
      <4> QED BY <4>1
    <3> QED BY <3>1, <3>2
  <2>10. ASSUME NEW i \in DOMAIN list, list[i] # w PROVE \E j \in DOMAIN l : l[j] = list[i]
    <3>1. i # p  BY <2>1, <2>10
    <3>2. CASE i < p  BY <3>2, <2>2, <2>5, <2>11
    <3>3. CASE i > p
      <4>1. i - 1 \in DOMAIN l /\ l[i - 1] = list[i]  BY <3>3, <2>2, <2>5, <2>12
      <4> QED BY <4>1
    <3> QED BY <3>1, <3>2, <3>3, <2>2
  <2>14. Ordered(l, time)  BY <2>6 DEF Ordered
  <2> QED BY <2>5, <2>8, <2>9, <2>10, <2>14 DEF l
<1> QED BY <1>1, <1>2

(* install_timer puts the widget where the order wants it.                 *)
LEMMA InsertProps ==
  ASSUME NEW l \in Seq(Widget), Ordered(l, time), NEW w \in Widget, NEW t \in Int,
         time \in [Widget -> Int], \A i \in DOMAIN l : l[i] # w, Insert(l, w, t)
  PROVE  /\ list' \in Seq(Widget) /\ list' # <<>>
         /\ Ordered(list', [time EXCEPT ![w] = t])
         /\ \E j \in DOMAIN list' : list'[j] = w
         /\ \A j \in DOMAIN list' : list'[j] = w \/ \E i \in DOMAIN l : l[i] = list'[j]
         /\ \A i \in DOMAIN l : \E j \in DOMAIN list' : list'[j] = l[i]
<1> DEFINE s == [time EXCEPT ![w] = t]
           n == Len(l)
<1>1. PICK k \in 1..n + 1 :
        /\ \A i \in 1..k - 1 : time[l[i]] < t
        /\ k <= n => time[l[k]] >= t
        /\ list' = PutIn(l, k, w)
  BY DEF Insert
<1>2. list' = [i \in 1..n + 1 |-> IF i < k THEN l[i] ELSE IF i = k THEN w ELSE l[i - 1]]
  BY <1>1 DEF PutIn
<1>3. DOMAIN l = 1..n /\ n \in Nat /\ n + 1 \in Nat /\ \A i \in 1..n : l[i] \in Widget
  OBVIOUS
<1>4. s[w] = t /\ \A i \in 1..n : s[l[i]] = time[l[i]] /\ time[l[i]] \in Int
  BY <1>3
<1> HIDE DEF s, n
<1>5. list' \in [1..n + 1 -> Widget]
  BY <1>2, <1>3
<1>6. list' \in Seq(Widget) /\ DOMAIN list' = 1..n + 1 /\ Len(list') = n + 1
  BY <1>3, <1>5, Appended
<1>7. /\ \A j \in 1..n + 1 : j < k => list'[j] = l[j]
      /\ list'[k] = w
      /\ \A j \in 1..n + 1 : j > k => list'[j] = l[j - 1]
  BY <1>2
<1>8. \A i \in 1..n : (i < k => time[l[i]] < t) /\ (i >= k => time[l[i]] >= t)
  <2>1. ASSUME NEW i \in 1..n, i < k PROVE time[l[i]] < t
    BY <2>1, <1>1
  <2>2. ASSUME NEW i \in 1..n, i > k PROVE time[l[i]] >= t
    <3>1. k \in 1..n  BY <2>2, <1>3
    <3>2. time[l[k]] <= time[l[i]]  BY <3>1, <2>2, <1>3 DEF Ordered
    <3>3. time[l[k]] >= t  BY <3>1, <1>1, <1>3
    <3> QED BY <3>1, <3>2, <3>3, <1>4
  <2> QED BY <2>1, <2>2, <1>1, <1>3
<1>9. \A i, j \in 1..n : i < j => l[i] # l[j] /\ time[l[i]] <= time[l[j]] /\ l[i] # w /\ l[j] # w
  BY <1>3 DEF Ordered
<1>10. ASSUME NEW i \in 1..n + 1, NEW j \in 1..n + 1, i < j
       PROVE  list'[i] # list'[j] /\ s[list'[i]] <= s[list'[j]]
  <2>1. CASE j < k
    <3>1. i \in 1..n /\ j \in 1..n /\ i < k  BY <2>1, <1>3, <1>10
    <3>2. list'[i] = l[i] /\ list'[j] = l[j]  BY <2>1, <3>1, <1>3, <1>7
    <3>3. l[i] # l[j] /\ time[l[i]] <= time[l[j]]  BY <3>1, <1>9, <1>10
    <3> QED BY <3>1, <3>2, <3>3, <1>4
  <2>2. CASE j = k
    <3>1. i \in 1..n /\ i < k  BY <2>2, <1>3, <1>10
    <3>2. list'[i] = l[i] /\ list'[j] = w /\ l[i] # w  BY <2>2, <3>1, <1>3, <1>7
    <3> QED BY <3>1, <3>2, <1>4, <1>8
  <2>3. CASE j > k /\ i < k
    <3>1. i \in 1..n /\ j - 1 \in 1..n /\ i < j - 1  BY <2>3, <1>3, <1>10
    <3>2. list'[i] = l[i] /\ list'[j] = l[j - 1]  BY <2>3, <1>7
    <3> QED BY <3>1, <3>2, <1>4, <1>9
  <2>4. CASE j > k /\ i = k
    <3>1. j - 1 \in 1..n /\ j - 1 >= k  BY <2>4, <1>3, <1>10
    <3>2. list'[i] = w /\ list'[j] = l[j - 1] /\ l[j - 1] # w  BY <2>4, <3>1, <1>3, <1>7
    <3> QED BY <3>1, <3>2, <1>4, <1>8
  <2>5. CASE j > k /\ i > k
    <3>1. i - 1 \in 1..n /\ j - 1 \in 1..n /\ i - 1 < j - 1  BY <2>5, <1>3, <1>10
    <3>2. list'[i] = l[i - 1] /\ list'[j] = l[j - 1]  BY <2>5, <1>7
    <3> QED BY <3>1, <3>2, <1>4, <1>9
  <2> QED BY <2>1, <2>2, <2>3, <2>4, <2>5, <1>3
<1>11. Ordered(list', s)
  BY <1>6, <1>10 DEF Ordered
<1>12. \E j \in DOMAIN list' : list'[j] = w
  BY <1>6, <1>7
<1>13. ASSUME NEW j \in DOMAIN list' PROVE list'[j] = w \/ \E i \in DOMAIN l : l[i] = list'[j]
  <2>1. CASE j < k
    <3>1. j \in DOMAIN l /\ l[j] = list'[j]  BY <2>1, <1>3, <1>6, <1>7
    <3> QED BY <3>1
  <2>2. CASE j = k  BY <2>2, <1>7
  <2>3. CASE j > k
    <3>1. j - 1 \in DOMAIN l /\ l[j - 1] = list'[j]  BY <2>3, <1>3, <1>6, <1>7
    <3> QED BY <3>1
  <2> QED BY <2>1, <2>2, <2>3, <1>6
<1>14. ASSUME NEW i \in DOMAIN l PROVE \E j \in DOMAIN list' : list'[j] = l[i]
  <2>1. CASE i < k
    <3>1. i \in DOMAIN list' /\ list'[i] = l[i]  BY <2>1, <1>3, <1>6, <1>7
    <3> QED BY <3>1
  <2>2. CASE i >= k
    <3>1. i + 1 \in DOMAIN list' /\ list'[i + 1] = l[i]  BY <2>2, <1>3, <1>6, <1>7
    <3> QED BY <3>1
  <2> QED BY <2>1, <2>2, <1>3
<1>15. list' # <<>>  BY <1>3, <1>6
<1> QED BY <1>6, <1>11, <1>12, <1>13, <1>14, <1>15 DEF s

-----------------------------------------------------------------------------
LEMMA SlotsFacts ==
  /\ Len(Period) \in Nat /\ DOMAIN Period = 1..Len(Period)
  /\ 1 \in Slots /\ \A i \in DOMAIN Period : i + 1 \in Slots /\ ~(i < 1)
  /\ \A i \in Slots : i \notin DOMAIN Period => \A j \in DOMAIN Period : j < i
BY DEF Slots

LEMMA InitInv == Init => IInv
<1> SUFFICES ASSUME Init PROVE IInv  OBVIOUS
<1>1. \A w \in Widget : time[w] = -1  BY DEF Init
<1>2. Types
  <2>1. list \in Seq(Widget) /\ time \in [Widget -> Int] /\ \A w \in Widget : time[w] >= -1
    BY <1>1 DEF Init
  <2>2. inactive \in 0..Longest /\ at \in Slots  BY SlotsFacts DEF Init
  <2>3. alarm \in BOOLEAN /\ slipped \in BOOLEAN /\ stalled \in BOOLEAN  BY DEF Init
  <2> QED BY <2>1, <2>2, <2>3 DEF Init, Types
<1> QED BY <1>2, SlotsFacts DEF Init, IInv, Ordered, Trigger, Setting, Watching, Looked, Truthful, Covered

(* Whoever calls master_timer leaves a state in which everything is about  *)
(* to be looked at again.                                                  *)
LEMMA Restart ==
  ASSUME Types, master_timer,
         list' \in Seq(Widget), time' \in [Widget -> Int], \A w \in Widget : time'[w] >= -1,
         Ordered(list', time'),
         alarm' \in BOOLEAN, inactive' \in 0..Longest, acted' \subseteq DOMAIN Period
  PROVE  IInv'
<1>1. /\ timer' = Off /\ itimer' = Off /\ pc' = "eval" /\ at' = 1
      /\ firing' = NoWidget /\ target' = target /\ slipped' = FALSE /\ stalled' = FALSE
  BY DEF master_timer, os_set_timer
<1>2. Types'
  <2>1. alarm' \in BOOLEAN /\ slipped' \in BOOLEAN /\ stalled' \in BOOLEAN  BY <1>1
  <2> QED BY <1>1, <2>1, SlotsFacts DEF Types
<1>3. \A i \in DOMAIN list' : list'[i] # NoWidget  OBVIOUS
<1>4. \A i \in DOMAIN Period : ~(i < 1)  BY SlotsFacts
<1> QED BY <1>1, <1>2, <1>3, <1>4 DEF IInv, Trigger, Setting, Watching, Looked, Truthful, Covered

(* install_timer *)
LEMMA InstallStep ==
  ASSUME IInv, NEW w \in Widget, NEW t \in Interval, install_timer(w, t)
  PROVE  IInv'
<1>1. /\ list \in Seq(Widget) /\ Ordered(list, time) /\ Types
      /\ time \in [Widget -> Int] /\ \A v \in Widget : time[v] >= -1
  BY DEF IInv, Types
<1>2. t \in Int /\ t >= -1  OBVIOUS
<1>3. /\ Without(w) \in Seq(Widget) /\ Ordered(Without(w), time)
      /\ \A i \in DOMAIN Without(w) : Without(w)[i] # w
  BY <1>1, WithoutProps
<1>4. /\ Insert(Without(w), w, t) /\ time' = [time EXCEPT ![w] = t]
      /\ master_timer /\ alarm' = alarm /\ inactive' = inactive /\ acted' = acted
  BY DEF install_timer
<1>5. list' \in Seq(Widget) /\ Ordered(list', [time EXCEPT ![w] = t])
  BY <1>1, <1>2, <1>3, <1>4, InsertProps
<1>6. time' \in [Widget -> Int] /\ \A v \in Widget : time'[v] >= -1
  BY <1>1, <1>2, <1>4
<1> QED BY <1>1, <1>4, <1>5, <1>6, Restart DEF Types

(* The step to the next timer: what was to be shown of this one is known.  *)
LEMMA NextSlotInv ==
  ASSUME IInv, pc \in {"eval", "set"}, NextSlot,
         UNCHANGED <<list, time, alarm, inactive, firing, slipped, stalled>>,
         timer' \in Int \cup {Off}, itimer' \in (Nat \ {0}) \cup {Off},
         target' \in Int \cup {Off},
         acted' \subseteq DOMAIN Period, acted \subseteq acted',
         Truthful',
         timer # Off => timer' # Off,
         at \in DOMAIN Period => Period[at] = 0 \/ at \in acted' \/ timer' # Off,
         at \notin DOMAIN Period /\ list # <<>> /\ ~slipped =>
           alarm \/ (itimer' # Off /\ itimer' <= time[Head(list)])
  PROVE  IInv'
<1>1. Types /\ Ordered(list, time) /\ Trigger /\ Watching  BY DEF IInv
<1>2. at \in Slots  BY <1>1 DEF Types
<1>3. CASE at \in DOMAIN Period
  <2>1. at' = at + 1 /\ pc' = "eval"  BY <1>3 DEF NextSlot
  <2>2. Types'  BY <1>1, <1>3, <2>1, SlotsFacts DEF Types
  <2>3. Watching'
    <3> SUFFICES ASSUME NEW i \in DOMAIN Period, Period[i] # 0, i < at'
                 PROVE  i \in acted' \/ timer' # Off
      BY <2>1 DEF Watching, Looked
    <3>1. CASE i = at  BY <3>1, <1>3
    <3>2. CASE i # at
      <4>1. i < at  BY <3>2, <2>1, <1>3, SlotsFacts
      <4>2. i \in acted \/ timer # Off  BY <4>1, <1>1 DEF Watching, Looked
      <4> QED BY <4>2
    <3> QED BY <3>1, <3>2
  <2> QED BY <1>1, <2>1, <2>2, <2>3 DEF IInv, Ordered, Trigger, Setting, Covered
<1>4. CASE at \notin DOMAIN Period
  <2>1. at' = 1 /\ pc' = "idle"  BY <1>4 DEF NextSlot
  <2>2. Types'  BY <1>1, <2>1, SlotsFacts DEF Types
  <2>3. Watching'
    <3> SUFFICES ASSUME NEW i \in DOMAIN Period, Period[i] # 0
                 PROVE  i \in acted' \/ timer' # Off
      BY DEF Watching
    <3>1. i < at  BY <1>2, <1>4, SlotsFacts
    <3>2. i \in acted \/ timer # Off  BY <3>1, <1>1 DEF Watching, Looked
    <3> QED BY <3>2
  <2>4. Covered'  BY <1>4, <2>1 DEF Covered
  <2> QED BY <1>1, <2>1, <2>2, <2>3, <2>4 DEF IInv, Ordered, Trigger, Setting
<1> QED BY <1>3, <1>4

-----------------------------------------------------------------------------
LEMMA EvalStep == ASSUME IInv, timer_eval PROVE IInv'
<1> USE DEF timer_eval
<1>1. Types /\ Ordered(list, time) /\ Trigger /\ Watching /\ Truthful  BY DEF IInv
<1>2. UNCHANGED <<time, timer, itimer, alarm, inactive, slipped, stalled>> /\ pc = "eval"
  OBVIOUS
<1>3. CASE Skip
  <2>1. /\ NextSlot /\ ~InUse(at)
        /\ list' = list /\ acted' = acted /\ target' = target /\ firing' = firing
    BY <1>3 DEF Skip
  <2>2. Truthful'  BY <1>1, <1>2 DEF Truthful
  <2>3. at \in DOMAIN Period => Period[at] = 0  BY <2>1 DEF InUse
  <2>4. at \notin DOMAIN Period => list = <<>>  BY <2>1 DEF InUse
  <2> HIDE DEF timer_eval
  <2> QED BY <1>1, <1>2, <2>1, <2>2, <2>3, <2>4, NextSlotInv DEF Types
<1>4. CASE Await
  <2>1. /\ InUse(at) /\ Left(at) > 0 /\ target' = Nearest(Left(at)) /\ pc' = "set"
        /\ list' = list /\ acted' = acted /\ at' = at /\ firing' = firing
    BY <1>4 DEF Await
  <2>2. Left(at) \in Int
    <3>1. CASE at \in DOMAIN Period
      <4>1. Period[at] \in Nat /\ inactive \in Int  BY <3>1, <1>1 DEF Types
      <4> QED BY <3>1, <4>1 DEF Left
    <3>2. CASE at \notin DOMAIN Period
      <4>1. list # <<>>  BY <2>1, <3>2 DEF InUse
      <4>2. Head(list) \in Widget  BY <4>1, <1>1 DEF Types
      <4> QED BY <3>2, <4>2, <1>1 DEF Left, Types
    <3> QED BY <3>1, <3>2
  <2>3. target' \in Int /\ target' <= Left(at) /\ (target' = Left(at) \/ (timer # Off /\ target' = timer))
    BY <1>1, <2>1, <2>2 DEF Nearest, Types
  <2>4. Types'  BY <1>1, <1>2, <2>1, <2>3 DEF Types
  <2>5. ~slipped => alarm \/ target' > 0
    <3> SUFFICES ASSUME ~slipped, ~alarm PROVE target' > 0  OBVIOUS
    <3>1. timer # Off => itimer = timer  BY <1>1 DEF Truthful
    <3>2. timer # Off => timer > 0  BY <3>1, <1>1 DEF Types
    <3> QED BY <2>1, <2>2, <2>3, <3>2
  <2>6. at \notin DOMAIN Period => list # <<>> /\ target' <= time[Head(list)]
    BY <2>1, <2>3 DEF InUse, Left
  <2>7. target' # Off  BY <2>3
  <2>8. Setting'  BY <1>2, <2>1, <2>5, <2>6, <2>7 DEF Setting
  <2>9. Watching'  BY <1>1, <1>2, <2>1 DEF Watching, Looked
  <2> QED BY <1>1, <1>2, <2>1, <2>4, <2>8, <2>9 DEF IInv, Ordered, Trigger, Truthful, Covered
<1>5. CASE GoOff /\ at \in DOMAIN Period
  <2>1. /\ NextSlot /\ acted' = acted \cup {at}
        /\ list' = list /\ target' = target /\ firing' = firing
    BY <1>5 DEF GoOff
  <2>2. Truthful'  BY <1>1, <1>2 DEF Truthful
  <2> HIDE DEF timer_eval
  <2> QED BY <1>1, <1>2, <1>5, <2>1, <2>2, NextSlotInv DEF Types
<1>6. CASE GoOff /\ at \notin DOMAIN Period
  <2>1. /\ list # <<>> /\ list' = Tail(list) /\ firing' = Head(list) /\ pc' = "trigger"
        /\ at' = 1 /\ acted' = acted /\ target' = target
    BY <1>6 DEF GoOff, Pop, InUse
  <2>2. list \in Seq(Widget)  BY <1>1 DEF Types
  <2>3. /\ list' \in Seq(Widget) /\ firing' \in Widget /\ firing' = list[1]
        /\ Len(list) \in Nat /\ Len(list) >= 1 /\ DOMAIN list' = 1..Len(list) - 1
        /\ DOMAIN list = 1..Len(list)
        /\ \A i \in 1..Len(list) - 1 : list'[i] = list[i + 1]
    BY <2>1, <2>2
  <2>4. Types'  BY <1>1, <1>2, <2>1, <2>3, SlotsFacts DEF Types
  <2>5. \A i \in DOMAIN list' : i + 1 \in DOMAIN list /\ i + 1 > 1 /\ list'[i] = list[i + 1]
    BY <2>3
  <2>6. 1 \in DOMAIN list  BY <2>3
  <2>7. \A i \in DOMAIN list' : list'[i] # firing'
    BY <1>1, <2>3, <2>5, <2>6 DEF Ordered
  <2>8. Ordered(list', time)
    <3> SUFFICES ASSUME NEW i \in DOMAIN list', NEW j \in DOMAIN list', i < j
                 PROVE  list'[i] # list'[j] /\ time[list'[i]] <= time[list'[j]]
      BY DEF Ordered
    <3>1. i + 1 < j + 1  BY <2>3
    <3> QED BY <1>1, <2>5, <3>1 DEF Ordered
  <2>9. Watching'
    <3> SUFFICES ASSUME NEW i \in DOMAIN Period, Period[i] # 0 PROVE i \in acted \/ timer # Off
      BY <1>2, <2>1 DEF Watching
    <3>1. i < at  BY <1>1, <1>6, SlotsFacts DEF Types
    <3> QED BY <1>1, <1>2, <3>1 DEF Watching, Looked
  <2>10. Trigger'  BY <2>1, <2>3, <2>7 DEF Trigger
  <2>11. Truthful'  BY <1>1, <1>2 DEF Truthful
  <2>12. Setting' /\ Covered'  BY <2>1 DEF Setting, Covered
  <2> QED BY <1>2, <2>4, <2>8, <2>9, <2>10, <2>11, <2>12 DEF IInv
<1> QED BY <1>3, <1>4, <1>5, <1>6

LEMMA SetStep == ASSUME IInv, SetTimer PROVE IInv'
<1>1. Types /\ Setting /\ Truthful  BY DEF IInv
<1>2. /\ pc = "set" /\ timer' = target /\ target' = Off /\ NextSlot
      /\ itimer' = IF target = Off THEN Off ELSE ItimerFor(target)
      /\ UNCHANGED <<list, time, alarm, inactive, acted, firing, slipped, stalled>>
  BY DEF SetTimer, os_set_timer
<1>3. target \in Int /\ target # Off /\ (~slipped => alarm \/ target > 0)
  BY <1>1, <1>2 DEF Types, Setting
<1>4. timer' \in Int /\ timer' # Off /\ itimer' = IF target > 0 THEN target ELSE Off
  BY <1>2, <1>3 DEF ItimerFor
<1>5. itimer' \in (Nat \ {0}) \cup {Off}  BY <1>3, <1>4
<1>6. Truthful'  BY <1>2, <1>3, <1>4 DEF Truthful
<1>7. at \notin DOMAIN Period /\ list # <<>> /\ ~slipped =>
        alarm \/ (itimer' # Off /\ itimer' <= time[Head(list)])
  BY <1>1, <1>2, <1>3, <1>4 DEF Setting
<1> QED BY <1>1, <1>2, <1>4, <1>5, <1>6, <1>7, NextSlotInv DEF Types

LEMMA ReturnStep == ASSUME IInv, HandlerReturns PROVE IInv'
<1>1. stalled' \in BOOLEAN /\ NoWidget \in Widget \cup {NoWidget}  BY DEF HandlerReturns
<1>2. Types'  BY <1>1 DEF IInv, Types, HandlerReturns
<1>3. Trigger'
  <2>1. \A i \in DOMAIN list : list[i] # NoWidget  BY DEF IInv, Types
  <2> QED BY <2>1 DEF HandlerReturns, Trigger
<1> QED BY <1>2, <1>3 DEF HandlerReturns, IInv, Ordered, Setting, Watching, Looked, Truthful, Covered

LEMMA RemoveStep == ASSUME IInv, NEW w \in Widget, remove_timer(w) PROVE IInv'
<1>1. /\ pc = "idle" /\ list' = Without(w)
      /\ UNCHANGED <<time, timer, itimer, alarm, inactive, acted, pc, at, target, firing, slipped, stalled>>
  BY DEF remove_timer, master
<1>2. Types /\ Ordered(list, time) /\ Trigger /\ Covered /\ list \in Seq(Widget)
  BY DEF IInv, Types
<1>3. /\ list' \in Seq(Widget) /\ Ordered(list', time)
      /\ \A j \in DOMAIN list' : \E i \in DOMAIN list : list[i] = list'[j] /\ j <= i
  BY <1>1, <1>2, WithoutProps
<1>4. Types'  BY <1>1, <1>2, <1>3 DEF Types
<1>5. Trigger'  BY <1>1, <1>2, <1>3 DEF Trigger
<1>6. Covered'
  <2> SUFFICES ASSUME list' # <<>>, ~slipped, ~stalled
               PROVE  alarm \/ (itimer # Off /\ itimer <= time[Head(list')])
    BY <1>1 DEF Covered
  <2>1. 1 \in DOMAIN list' /\ Head(list') = list'[1]  BY <1>3
  <2>2. PICK i \in DOMAIN list : list[i] = list'[1]  BY <1>3, <2>1
  <2>3. list # <<>> /\ 1 \in DOMAIN list /\ Head(list) = list[1] /\ i >= 1 /\ i \in Int
    BY <1>2, <2>2
  <2>4. time[list[1]] \in Int /\ time[list[i]] \in Int  BY <1>2, <2>3 DEF Types
  <2>5. time[list[1]] <= time[list[i]]
    <3>1. CASE i = 1  BY <3>1, <2>4
    <3>2. CASE i > 1  BY <3>2, <1>2, <2>3 DEF Ordered
    <3> QED BY <3>1, <3>2, <2>3
  <2>6. alarm \/ (itimer # Off /\ itimer <= time[list[1]])
    BY <1>1, <1>2, <2>3 DEF Covered
  <2>7. itimer # Off => itimer \in Int  BY <1>2 DEF Types
  <2> QED BY <2>1, <2>2, <2>4, <2>5, <2>6, <2>7
<1>7. Setting' /\ Watching' /\ Truthful'
  BY <1>1 DEF IInv, Setting, Watching, Looked, Truthful
<1> QED BY <1>1, <1>3, <1>4, <1>5, <1>6, <1>7 DEF IInv

LEMMA ActivityStep == ASSUME IInv, NEW t \in 0..Longest, inactivity_set(t) PROVE IInv'
<1>1. /\ inactive' = t /\ acted' = (IF t = 0 THEN {} ELSE acted) /\ Reevaluate /\ pc = "idle"
      /\ UNCHANGED <<list, time, alarm>>
  BY DEF inactivity_set
<1>2. Types /\ Ordered(list, time)  BY DEF IInv
<1>3. inactive' \in 0..Longest /\ acted' \subseteq DOMAIN Period  BY <1>1, <1>2 DEF Types
<1>4. CASE timer = Off
  <2>1. master_timer  BY <1>1, <1>4 DEF Reevaluate
  <2> QED BY <1>1, <1>2, <1>3, <2>1, Restart DEF Types
<1>5. CASE timer # Off
  <2>1. UNCHANGED <<timer, itimer, pc, at, target, firing, slipped, stalled>>
    BY <1>1, <1>5 DEF Reevaluate, master
  <2>2. Types'  BY <1>1, <1>2, <1>3, <2>1 DEF Types
  <2>3. Watching'  BY <1>5, <2>1 DEF Watching
  <2> QED BY <1>1, <2>1, <2>2, <2>3 DEF IInv, Ordered, Trigger, Setting, Truthful, Covered
<1> QED BY <1>4, <1>5

LEMMA AlarmStep == ASSUME IInv, SIGALRM PROVE IInv'
<1>1. alarm' \in BOOLEAN /\ master_timer /\ UNCHANGED <<list, time, inactive, acted>>
  BY DEF SIGALRM
<1> QED BY <1>1, Restart DEF IInv, Types

(* The clock: the itimer, the belief about it and the times of the widgets *)
(* come nearer together.                                                   *)
LEMMA TickStep == ASSUME IInv, Tick PROVE IInv'
<1>1. /\ time' = [w \in Widget |-> Countdown(time[w])]
      /\ timer' = Countdown(timer)
      /\ itimer' = IF itimer = 1 THEN Off ELSE Countdown(itimer)
      /\ alarm' = (alarm \/ itimer = 1)
      /\ inactive' = IF inactive < Longest THEN inactive + 1 ELSE inactive
      /\ target' = Countdown(target)
      /\ slipped' = (slipped \/ (pc = "set" /\ target = 1))
      /\ UNCHANGED <<list, acted, pc, at, firing, stalled>>
  BY DEF Tick
<1>2. Types /\ Ordered(list, time) /\ Trigger /\ Setting /\ Watching /\ Truthful /\ Covered
  BY DEF IInv
<1>3. \A x \in Int : Countdown(x) = IF x = -1 THEN -1 ELSE x - 1
  BY DEF Countdown
<1>4. \A w \in Widget : time[w] \in Int /\ time[w] >= -1 /\ time'[w] = Countdown(time[w])
  BY <1>1, <1>2 DEF Types
<1>5. \A w \in Widget : time'[w] \in Int /\ time'[w] >= -1 /\ time'[w] = IF time[w] = -1 THEN -1 ELSE time[w] - 1
  BY <1>3, <1>4
<1>6. Countdown(Off) = Off  BY DEF Countdown
<1>7. /\ timer # Off => timer \in Int /\ timer' \in Int /\ timer' = IF timer = -1 THEN -1 ELSE timer - 1
      /\ target # Off => target \in Int /\ target' \in Int /\ target' = IF target = -1 THEN -1 ELSE target - 1
      /\ timer = Off => timer' = Off
      /\ target = Off => target' = Off
  BY <1>1, <1>2, <1>3, <1>6 DEF Types
<1>8. /\ itimer # Off => itimer \in Nat /\ itimer >= 1
      /\ itimer # Off /\ itimer # 1 => itimer' = itimer - 1 /\ itimer' \in Nat \ {0}
      /\ itimer = Off \/ itimer = 1 => itimer' = Off
  BY <1>1, <1>2, <1>3, <1>6 DEF Types
<1>9. Types'
  <2>1. time' \in [Widget -> Int] /\ \A w \in Widget : time'[w] >= -1  BY <1>1, <1>5
  <2>2. timer' \in Int \cup {Off} /\ target' \in Int \cup {Off}  BY <1>7
  <2>3. itimer' \in (Nat \ {0}) \cup {Off}  BY <1>8
  <2>4. inactive' \in 0..Longest  BY <1>1, <1>2 DEF Types
  <2>5. alarm' \in BOOLEAN /\ slipped' \in BOOLEAN  BY <1>1
  <2> QED BY <1>1, <1>2, <2>1, <2>2, <2>3, <2>4, <2>5 DEF Types
<1>10. \A v, w \in Widget : time[v] <= time[w] => time'[v] <= time'[w]
  BY <1>4, <1>5
<1>11. \A i \in DOMAIN list : list[i] \in Widget  BY <1>2 DEF Types
<1>12. Ordered(list, time')  BY <1>2, <1>10, <1>11 DEF Ordered
<1>13. list # <<>> => Head(list) \in Widget  BY <1>2 DEF Types
<1>14. Setting'
  <2> SUFFICES ASSUME pc = "set"
               PROVE  /\ target' # Off
                      /\ ~slipped' => alarm' \/ target' > 0
                      /\ at \notin DOMAIN Period => list # <<>> /\ target' <= time'[Head(list)]
    BY <1>1 DEF Setting
  <2>1. target # Off /\ target \in Int /\ target' \in Int /\ target' # Off  BY <1>2, <1>7 DEF Setting
  <2>2. ~slipped' => alarm' \/ target' > 0
    <3>1. ~slipped' => ~slipped /\ target # 1  BY <1>1
    <3>2. ~slipped => alarm \/ target > 0  BY <1>2 DEF Setting
    <3>3. target > 0 /\ target # 1 => target' > 0  BY <2>1, <1>7
    <3>4. alarm => alarm'  BY <1>1
    <3> QED BY <3>1, <3>2, <3>3, <3>4
  <2>3. ASSUME at \notin DOMAIN Period PROVE list # <<>> /\ target' <= time'[Head(list)]
    <3>1. list # <<>> /\ target <= time[Head(list)]  BY <1>2, <2>3 DEF Setting
    <3> QED BY <3>1, <2>1, <1>4, <1>5, <1>7, <1>13
  <2> QED BY <2>1, <2>2, <2>3
<1>15. Watching'
  <2>1. timer # Off => timer' # Off  BY <1>7
  <2> QED BY <1>1, <1>2, <2>1 DEF Watching, Looked
<1>16. Truthful'
  <2> SUFFICES ASSUME timer' # Off, ~slipped', ~alarm' PROVE itimer' = timer'
    BY DEF Truthful
  <2>1. timer # Off /\ ~slipped /\ ~alarm /\ itimer # 1  BY <1>1, <1>7
  <2>2. itimer = timer  BY <2>1, <1>2 DEF Truthful
  <2> QED BY <2>1, <2>2, <1>7, <1>8
<1>17. Covered'
  <2> SUFFICES ASSUME pc = "idle", list # <<>>, ~slipped', ~stalled, ~alarm'
               PROVE  itimer' # Off /\ itimer' <= time'[Head(list)]
    BY <1>1 DEF Covered
  <2>1. ~slipped /\ ~alarm /\ itimer # 1  BY <1>1
  <2>2. itimer # Off /\ itimer <= time[Head(list)]  BY <1>2, <2>1 DEF Covered
  <2> QED BY <2>1, <2>2, <1>4, <1>5, <1>8, <1>13
<1>18. Trigger'  BY <1>1, <1>2 DEF Trigger
<1> QED BY <1>1, <1>9, <1>12, <1>14, <1>15, <1>16, <1>17, <1>18 DEF IInv

LEMMA StepInv == IInv /\ [Next]_vars => IInv'
<1> SUFFICES ASSUME IInv, [Next]_vars PROVE IInv'  OBVIOUS
<1>1. CASE timer_eval  BY <1>1, EvalStep
<1>2. CASE SetTimer  BY <1>2, SetStep
<1>3. CASE HandlerReinstalls
  <2>1. PICK t \in Interval : install_timer(firing, t)  BY <1>3 DEF HandlerReinstalls
  <2>2. firing \in Widget  BY <1>3 DEF HandlerReinstalls, IInv, Trigger, Types
  <2> QED BY <2>1, <2>2, InstallStep
<1>4. CASE HandlerReturns  BY <1>4, ReturnStep
<1>5. CASE SIGALRM  BY <1>5, AlarmStep
<1>6. CASE Tick  BY <1>6, TickStep
<1>7. ASSUME NEW w \in Widget, remove_timer(w) PROVE IInv'  BY <1>7, RemoveStep
<1>8. ASSUME NEW w \in Widget, NEW t \in Interval, Install(w, t) PROVE IInv'
  BY <1>8, InstallStep DEF Install
<1>9. ASSUME NEW t \in 0..Longest, inactivity_set(t) PROVE IInv'  BY <1>9, ActivityStep
<1>10. CASE UNCHANGED vars
  BY <1>10 DEF vars, master, IInv, Types, Ordered, Trigger, Setting, Watching, Looked, Truthful, Covered
<1> QED BY <1>1, <1>2, <1>3, <1>4, <1>5, <1>6, <1>7, <1>8, <1>9, <1>10 DEF Next, Running

THEOREM Invariance == Spec => []IInv
BY InitInv, StepInv, PTL DEF Spec

-----------------------------------------------------------------------------
(* The variables of timer.c and the itimer have the types they should.     *)
THEOREM TypeCorrect == Spec => []TypeOK
<1>1. IInv => TypeOK  BY DEF IInv, Types, TypeOK
<1> QED BY <1>1, Invariance, PTL

(* install_timer and remove_timer keep the list of timers in order.        *)
THEOREM ListSorted == Spec => []Sorted
<1>1. IInv => Sorted  BY DEF IInv, Ordered, Trigger, Sorted
<1> QED BY <1>1, Invariance, PTL

(* What os_get_timer says, by which inactivity_set decides whether to call *)
(* master_timer, is so, unless the clock has slipped.                      *)
THEOREM TimerTruthful == Spec => []Truthful
<1>1. IInv => Truthful  BY DEF IInv
<1> QED BY <1>1, Invariance, PTL

(* Between two events there is an itimer or a signal for the first widget  *)
(* of the list.                                                            *)
THEOREM WidgetsCovered == Spec => []Covered
<1>1. IInv => Covered  BY DEF IInv
<1> QED BY <1>1, Invariance, PTL

(* And for every inactivity timer that has not gone off.                   *)
THEOREM InactivityWatched == Spec => []Watched
<1>1. IInv => Watched
  <2> SUFFICES ASSUME IInv, pc = "idle", ~slipped, NEW i \in DOMAIN Period, Period[i] # 0
               PROVE  i \in acted \/ alarm \/ itimer # Off
    BY DEF Watched
  <2>1. i \in acted \/ timer # Off  BY DEF IInv, Watching, Looked
  <2> QED BY <2>1 DEF IInv, Truthful
<1> QED BY <1>1, Invariance, PTL

-----------------------------------------------------------------------------
(* The list implements the alarm clocks. *)
LEMMA DueOf == \A w \in Widget : due[w] = IF InList(w) THEN time[w] ELSE Off
BY DEF due

LEMMA InstallSets ==
  ASSUME IInv, NEW w \in Widget, NEW t \in Interval, install_timer(w, t)
  PROVE  Clock!Set(w, t)
<1>1. /\ list \in Seq(Widget) /\ Ordered(list, time) /\ time \in [Widget -> Int]
  BY DEF IInv, Types
<1>2. t \in Int  OBVIOUS
<1>3. /\ Without(w) \in Seq(Widget) /\ Ordered(Without(w), time)
      /\ \A i \in DOMAIN Without(w) : Without(w)[i] # w
      /\ \A j \in DOMAIN Without(w) : \E i \in DOMAIN list : list[i] = Without(w)[j] /\ j <= i
      /\ \A i \in DOMAIN list : list[i] # w => \E j \in DOMAIN Without(w) : Without(w)[j] = list[i]
  BY <1>1, WithoutProps
<1>4. /\ Insert(Without(w), w, t) /\ time' = [time EXCEPT ![w] = t] /\ firing' = NoWidget
  BY DEF install_timer, master_timer
<1>5. /\ \E j \in DOMAIN list' : list'[j] = w
      /\ \A j \in DOMAIN list' : list'[j] = w \/ \E i \in DOMAIN Without(w) : Without(w)[i] = list'[j]
      /\ \A i \in DOMAIN Without(w) : \E j \in DOMAIN list' : list'[j] = Without(w)[i]
  BY <1>1, <1>2, <1>3, <1>4, InsertProps
<1>6. InList(w)' /\ time'[w] = t  BY <1>1, <1>4, <1>5 DEF InList
<1>7. ASSUME NEW v \in Widget, v # w PROVE InList(v)' <=> InList(v)
  BY <1>3, <1>5, <1>7 DEF InList
<1>8. \A v \in Widget : v # w => time'[v] = time[v]  BY <1>1, <1>4
<1>9. \A v \in Widget : due'[v] = IF InList(v)' THEN time'[v] ELSE Off  BY DEF due
<1>10. due' = [due EXCEPT ![w] = t]
  <2>1. due' \in [Widget -> Int \cup {Off}] /\ DOMAIN due' = Widget /\ DOMAIN due = Widget
    BY <1>1, <1>2, <1>4 DEF due
  <2>2. \A v \in Widget : due'[v] = IF v = w THEN t ELSE due[v]
    BY <1>6, <1>7, <1>8, <1>9, DueOf
  <2>3. due = [v \in Widget |-> due[v]] /\ due' = [v \in Widget |-> due'[v]]  BY DEF due
  <2> QED BY <2>2, <2>3
<1> QED BY <1>4, <1>10 DEF Clock!Set

LEMMA RemoveCancels ==
  ASSUME IInv, NEW w \in Widget, remove_timer(w)
  PROVE  Clock!Cancel(w)
<1>1. list \in Seq(Widget) /\ Ordered(list, time) /\ time \in [Widget -> Int]
  BY DEF IInv, Types
<1>2. list' = Without(w) /\ time' = time /\ firing' = firing  BY DEF remove_timer, master
<1>3. /\ \A i \in DOMAIN list' : list'[i] # w
      /\ \A j \in DOMAIN list' : \E i \in DOMAIN list : list[i] = list'[j] /\ j <= i
      /\ \A i \in DOMAIN list : list[i] # w => \E j \in DOMAIN list' : list'[j] = list[i]
  BY <1>1, <1>2, WithoutProps
<1>4. ~InList(w)'  BY <1>3 DEF InList
<1>5. ASSUME NEW v \in Widget, v # w PROVE InList(v)' <=> InList(v)
  BY <1>3, <1>5 DEF InList
<1>6. \A v \in Widget : due'[v] = IF InList(v)' THEN time'[v] ELSE Off  BY DEF due
<1>7. due' = [due EXCEPT ![w] = Off]
  <2>1. \A v \in Widget : due'[v] = IF v = w THEN Off ELSE due[v]
    BY <1>2, <1>4, <1>5, <1>6, DueOf
  <2>2. due = [v \in Widget |-> due[v]] /\ due' = [v \in Widget |-> due'[v]]  BY DEF due
  <2> QED BY <2>1, <2>2
<1> QED BY <1>2, <1>7 DEF Clock!Cancel

LEMMA PopRings ==
  ASSUME IInv, timer_eval, GoOff, at \notin DOMAIN Period,
         NEW w \in Widget, w = Head(list)
  PROVE  Clock!Ring(w)
<1>1. /\ list # <<>> /\ list' = Tail(list) /\ firing' = w /\ time' = time /\ time[w] <= 0
      /\ pc = "eval"
  BY DEF GoOff, Pop, InUse, Left, timer_eval
<1>2. list \in Seq(Widget) /\ Ordered(list, time) /\ time \in [Widget -> Int]
  BY DEF IInv, Types
<1>3. /\ w = list[1]
      /\ Len(list) \in Nat /\ Len(list) >= 1 /\ DOMAIN list' = 1..Len(list) - 1
      /\ DOMAIN list = 1..Len(list)
      /\ \A i \in 1..Len(list) - 1 : list'[i] = list[i + 1]
  BY <1>1, <1>2
<1>4. firing = NoWidget  BY <1>1 DEF IInv, Trigger
<1>5. 1 \in DOMAIN list /\ \A i \in DOMAIN list : i # 1 => 1 < i  BY <1>3
<1>6. InList(w) /\ due[w] = time[w] /\ time[w] \in Int  BY <1>2, <1>3, <1>5, DueOf DEF InList
<1>7. \A i \in DOMAIN list : time[w] <= time[list[i]]
  <2> SUFFICES ASSUME NEW i \in DOMAIN list PROVE time[w] <= time[list[i]]  OBVIOUS
  <2>1. CASE i = 1  BY <2>1, <1>3, <1>6
  <2>2. CASE i # 1  BY <2>2, <1>2, <1>3, <1>5 DEF Ordered
  <2> QED BY <2>1, <2>2
<1>8. \A v \in Widget : due[v] # Off => due[w] <= due[v]
  BY <1>6, <1>7, DueOf DEF InList
<1>9. ~InList(w)'
  <2> SUFFICES ASSUME NEW i \in DOMAIN list' PROVE list'[i] # w  BY DEF InList
  <2>1. i + 1 \in DOMAIN list /\ 1 < i + 1 /\ list'[i] = list[i + 1]  BY <1>3
  <2> QED BY <2>1, <1>2, <1>3, <1>5 DEF Ordered
<1>10. ASSUME NEW v \in Widget, v # w PROVE InList(v)' <=> InList(v)
  <2>1. ASSUME NEW i \in DOMAIN list, list[i] = v PROVE \E j \in DOMAIN list' : list'[j] = v
    <3>1. i # 1  BY <2>1, <1>3, <1>10
    <3>2. i - 1 \in DOMAIN list' /\ list'[i - 1] = list[i]  BY <3>1, <1>3
    <3> QED BY <2>1, <3>2
  <2>2. ASSUME NEW j \in DOMAIN list', list'[j] = v PROVE \E i \in DOMAIN list : list[i] = v
    <3>1. j + 1 \in DOMAIN list /\ list'[j] = list[j + 1]  BY <1>3
    <3> QED BY <2>2, <3>1
  <2> QED BY <2>1, <2>2 DEF InList
<1>11. \A v \in Widget : due'[v] = IF InList(v)' THEN time'[v] ELSE Off  BY DEF due
<1>12. due' = [due EXCEPT ![w] = Off]
  <2>1. \A v \in Widget : due'[v] = IF v = w THEN Off ELSE due[v]
    BY <1>1, <1>9, <1>10, <1>11, DueOf
  <2>2. due = [v \in Widget |-> due[v]] /\ due' = [v \in Widget |-> due'[v]]  BY DEF due
  <2> QED BY <2>1, <2>2
<1>13. due[w] # Off /\ due[w] <= 0  BY <1>1, <1>6
<1> QED BY <1>1, <1>4, <1>8, <1>12, <1>13 DEF Clock!Ring

LEMMA TickElapses == ASSUME IInv, Tick PROVE Clock!Elapse
<1>1. /\ time' = [w \in Widget |-> Countdown(time[w])] /\ list' = list /\ firing' = firing
  BY DEF Tick
<1>2. \A v \in Widget : due'[v] = IF InList(v)' THEN time'[v] ELSE Off  BY DEF due
<1>3. \A v \in Widget : InList(v)' <=> InList(v)  BY <1>1 DEF InList
<1>4. \A v \in Widget : due'[v] = Clock!CountDown(due[v])
  BY <1>1, <1>2, <1>3, DueOf DEF Countdown, Clock!CountDown
<1>5. due' = [v \in Widget |-> Clock!CountDown(due[v])]
  <2>1. due' = [v \in Widget |-> due'[v]]  BY DEF due
  <2> QED BY <1>4, <2>1
<1> QED BY <1>1, <1>5 DEF Clock!Elapse

LEMMA Quiet ==
  ASSUME UNCHANGED <<list, time, firing>> PROVE UNCHANGED Clock!clock
BY DEF due, InList, Clock!clock

LEMMA StepMaps == IInv /\ [Next]_vars => [Clock!ClockNext]_(Clock!clock)
<1> SUFFICES ASSUME IInv, [Next]_vars PROVE [Clock!ClockNext]_(Clock!clock)  OBVIOUS
<1>1. CASE timer_eval
  <2>1. CASE GoOff /\ at \notin DOMAIN Period
    <3>1. Head(list) \in Widget
      BY <2>1 DEF GoOff, InUse, IInv, Types
    <3> QED BY <1>1, <2>1, <3>1, PopRings DEF Clock!ClockNext
  <2>2. CASE Skip \/ Await \/ (GoOff /\ at \in DOMAIN Period)
    <3>1. UNCHANGED <<list, time, firing>>  BY <1>1, <2>2 DEF timer_eval, Skip, Await, GoOff
    <3> QED BY <3>1, Quiet
  <2> QED BY <1>1, <2>1, <2>2 DEF timer_eval
<1>2. CASE SetTimer  BY <1>2, Quiet DEF SetTimer
<1>3. CASE HandlerReinstalls
  <2>1. PICK t \in Interval : install_timer(firing, t)  BY <1>3 DEF HandlerReinstalls
  <2>2. firing \in Widget  BY <1>3 DEF HandlerReinstalls, IInv, Trigger, Types
  <2> QED BY <2>1, <2>2, InstallSets DEF Clock!ClockNext
<1>4. CASE HandlerReturns
  <2>1. firing # NoWidget /\ firing' = NoWidget /\ UNCHANGED <<list, time>>
    BY <1>4 DEF HandlerReturns, IInv, Trigger
  <2>2. due' = due  BY <2>1 DEF due, InList
  <2> QED BY <2>1, <2>2 DEF Clock!ClockNext, Clock!Silence
<1>5. CASE SIGALRM
  <2>1. firing' = NoWidget /\ firing = NoWidget /\ UNCHANGED <<list, time>>
    BY <1>5 DEF SIGALRM, master_timer, IInv, Trigger
  <2> QED BY <2>1, Quiet
<1>6. CASE Tick  BY <1>6, TickElapses DEF Clock!ClockNext
<1>7. ASSUME NEW w \in Widget, remove_timer(w) PROVE Clock!ClockNext
  BY <1>7, RemoveCancels DEF Clock!ClockNext
<1>8. ASSUME NEW w \in Widget, NEW t \in Interval, Install(w, t) PROVE Clock!ClockNext
  BY <1>8, InstallSets DEF Install, Clock!ClockNext
<1>9. ASSUME NEW t \in 0..Longest, inactivity_set(t) PROVE UNCHANGED Clock!clock
  <2>1. firing = NoWidget /\ UNCHANGED <<list, time>>
    BY <1>9 DEF inactivity_set, IInv, Trigger
  <2>2. firing' = firing
    BY <1>9, <2>1 DEF inactivity_set, Reevaluate, master_timer, master
  <2> QED BY <2>1, <2>2, Quiet
<1>10. CASE UNCHANGED vars  BY <1>10, Quiet DEF vars, master
<1> QED BY <1>1, <1>2, <1>3, <1>4, <1>5, <1>6, <1>7, <1>8, <1>9, <1>10 DEF Next, Running

(* To the widgets the list of timer.c is a set of alarm clocks: each rings *)
(* once, never before its time, never before an earlier one.               *)
THEOREM TimersAreClocks == Spec => Implements
<1>1. Init => Clock!ClockInit
  <2> SUFFICES ASSUME Init PROVE Clock!ClockInit  OBVIOUS
  <2>1. \A w \in Widget : ~InList(w)  BY DEF Init, InList
  <2> QED BY <2>1 DEF Init, due, Clock!ClockInit
<1> QED BY <1>1, StepMaps, Invariance, PTL DEF Spec, Implements, Clock!ClockSpec
=============================================================================
