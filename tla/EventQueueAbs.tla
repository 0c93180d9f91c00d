--------------------------- MODULE EventQueueAbs ----------------------------
(***************************************************************************)
(* What the event queue of a connection promises to its client: events     *)
(* arrive in the order they were posted; the queue keeps the newest        *)
(* Capacity of them; a wait request returns the oldest event whose widget  *)
(* still exists, or blocks, and the first event posted while it is blocked *)
(* is sent at once.                                                        *)
(* How many events it keeps is a parameter: the module that implements it  *)
(* says which number the code provides.                                    *)
(***************************************************************************)
EXTENDS Integers, Sequences

CONSTANTS Capacity, Widget, NoWidget, Coding, Serial

VARIABLES pending, waiting, live, open, delivered

absVars == <<pending, waiting, live, open, delivered>>

Sender == Widget \cup {NoWidget}
AbsEvent == [serial : Serial, coding : Coding, from : Sender]

Good(e) == e.from \in live \cup {NoWidget}

Newest(s) == IF Len(s) > Capacity THEN Tail(s) ELSE s

-----------------------------------------------------------------------------
AbsInit ==
  /\ pending = <<>>
  /\ waiting = FALSE
  /\ live = Widget
  /\ open = TRUE
  /\ delivered = <<>>

(* An event for a blocked client goes straight out.                        *)
Wake(e) ==
  /\ open /\ waiting /\ pending = <<>>
  /\ waiting' = FALSE
  /\ delivered' = Append(delivered, e)
  /\ UNCHANGED <<pending, live, open>>

(* Otherwise it is queued, and the oldest event makes room for it.         *)
Enqueue(e) ==
  /\ open /\ ~waiting
  /\ pending' = Newest(Append(pending, e))
  /\ UNCHANGED <<waiting, live, open, delivered>>

(* A wait returns the oldest good event; older ones are discarded.         *)
Take(k) ==
  /\ open
  /\ k \in 1..Len(pending)
  /\ Good(pending[k])
  /\ \A j \in 1..(k - 1) : ~Good(pending[j])
  /\ pending' = SubSeq(pending, k + 1, Len(pending))
  /\ delivered' = Append(delivered, pending[k])
  /\ waiting' = FALSE
  /\ UNCHANGED <<live, open>>

(* A wait that finds no good event blocks.                                 *)
Block ==
  /\ open
  /\ \A j \in 1..Len(pending) : ~Good(pending[j])
  /\ pending' = <<>>
  /\ waiting' = TRUE
  /\ UNCHANGED <<live, open, delivered>>

(* Another request ends the wait.                                          *)
Unwait ==
  /\ open
  /\ waiting' = FALSE
  /\ UNCHANGED <<pending, live, open, delivered>>

(* The connection ends, and what was pending with it.                      *)
Close ==
  /\ open
  /\ open' = FALSE
  /\ waiting' = FALSE
  /\ pending' = <<>>
  /\ UNCHANGED <<live, delivered>>

Lose(w) ==
  /\ w \in live
  /\ live' = live \ {w}
  /\ UNCHANGED <<pending, waiting, open, delivered>>

AbsNext ==
  \/ \E e \in AbsEvent : Wake(e) \/ Enqueue(e)
  \/ \E k \in 1..Capacity : Take(k)
  \/ Block
  \/ Unwait
  \/ Close
  \/ \E w \in Widget : Lose(w)

AbsSpec == AbsInit /\ [][AbsNext]_absVars
=============================================================================
