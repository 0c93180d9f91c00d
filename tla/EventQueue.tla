----------------------------- MODULE EventQueue -----------------------------
(***************************************************************************)
(* The event queue of one client connection: the ring buffer inside struct *)
(* conbuf, post_event, get_event and check_event of net/eventq.c, the      *)
(* PGREQ_WAIT handler, and the bit of `evtwait' that says that the client  *)
(* is blocked in a wait.                                                   *)
(*                                                                         *)
(* A cargo (the malloc'ed copy of the data of a PG_EVENTCODING_DATA event) *)
(* is named by the serial number of the event it was allocated for, so     *)
(* `heap' is the set of cargoes that have been malloc'ed and not freed.    *)
(***************************************************************************)
EXTENDS Integers, Sequences

CONSTANTS
  EVENTQ_LEN,  \* slots in the ring
  Widget,      \* handles of the widgets that may send events to this client
  NoWidget,    \* the null handle: `from' of an event no widget sent
  MaxPosts     \* bound: events posted in a behaviour

ASSUME EventQueueAssumption ==
  /\ EVENTQ_LEN \in Nat /\ EVENTQ_LEN >= 2
  /\ NoWidget \notin Widget
  /\ MaxPosts \in Nat

VARIABLES
  q,               \* the slots
  in, out,         \* next slot to fill, next slot to read
  waiting,         \* FD_ISSET(owner, &evtwait)
  lastevent_from,  \* widget that sent the most recent event
  live,            \* widget handles that are still in the handle tree
  open,            \* the connection still has its conbuf
  heap,            \* cargoes that are allocated
  posted,          \* serial of the last event posted
  delivered        \* what has been sent to the client, in order

vars == <<q, in, out, waiting, lastevent_from, live, open, heap, posted,
          delivered>>

NULL   == 0
Serial == 1..MaxPosts
Index  == 0..(EVENTQ_LEN - 1)
Coding == {"PARAM", "DATA"}
From   == Widget \cup {NoWidget}
Event  == [serial : Serial, coding : Coding, from : From]
NoEvent == [serial |-> 0, coding |-> "PARAM", from |-> NoWidget]  \* zeroed memory
Slot   == [event : Event \cup {NoEvent}, data : Serial \cup {NULL}]

-----------------------------------------------------------------------------
(***************************************************************************)
(* The ring.                                                               *)
(***************************************************************************)
Wrap(i)  == IF i >= EVENTQ_LEN THEN i - EVENTQ_LEN ELSE i
Count    == IF in < out THEN EVENTQ_LEN + (in - out) ELSE in - out
SlotAt(k) == Wrap(out + k)      \* index of the k-th pending event, from 0

(* get_event drops an event whose widget has left the handle tree;         *)
(* rdhandle accepts the null handle.                                       *)
GoodWidget(k) == q[SlotAt(k)].event.from \in live \cup {NoWidget}

(* The offset at which the recursion of get_event stops.                   *)
FirstGood(k) ==
  /\ k \in 0..(Count - 1)
  /\ GoodWidget(k)
  /\ \A j \in 0..(k - 1) : ~GoodWidget(j)

NoneGood == \A k \in 0..(Count - 1) : ~GoodWidget(k)

Cargoes(slots) == {slots[i].data : i \in Index} \ {NULL}

-----------------------------------------------------------------------------
Init ==
  /\ q = [i \in Index |-> [event |-> NoEvent, data |-> NULL]]
  /\ in = 0 /\ out = 0
  /\ waiting = FALSE
  /\ lastevent_from = NoWidget
  /\ live = Widget
  /\ open = TRUE
  /\ heap = {}
  /\ posted = 0
  /\ delivered = <<>>

(***************************************************************************)
(* post_event, for an event that no callback of the widget absorbs, split  *)
(* at `Is the owner already waiting'. hlookup finds the sender in the      *)
(* handle tree, or there is no sender.                                     *)
(***************************************************************************)
Post(from) ==
  /\ open
  /\ posted < MaxPosts
  /\ from \in live \cup {NoWidget}
  /\ posted' = posted + 1
  /\ lastevent_from' = from
  /\ UNCHANGED <<live, open>>

NewEvent(coding, from) ==
  [serial |-> posted + 1, coding |-> coding, from |-> from]

PostToWaiter(coding, from) ==
  /\ Post(from)
  /\ waiting
  /\ waiting' = FALSE
  /\ delivered' = Append(delivered, NewEvent(coding, from))
  /\ UNCHANGED <<q, in, out, heap>>

(* The block an overflow left in the slot is freed first.                  *)
LeftoverKept == {}                                         \* mutant of Leftover
Leftover == {q[in].data}

CargoOf(coding) == IF coding = "DATA" THEN posted + 1 ELSE NULL

(* An overflow moves `out' past the oldest event.                          *)
OutKept(next) == out                                       \* mutant of OutAfter
OutAfter(next) == IF next = out THEN Wrap(out + 1) ELSE out

PostQueued(coding, from) ==
  LET cargo == CargoOf(coding)
      next  == Wrap(in + 1)
  IN /\ Post(from)
     /\ ~waiting
     /\ q' = [q EXCEPT ![in] = [event |-> NewEvent(coding, from), data |-> cargo]]
     /\ heap' = (heap \ Leftover) \cup ({cargo} \ {NULL})
     /\ in' = next
     /\ out' = OutAfter(next)
     /\ UNCHANGED <<waiting, delivered>>

(* g_malloc fails: it leaves a null pointer in the slot and the event is   *)
(* gone.                                                                   *)
PostNoMemory(from) ==
  /\ Post(from)
  /\ ~waiting
  /\ q' = [q EXCEPT ![in] = [event |-> q[in].event, data |-> NULL]]
  /\ heap' = heap \ Leftover
  /\ UNCHANGED <<in, out, waiting, delivered>>

(***************************************************************************)
(* rqh_wait, with the FD_CLR of net_iteration before it and the end of     *)
(* readfd after it. A data event hands its cargo over to readfd, which     *)
(* frees it once it is sent.                                               *)
(***************************************************************************)
OutPast(i) == Wrap(i + 1)

WaitGets(k) ==
  LET i == SlotAt(k)
  IN /\ open
     /\ FirstGood(k)
     /\ q' = [q EXCEPT ![i] = [event |-> q[i].event, data |->
                IF q[i].event.coding = "DATA" THEN NULL ELSE q[i].data]]
     /\ out' = OutPast(i)
     /\ waiting' = FALSE
     /\ delivered' = Append(delivered, q[i].event)
     /\ heap' = IF q[i].event.coding = "DATA" THEN heap \ {q[i].data} ELSE heap
     /\ UNCHANGED <<in, lastevent_from, live, open, posted>>

WaitBlocksAtOldest ==           \* mutant of WaitBlocks: get_event does not try again
  /\ open
  /\ Count > 0 => ~GoodWidget(0)
  /\ out' = IF Count > 0 THEN Wrap(out + 1) ELSE out
  /\ waiting' = TRUE
  /\ UNCHANGED <<q, in, lastevent_from, live, open, heap, posted, delivered>>

WaitBlocks ==
  /\ open
  /\ NoneGood
  /\ out' = in
  /\ waiting' = TRUE
  /\ UNCHANGED <<q, in, lastevent_from, live, open, heap, posted, delivered>>

(* The response cannot be sent: send_response closes the connection, and   *)
(* readfd returns before the g_free of the data it was given.              *)
WaitSendFails(k) ==
  LET i    == SlotAt(k)
      lost == IF q[i].event.coding = "DATA" THEN {q[i].data} ELSE {}
  IN /\ open
     /\ FirstGood(k)
     /\ open' = FALSE
     /\ waiting' = FALSE
     /\ heap' = (heap \ Cargoes(q)) \cup (lost \ {NULL})
     /\ out' = OutPast(i)
     /\ UNCHANGED <<q, in, lastevent_from, live, posted, delivered>>

(* Any other request of this client: it is not waiting now.                *)
OtherRequest ==
  /\ open
  /\ waiting' = FALSE
  /\ UNCHANGED <<q, in, out, lastevent_from, live, open, heap, posted, delivered>>

(* The client went away: closefd destroys its conbuf and every cargo in it.*)
ClientDestroy ==
  /\ open
  /\ open' = FALSE
  /\ waiting' = FALSE
  /\ heap' = heap \ Cargoes(q)
  /\ UNCHANGED <<q, in, out, lastevent_from, live, posted, delivered>>

(* Some client's request removes a widget from the handle tree. Handle     *)
(* numbers are not reused before 2^30 of them have been made.              *)
WidgetGone(w) ==
  /\ w \in live
  /\ live' = live \ {w}
  /\ UNCHANGED <<q, in, out, waiting, lastevent_from, open, heap, posted, delivered>>

Next ==
  \/ \E c \in Coding, f \in From : PostToWaiter(c, f)
  \/ \E c \in Coding, f \in From : PostQueued(c, f)
  \/ \E f \in From : PostNoMemory(f)
  \/ \E k \in Index : WaitGets(k)
  \/ \E k \in Index : WaitSendFails(k)
  \/ WaitBlocks
  \/ OtherRequest
  \/ ClientDestroy
  \/ \E w \in Widget : WidgetGone(w)

Spec == Init /\ [][Next]_vars

-----------------------------------------------------------------------------
(* Type invariant.                                                         *)
TypeOK ==
  /\ q \in [Index -> Slot]
  /\ in \in Index /\ out \in Index
  /\ waiting \in BOOLEAN /\ open \in BOOLEAN
  /\ lastevent_from \in From
  /\ live \subseteq Widget
  /\ heap \subseteq Serial
  /\ posted \in 0..MaxPosts
  /\ delivered \in Seq(Event)

(* No lost wakeup: a client blocked in PGREQ_WAIT has nothing in its ring. *)
(* post_event and rqh_wait must agree on it for an event never to sit in   *)
(* the ring of a client that nothing else will wake.                       *)
WaiterHasNothing == waiting => in = out

(* Each cargo the ring allocated is in exactly one slot: an overflow, a    *)
(* skipped event, a failed malloc or a delivery neither leaks a block nor  *)
(* leaves a freed one where post_event or request_client_destroy would     *)
(* free it again.                                                          *)
CargoOwnedOnce ==
  open => /\ heap = Cargoes(q)
          /\ \A i, j \in Index : q[i].data = q[j].data /\ q[i].data # NULL => i = j

(* A pending event carries a cargo when and only when its coding says so:  *)
(* rqh_wait decides from the coding whether to transfer and send the data. *)
PendingCargo ==
  \A k \in 0..(Count - 1) :
    LET s == q[SlotAt(k)]
    IN /\ s.event # NoEvent
       /\ open => s.data = IF s.event.coding = "DATA" THEN s.event.serial ELSE NULL

(* The client sees events in the order they were posted, whether they went *)
(* through the ring or straight to the blocked client, and none twice.     *)
DeliveredInOrder ==
  \A i, j \in DOMAIN delivered :
    i < j => delivered[i].serial < delivered[j].serial

(* What is still pending is newer than all that was delivered.             *)
PendingInOrder ==
  /\ \A j, k \in 0..(Count - 1) :
        j < k => q[SlotAt(j)].event.serial < q[SlotAt(k)].event.serial
  /\ \A i \in DOMAIN delivered, k \in 0..(Count - 1) :
        delivered[i].serial < q[SlotAt(k)].event.serial

-----------------------------------------------------------------------------
(***************************************************************************)
(* The queue as the client knows it: the events of the pending slots.      *)
(***************************************************************************)
Pending == IF open THEN [i \in 1..Count |-> q[SlotAt(i - 1)].event] ELSE <<>>

Abs == INSTANCE EventQueueAbs WITH Capacity <- EVENTQ_LEN - 1, pending <- Pending

(* The ring, with its wrapping cursors, left-over cargoes and dead widgets, *)
(* implements a queue of the newest EVENTQ_LEN - 1 events.  This is what   *)
(* the code does, not what pgnet.h:93 says of EVENTQ_LEN ("Number of events *)
(* that can be backlogged"): equal cursors mean an empty ring, so one slot *)
(* is never filled and the event number EVENTQ_LEN pushes out the oldest.  *)
Refines == Abs!AbsSpec
=============================================================================
