-------------------------- MODULE EventQueueProofs --------------------------
(***************************************************************************)
(* Proofs about EventQueue, for a ring of any length, any set of widgets   *)
(* and any number of events.                                               *)
(***************************************************************************)
EXTENDS EventQueue, SequenceTheorems, TLAPS

(***************************************************************************)
(* The ring is a circular interval. These lemmas say what each way of      *)
(* moving its cursors does to the pending slots.                           *)
(***************************************************************************)
Span(i, o) == IF i < o THEN EVENTQ_LEN + (i - o) ELSE i - o

(* Count and SlotAt do not look past the cursors.                          *)
LEMMA CountIsSpan == Count = Span(in, out) /\ Count' = Span(in', out')
BY DEF Count, Span

(* Moving one slot on stays inside the ring.                               *)
LEMMA WrapInRing == \A i \in Index : Wrap(i + 1) \in Index
BY EventQueueAssumption DEF Wrap, Index

(* Fewer than EVENTQ_LEN events are pending, in slots of the ring, and no  *)
(* two of them share a slot or sit in the slot that is filled next.        *)
LEMMA RingShape ==
  ASSUME NEW i \in Index, NEW o \in Index
  PROVE  /\ Span(i, o) \in Index
         /\ \A k \in Index : Wrap(o + k) \in Index
         /\ \A j, k \in Index : Wrap(o + j) = Wrap(o + k) => j = k
         /\ Wrap(o + Span(i, o)) = i
         /\ \A k \in Index : k < Span(i, o) => Wrap(o + k) # i
BY EventQueueAssumption DEF Index, Span, Wrap

(* Filling a slot when there is room appends it.                           *)
LEMMA Append1 ==
  ASSUME NEW i \in Index, NEW o \in Index, Wrap(i + 1) # o
  PROVE  Span(Wrap(i + 1), o) = Span(i, o) + 1
BY EventQueueAssumption DEF Index, Span, Wrap

(* Filling the last free slot drops the oldest one.                        *)
LEMMA Overflow ==
  ASSUME NEW i \in Index, NEW o \in Index, Wrap(i + 1) = o
  PROVE  /\ Span(i, o) = EVENTQ_LEN - 1
         /\ Span(Wrap(i + 1), Wrap(o + 1)) = EVENTQ_LEN - 1
         /\ \A k \in Index : k < EVENTQ_LEN - 1 => 
               Wrap(Wrap(o + 1) + k) = Wrap(o + (k + 1))
BY EventQueueAssumption DEF Index, Span, Wrap

(* Reading the k-th pending event drops the k + 1 oldest.                  *)
LEMMA DropFirst ==
  ASSUME NEW i \in Index, NEW o \in Index, NEW k \in Index, k < Span(i, o)
  PROVE  /\ Wrap(Wrap(o + k) + 1) \in Index
         /\ Span(i, Wrap(Wrap(o + k) + 1)) = Span(i, o) - (k + 1)
         /\ \A j \in Index : j < Span(i, o) - (k + 1) =>
               Wrap(Wrap(Wrap(o + k) + 1) + j) = Wrap(o + (j + k + 1))
BY EventQueueAssumption DEF Index, Span, Wrap

(* post_event moves the cursors: pending slots keep their order, the oldest *)
(* leaves when the ring was full, and the filled slot comes last.          *)
LEMMA QueuedRing ==
  ASSUME in \in Index, out \in Index, in' = Wrap(in + 1),
         out' = IF Wrap(in + 1) = out THEN Wrap(out + 1) ELSE out
  PROVE  \E d \in {0, 1} :
           /\ Count \in Index /\ Count' \in Index /\ Count' = Count + 1 - d
           /\ d = 1 <=> Count = EVENTQ_LEN - 1
           /\ \A k \in Index : k < Count' - 1 =>
                /\ k + d \in Index /\ k + d < Count
                /\ SlotAt(k)' = SlotAt(k + d) /\ SlotAt(k)' # in /\ SlotAt(k)' \in Index
           /\ \A k \in Index : k = Count' - 1 => SlotAt(k)' = in
<1> USE EventQueueAssumption
<1>1. CASE Wrap(in + 1) = out
  BY <1>1 DEF Index, Count, SlotAt, Wrap
<1>2. CASE Wrap(in + 1) # out
  BY <1>2 DEF Index, Count, SlotAt, Wrap
<1> QED BY <1>1, <1>2

(* get_event moves `out' past the k-th pending event: the later ones stay. *)
LEMMA ReadRing ==
  ASSUME in \in Index, out \in Index, NEW k \in Index, k < Count,
         in' = in, out' = Wrap(SlotAt(k) + 1)
  PROVE  /\ out' \in Index /\ SlotAt(k) \in Index
         /\ Count \in Index /\ Count' \in Index /\ Count' = Count - (k + 1)
         /\ \A j \in Index : j < Count' =>
              /\ j + (k + 1) \in Index /\ j + (k + 1) < Count
              /\ SlotAt(j)' = SlotAt(j + (k + 1))
              /\ SlotAt(j)' # SlotAt(k) /\ SlotAt(j)' \in Index
BY EventQueueAssumption DEF Index, Count, SlotAt, Wrap

(* What appending does to a sequence.                                      *)
LEMMA AppendShape ==
  ASSUME NEW S, NEW s \in Seq(S), NEW e \in S
  PROVE  /\ Append(s, e) \in Seq(S)
         /\ DOMAIN Append(s, e) = DOMAIN s \cup {Len(s) + 1}
         /\ Append(s, e)[Len(s) + 1] = e
         /\ \A i \in DOMAIN s : i \in Nat /\ i < Len(s) + 1 /\ s[i] \in S
                                                /\ Append(s, e)[i] = s[i]
         /\ Len(s) \in Nat
OBVIOUS

(* A pending event is a real event, in a slot of the ring.                 *)
LEMMA PendingIsEvent ==
  ASSUME TypeOK, PendingCargo, NEW k \in Index, k < Count
  PROVE  SlotAt(k) \in Index /\ q[SlotAt(k)] \in Slot /\ q[SlotAt(k)].event \in Event
<1>1. SlotAt(k) \in Index
  BY RingShape DEF TypeOK, SlotAt
<1>2. q[SlotAt(k)].event # NoEvent
  <2>1. Count \in Index
    BY RingShape, CountIsSpan DEF TypeOK
  <2>2. k \in 0..(Count - 1)
    BY <2>1, EventQueueAssumption DEF Index
  <2> QED BY <2>2 DEF PendingCargo
<1> QED BY <1>1, <1>2 DEF TypeOK, Slot

-----------------------------------------------------------------------------
(***************************************************************************)
(* The inductive invariant: the safety invariants of EventQueue, and that  *)
(* every serial number in the state has been issued. Without the last part *)
(* a new event could collide with one the ring already holds.              *)
(***************************************************************************)
Issued ==
  /\ \A i \in Index : q[i].data <= posted /\ q[i].event.serial <= posted
  /\ \A i \in DOMAIN delivered : delivered[i].serial <= posted

IInv ==
  /\ TypeOK
  /\ WaiterHasNothing
  /\ CargoOwnedOnce
  /\ PendingCargo
  /\ PendingInOrder
  /\ DeliveredInOrder
  /\ Issued

(* A fresh connection has an empty ring.                                   *)
LEMMA InitInv == Init => IInv
<1> SUFFICES ASSUME Init PROVE IInv
  OBVIOUS
<1> USE EventQueueAssumption DEF Init
<1>1. TypeOK
  <2>1. [event |-> NoEvent, data |-> NULL] \in Slot
    BY DEF Slot
  <2>2. delivered \in Seq(Event)
    OBVIOUS
  <2>3. q \in [Index -> Slot]
    BY <2>1
  <2>4. in \in Index /\ out \in Index /\ posted \in 0..MaxPosts
    BY DEF Index
  <2>5. waiting \in BOOLEAN /\ open \in BOOLEAN
    OBVIOUS
  <2>6. lastevent_from \in From /\ live \subseteq Widget /\ heap \subseteq Serial
    BY DEF From
  <2> QED BY <2>2, <2>3, <2>4, <2>5, <2>6 DEF TypeOK
<1>2. Count = 0
  BY DEF Count
<1>3. Cargoes(q) = {}
  BY DEF Cargoes
<1>4. CargoOwnedOnce
  BY <1>3 DEF CargoOwnedOnce, NULL
<1>5. Issued
  BY DEF Issued, NoEvent, NULL
<1> QED
  BY <1>1, <1>2, <1>4, <1>5
  DEF IInv, WaiterHasNothing, PendingCargo, PendingInOrder, DeliveredInOrder

(* What every post has in common.                                          *)
LEMMA PostFresh ==
  ASSUME IInv, NEW f \in From, Post(f)
  PROVE  /\ posted' = posted + 1 /\ posted' \in Serial /\ posted' \in 0..MaxPosts
         /\ posted \in Nat
         /\ \A c \in Coding : /\ NewEvent(c, f) \in Event
                              /\ NewEvent(c, f).serial = posted + 1
                              /\ NewEvent(c, f).coding = c
         /\ lastevent_from' \in From /\ live' = live /\ live' \subseteq Widget
         /\ open /\ open' = open /\ open' \in BOOLEAN
BY EventQueueAssumption DEF IInv, TypeOK, Post, NewEvent, Event, Serial

(* An event sent to a blocked client does not touch the ring.              *)
LEMMA PostToWaiterInv ==
  ASSUME IInv, NEW c \in Coding, NEW f \in From, PostToWaiter(c, f)
  PROVE  IInv'
<1>0. Post(f)
  BY DEF PostToWaiter
<1> USE DEF IInv
<1> DEFINE e == NewEvent(c, f)
           n == Len(delivered) + 1
<1>1. e \in Event /\ e.serial = posted + 1 /\ posted' = posted + 1 /\ posted \in Nat
  BY <1>0, PostFresh
<1>2. /\ waiting' = FALSE /\ delivered' = Append(delivered, e) /\ delivered \in Seq(Event)
      /\ UNCHANGED <<q, in, out, heap, open>>
  BY <1>0 DEF PostToWaiter, TypeOK, Post
<1>3. Count = 0 /\ Count' = 0
  <2>1. in = out
    BY DEF PostToWaiter, WaiterHasNothing
  <2> QED BY <2>1, <1>2 DEF Count, TypeOK, Index
<1>4. /\ delivered' \in Seq(Event) /\ DOMAIN delivered' = DOMAIN delivered \cup {n}
      /\ delivered'[n] = e
      /\ \A i \in DOMAIN delivered : /\ i \in Nat /\ i < n
                                     /\ delivered[i].serial \in Nat
                                     /\ delivered'[i] = delivered[i]
      /\ n \in Nat
  <2>1. \A x \in Event : x.serial \in Nat
    BY DEF Event, Serial
  <2> HIDE DEF e
  <2> QED BY <1>1, <1>2, <2>1, AppendShape
<1>5. TypeOK'
  BY <1>0, <1>1, <1>2, <1>4, PostFresh DEF TypeOK
<1>6. DeliveredInOrder'
  <2> HIDE DEF e, n
  <2> QED BY <1>1, <1>4 DEF DeliveredInOrder, Issued
<1>7. Issued'
  <2>1. \A i \in Index : q[i].data \in Nat /\ q[i].event.serial \in Nat
    BY DEF TypeOK, Slot, Event, NoEvent, Serial, NULL
  <2> HIDE DEF e, n
  <2> QED BY <1>1, <1>2, <1>4, <2>1 DEF Issued
<1>8. PendingCargo' /\ PendingInOrder'
  BY <1>3 DEF PendingCargo, PendingInOrder
<1>9. CargoOwnedOnce' /\ WaiterHasNothing'
  BY <1>2 DEF CargoOwnedOnce, Cargoes, WaiterHasNothing
<1> QED BY <1>5, <1>6, <1>7, <1>8, <1>9

(* An event put in the ring is the newest pending one; the block that an   *)
(* overflow left in its slot is freed, and no other.                       *)
LEMMA PostQueuedInv ==
  ASSUME IInv, NEW c \in Coding, NEW f \in From, PostQueued(c, f)
  PROVE  IInv'
<1>0. Post(f)
  BY DEF PostQueued, Leftover, CargoOf, OutAfter
<1> USE EventQueueAssumption DEF IInv
<1> DEFINE e == NewEvent(c, f)
           cargo == IF c = "DATA" THEN posted + 1 ELSE NULL
           s == [event |-> e, data |-> cargo]
<1>1. /\ e \in Event /\ e.serial = posted + 1 /\ e.coding = c
      /\ posted' = posted + 1 /\ posted \in Nat /\ posted + 1 \in Serial
      /\ cargo \in {NULL, posted + 1} /\ e # NoEvent
  BY <1>0, PostFresh DEF NULL, NoEvent
<1>2. /\ s \in Slot /\ s.event = e /\ s.data = cargo
  BY <1>1 DEF Slot
<1> HIDE DEF e
<1>3. /\ in \in Index /\ out \in Index /\ q \in [Index -> Slot]
      /\ q' = [q EXCEPT ![in] = s] /\ q' \in [Index -> Slot]
      /\ heap' = (heap \ {q[in].data}) \cup ({cargo} \ {NULL})
      /\ in' = Wrap(in + 1)
      /\ out' = IF Wrap(in + 1) = out THEN Wrap(out + 1) ELSE out
      /\ in' \in Index /\ out' \in Index
      /\ ~waiting /\ UNCHANGED <<waiting, delivered>> /\ open /\ open'
  BY <1>0, <1>2, WrapInRing DEF PostQueued, Leftover, CargoOf, OutAfter, TypeOK, Post, e
<1> HIDE DEF s
<1>4. TypeOK'
  <2>1. heap' \subseteq Serial
    BY <1>1, <1>3 DEF TypeOK
  <2> QED BY <1>0, <1>1, <1>3, <2>1, PostFresh DEF TypeOK
<1>5. WaiterHasNothing'
  BY <1>3 DEF WaiterHasNothing
<1>6. \A i \in Index : /\ q[i].data \in Nat /\ q[i].event.serial \in Nat
                      /\ q[i].data <= posted /\ q[i].event.serial <= posted
  BY <1>3 DEF Issued, TypeOK, Slot, Event, NoEvent, Serial, NULL
<1>7. CargoOwnedOnce'
  <2>1. \A i \in Index : q'[i] = IF i = in THEN s ELSE q[i]
    BY <1>3
  <2>2. \A i, j \in Index : q[i].data = q[j].data /\ q[i].data # NULL => i = j
    BY <1>3 DEF CargoOwnedOnce
  <2>3. \A i, j \in Index : q'[i].data = q'[j].data /\ q'[i].data # NULL => i = j
    BY <1>1, <1>2, <1>3, <1>6, <2>1, <2>2
  <2>4. heap = Cargoes(q)
    BY <1>3 DEF CargoOwnedOnce
  <2>5. heap' = Cargoes(q)'
    BY <1>1, <1>2, <1>3, <2>1, <2>2, <2>4 DEF Cargoes
  <2> QED BY <2>3, <2>5 DEF CargoOwnedOnce
<1>8. Issued'
  <2>1. \A i \in DOMAIN delivered : delivered[i].serial \in Nat /\ delivered[i].serial <= posted
    <3>1. \A i \in DOMAIN delivered : delivered[i] \in Event
      BY DEF TypeOK
    <3> QED BY <3>1 DEF Issued, Event, Serial
  <2> QED BY <1>1, <1>2, <1>3, <1>6, <2>1 DEF Issued, NULL
(* What was pending stays so, but for the oldest event of a full ring.     *)
<1>9. PICK d \in {0, 1} :
        /\ Count \in Index /\ Count' \in Index /\ Count' = Count + 1 - d
        /\ \A k \in Index : k < Count' - 1 =>
             /\ k + d \in Index /\ k + d < Count
             /\ SlotAt(k)' = SlotAt(k + d) /\ SlotAt(k)' # in /\ SlotAt(k)' \in Index
        /\ \A k \in Index : k = Count' - 1 => SlotAt(k)' = in
  BY <1>3, QueuedRing
<1>10. /\ \A k \in Index : k < Count' - 1 => q'[SlotAt(k)'] = q[SlotAt(k + d)]
       /\ \A k \in Index : k = Count' - 1 => q'[SlotAt(k)'] = s
  BY <1>3, <1>9
<1>11. PendingCargo'
  <2> SUFFICES ASSUME NEW k \in (0..(Count - 1))'
               PROVE  LET t == q'[SlotAt(k)']
                      IN /\ t.event # NoEvent
                         /\ t.data = IF t.event.coding = "DATA" THEN t.event.serial ELSE NULL
    BY <1>3 DEF PendingCargo
  <2>1. k \in Index /\ k < Count'
    BY <1>9 DEF Index
  <2>2. CASE k = Count' - 1
    BY <1>1, <1>2, <1>10, <2>1, <2>2 DEF Coding
  <2>3. CASE k < Count' - 1
    <3>1. k + d \in 0..(Count - 1)
      BY <1>9, <2>1, <2>3 DEF Index
    <3> QED BY <1>3, <1>10, <2>1, <2>3, <3>1 DEF PendingCargo
  <2> QED BY <1>9, <2>1, <2>2, <2>3 DEF Index
<1>12. PendingInOrder'
  <2>1. \A k \in Index : k < Count' - 1 =>
          /\ k + d \in 0..(Count - 1) /\ SlotAt(k)' \in Index /\ SlotAt(k + d) \in Index
          /\ q'[SlotAt(k)'].event.serial = q[SlotAt(k + d)].event.serial
          /\ q[SlotAt(k + d)].event.serial \in Nat
          /\ q[SlotAt(k + d)].event.serial <= posted
    BY <1>6, <1>9, <1>10 DEF Index
  <2>2. \A k \in (0..(Count - 1))' : k \in Index /\ (k < Count' - 1 \/ k = Count' - 1)
    BY <1>9 DEF Index
  <2>3. \A k \in Index : k = Count' - 1 => q'[SlotAt(k)'].event.serial = posted + 1
    BY <1>1, <1>2, <1>10
  <2>4. \A i \in DOMAIN delivered : delivered[i].serial \in Nat /\ delivered[i].serial <= posted
    <3>1. \A i \in DOMAIN delivered : delivered[i] \in Event
      BY DEF TypeOK
    <3> QED BY <3>1 DEF Issued, Event, Serial
  <2>5. \A j, k \in (0..(Count - 1))' :
          j < k => q'[SlotAt(j)'].event.serial < q'[SlotAt(k)'].event.serial
    <3> SUFFICES ASSUME NEW j \in (0..(Count - 1))', NEW k \in (0..(Count - 1))', j < k
                 PROVE  q'[SlotAt(j)'].event.serial < q'[SlotAt(k)'].event.serial
      OBVIOUS
    <3>1. j \in Index /\ k \in Index /\ j < Count' - 1
      BY <1>9, <2>2 DEF Index
    <3>2. CASE k = Count' - 1
      BY <1>1, <2>1, <2>3, <3>1, <3>2
    <3>3. CASE k < Count' - 1
      <4>1. j + d \in 0..(Count - 1) /\ k + d \in 0..(Count - 1) /\ j + d < k + d
        BY <1>9, <2>1, <3>1, <3>3 DEF Index
      <4> QED BY <2>1, <3>1, <3>3, <4>1 DEF PendingInOrder
    <3> QED BY <2>2, <3>2, <3>3
  <2>6. \A i \in DOMAIN delivered, k \in (0..(Count - 1))' :
          delivered[i].serial < q'[SlotAt(k)'].event.serial
    BY <1>1, <2>1, <2>2, <2>3, <2>4 DEF PendingInOrder
  <2> QED BY <1>3, <2>5, <2>6 DEF PendingInOrder
<1>13. DeliveredInOrder'
  BY <1>3 DEF DeliveredInOrder
<1> QED BY <1>4, <1>5, <1>7, <1>8, <1>11, <1>12, <1>13

(* A failed malloc leaves an empty slot that is not pending.               *)
LEMMA PostNoMemoryInv ==
  ASSUME IInv, NEW f \in From, PostNoMemory(f)
  PROVE  IInv'
<1>0. Post(f)
  BY DEF PostNoMemory, Leftover
<1> USE EventQueueAssumption DEF IInv
<1> DEFINE s == [event |-> q[in].event, data |-> NULL]
<1>1. /\ in \in Index /\ out \in Index /\ q \in [Index -> Slot]
      /\ s \in Slot /\ s.event = q[in].event /\ s.data = NULL
      /\ q' = [q EXCEPT ![in] = s] /\ q' \in [Index -> Slot]
      /\ heap' = heap \ {q[in].data}
      /\ ~waiting /\ UNCHANGED <<in, out, waiting, delivered>> /\ open /\ open'
      /\ posted' = posted + 1 /\ posted \in Nat
  BY <1>0, PostFresh DEF PostNoMemory, Leftover, TypeOK, Slot, NULL
<1> HIDE DEF s
<1>2. TypeOK'
  BY <1>0, <1>1, PostFresh DEF TypeOK
<1>3. \A i \in Index : q'[i] = IF i = in THEN s ELSE q[i]
  BY <1>1
<1>4. CargoOwnedOnce'
  <2>1. /\ heap = Cargoes(q)
        /\ \A i, j \in Index : q[i].data = q[j].data /\ q[i].data # NULL => i = j
    BY <1>1 DEF CargoOwnedOnce
  <2>2. \A i, j \in Index : q'[i].data = q'[j].data /\ q'[i].data # NULL => i = j
    BY <1>1, <1>3, <2>1
  <2>3. heap' = Cargoes(q)'
    BY <1>1, <1>3, <2>1 DEF Cargoes
  <2> QED BY <2>2, <2>3 DEF CargoOwnedOnce
<1>5. Issued'
  <2>1. \A i \in Index : q[i].data \in Nat /\ q[i].event.serial \in Nat
    BY DEF TypeOK, Slot, Event, NoEvent, Serial, NULL
  <2>2. \A i \in DOMAIN delivered : delivered[i].serial \in Nat
    <3>1. \A i \in DOMAIN delivered : delivered[i] \in Event
      BY DEF TypeOK
    <3> QED BY <3>1 DEF Event, Serial
  <2> QED BY <1>1, <1>3, <2>1, <2>2 DEF Issued, NULL
<1>6. /\ Count' = Count
      /\ \A k \in 0..(Count - 1) : /\ SlotAt(k) \in Index /\ SlotAt(k)' = SlotAt(k)
                                   /\ q'[SlotAt(k)] = q[SlotAt(k)]
  <2>1. /\ Count \in Index /\ Count' = Count
        /\ \A k \in Index : SlotAt(k)' = SlotAt(k)
        /\ \A k \in Index : k < Count => SlotAt(k) \in Index /\ SlotAt(k) # in
    BY <1>1 DEF Index, Count, SlotAt, Wrap
  <2> QED BY <1>1, <1>3, <2>1 DEF Index
<1>7. PendingCargo' /\ PendingInOrder'
  BY <1>1, <1>6 DEF PendingCargo, PendingInOrder
<1>8. DeliveredInOrder' /\ WaiterHasNothing'
  BY <1>1 DEF DeliveredInOrder, WaiterHasNothing
<1> QED BY <1>2, <1>4, <1>5, <1>7, <1>8

(* A wait that gets an event takes its block out of the ring.              *)
LEMMA WaitGetsInv ==
  ASSUME IInv, NEW k \in Index, WaitGets(k)
  PROVE  IInv'
<1> USE EventQueueAssumption DEF IInv
<1> DEFINE i == SlotAt(k)
           e == q[i].event
           s == [event |-> e, data |-> IF e.coding = "DATA" THEN NULL ELSE q[i].data]
           n == Len(delivered) + 1
<1>1. /\ in \in Index /\ out \in Index /\ q \in [Index -> Slot] /\ Count \in Index
      /\ k \in 0..(Count - 1) /\ k < Count /\ delivered \in Seq(Event)
  <2>1. Count \in Index
    BY DEF TypeOK, Index, Count
  <2> QED BY <2>1 DEF TypeOK, WaitGets, OutPast, FirstGood, Index
<1>2. /\ i \in Index /\ q[i] \in Slot /\ e \in Event
      /\ q[i].data = IF e.coding = "DATA" THEN e.serial ELSE NULL
  BY <1>1, PendingIsEvent DEF PendingCargo, WaitGets, OutPast
<1>3. s \in Slot /\ s.event = e /\ s.data \in {NULL, q[i].data} /\ s.data = NULL
  BY <1>2 DEF Slot, NULL
<1>4. /\ q' = [q EXCEPT ![i] = s] /\ q' \in [Index -> Slot]
      /\ heap' = IF e.coding = "DATA" THEN heap \ {q[i].data} ELSE heap
      /\ in' = in /\ out' = Wrap(SlotAt(k) + 1) /\ waiting' = FALSE
      /\ delivered' = Append(delivered, e)
      /\ open /\ open' /\ UNCHANGED <<lastevent_from, live, open, posted>>
  BY <1>1, <1>2, <1>3 DEF WaitGets, OutPast
<1> HIDE DEF s
<1>5. \A j \in Index : q'[j] = IF j = i THEN s ELSE q[j]
  BY <1>1, <1>2, <1>4
<1>6. /\ out' \in Index /\ Count' \in Index /\ Count' = Count - (k + 1)
      /\ \A j \in Index : j < Count' =>
           /\ j + (k + 1) \in 0..(Count - 1)
           /\ SlotAt(j)' = SlotAt(j + (k + 1)) /\ SlotAt(j)' # i /\ SlotAt(j)' \in Index
  BY <1>1, <1>4, ReadRing DEF Index
<1>7. /\ delivered' \in Seq(Event) /\ DOMAIN delivered' = DOMAIN delivered \cup {n}
      /\ delivered'[n] = e
      /\ \A j \in DOMAIN delivered : /\ j \in Nat /\ j < n
                                     /\ delivered[j].serial \in Nat
                                     /\ delivered'[j] = delivered[j]
      /\ n \in Nat
  <2>1. \A x \in Event : x.serial \in Nat
    BY DEF Event, Serial
  <2> HIDE DEF e
  <2> QED BY <1>1, <1>2, <1>4, <2>1, AppendShape
<1> HIDE DEF n
<1>8. TypeOK'
  BY <1>1, <1>4, <1>6, <1>7 DEF TypeOK
<1>9. WaiterHasNothing'
  BY <1>4 DEF WaiterHasNothing
<1>10. CargoOwnedOnce'
  <2>1. /\ heap = Cargoes(q)
        /\ \A j, l \in Index : q[j].data = q[l].data /\ q[j].data # NULL => j = l
    BY <1>4 DEF CargoOwnedOnce
  <2>2. \A j, l \in Index : q'[j].data = q'[l].data /\ q'[j].data # NULL => j = l
    BY <1>2, <1>3, <1>5, <2>1
  <2>3. heap' = heap \ {q[i].data}
    BY <1>2, <1>4, <2>1 DEF Cargoes
  <2>4. heap' = Cargoes(q)'
    BY <1>2, <1>3, <1>5, <2>1, <2>3 DEF Cargoes
  <2> QED BY <2>2, <2>4 DEF CargoOwnedOnce
<1>11. PendingCargo'
  <2> SUFFICES ASSUME NEW j \in (0..(Count - 1))'
               PROVE  LET t == q'[SlotAt(j)']
                      IN /\ t.event # NoEvent
                         /\ t.data = IF t.event.coding = "DATA" THEN t.event.serial ELSE NULL
    BY <1>4 DEF PendingCargo
  <2>1. j \in Index /\ j < Count'
    BY <1>6 DEF Index
  <2> HIDE DEF i
  <2> QED BY <1>4, <1>5, <1>6, <2>1 DEF PendingCargo
<1>12. PendingInOrder' /\ DeliveredInOrder' /\ Issued'
  <2> DEFINE ser(j) == q[SlotAt(j)].event.serial
  <2>1. \A j \in (0..(Count - 1))' :
          /\ j \in Nat /\ j + (k + 1) \in 0..(Count - 1)
          /\ q'[SlotAt(j)'].event.serial = ser(j + (k + 1))
          /\ k < j + (k + 1)
    <3> SUFFICES ASSUME NEW j \in (0..(Count - 1))'
                 PROVE  /\ j \in Nat /\ j + (k + 1) \in 0..(Count - 1)
                        /\ q'[SlotAt(j)'].event.serial = ser(j + (k + 1))
                        /\ k < j + (k + 1)
      OBVIOUS
    <3>1. j \in Index /\ j < Count'
      BY <1>6 DEF Index
    <3> HIDE DEF i
    <3> QED BY <1>5, <1>6, <3>1 DEF Index
  <2>2. ser(k) = e.serial
    OBVIOUS
  <2>3. \A j, l \in 0..(Count - 1) : j < l => ser(j) < ser(l)
    BY DEF PendingInOrder
  <2>4. \A j \in DOMAIN delivered : delivered[j].serial < e.serial
    BY <1>1 DEF PendingInOrder
  <2>5. e.serial \in Nat /\ posted \in Nat /\ e.serial <= posted
    BY <1>2 DEF Event, Serial, TypeOK, Issued
  <2>6. \A l \in 0..(Count - 1) : ser(l) \in Nat
    <3> SUFFICES ASSUME NEW l \in 0..(Count - 1) PROVE ser(l) \in Nat
      OBVIOUS
    <3>1. l \in Index /\ l < Count
      BY <1>1 DEF Index
    <3> QED BY <3>1, PendingIsEvent DEF Event, Serial
  <2> HIDE DEF ser, e, i
  <2>7. \A j, l \in (0..(Count - 1))' :
          j < l => q'[SlotAt(j)'].event.serial < q'[SlotAt(l)'].event.serial
    <3> SUFFICES ASSUME NEW j \in (0..(Count - 1))', NEW l \in (0..(Count - 1))', j < l
                 PROVE  q'[SlotAt(j)'].event.serial < q'[SlotAt(l)'].event.serial
      OBVIOUS
    <3>1. j + (k + 1) < l + (k + 1)
      BY <2>1 DEF Index
    <3> QED BY <2>1, <2>3, <3>1
  <2>8. \A j \in DOMAIN delivered', l \in (0..(Count - 1))' :
          delivered'[j].serial < q'[SlotAt(l)'].event.serial
    <3> SUFFICES ASSUME NEW j \in DOMAIN delivered', NEW l \in (0..(Count - 1))'
                 PROVE  delivered'[j].serial < q'[SlotAt(l)'].event.serial
      OBVIOUS
    <3>1. e.serial < ser(l + (k + 1))
      BY <1>1, <2>1, <2>2, <2>3
    <3>2. delivered'[j].serial \in Nat /\ delivered'[j].serial <= e.serial
      BY <1>7, <2>4, <2>5
    <3> QED BY <2>1, <2>5, <2>6, <3>1, <3>2
  <2>9. PendingInOrder'
    BY <2>7, <2>8 DEF PendingInOrder
  <2>10. DeliveredInOrder'
    BY <1>7, <2>4 DEF DeliveredInOrder
  <2>11. Issued'
    BY <1>2, <1>3, <1>4, <1>5, <1>7, <2>5 DEF Issued, NULL, e
  <2> QED BY <2>9, <2>10, <2>11
<1> QED BY <1>8, <1>9, <1>10, <1>11, <1>12

(* A wait whose answer cannot be sent drops the connection and its ring.   *)
LEMMA WaitSendFailsInv ==
  ASSUME IInv, NEW k \in Index, WaitSendFails(k)
  PROVE  IInv'
<1> USE EventQueueAssumption DEF IInv
<1>1. /\ in \in Index /\ out \in Index /\ Count \in Index /\ k \in 0..(Count - 1)
      /\ k < Count /\ in' = in /\ out' = Wrap(SlotAt(k) + 1)
      /\ open' = FALSE /\ waiting' = FALSE
      /\ UNCHANGED <<q, lastevent_from, live, posted, delivered>>
  <2>1. Count \in Index
    BY DEF TypeOK, Index, Count
  <2> QED BY <2>1 DEF TypeOK, WaitSendFails, OutPast, FirstGood, Index
<1>2. /\ out' \in Index /\ Count' \in Index /\ SlotAt(k) \in Index
      /\ \A j \in 0..(Count' - 1) :
           /\ j + (k + 1) \in 0..(Count - 1) /\ SlotAt(j)' = SlotAt(j + (k + 1))
  BY <1>1, ReadRing DEF Index
<1>3. TypeOK'
  <2>1. heap' \subseteq Serial
    BY <1>1, <1>2 DEF WaitSendFails, OutPast, TypeOK, Slot
  <2> QED BY <1>1, <1>2, <2>1 DEF TypeOK
<1>4. PendingCargo' /\ PendingInOrder'
  <2>1. \A j, l \in 0..(Count' - 1) : j < l => j + (k + 1) < l + (k + 1)
    BY <1>1, <1>2 DEF Index
  <2> QED BY <1>1, <1>2, <2>1 DEF PendingCargo, PendingInOrder
<1>5. WaiterHasNothing' /\ CargoOwnedOnce' /\ DeliveredInOrder' /\ Issued'
  BY <1>1 DEF WaiterHasNothing, CargoOwnedOnce, DeliveredInOrder, Issued
<1> QED BY <1>3, <1>4, <1>5

(* A wait that blocks leaves the ring empty.                               *)
LEMMA WaitBlocksInv ==
  ASSUME IInv, WaitBlocks
  PROVE  IInv'
<1> USE EventQueueAssumption DEF IInv, WaitBlocks
<1>1. TypeOK'
  BY DEF TypeOK
<1>2. Count' = 0
  BY DEF Count, TypeOK, Index
<1>3. PendingCargo' /\ PendingInOrder'
  BY <1>2 DEF PendingCargo, PendingInOrder
<1>4. WaiterHasNothing' /\ CargoOwnedOnce' /\ DeliveredInOrder' /\ Issued'
  BY DEF WaiterHasNothing, CargoOwnedOnce, DeliveredInOrder, Issued, Cargoes
<1> QED BY <1>1, <1>3, <1>4

(* The other steps leave the ring alone.                                   *)
LEMMA RingKeptInv ==
  ASSUME IInv, OtherRequest \/ ClientDestroy \/ (\E w \in Widget : WidgetGone(w))
               \/ UNCHANGED vars
  PROVE  IInv'
<1>1. /\ UNCHANGED <<q, in, out, lastevent_from, posted, delivered>>
      /\ waiting' \in BOOLEAN /\ open' \in BOOLEAN
      /\ waiting' => waiting
      /\ open' => open /\ heap' = heap
      /\ heap' \subseteq heap /\ live' \subseteq live
  <2>1. waiting \in BOOLEAN /\ open \in BOOLEAN
    BY DEF IInv, TypeOK
  <2>2. CASE OtherRequest
    BY <2>1, <2>2 DEF OtherRequest
  <2>3. CASE ClientDestroy
    BY <2>1, <2>3 DEF ClientDestroy
  <2>4. ASSUME NEW w \in Widget, WidgetGone(w)
        PROVE  UNCHANGED <<q, in, out, waiting, lastevent_from, open, heap, posted,
                           delivered>> /\ live' \subseteq live
    BY <2>4 DEF WidgetGone
  <2>5. CASE UNCHANGED vars
    BY <2>1, <2>5 DEF vars
  <2> QED BY <2>1, <2>2, <2>3, <2>4, <2>5
<1> USE DEF IInv
<1>2. TypeOK'
  BY <1>1 DEF TypeOK
<1>3. Count' = Count /\ \A k \in 0..(Count - 1) : SlotAt(k)' = SlotAt(k)
  BY <1>1 DEF Count, SlotAt
<1>4. PendingCargo' /\ PendingInOrder'
  BY <1>1, <1>3 DEF PendingCargo, PendingInOrder
<1>5. WaiterHasNothing' /\ CargoOwnedOnce' /\ DeliveredInOrder' /\ Issued'
  BY <1>1 DEF WaiterHasNothing, CargoOwnedOnce, DeliveredInOrder, Issued, Cargoes
<1> QED BY <1>2, <1>4, <1>5

(* The invariant holds in every reachable state.                           *)
THEOREM Invariant == Spec => []IInv
<1>1. IInv /\ [Next]_vars => IInv'
  <2> SUFFICES ASSUME IInv, [Next]_vars PROVE IInv'
    OBVIOUS
  <2>1. ASSUME NEW c \in Coding, NEW f \in From, PostToWaiter(c, f) PROVE IInv'
    BY <2>1, PostToWaiterInv
  <2>2. ASSUME NEW c \in Coding, NEW f \in From, PostQueued(c, f) PROVE IInv'
    BY <2>2, PostQueuedInv
  <2>3. ASSUME NEW f \in From, PostNoMemory(f) PROVE IInv'
    BY <2>3, PostNoMemoryInv
  <2>4. ASSUME NEW k \in Index, WaitGets(k) PROVE IInv'
    BY <2>4, WaitGetsInv
  <2>5. ASSUME NEW k \in Index, WaitSendFails(k) PROVE IInv'
    BY <2>5, WaitSendFailsInv
  <2>6. CASE WaitBlocks
    BY <2>6, WaitBlocksInv
  <2>7. CASE OtherRequest \/ ClientDestroy \/ (\E w \in Widget : WidgetGone(w))
             \/ UNCHANGED vars
    BY <2>7, RingKeptInv
  <2> QED BY <2>1, <2>2, <2>3, <2>4, <2>5, <2>6, <2>7 DEF Next
<1> QED BY InitInv, <1>1, PTL DEF Spec

(* The type invariant: no sequence of posts, waits, failures and closes    *)
(* takes a cursor out of the ring or puts anything but an event and a      *)
(* cargo in a slot.                                                        *)
THEOREM TypeCorrect == Spec => []TypeOK
<1>1. IInv => TypeOK
  BY DEF IInv
<1> QED BY Invariant, <1>1, PTL

(* No event is stranded in the ring of a client blocked in a wait request, *)
(* whatever the interleaving of its requests and other clients' posts.     *)
THEOREM NoLostWakeup == Spec => []WaiterHasNothing
<1>1. IInv => WaiterHasNothing
  BY DEF IInv
<1> QED BY Invariant, <1>1, PTL

(* Every allocated cargo of an open connection is in exactly one slot, so  *)
(* none leaks and none is freed twice, and a pending data event has its own.*)
THEOREM CargoSafe == Spec => [](CargoOwnedOnce /\ PendingCargo)
<1>1. IInv => CargoOwnedOnce /\ PendingCargo
  BY DEF IInv
<1> QED BY Invariant, <1>1, PTL

(* Events reach the client in the order they were posted and at most once, *)
(* through overflows, dead widgets and direct sends to a blocked client.   *)
THEOREM InOrder == Spec => [](DeliveredInOrder /\ PendingInOrder)
<1>1. IInv => DeliveredInOrder /\ PendingInOrder
  BY DEF IInv
<1> QED BY Invariant, <1>1, PTL

-----------------------------------------------------------------------------
(***************************************************************************)
(* Refinement: every step of the ring is a step of the abstract queue or   *)
(* leaves it alone.                                                        *)
(***************************************************************************)
PendingShape ==
  /\ Pending \in Seq(Event)
  /\ Len(Pending) = IF open THEN Count ELSE 0
  /\ \A i \in 1..Len(Pending) : Pending[i] = q[SlotAt(i - 1)].event
  /\ Count \in Index

(* The pending events form a sequence.                                     *)
LEMMA PendingIsSeq == IInv => PendingShape
<1> SUFFICES ASSUME IInv PROVE PendingShape
  OBVIOUS
<1>1. Count \in Index
  BY RingShape, CountIsSpan DEF IInv, TypeOK
<1>2. \A i \in 1..Count : q[SlotAt(i - 1)].event \in Event
  <2> SUFFICES ASSUME NEW i \in 1..Count PROVE q[SlotAt(i - 1)].event \in Event
    OBVIOUS
  <2>1. i - 1 \in Index /\ i - 1 < Count
    BY <1>1, EventQueueAssumption DEF Index
  <2> QED BY <2>1, PendingIsEvent DEF IInv
<1>3. Count \in Nat
  BY <1>1 DEF Index
<1>4. CASE open
  <2> DEFINE s == [i \in 1..Count |-> q[SlotAt(i - 1)].event]
  <2>1. s \in Seq(Event)
    BY <1>2, <1>3
  <2>2. Len(s) = Count
    BY <1>3, <2>1
  <2> QED BY <1>1, <1>3, <1>4, <2>1, <2>2 DEF PendingShape, Pending
<1>5. CASE ~open
  BY <1>1, <1>5 DEF PendingShape, Pending
<1> QED BY <1>4, <1>5

(* A fresh ring is an empty queue.                                         *)
LEMMA InitRefines == Init => Abs!AbsInit
<1> SUFFICES ASSUME Init PROVE Abs!AbsInit
  OBVIOUS
<1>1. Count = 0
  BY DEF Init, Count
<1>2. Pending = <<>>
  <2>1. IInv /\ open
    BY InitInv DEF Init
  <2>2. Pending \in Seq(Event) /\ Len(Pending) = 0
    BY <1>1, <2>1, PendingIsSeq DEF PendingShape
  <2> QED BY <2>2, EmptySeq
<1> QED BY <1>2 DEF Init, Abs!AbsInit

(* A post appends to the abstract queue, whose oldest event leaves when it *)
(* holds EVENTQ_LEN - 1.                                                   *)
LEMMA PostQueuedRefines ==
  ASSUME IInv, PendingShape, PendingShape', NEW c \in Coding, NEW f \in From,
         PostQueued(c, f)
  PROVE  Abs!Enqueue(NewEvent(c, f))
<1> DEFINE e == NewEvent(c, f)
<1>0. Post(f)
  BY DEF PostQueued, Leftover, CargoOf, OutAfter
<1>1. e \in Event
  BY <1>0, PostFresh
<1>2. /\ in \in Index /\ out \in Index /\ q \in [Index -> Slot]
      /\ q' = [q EXCEPT ![in] = [event |-> e, data |-> q'[in].data]]
      /\ in' = Wrap(in + 1)
      /\ out' = IF Wrap(in + 1) = out THEN Wrap(out + 1) ELSE out
      /\ ~waiting /\ open /\ open' /\ UNCHANGED <<waiting, live, open, delivered>>
  BY <1>0, PostFresh DEF PostQueued, Leftover, CargoOf, OutAfter, IInv, TypeOK, Post
<1>3. PICK d \in {0, 1} :
        /\ Count \in Index /\ Count' \in Index /\ Count' = Count + 1 - d
        /\ d = 1 <=> Count = EVENTQ_LEN - 1
        /\ \A k \in Index : k < Count' - 1 =>
             /\ k + d \in Index /\ k + d < Count
             /\ SlotAt(k)' = SlotAt(k + d) /\ SlotAt(k)' # in /\ SlotAt(k)' \in Index
        /\ \A k \in Index : k = Count' - 1 => SlotAt(k)' = in
  BY <1>2, QueuedRing
<1> HIDE DEF e
<1>4. /\ Pending \in Seq(Event) /\ Len(Pending) = Count
      /\ Pending' \in Seq(Event) /\ Len(Pending') = Count'
      /\ \A i \in 1..Count : Pending[i] = q[SlotAt(i - 1)].event
      /\ \A i \in 1..Count' : Pending'[i] = q'[SlotAt(i - 1)'].event
      /\ Count \in Nat /\ Count' \in Nat
  BY <1>2, <1>3 DEF PendingShape, Index
<1>5. ASSUME NEW i \in 1..Count', i < Count'
      PROVE  i + d \in 1..Count /\ Pending'[i] = Pending[i + d]
  <2>1. /\ i - 1 \in Index /\ i - 1 < Count' - 1 /\ i + d \in 1..Count
        /\ (i - 1) + d = (i + d) - 1
    BY <1>3, <1>4, <1>5, EventQueueAssumption DEF Index
  <2>2. SlotAt(i - 1)' = SlotAt((i + d) - 1) /\ SlotAt(i - 1)' # in /\ SlotAt(i - 1)' \in Index
    BY <1>3, <2>1
  <2> QED BY <1>2, <1>4, <2>1, <2>2
<1>6. Pending'[Count'] = e
  <2>1. Count' - 1 \in Index /\ Count' \in 1..Count'
    BY <1>3, <1>4, EventQueueAssumption DEF Index
  <2>2. \A k \in Index : k = Count' - 1 => q'[SlotAt(k)'].event = e
    BY <1>2, <1>3
  <2> QED BY <1>4, <2>1, <2>2
<1> DEFINE a == Append(Pending, e)
           t == Abs!Newest(a)
<1>7. /\ a \in Seq(Event) /\ Len(a) = Count + 1 /\ a # <<>>
      /\ \A i \in 1..Count : a[i] = Pending[i]
      /\ a[Count + 1] = e
  BY <1>1, <1>4, AppendProperties
<1> HIDE DEF a
<1>8. t \in Seq(Event) /\ Len(t) = Count' /\ \A i \in 1..Count' : t[i] = a[i + d]
  <2>1. CASE d = 1
    <3>1. t = Tail(a)
      BY <1>3, <1>4, <1>7, <2>1, EventQueueAssumption DEF Abs!Newest
    <3> QED BY <1>3, <1>4, <1>7, <2>1, <3>1, HeadTailProperties
  <2>2. CASE d = 0
    <3>1. t = a
      BY <1>3, <1>4, <1>7, <2>2, EventQueueAssumption DEF Abs!Newest, Index
    <3> QED BY <1>3, <1>4, <1>7, <2>2, <3>1
  <2> QED BY <2>1, <2>2
<1> HIDE DEF t
<1>9. Pending' = t
  <2>1. \A i \in 1..Count' : Pending'[i] = t[i]
    <3> SUFFICES ASSUME NEW i \in 1..Count' PROVE Pending'[i] = t[i]
      OBVIOUS
    <3>1. CASE i = Count'
      <4>1. i + d = Count + 1
        BY <1>3, <1>4, <3>1
      <4> QED BY <1>6, <1>7, <1>8, <3>1, <4>1
    <3>2. CASE i < Count'
      BY <1>5, <1>7, <1>8, <3>2
    <3> QED BY <1>4, <3>1, <3>2
  <2> QED BY <1>4, <1>8, <2>1, SeqEqual
<1> QED BY <1>2, <1>9 DEF Abs!Enqueue, a, t, e

(* A wait takes the oldest good event and discards the ones before it.     *)
LEMMA WaitGetsRefines ==
  ASSUME IInv, PendingShape, PendingShape', NEW k \in Index, WaitGets(k)
  PROVE  Abs!Take(k + 1)
<1>1. /\ in \in Index /\ out \in Index /\ Count \in Index /\ k \in 0..(Count - 1)
      /\ k < Count /\ in' = in /\ out' = Wrap(SlotAt(k) + 1)
      /\ open /\ open' /\ waiting' = FALSE
      /\ delivered' = Append(delivered, q[SlotAt(k)].event)
      /\ UNCHANGED <<live, open>>
      /\ \A j \in Index : j # SlotAt(k) => q'[j] = q[j]
  <2>1. in \in Index /\ out \in Index /\ Count \in Index /\ q \in [Index -> Slot]
    BY DEF IInv, TypeOK, PendingShape
  <2>2. k \in 0..(Count - 1) /\ k < Count
    BY <2>1, EventQueueAssumption DEF WaitGets, OutPast, FirstGood, Index
  <2>3. open' /\ open
    BY DEF WaitGets, OutPast
  <2> QED BY <2>1, <2>2, <2>3 DEF WaitGets, OutPast
<1>2. /\ SlotAt(k) \in Index /\ Count' \in Index /\ Count' = Count - (k + 1)
      /\ \A j \in Index : j < Count' =>
           /\ j + (k + 1) \in Index /\ j + (k + 1) < Count
           /\ SlotAt(j)' = SlotAt(j + (k + 1))
           /\ SlotAt(j)' # SlotAt(k) /\ SlotAt(j)' \in Index
  BY <1>1, ReadRing
<1>3. /\ Pending \in Seq(Event) /\ Len(Pending) = Count
      /\ Pending' \in Seq(Event) /\ Len(Pending') = Count'
      /\ \A i \in 1..Count : Pending[i] = q[SlotAt(i - 1)].event
      /\ \A i \in 1..Count' : Pending'[i] = q'[SlotAt(i - 1)'].event
      /\ Count \in Nat /\ Count' \in Nat /\ k \in Nat
  BY <1>1, <1>2 DEF PendingShape, Index
<1> DEFINE t == SubSeq(Pending, k + 2, Len(Pending))
<1>4. t \in Seq(Event) /\ Len(t) = Count' /\ \A i \in 1..Count' : t[i] = Pending[i + (k + 1)]
  <2>1. \A i \in (k + 2)..Count : Pending[i] \in Event
    BY <1>3, ElementOfSeq
  <2>2. /\ t \in Seq(Event)
        /\ Len(t) = IF k + 2 <= Count THEN Count - (k + 2) + 1 ELSE 0
        /\ \A i \in 1..(Count - (k + 2) + 1) : t[i] = Pending[(k + 2) + i - 1]
    <3> DEFINE m == k + 2
    <3>1. m \in Int /\ Count \in Int /\ t = SubSeq(Pending, m, Count)
      BY <1>3
    <3>2. \A i \in m..Count : Pending[i] \in Event
      BY <2>1
    <3> HIDE DEF m, t
    <3>3. /\ t \in Seq(Event)
          /\ Len(t) = IF m <= Count THEN Count - m + 1 ELSE 0
          /\ \A i \in 1..(Count - m + 1) : t[i] = Pending[m + i - 1]
      BY <3>1, <3>2, SubSeqProperties
    <3> QED BY <3>3 DEF m
  <2>3. Len(t) = Count' /\ Count - (k + 2) + 1 = Count'
    BY <1>1, <1>2, <1>3, <2>2
  <2>4. \A i \in 1..Count' : (k + 2) + i - 1 = i + (k + 1)
    BY <1>3
  <2> QED BY <2>2, <2>3, <2>4
<1>5. \A i \in 1..Count' : Pending'[i] = Pending[i + (k + 1)]
  <2> SUFFICES ASSUME NEW i \in 1..Count' PROVE Pending'[i] = Pending[i + (k + 1)]
    OBVIOUS
  <2>1. /\ i - 1 \in Index /\ i - 1 < Count' /\ i + (k + 1) \in 1..Count
        /\ (i - 1) + (k + 1) = (i + (k + 1)) - 1
    BY <1>1, <1>2, <1>3, EventQueueAssumption DEF Index
  <2>2. /\ SlotAt(i - 1)' = SlotAt((i + (k + 1)) - 1)
        /\ SlotAt(i - 1)' # SlotAt(k) /\ SlotAt(i - 1)' \in Index
    BY <1>2, <2>1
  <2> QED BY <1>1, <1>3, <2>1, <2>2
<1>6. Pending' = t
  <2> HIDE DEF t
  <2> QED BY <1>3, <1>4, <1>5, SeqEqual
<1>7. k + 1 \in 1..Len(Pending) /\ Pending[k + 1] = q[SlotAt(k)].event
  <2>1. k + 1 \in 1..Count /\ (k + 1) - 1 = k
    BY <1>1, <1>3
  <2> QED BY <1>3, <2>1
<1>8. Abs!Good(Pending[k + 1])
  BY <1>7 DEF WaitGets, OutPast, FirstGood, GoodWidget, Abs!Good
<1>9. \A j \in 1..((k + 1) - 1) : ~Abs!Good(Pending[j])
  <2> SUFFICES ASSUME NEW j \in 1..((k + 1) - 1) PROVE ~Abs!Good(Pending[j])
    OBVIOUS
  <2>1. j - 1 \in 0..(k - 1) /\ j \in 1..Count
    BY <1>1, <1>3
  <2>2. ~GoodWidget(j - 1)
    BY <2>1 DEF WaitGets, OutPast, FirstGood
  <2> QED BY <1>3, <2>1, <2>2 DEF GoodWidget, Abs!Good
<1>10. (k + 1) + 1 = k + 2
  BY <1>3
<1> QED BY <1>1, <1>6, <1>7, <1>8, <1>9, <1>10 DEF Abs!Take

(* The other steps map to the abstract step of the same name, or leave the *)
(* abstract queue alone.                                                   *)
LEMMA OtherStepsRefine ==
  ASSUME IInv, PendingShape, PendingShape',
         \/ \E c \in Coding, f \in From : PostToWaiter(c, f)
         \/ \E f \in From : PostNoMemory(f)
         \/ \E k \in Index : WaitSendFails(k)
         \/ WaitBlocks \/ OtherRequest \/ ClientDestroy
         \/ \E w \in Widget : WidgetGone(w)
         \/ UNCHANGED vars
  PROVE  [Abs!AbsNext]_Abs!absVars
<1>1. ASSUME NEW c \in Coding, NEW f \in From, PostToWaiter(c, f) PROVE Abs!AbsNext
  <2>0. Post(f) /\ NewEvent(c, f) \in Event
    BY <1>1, PostFresh DEF PostToWaiter
  <2>1. Count = 0 /\ Count' = 0 /\ open /\ open'
    BY <1>1, <2>0 DEF PostToWaiter, Post, IInv, WaiterHasNothing, TypeOK, Index, Count
  <2>2. Pending = <<>> /\ Pending' = <<>>
    BY <2>1, EmptySeq DEF PendingShape
  <2>3. Abs!Wake(NewEvent(c, f))
    BY <1>1, <2>0, <2>1, <2>2 DEF PostToWaiter, Post, Abs!Wake
  <2> QED BY <2>0, <2>3 DEF Abs!AbsNext, Abs!AbsEvent, Abs!Sender, Event, From
<1>2. ASSUME NEW f \in From, PostNoMemory(f) PROVE UNCHANGED Abs!absVars
  <2>1. /\ in \in Index /\ out \in Index /\ q \in [Index -> Slot]
        /\ UNCHANGED <<in, out, waiting, live, open, delivered>>
        /\ \A i \in Index : q'[i].event = q[i].event
    BY <1>2 DEF PostNoMemory, Leftover, Post, IInv, TypeOK
  <2>2. /\ Count' = Count /\ Count \in Nat
        /\ \A k \in Index : SlotAt(k)' = SlotAt(k) /\ SlotAt(k) \in Index
    <3>1. \A k \in Index : SlotAt(k) \in Index
      BY <2>1, RingShape DEF SlotAt
    <3>2. Count' = Count /\ \A k \in Index : SlotAt(k)' = SlotAt(k)
      BY <2>1 DEF Count, SlotAt
    <3>3. Count \in Nat
      BY DEF PendingShape, Index
    <3> QED BY <3>1, <3>2, <3>3
  <2>3. \A i \in 1..Count : Pending'[i] = Pending[i]
    <3> SUFFICES ASSUME NEW i \in 1..Count, open PROVE Pending'[i] = Pending[i]
      BY <2>1, <2>2 DEF Pending
    <3>1. i - 1 \in Index
      BY <2>2, EventQueueAssumption DEF PendingShape, Index
    <3> QED BY <2>1, <2>2, <3>1 DEF Pending
  <2>4. Pending' = Pending
    BY <2>1, <2>2, <2>3, SeqEqual DEF PendingShape
  <2> QED BY <2>1, <2>4 DEF Abs!absVars
<1>3. ASSUME NEW k \in Index, WaitSendFails(k) PROVE Abs!AbsNext
  <2>1. Pending' = <<>>
    BY <1>3 DEF WaitSendFails, OutPast, Pending
  <2> QED BY <1>3, <2>1 DEF WaitSendFails, OutPast, Abs!AbsNext, Abs!Close
<1>4. ASSUME WaitBlocks PROVE Abs!AbsNext
  <2>1. Count' = 0 /\ open' /\ open
    BY <1>4 DEF WaitBlocks, IInv, TypeOK, Index, Count
  <2>2. Pending' = <<>>
    BY <2>1, EmptySeq DEF PendingShape
  <2>3. \A j \in 1..Len(Pending) : ~Abs!Good(Pending[j])
    <3> SUFFICES ASSUME NEW j \in 1..Len(Pending) PROVE ~Abs!Good(Pending[j])
      OBVIOUS
    <3>1. j - 1 \in 0..(Count - 1)
      BY <2>1 DEF PendingShape, Index
    <3> QED BY <1>4, <3>1 DEF PendingShape, WaitBlocks, NoneGood, GoodWidget, Abs!Good
  <2> QED BY <1>4, <2>2, <2>3 DEF WaitBlocks, Abs!AbsNext, Abs!Block
<1>5. ASSUME UNCHANGED <<q, in, out, open>> PROVE Pending' = Pending
  BY <1>5 DEF Pending, Count, SlotAt
<1>6. ASSUME OtherRequest PROVE Abs!AbsNext
  BY <1>5, <1>6 DEF OtherRequest, Abs!AbsNext, Abs!Unwait
<1>7. ASSUME ClientDestroy PROVE Abs!AbsNext
  <2>1. Pending' = <<>>
    BY <1>7 DEF ClientDestroy, Pending
  <2> QED BY <1>7, <2>1 DEF ClientDestroy, Abs!AbsNext, Abs!Close
<1>8. ASSUME NEW w \in Widget, WidgetGone(w) PROVE Abs!AbsNext
  BY <1>5, <1>8 DEF WidgetGone, Abs!AbsNext, Abs!Lose
<1>9. ASSUME UNCHANGED vars PROVE UNCHANGED Abs!absVars
  BY <1>5, <1>9 DEF vars, Abs!absVars
<1> QED BY <1>1, <1>2, <1>3, <1>4, <1>6, <1>7, <1>8, <1>9

(* The ring buffer with its waiting bit implements the abstract queue of   *)
(* EVENTQ_LEN - 1 events (pgnet.h:93 speaks of EVENTQ_LEN).                *)
THEOREM Implements == Spec => Refines
<1>1. IInv /\ PendingShape /\ PendingShape' /\ [Next]_vars => [Abs!AbsNext]_Abs!absVars
  <2> SUFFICES ASSUME IInv, PendingShape, PendingShape', [Next]_vars
               PROVE  [Abs!AbsNext]_Abs!absVars
    OBVIOUS
  <2>1. ASSUME NEW c \in Coding, NEW f \in From, PostQueued(c, f) PROVE Abs!AbsNext
    <3>1. NewEvent(c, f) \in Event
      BY <2>1, PostFresh DEF PostQueued, Leftover, CargoOf, OutAfter
    <3> QED BY <2>1, <3>1, PostQueuedRefines
            DEF Abs!AbsNext, Abs!AbsEvent, Abs!Sender, Event, From
  <2>2. ASSUME NEW k \in Index, WaitGets(k) PROVE Abs!AbsNext
    <3>1. k + 1 \in 1..(EVENTQ_LEN - 1)
      BY <2>2, EventQueueAssumption DEF WaitGets, OutPast, FirstGood, PendingShape, Index
    <3> QED BY <2>2, <3>1, WaitGetsRefines DEF Abs!AbsNext
  <2> QED BY <2>1, <2>2, OtherStepsRefine DEF Next
<1> QED BY InitRefines, Invariant, PendingIsSeq, <1>1, PTL DEF Spec, Refines, Abs!AbsSpec
=============================================================================
