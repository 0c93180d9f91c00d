-------------------------- MODULE EventWaitProofs ---------------------------
(* Proofs about EventWait, for every queue length, set of widgets, number  *)
(* of events, calls and request ids.                                       *)
EXTENDS EventWait, SequenceTheorems, TLAPS

-----------------------------------------------------------------------------
(***************************************************************************)
(* The inductive invariant: what is on the wire, for each place where the  *)
(* client can be. A wait and the ping that takes it back are in one of     *)
(* five states, in which the answer to one of them, or to both, is under   *)
(* way, or the client is on the waiting list.                              *)
(***************************************************************************)
Req(t, i) == [type |-> t, id |-> i]
Calls == {"UPDATE", "OTHER", "CHECKEVENT", "PING"}

Quiet  == up = <<>> /\ down = <<>> /\ ~waiting
Asked  == \E t \in Calls : up = <<Req(t, reqid)>> /\ down = <<>> /\ ~waiting
Told   == \E n \in 0..Capacity : up = <<>> /\ down = <<Ret(reqid, n)>> /\ ~waiting
Waits  == up = <<Req("WAIT", 0)>> /\ down = <<>> /\ ~waiting
Blocks == up = <<>> /\ down = <<>> /\ waiting
Woken  == \E e \in Q!AbsEvent : up = <<>> /\ down = <<Event(e)>> /\ ~waiting

WaitThenPing == up = <<Req("WAIT", 0), Req("PING", reqid)>> /\ down = <<>> /\ ~waiting
Ping         == up = <<Req("PING", reqid)>> /\ down = <<>>
Crossed      == \E e \in Q!AbsEvent :
                  up = <<Req("PING", reqid)>> /\ down = <<Event(e)>> /\ ~waiting
EventThenRet == \E e \in Q!AbsEvent, n \in 0..Capacity :
                  up = <<>> /\ down = <<Event(e), Ret(reqid, n)>> /\ ~waiting

Wire ==
  /\ pc \in {"app", "handler", "poll"} => Quiet
  /\ pc \in {"answer", "extra"} => Asked \/ Told
  /\ pc \in {"select", "recv"} => Waits \/ Blocks \/ Woken
  /\ pc = "unwait" => WaitThenPing \/ Ping \/ Crossed \/ Told \/ EventThenRet

Coming == down # <<>> /\ IsEvent(Head(down))

Types ==
  /\ pending \in Seq(Q!AbsEvent) /\ Len(pending) <= Capacity
  /\ waiting \in BOOLEAN /\ live \subseteq Widget
  /\ posted \in 0..MaxPosts
  /\ pc \in {"app", "handler", "answer", "poll", "select", "recv", "unwait", "extra"}
  /\ idle \in {"no", "entry", "wait"}
  /\ polled \subseteq {"app", "handler"}

(* Who has been told of an event finds one, as long as no widget goes.     *)
Queued ==
  /\ waiting => pending = <<>>
  /\ \A n \in 0..Capacity :
       pc = "answer" /\ down = <<Ret(reqid, n)>> /\ n > 0 => pending # <<>>
  /\ live = Widget /\ polled # {} => pending # <<>> \/ Coming

IInv == Types /\ Wire /\ Queued /\ Conserved

-----------------------------------------------------------------------------
(* Short sequences, element by element.                                    *)
LEMMA AppendTwo ==
  ASSUME NEW a, NEW b PROVE Append(<<a>>, b) = <<a, b>>
<1> DEFINE S == {a, b}
<1>1. <<a>> \in Seq(S) /\ <<a, b>> \in Seq(S) /\ b \in S  OBVIOUS
<1>2. Append(<<a>>, b) \in Seq(S) /\ Len(Append(<<a>>, b)) = 2  BY <1>1
<1>3. Append(<<a>>, b)[1] = a /\ Append(<<a>>, b)[2] = b  BY <1>1
<1>4. Len(<<a, b>>) = 2 /\ <<a, b>>[1] = a /\ <<a, b>>[2] = b  OBVIOUS
<1>5. \A i \in 1..2 : Append(<<a>>, b)[i] = <<a, b>>[i]  BY <1>3, <1>4
<1> HIDE DEF S
<1> QED BY <1>1, <1>2, <1>4, <1>5, SeqEqual

LEMMA Short ==
  ASSUME NEW a, NEW b
  PROVE  /\ <<a>> # <<>> /\ <<a, b>> # <<>>
         /\ Head(<<a>>) = a /\ Head(<<a, b>>) = a
         /\ Tail(<<a>>) = <<>> /\ Tail(<<a, b>>) = <<b>>
         /\ Append(<<>>, a) = <<a>> /\ Append(<<a>>, b) = <<a, b>>
         /\ Len(<<a>>) = 1 /\ Len(<<a, b>>) = 2 /\ Len(<<>>) = 0
         /\ DOMAIN <<a>> = {1} /\ DOMAIN <<a, b>> = {1, 2} /\ DOMAIN <<>> = {}
         /\ <<a>>[1] = a /\ <<a, b>>[1] = a /\ <<a, b>>[2] = b
<1>1. <<a>> # <<>> /\ <<a, b>> # <<>>  OBVIOUS
<1>2. Head(<<a>>) = a /\ Head(<<a, b>>) = a  OBVIOUS
<1>3. Tail(<<a>>) = <<>>  OBVIOUS
<1>4. Tail(<<a, b>>) = <<b>>  OBVIOUS
<1>5. Append(<<>>, a) = <<a>>  OBVIOUS
<1>6. Append(<<a>>, b) = <<a, b>>  BY AppendTwo
<1>7. Len(<<a>>) = 1 /\ Len(<<a, b>>) = 2 /\ Len(<<>>) = 0  OBVIOUS
<1>8. DOMAIN <<a>> = {1} /\ DOMAIN <<a, b>> = {1, 2}  OBVIOUS
<1>9. DOMAIN <<>> = {}  OBVIOUS
<1>10. <<a>>[1] = a /\ <<a, b>>[1] = a /\ <<a, b>>[2] = b  OBVIOUS
<1> QED BY <1>1, <1>2, <1>3, <1>4, <1>5, <1>6, <1>7, <1>8, <1>9, <1>10

(* Messages are told apart by their type.                                  *)
LEMMA Messages ==
  ASSUME NEW e, NEW i, NEW n, NEW t
  PROVE  /\ IsEvent(Event(e)) /\ Event(e).event = e
         /\ ~IsEvent(Ret(i, n)) /\ Ret(i, n).ret = n /\ Ret(i, n).id = i
         /\ Req(t, i).type = t /\ Req(t, i).id = i
BY DEF IsEvent, Event, Ret, Req

(* What a wait leaves in the queue.                                        *)
LEMMA Taken ==
  ASSUME Types, NEW k \in 1..Len(pending), Q!Take(k)
  PROVE  /\ pending' \in Seq(Q!AbsEvent) /\ Len(pending') <= Capacity
         /\ pending[k] \in Q!AbsEvent
<1>1. Len(pending) \in Nat /\ \A i \in 1..Len(pending) : pending[i] \in Q!AbsEvent
  BY DEF Types
<1>2. pending' = SubSeq(pending, k + 1, Len(pending))  BY DEF Q!Take
<1>3. \A i \in k + 1..Len(pending) : pending[i] \in Q!AbsEvent  BY <1>1
<1> HIDE DEF Q!AbsEvent
<1>4. /\ SubSeq(pending, k + 1, Len(pending)) \in Seq(Q!AbsEvent)
      /\ Len(SubSeq(pending, k + 1, Len(pending)))
           = IF k + 1 <= Len(pending) THEN Len(pending) - (k + 1) + 1 ELSE 0
  BY <1>1, <1>3, SubSeqProperties
<1>5. Len(pending') <= Capacity
  BY <1>1, <1>2, <1>4, EventWaitAssumption DEF Types
<1> QED BY <1>1, <1>2, <1>4, <1>5

(* A post leaves an event in the queue.                                    *)
LEMMA Enqueued ==
  ASSUME Types, NEW e \in Q!AbsEvent, Q!Enqueue(e)
  PROVE  pending' \in Seq(Q!AbsEvent) /\ Len(pending') <= Capacity /\ pending' # <<>>
<1> DEFINE l == Append(pending, e)
<1>1. l \in Seq(Q!AbsEvent) /\ Len(l) = Len(pending) + 1 /\ l # <<>>
  BY DEF Types
<1>2. pending' = IF Len(l) > Capacity THEN Tail(l) ELSE l
  BY DEF Q!Enqueue, Q!Newest
<1> HIDE DEF l
<1>3. Len(pending) \in Nat /\ Len(pending) <= Capacity /\ Capacity \in Nat \ {0}
  BY EventWaitAssumption DEF Types
<1>4. CASE Len(l) > Capacity
  <2>1. Tail(l) \in Seq(Q!AbsEvent) /\ Len(Tail(l)) = Len(l) - 1  BY <1>1
  <2>2. Len(Tail(l)) = Capacity  BY <2>1, <1>1, <1>3, <1>4
  <2>3. Tail(l) # <<>>  BY <2>1, <2>2, <1>3
  <2> QED BY <1>2, <1>4, <2>1, <2>2, <2>3, <1>3
<1>5. CASE ~(Len(l) > Capacity)
  BY <1>1, <1>2, <1>3, <1>5
<1> QED BY <1>4, <1>5

-----------------------------------------------------------------------------
LEMMA Initially == Init => IInv
<1> SUFFICES ASSUME Init PROVE IInv  OBVIOUS
<1>1. Types
  <2>1. pending \in Seq(Q!AbsEvent) /\ Len(pending) = 0  BY DEF Init, Q!AbsInit
  <2>2. 0 <= Capacity /\ 0 \in 0..MaxPosts  BY EventWaitAssumption
  <2> QED BY <2>1, <2>2 DEF Init, Q!AbsInit, Types
<1>2. Wire  BY DEF Init, Q!AbsInit, Wire, Quiet
<1>3. Queued /\ Conserved  BY DEF Init, Q!AbsInit, Queued, Conserved
<1> QED BY <1>1, <1>2, <1>3 DEF IInv

(* Where the server finds a request, it is a wait or one with an answer.   *)
LEMMA Requests ==
  ASSUME IInv, up # <<>>
  PROVE  \/ pc \in {"answer", "extra"} /\ Asked
         \/ pc \in {"select", "recv"} /\ Waits
         \/ pc = "unwait" /\ (WaitThenPing \/ Ping \/ Crossed)
BY DEF IInv, Types, Wire, Quiet, Told, Blocks, Woken, EventThenRet

(* An event taken for a wait is the first thing under way.                 *)
LEMMA ServesWait ==
  ASSUME IInv, Serve, Head(up).type = "WAIT", down = <<>>, ~waiting
  PROVE  /\ Types' /\ Queued' /\ Conserved'
         /\ \/ down' = <<>> /\ waiting'
            \/ ~waiting' /\ \E e \in Q!AbsEvent : down' = <<Event(e)>>
<1>1. up' = Tail(up) /\ ServeWait /\ UNCHANGED <<posted, client>>  BY DEF Serve
<1>2. UNCHANGED <<posted, pc, idle, period, reqid, polled, received>>  BY <1>1 DEF client
<1>3. delivered = received  BY DEF IInv, Conserved
<1>4. CASE \E k \in 1..Len(pending) : Q!Take(k) /\ Answer(Event(pending[k]))
  <2>1. PICK k \in 1..Len(pending) : Q!Take(k) /\ Answer(Event(pending[k]))  BY <1>4
  <2> DEFINE e == pending[k]
  <2>2. pending' \in Seq(Q!AbsEvent) /\ Len(pending') <= Capacity /\ e \in Q!AbsEvent
    BY <2>1, Taken DEF IInv
  <2>3. waiting' = FALSE /\ live' = live /\ delivered' = Append(delivered, e)
    BY <2>1 DEF Q!Take
  <2>4. down' = Append(<<>>, Event(e))  BY <2>1 DEF Answer
  <2> HIDE DEF e
  <2>5. down' = <<Event(e)>> /\ Head(down') = Event(e) /\ down' # <<>>  BY <2>4, Short
  <2>6. IsEvent(Head(down')) /\ Head(down').event = e  BY <2>5, Messages
  <2>7. Types'  BY <1>2, <2>2, <2>3 DEF IInv, Types
  <2>8. Queued'
    <3>1. Coming'  BY <2>5, <2>6 DEF Coming, IsEvent
    <3>2. \A n \in 0..Capacity : down' # <<Ret(reqid', n)>>
      <4> SUFFICES ASSUME NEW n \in 0..Capacity, down' = <<Ret(reqid', n)>> PROVE FALSE
        OBVIOUS
      <4>1. Head(down') = Ret(reqid', n)  BY Short
      <4> QED BY <4>1, <2>6, Messages
    <3> QED BY <2>3, <3>1, <3>2 DEF Queued
  <2>9. Conserved'  BY <1>2, <1>3, <2>3, <2>5, <2>6 DEF Conserved, IsEvent
  <2> QED BY <2>2, <2>3, <2>5, <2>7, <2>8, <2>9
<1>5. CASE Q!Block /\ UNCHANGED down
  <2>1. /\ \A j \in 1..Len(pending) : ~Q!Good(pending[j])
        /\ pending' = <<>> /\ waiting' = TRUE /\ UNCHANGED <<live, delivered>> /\ down' = <<>>
    BY <1>5 DEF Q!Block
  <2>2. Types'
    <3>1. <<>> \in Seq(Q!AbsEvent) /\ Len(<<>>) = 0  OBVIOUS
    <3>2. Capacity \in Nat  BY EventWaitAssumption
    <3> QED BY <1>2, <2>1, <3>1, <3>2 DEF IInv, Types
  <2>3. ASSUME live = Widget PROVE polled = {}
    <3>1. \A j \in 1..Len(pending) : pending[j] \in Q!AbsEvent  BY DEF IInv, Types
    <3>2. \A j \in 1..Len(pending) : Q!Good(pending[j])
      BY <3>1, <2>3 DEF Q!AbsEvent, Q!Good, Q!Sender
    <3>3. 1..Len(pending) = {}  BY <2>1, <3>2
    <3>4. pending = <<>>
      <4>1. pending \in Seq(Q!AbsEvent) /\ Len(pending) \in Nat  BY DEF IInv, Types
      <4>2. Len(pending) = 0
        <5>1. ASSUME Len(pending) # 0 PROVE FALSE
          <6>1. 1 \in 1..Len(pending)  BY <4>1, <5>1
          <6> QED BY <3>3, <6>1
        <5> QED BY <5>1
      <4> HIDE DEF Q!AbsEvent
      <4> QED BY <4>1, <4>2, EmptySeq
    <3> QED BY <2>3, <3>4 DEF IInv, Queued, Coming
  <2>4. Queued'
    <3>1. \A n \in 0..Capacity : down' # <<Ret(reqid', n)>>  BY <2>1, Short
    <3>2. live' = Widget => polled' = {}  BY <1>2, <2>1, <2>3
    <3> QED BY <2>1, <3>1, <3>2 DEF Queued
  <2>5. Conserved'  BY <1>2, <1>3, <2>1 DEF Conserved
  <2> QED BY <2>1, <2>2, <2>4, <2>5
<1> QED BY <1>1, <1>4, <1>5 DEF ServeWait

(* The answer to any other request comes behind an event, if there is one. *)
LEMMA ServesOther ==
  ASSUME IInv, Serve, Head(up).type # "WAIT", Head(up).id = reqid,
         \/ down = <<>>
         \/ \E e \in Q!AbsEvent : down = <<Event(e)>>
  PROVE  /\ Types' /\ Queued' /\ Conserved' /\ ~waiting'
         /\ \E n \in 0..Capacity : down' = Append(down, Ret(reqid', n))
<1>1. /\ Q!Unwait /\ UNCHANGED <<posted, client>>
      /\ Answer(Ret(Head(up).id, IF Head(up).type = "CHECKEVENT" THEN check_event ELSE 0))
  BY DEF Serve, ServeOther
<1>2. UNCHANGED <<posted, pc, idle, period, reqid, polled, received, pending, live, delivered>>
  BY <1>1 DEF client, Q!Unwait
<1>3. waiting' = FALSE  BY <1>1 DEF Q!Unwait
<1> DEFINE n == IF Head(up).type = "CHECKEVENT" THEN Len(pending) ELSE 0
<1>4. down' = Append(down, Ret(reqid, n))  BY <1>1 DEF Answer, check_event
<1>5. n \in 0..Capacity
  <2>1. Len(pending) \in Nat /\ Len(pending) <= Capacity /\ Capacity \in Nat
    BY EventWaitAssumption DEF IInv, Types
  <2> QED BY <2>1
<1>6. n > 0 => pending # <<>>
  <2>1. Len(<<>>) = 0  BY Short
  <2> QED BY <2>1
<1> HIDE DEF n
<1>7. Types'  BY <1>2, <1>3 DEF IInv, Types
<1>8. CASE down = <<>>
  <2>1. down' = <<Ret(reqid, n)>> /\ Head(down') = Ret(reqid, n) /\ down' # <<>>
    BY <1>4, <1>8, Short
  <2>2. ~IsEvent(Head(down'))  BY <2>1, Messages
  <2>3. ASSUME NEW k \in 0..Capacity, down' = <<Ret(reqid', k)>> PROVE k = n
    <3>1. Head(down') = Ret(reqid', k)  BY <2>3, Short
    <3>2. Ret(reqid, n) = Ret(reqid', k)  BY <3>1, <2>1
    <3> QED BY <3>2, Messages
  <2>4. live = Widget /\ polled # {} => pending # <<>>  BY <1>8 DEF IInv, Queued, Coming
  <2>5. Queued'
    <3>1. \A k \in 0..Capacity : down' = <<Ret(reqid', k)>> /\ k > 0 => pending' # <<>>
      BY <2>3, <1>2, <1>6
    <3> QED BY <3>1, <1>2, <1>3, <2>4 DEF Queued
  <2>6. delivered = received  BY <1>8 DEF IInv, Conserved
  <2>7. Conserved'  BY <1>2, <2>2, <2>6 DEF Conserved, IsEvent
  <2> QED BY <1>2, <1>3, <1>4, <1>5, <1>7, <2>5, <2>7
<1>9. ASSUME NEW e \in Q!AbsEvent, down = <<Event(e)>>
      PROVE  Queued' /\ Conserved'
  <2>1. down' = <<Event(e), Ret(reqid, n)>>
    <3>1. Append(<<Event(e)>>, Ret(reqid, n)) = <<Event(e), Ret(reqid, n)>>
      BY AppendTwo, Zenon
    <3> QED BY <3>1, <1>4, <1>9
  <2>2. Head(down') = Event(e) /\ Head(down) = Event(e) /\ down # <<>> /\ down' # <<>>
    BY <2>1, <1>9, Short
  <2>3. IsEvent(Head(down'))  BY <2>2, Messages
  <2>4. \A k \in 0..Capacity : down' # <<Ret(reqid', k)>>
    <3> SUFFICES ASSUME NEW k \in 0..Capacity, down' = <<Ret(reqid', k)>> PROVE FALSE
      OBVIOUS
    <3>1. Head(down') = Ret(reqid', k)  BY Short
    <3> QED BY <3>1, <2>3, Messages
  <2>5. Queued'
    <3>1. Coming'  BY <2>2, <2>3 DEF Coming, IsEvent
    <3> QED BY <3>1, <1>3, <2>4 DEF Queued
  <2>6. Conserved'
    <3>1. delivered = Append(received, Head(down).event)
      BY <2>2, <2>3 DEF IInv, Conserved
    <3> QED BY <3>1, <1>2, <2>2, <2>3 DEF Conserved, IsEvent
  <2> QED BY <2>5, <2>6
<1> QED BY <1>2, <1>3, <1>4, <1>5, <1>7, <1>8, <1>9

LEMMA ServeStep == ASSUME IInv, Serve PROVE IInv'
<1>1. up # <<>> /\ up' = Tail(up) /\ UNCHANGED <<pc, reqid>>  BY DEF Serve, client
<1>2. CASE pc \in {"answer", "extra"} /\ Asked
  <2>1. PICK t \in Calls : up = <<Req(t, reqid)>> /\ down = <<>> /\ ~waiting
    BY <1>2 DEF Asked
  <2>2. Head(up) = Req(t, reqid) /\ up' = <<>>  BY <1>1, <2>1, Short
  <2>3. Head(up).type # "WAIT" /\ Head(up).id = reqid  BY <2>2, Messages DEF Calls
  <2>4. PICK n \in 0..Capacity : down' = Append(down, Ret(reqid', n))
    BY <2>1, <2>3, ServesOther
  <2>5. down' = <<Ret(reqid', n)>>  BY <2>1, <2>4, Short
  <2>6. Types' /\ Queued' /\ Conserved' /\ ~waiting'  BY <2>1, <2>3, ServesOther
  <2>7. Told'  BY <2>2, <2>5, <2>6 DEF Told
  <2> QED BY <1>1, <1>2, <2>6, <2>7 DEF IInv, Wire
<1>3. CASE pc \in {"select", "recv"} /\ Waits
  <2>1. up = <<Req("WAIT", 0)>> /\ down = <<>> /\ ~waiting  BY <1>3 DEF Waits
  <2>2. Head(up).type = "WAIT" /\ up' = <<>>  BY <1>1, <2>1, Short, Messages
  <2>3. /\ Types' /\ Queued' /\ Conserved'
        /\ \/ down' = <<>> /\ waiting'
           \/ ~waiting' /\ \E e \in Q!AbsEvent : down' = <<Event(e)>>
    BY <2>1, <2>2, ServesWait
  <2>4. Blocks' \/ Woken'  BY <2>2, <2>3 DEF Blocks, Woken
  <2> QED BY <1>1, <1>3, <2>3, <2>4 DEF IInv, Wire
<1>4. CASE pc = "unwait" /\ WaitThenPing
  <2>1. up = <<Req("WAIT", 0), Req("PING", reqid)>> /\ down = <<>> /\ ~waiting
    BY <1>4 DEF WaitThenPing
  <2>2. Head(up) = Req("WAIT", 0) /\ up' = <<Req("PING", reqid')>>  BY <1>1, <2>1, Short
  <2>3. Head(up).type = "WAIT"  BY <2>2, Messages
  <2>4. /\ Types' /\ Queued' /\ Conserved'
        /\ \/ down' = <<>> /\ waiting'
           \/ ~waiting' /\ \E e \in Q!AbsEvent : down' = <<Event(e)>>
    BY <2>1, <2>3, ServesWait
  <2>5. Ping' \/ Crossed'  BY <2>2, <2>4 DEF Ping, Crossed
  <2> QED BY <1>1, <1>4, <2>4, <2>5 DEF IInv, Wire
<1>5. CASE pc = "unwait" /\ Ping
  <2>1. up = <<Req("PING", reqid)>> /\ down = <<>>  BY <1>5 DEF Ping
  <2>2. Head(up) = Req("PING", reqid) /\ up' = <<>>  BY <1>1, <2>1, Short
  <2>3. Head(up).type # "WAIT" /\ Head(up).id = reqid  BY <2>2, Messages
  <2>4. PICK n \in 0..Capacity : down' = Append(down, Ret(reqid', n))
    BY <2>1, <2>3, ServesOther
  <2>5. down' = <<Ret(reqid', n)>>  BY <2>1, <2>4, Short
  <2>6. Types' /\ Queued' /\ Conserved' /\ ~waiting'  BY <2>1, <2>3, ServesOther
  <2>7. Told'  BY <2>2, <2>5, <2>6 DEF Told
  <2> QED BY <1>1, <1>5, <2>6, <2>7 DEF IInv, Wire
<1>6. CASE pc = "unwait" /\ Crossed
  <2>1. PICK e \in Q!AbsEvent : up = <<Req("PING", reqid)>> /\ down = <<Event(e)>> /\ ~waiting
    BY <1>6 DEF Crossed
  <2>2. Head(up) = Req("PING", reqid) /\ up' = <<>>  BY <1>1, <2>1, Short
  <2>3. Head(up).type # "WAIT" /\ Head(up).id = reqid  BY <2>2, Messages
  <2>4. PICK n \in 0..Capacity : down' = Append(down, Ret(reqid', n))
    BY <2>1, <2>3, ServesOther
  <2>5. down' = <<Event(e), Ret(reqid', n)>>
    <3>1. Append(<<Event(e)>>, Ret(reqid', n)) = <<Event(e), Ret(reqid', n)>>
      BY AppendTwo, Zenon
    <3> QED BY <2>1, <2>4, <3>1
  <2>6. Types' /\ Queued' /\ Conserved' /\ ~waiting'  BY <2>1, <2>3, ServesOther
  <2>7. EventThenRet'  BY <2>2, <2>5, <2>6 DEF EventThenRet
  <2> QED BY <1>1, <1>6, <2>6, <2>7 DEF IInv, Wire
<1> QED BY <1>1, <1>2, <1>3, <1>4, <1>5, <1>6, Requests

(* The first part of the ping takes the client off the waiting list.       *)
LEMMA ServePartStep == ASSUME IInv, ServePart PROVE IInv'
<1>1. /\ up # <<>> /\ waiting /\ waiting' = FALSE
      /\ UNCHANGED <<posted, up, down, pc, idle, period, reqid, polled, received, pending, live, delivered>>
  BY DEF ServePart, Q!Unwait, client
<1>2. pc = "unwait" /\ Ping
  BY <1>1, Requests DEF Asked, Waits, WaitThenPing, Crossed
<1>3. Ping'  BY <1>1, <1>2 DEF Ping
<1>4. Wire'  BY <1>1, <1>2, <1>3 DEF Wire
<1>5. Types'  BY <1>1 DEF IInv, Types
<1>6. Queued'
  <2>1. Coming' <=> Coming  BY <1>1 DEF Coming, IsEvent
  <2> QED BY <1>1, <2>1 DEF IInv, Queued, Ret
<1>7. Conserved'  BY <1>1 DEF IInv, Conserved, IsEvent
<1> QED BY <1>4, <1>5, <1>6, <1>7 DEF IInv

(* A client on the waiting list has nothing under way to it, so an event   *)
(* that is sent at once is the first; otherwise only the queue changes.    *)
LEMMA PostStep ==
  ASSUME IInv, NEW f \in Widget \cup {NoWidget}, post_event(f)
  PROVE  IInv'
<1> DEFINE e == [serial |-> posted + 1, coding |-> "PARAM", from |-> f]
<1>1. /\ posted < MaxPosts /\ posted' = posted + 1
      /\ \/ Q!Wake(e) /\ Answer(Event(e))
         \/ Q!Enqueue(e) /\ UNCHANGED down
      /\ UNCHANGED <<up, pc, idle, period, reqid, polled, received>>
  BY DEF post_event, client
<1>2. posted' \in 0..MaxPosts /\ posted + 1 \in 1..MaxPosts
  BY <1>1, EventWaitAssumption DEF IInv, Types
<1>3. e \in Q!AbsEvent
  BY <1>2 DEF Q!AbsEvent, Q!Sender, Serial, Coding
<1> HIDE DEF e
<1>4. CASE Q!Wake(e) /\ Answer(Event(e))
  <2>1. /\ waiting /\ waiting' = FALSE /\ delivered' = Append(delivered, e)
        /\ pending' = pending /\ live' = live /\ down' = Append(down, Event(e))
    BY <1>4 DEF Q!Wake, Answer
  <2>2. Blocks \/ Ping
    BY <2>1 DEF IInv, Types, Wire, Quiet, Asked, Told, Waits, Woken, WaitThenPing, Crossed,
                EventThenRet
  <2>3. down = <<>>  BY <2>2 DEF Blocks, Ping
  <2>4. down' = <<Event(e)>> /\ Head(down') = Event(e) /\ down' # <<>>  BY <2>1, <2>3, Short
  <2>5. IsEvent(Head(down')) /\ Head(down').event = e  BY <2>4, Messages
  <2>6. Types'  BY <1>1, <1>2, <2>1 DEF IInv, Types
  <2>7. Wire'
    <3>1. pc \in {"select", "recv"} /\ Blocks => Woken'
      BY <1>1, <1>3, <2>1, <2>4 DEF Blocks, Woken
    <3>2. Ping => Crossed'  BY <1>1, <1>3, <2>1, <2>4 DEF Ping, Crossed
    <3>3. ~(pc \in {"app", "handler", "poll", "answer", "extra"})
      BY <2>1 DEF IInv, Wire, Quiet, Asked, Told
    <3>4. pc = "unwait" => Ping
      BY <2>1 DEF IInv, Wire, WaitThenPing, Crossed, Told, EventThenRet
    <3>5. pc \in {"select", "recv"} => Blocks
      BY <2>1 DEF IInv, Wire, Waits, Woken
    <3> QED BY <1>1, <3>1, <3>2, <3>3, <3>4, <3>5 DEF Wire
  <2>8. Queued'
    <3>1. Coming'  BY <2>4, <2>5 DEF Coming, IsEvent
    <3>2. \A n \in 0..Capacity : down' # <<Ret(reqid', n)>>
      <4> SUFFICES ASSUME NEW n \in 0..Capacity, down' = <<Ret(reqid', n)>> PROVE FALSE
        OBVIOUS
      <4>1. Head(down') = Ret(reqid', n)  BY Short
      <4> QED BY <4>1, <2>5, Messages
    <3> QED BY <2>1, <3>1, <3>2 DEF Queued
  <2>9. Conserved'
    <3>1. delivered = received  BY <2>3 DEF IInv, Conserved
    <3> QED BY <1>1, <2>1, <2>4, <2>5, <3>1 DEF Conserved, IsEvent
  <2> QED BY <2>6, <2>7, <2>8, <2>9 DEF IInv
<1>5. CASE Q!Enqueue(e) /\ UNCHANGED down
  <2>1. ~waiting /\ UNCHANGED <<waiting, live, delivered, down>>  BY <1>5 DEF Q!Enqueue
  <2>2. pending' \in Seq(Q!AbsEvent) /\ Len(pending') <= Capacity /\ pending' # <<>>
    BY <1>3, <1>5, Enqueued DEF IInv
  <2>3. Types'  BY <1>1, <1>2, <2>1, <2>2 DEF IInv, Types
  <2>4. Wire'
    BY <1>1, <2>1 DEF IInv, Wire, Quiet, Asked, Told, Waits, Blocks, Woken, WaitThenPing, Ping,
                      Crossed, EventThenRet
  <2>5. Queued'  BY <2>1, <2>2 DEF Queued
  <2>6. Conserved'  BY <1>1, <2>1 DEF IInv, Conserved, IsEvent
  <2> QED BY <2>3, <2>4, <2>5, <2>6 DEF IInv
<1> QED BY <1>1, <1>4, <1>5

LEMMA WidgetStep == ASSUME IInv, NEW w \in Widget, WidgetGone(w) PROVE IInv'
<1>1. /\ w \in live /\ live' = live \ {w}
      /\ UNCHANGED <<posted, up, down, pc, idle, period, reqid, polled, received, pending,
                     waiting, delivered>>
  BY DEF WidgetGone, Q!Lose, client
<1>2. Types'  BY <1>1 DEF IInv, Types
<1>3. Wire'
  BY <1>1 DEF IInv, Wire, Quiet, Asked, Told, Waits, Blocks, Woken, WaitThenPing, Ping,
              Crossed, EventThenRet
<1>4. Queued'
  <2>1. live' # Widget  BY <1>1
  <2> QED BY <1>1, <2>1 DEF IInv, Queued, Ret
<1>5. Conserved'  BY <1>1 DEF IInv, Conserved, IsEvent
<1> QED BY <1>2, <1>3, <1>4, <1>5 DEF IInv

-----------------------------------------------------------------------------
(* The client. Nothing is under way when it makes a request.               *)
LEMMA Requesting ==
  ASSUME IInv, Quiet, NEW type \in Calls, NEW why \in {"call", "poll", "wait"},
         Request(type, why),
         UNCHANGED <<queue, posted, down, received>>,
         idle' \in {"no", "entry", "wait"}, polled' = polled
  PROVE  IInv'
<1>1. /\ up' = Append(up, Req(type, reqid')) /\ pc' = "answer"
      /\ UNCHANGED <<pending, waiting, live, delivered, posted, down, received>>
  BY DEF Request, Send, Req, queue
<1>2. up = <<>> /\ down = <<>> /\ ~waiting  BY DEF Quiet
<1>3. up' = <<Req(type, reqid')>>  BY <1>1, <1>2, Short
<1>4. Asked'  BY <1>1, <1>2, <1>3 DEF Asked
<1>5. Wire'  BY <1>1, <1>4 DEF Wire
<1>6. Types'  BY <1>1 DEF IInv, Types
<1>7. Queued'
  <2>1. \A n \in 0..Capacity : down' # <<Ret(reqid', n)>>  BY <1>1, <1>2, Short
  <2> QED BY <1>1, <2>1 DEF IInv, Queued, Coming, IsEvent
<1>8. Conserved'  BY <1>1 DEF IInv, Conserved, IsEvent
<1> QED BY <1>5, <1>6, <1>7, <1>8 DEF IInv

LEMMA CallStep == ASSUME IInv, Call PROVE IInv'
<1>1. /\ pc \in {"app", "handler"} /\ UNCHANGED <<queue, posted, down, idle, polled, received>>
  BY DEF Call, Home
<1>2. Quiet  BY <1>1 DEF IInv, Wire
<1>3. idle' \in {"no", "entry", "wait"}  BY <1>1 DEF IInv, Types
<1>4. CASE Request("OTHER", "call")
  BY <1>1, <1>2, <1>3, <1>4, Requesting DEF Calls
<1>5. CASE Request("CHECKEVENT", "poll")
  BY <1>1, <1>2, <1>3, <1>5, Requesting DEF Calls
<1>6. CASE UNCHANGED <<up, pc, reqid>>
  <2>1. UNCHANGED <<pending, waiting, live, delivered, posted, up, down, pc, idle, reqid, polled, received>>
    BY <1>1, <1>6 DEF queue
  <2>2. Types' /\ Wire'  BY <1>1, <1>2, <2>1 DEF IInv, Types, Wire, Quiet
  <2>3. Queued' /\ Conserved'
    BY <2>1 DEF IInv, Queued, Coming, Conserved, IsEvent, Ret
  <2> QED BY <2>2, <2>3 DEF IInv
<1> QED BY <1>4, <1>5, <1>6 DEF Call

(* The handler takes over, or the wait is asked for again.                 *)
LEMMA ProgramStep == ASSUME IInv, Program PROVE IInv'
<1>1. /\ pc \in {"app", "handler", "poll"}
      /\ UNCHANGED <<queue, posted, down, polled, received>>
  BY DEF Program, pgGetEvent, HandlerReturns, Home
<1>2. Quiet  BY <1>1 DEF IInv, Wire
<1>3. UNCHANGED <<pending, waiting, live, delivered, posted, down, polled, received>>
  BY <1>1 DEF queue
<1>4. CASE Update /\ idle' \in {"no", "entry", "wait"}
  BY <1>1, <1>2, <1>4, Requesting DEF Update, Calls
<1>5. CASE pc' = "handler" /\ idle' = "entry" /\ UNCHANGED <<up, reqid>>
  <2>1. Types' /\ Wire'  BY <1>2, <1>3, <1>5 DEF IInv, Types, Wire, Quiet
  <2>2. Queued' /\ Conserved'
    BY <1>3, <1>5 DEF IInv, Queued, Coming, Conserved, IsEvent, Ret
  <2> QED BY <2>1, <2>2 DEF IInv
<1>6. CASE Restart /\ idle' = "no"
  <2>1. up' = Append(up, Req("WAIT", 0)) /\ pc' = "select"
    BY <1>6 DEF Restart, Send, Req
  <2>2. up' = <<Req("WAIT", 0)>>
    <3>1. up = <<>>  BY <1>2 DEF Quiet
    <3> QED BY <2>1, <3>1, Short
  <2>3. Waits'  BY <1>2, <1>3, <2>2 DEF Quiet, Waits
  <2>4. Types' /\ Wire'  BY <1>3, <1>6, <2>1, <2>3 DEF IInv, Types, Wire
  <2>5. Queued' /\ Conserved'
    BY <1>3, <2>1 DEF IInv, Queued, Coming, Conserved, IsEvent
  <2> QED BY <2>4, <2>5 DEF IInv
<1>7. CASE pgGetEvent
  BY <1>4, <1>5, <1>7 DEF pgGetEvent, IInv, Types
<1>8. CASE HandlerReturns
  BY <1>4, <1>6, <1>8 DEF HandlerReturns
<1> QED BY <1>7, <1>8 DEF Program

(* The ping goes after the wait, wherever that is.                         *)
LEMMA TimeoutStep == ASSUME IInv, Timeout PROVE IInv'
<1>1. /\ pc = "select" /\ pc' = "unwait" /\ up' = Append(up, Req("PING", reqid'))
      /\ UNCHANGED <<pending, waiting, live, delivered, posted, down, idle, polled, received>>
  BY DEF Timeout, Send, Req, queue
<1>2. Waits \/ Blocks \/ Woken  BY <1>1 DEF IInv, Wire
<1>4. ASSUME Blocks \/ Woken PROVE Ping' \/ Crossed'
  <2>1. up' = <<Req("PING", reqid')>>  BY <1>1, <1>4, Short DEF Blocks, Woken
  <2>2. Blocks => Ping'  BY <1>1, <2>1 DEF Blocks, Ping
  <2>3. Woken => Crossed'  BY <1>1, <2>1 DEF Woken, Crossed
  <2> QED BY <1>4, <2>2, <2>3
<1>5. WaitThenPing' \/ Ping' \/ Crossed'
  <2>1. Waits => WaitThenPing'
    <3> SUFFICES ASSUME Waits PROVE WaitThenPing'  OBVIOUS
    <3>1. Append(<<Req("WAIT", 0)>>, Req("PING", reqid'))
            = <<Req("WAIT", 0), Req("PING", reqid')>>
      BY AppendTwo, Zenon
    <3> QED BY <1>1, <3>1 DEF Waits, WaitThenPing
  <2> QED BY <1>2, <1>4, <2>1
<1>6. Types' /\ Wire'  BY <1>1, <1>5 DEF IInv, Types, Wire
<1>7. Queued' /\ Conserved'
  BY <1>1 DEF IInv, Queued, Coming, Conserved, IsEvent
<1> QED BY <1>6, <1>7 DEF IInv

(* An answer has been taken off the wire and nothing is left on it.        *)
LEMMA Answered ==
  ASSUME IInv, Told, down' = Tail(down), Local, received' = received,
         pc' \in {"app", "handler", "poll", "select", "recv"},
         idle' \in {"no", "entry", "wait"}, polled' \subseteq {"app", "handler"},
         polled' # {} => polled # {} \/ pending # <<>>
  PROVE  Types' /\ Queued' /\ Conserved' /\ down' = <<>> /\ up = <<>> /\ ~waiting'
<1>1. UNCHANGED <<pending, waiting, live, delivered, posted, received>>
  BY DEF Local, queue
<1>2. PICK n \in 0..Capacity : up = <<>> /\ down = <<Ret(reqid, n)>> /\ ~waiting
  BY DEF Told
<1>3. down' = <<>> /\ Head(down) = Ret(reqid, n)  BY <1>2, Short
<1>4. ~IsEvent(Head(down))  BY <1>3, Messages
<1>5. Types'  BY <1>1 DEF IInv, Types
<1>6. Queued'
  <2>1. live = Widget /\ polled # {} => pending # <<>>
    BY <1>4 DEF IInv, Queued, Coming
  <2> QED BY <1>1, <1>2, <2>1 DEF Queued
<1>7. Conserved'  BY <1>1, <1>3, <1>4 DEF IInv, Conserved
<1> QED BY <1>1, <1>2, <1>3, <1>5, <1>6, <1>7

(* An event has been taken off the wire.                                   *)
LEMMA Received ==
  ASSUME IInv, NEW e \in Q!AbsEvent, ~waiting,
         \/ down = <<Event(e)>> /\ down' = <<>>
         \/ \E n \in 0..Capacity : down = <<Event(e), Ret(reqid, n)>> /\ down' = <<Ret(reqid, n)>>,
         GetsEvent(Head(down)), Local, idle' = idle,
         pc' \in {"app", "handler", "extra"}
  PROVE  Types' /\ Queued' /\ Conserved' /\ ~waiting'
<1>1. UNCHANGED <<pending, waiting, live, delivered, posted>>  BY DEF Local, queue
<1>2. Head(down) = Event(e) /\ down # <<>>  BY Short
<1>3. IsEvent(Head(down)) /\ Head(down).event = e  BY <1>2, Messages
<1>4. received' = Append(received, e) /\ polled' = {}  BY <1>3 DEF GetsEvent
<1>5. delivered = Append(received, e)  BY <1>2, <1>3 DEF IInv, Conserved
<1>6. down' = <<>> \/ (down' # <<>> /\ ~IsEvent(Head(down')))
  <2>1. ASSUME NEW n \in 0..Capacity, down' = <<Ret(reqid, n)>>
        PROVE  down' # <<>> /\ ~IsEvent(Head(down'))
    <3>1. Head(down') = Ret(reqid, n) /\ down' # <<>>  BY <2>1, Short
    <3> QED BY <3>1, Messages
  <2> QED BY <2>1
<1>7. Types'  BY <1>1, <1>4 DEF IInv, Types
<1>8. Queued'  BY <1>1, <1>4 DEF Queued
<1>9. Conserved'  BY <1>1, <1>4, <1>5, <1>6 DEF Conserved, IsEvent
<1> QED BY <1>1, <1>7, <1>8, <1>9

LEMMA GetsAnswerStep == ASSUME IInv, GetsAnswer PROVE IInv'
<1>1. /\ pc = "answer" /\ down # <<>> /\ down' = Tail(down) /\ Local
      /\ idle' = idle /\ received' = received
  BY DEF GetsAnswer, Receive
<1>2. Told  BY <1>1 DEF IInv, Wire, Asked
<1>3. PICK n \in 0..Capacity : up = <<>> /\ down = <<Ret(reqid, n)>> /\ ~waiting
  BY <1>2 DEF Told
<1>4. Head(down).ret = n  BY <1>3, Short, Messages
<1>5. idle' \in {"no", "entry", "wait"} /\ polled \subseteq {"app", "handler"}
  BY <1>1 DEF IInv, Types
<1>6. CASE Wait /\ UNCHANGED polled
  <2>1. up' = Append(up, Req("WAIT", 0)) /\ pc' \in {"select", "recv"}
    BY <1>6 DEF Wait, Send, Req
  <2>2. Types' /\ Queued' /\ Conserved' /\ down' = <<>> /\ ~waiting'
    BY <1>1, <1>2, <1>5, <1>6, <2>1, Answered
  <2>3. up' = <<Req("WAIT", 0)>>  BY <1>3, <2>1, Short
  <2>4. Waits'  BY <2>2, <2>3 DEF Waits
  <2> QED BY <2>1, <2>2, <2>4 DEF IInv, Wire
<1>7. ASSUME pc' \in {"app", "handler", "poll"}, UNCHANGED up,
             polled' \subseteq {"app", "handler"},
             polled' # {} => polled # {} \/ pending # <<>>
      PROVE  IInv'
  <2>1. Types' /\ Queued' /\ Conserved' /\ down' = <<>> /\ up = <<>> /\ ~waiting'
    BY <1>1, <1>2, <1>5, <1>7, Answered
  <2>2. Quiet'  BY <1>7, <2>1 DEF Quiet
  <2> QED BY <1>7, <2>1, <2>2 DEF IInv, Wire
<1>8. CASE pc' = Home /\ UNCHANGED <<up, polled>>
  <2>1. pc' \in {"app", "handler", "poll"}  BY <1>8 DEF Home
  <2> QED BY <1>5, <1>7, <1>8, <2>1
<1>9. CASE /\ UNCHANGED up
           /\ IF ~IsEvent(Head(down)) /\ Head(down).ret > 0
              THEN pc' = "poll" /\ polled' = polled \cup {Home}
              ELSE pc' = Home /\ polled' = polled \ {Home}
  <2>1. n > 0 => pending # <<>>  BY <1>1, <1>3 DEF IInv, Queued
  <2>2. pc' \in {"app", "handler", "poll"} /\ polled' \subseteq {"app", "handler"}
    BY <1>5, <1>9 DEF Home
  <2>3. polled' # {} => polled # {} \/ pending # <<>>  BY <1>4, <1>9, <2>1
  <2> QED BY <1>7, <1>9, <2>2, <2>3
<1> QED BY <1>6, <1>8, <1>9 DEF GetsAnswer

LEMMA WaitEndsStep == ASSUME IInv, WaitEnds PROVE IInv'
<1>1. /\ pc \in {"select", "recv"} /\ down # <<>> /\ down' = Tail(down) /\ Local /\ idle' = idle
  BY DEF WaitEnds, Receive
<1>2. PICK e \in Q!AbsEvent : up = <<>> /\ down = <<Event(e)>> /\ ~waiting
  BY <1>1 DEF IInv, Wire, Waits, Blocks, Woken
<1>3. Head(down) = Event(e) /\ down' = <<>>  BY <1>1, <1>2, Short
<1>4. IsEvent(Head(down))  BY <1>3, Messages
<1>5. GetsEvent(Head(down)) /\ pc' \in {"app", "handler"} /\ up' = up
  BY <1>4 DEF WaitEnds, Home
<1>6. Types' /\ Queued' /\ Conserved' /\ ~waiting'  BY <1>1, <1>2, <1>3, <1>5, Received
<1>7. Quiet'  BY <1>2, <1>3, <1>5, <1>6 DEF Quiet
<1> QED BY <1>5, <1>6, <1>7 DEF IInv, Wire

LEMMA UnwaitedStep == ASSUME IInv, Unwaited PROVE IInv'
<1>1. /\ pc = "unwait" /\ down # <<>> /\ down' = Tail(down) /\ Local
      /\ UNCHANGED <<up, reqid>>
  BY DEF Unwaited, Receive
<1>2. Crossed \/ Told \/ EventThenRet
  BY <1>1 DEF IInv, Wire, WaitThenPing, Ping
<1>3. CASE Told
  <2>1. PICK n \in 0..Capacity : down = <<Ret(reqid, n)>>  BY <1>3 DEF Told
  <2>2. Head(down) = Ret(reqid, n)  BY <2>1, Short
  <2>3. ~IsEvent(Head(down))  BY <2>2, Messages
  <2>4. idle' = "wait" /\ pc' = "handler" /\ UNCHANGED <<polled, received>>
    BY <2>3 DEF Unwaited
  <2>5. polled' \subseteq {"app", "handler"}  BY <2>4 DEF IInv, Types
  <2>6. Types' /\ Queued' /\ Conserved' /\ down' = <<>> /\ up = <<>> /\ ~waiting'
    BY <1>1, <1>3, <2>4, <2>5, Answered
  <2>7. Quiet'  BY <1>1, <2>6 DEF Quiet
  <2> QED BY <2>4, <2>6, <2>7 DEF IInv, Wire
<1>4. CASE Crossed
  <2>1. PICK e \in Q!AbsEvent :
          up = <<Req("PING", reqid)>> /\ down = <<Event(e)>> /\ ~waiting
    BY <1>4 DEF Crossed
  <2>2. Head(down) = Event(e) /\ down' = <<>>  BY <1>1, <2>1, Short
  <2>3. IsEvent(Head(down))  BY <2>2, Messages
  <2>4. GetsEvent(Head(down)) /\ pc' = "extra" /\ idle' = idle
    BY <2>3 DEF Unwaited, ExpectExtra
  <2>5. Types' /\ Queued' /\ Conserved' /\ ~waiting'  BY <1>1, <2>1, <2>2, <2>4, Received
  <2>6. Asked'  BY <1>1, <2>1, <2>2, <2>5 DEF Asked, Calls
  <2> QED BY <2>4, <2>5, <2>6 DEF IInv, Wire
<1>5. CASE EventThenRet
  <2>1. PICK e \in Q!AbsEvent, n \in 0..Capacity :
          up = <<>> /\ down = <<Event(e), Ret(reqid, n)>> /\ ~waiting
    BY <1>5 DEF EventThenRet
  <2>2. Head(down) = Event(e) /\ down' = <<Ret(reqid, n)>>  BY <1>1, <2>1, Short
  <2>3. IsEvent(Head(down))  BY <2>2, Messages
  <2>4. GetsEvent(Head(down)) /\ pc' = "extra" /\ idle' = idle
    BY <2>3 DEF Unwaited, ExpectExtra
  <2>5. Types' /\ Queued' /\ Conserved' /\ ~waiting'  BY <1>1, <2>1, <2>2, <2>4, Received
  <2>6. Told'  BY <1>1, <2>1, <2>2, <2>5 DEF Told
  <2> QED BY <2>4, <2>5, <2>6 DEF IInv, Wire
<1> QED BY <1>2, <1>3, <1>4, <1>5

LEMMA ExtraStep == ASSUME IInv, Extra PROVE IInv'
<1>1. /\ pc = "extra" /\ down # <<>> /\ down' = Tail(down) /\ Local
      /\ pc' \in {"app", "handler"} /\ UNCHANGED <<up, idle, polled, received>>
  BY DEF Extra, Receive, Home
<1>2. Told  BY <1>1 DEF IInv, Wire, Asked
<1>3. idle' \in {"no", "entry", "wait"} /\ polled' \subseteq {"app", "handler"}
  BY <1>1 DEF IInv, Types
<1>4. Types' /\ Queued' /\ Conserved' /\ down' = <<>> /\ up = <<>> /\ ~waiting'
  BY <1>1, <1>2, <1>3, Answered
<1>5. Quiet'  BY <1>1, <1>4 DEF Quiet
<1> QED BY <1>1, <1>4, <1>5 DEF IInv, Wire

-----------------------------------------------------------------------------
LEMMA Inductive == IInv /\ [Next]_vars => IInv'
<1> SUFFICES ASSUME IInv, [Next]_vars PROVE IInv'  OBVIOUS
<1>1. CASE Server  BY <1>1, ServeStep, ServePartStep DEF Server
<1>2. CASE Library
  BY <1>2, GetsAnswerStep, WaitEndsStep, UnwaitedStep, ExtraStep, TimeoutStep DEF Library
<1>3. CASE Program  BY <1>3, ProgramStep
<1>4. CASE Call  BY <1>4, CallStep
<1>5. CASE \E f \in Widget \cup {NoWidget} : post_event(f)  BY <1>5, PostStep
<1>6. CASE \E w \in Widget : WidgetGone(w)  BY <1>6, WidgetStep
<1>7. CASE UNCHANGED vars
  <2>1. UNCHANGED <<pending, waiting, live, delivered, posted, up, down, pc, idle, reqid, polled,
                    received>>
    BY <1>7 DEF vars, queue, client
  <2>2. Types' /\ Wire'
    BY <2>1 DEF IInv, Types, Wire, Quiet, Asked, Told, Waits, Blocks, Woken, WaitThenPing, Ping,
                Crossed, EventThenRet
  <2>3. Queued' /\ Conserved'
    BY <2>1 DEF IInv, Queued, Coming, Conserved, IsEvent, Ret
  <2> QED BY <2>2, <2>3 DEF IInv
<1> QED BY <1>1, <1>2, <1>3, <1>4, <1>5, <1>6, <1>7 DEF Next

(* What is on the wire fits the place where the client is.                 *)
THEOREM Invariant == Spec => []IInv
<1> QED BY Initially, Inductive, PTL DEF Spec

(* The client takes every response for what it is (_pg_getresponse).       *)
THEOREM ResponsesMatched == Spec => []Matched
<1>1. IInv => Matched
  <2> SUFFICES ASSUME IInv PROVE Matched  OBVIOUS
  <2> DEFINE answers == \A i \in DOMAIN down : ~IsEvent(down[i]) => down[i].id = reqid
  <2>1. CASE pc \in {"app", "handler", "poll"}
    BY <2>1 DEF IInv, Wire, Quiet, Matched
  <2>2. ASSUME Told
        PROVE  /\ Len(up) + Len(down) = 1 /\ answers
               /\ \A i \in DOMAIN down : ~IsEvent(down[i])
    <3>1. PICK n \in 0..Capacity : up = <<>> /\ down = <<Ret(reqid, n)>>  BY <2>2 DEF Told
    <3>2. DOMAIN down = {1} /\ down[1] = Ret(reqid, n) /\ Len(up) = 0 /\ Len(down) = 1
      BY <3>1, Short
    <3> QED BY <3>2, Messages
  <2>3. CASE pc \in {"answer", "extra"}
    <3>1. ASSUME Asked
          PROVE  Len(up) + Len(down) = 1 /\ DOMAIN down = {}
      <4>1. PICK t \in Calls : up = <<Req(t, reqid)>> /\ down = <<>>  BY <3>1 DEF Asked
      <4> QED BY <4>1, Short
    <3> QED BY <2>2, <2>3, <3>1 DEF IInv, Wire, Matched
  <2>4. CASE pc \in {"select", "recv"}
    <3>1. \A i \in DOMAIN down : IsEvent(down[i])
      <4>1. CASE Waits \/ Blocks  BY <4>1, Short DEF Waits, Blocks
      <4>2. CASE Woken
        <5>1. PICK e \in Q!AbsEvent : down = <<Event(e)>>  BY <4>2 DEF Woken
        <5>2. DOMAIN down = {1} /\ down[1] = Event(e)  BY <5>1, Short
        <5> QED BY <5>2, Messages
      <4> QED BY <2>4, <4>1, <4>2 DEF IInv, Wire
    <3> QED BY <2>4, <3>1 DEF Matched
  <2>5. CASE pc = "unwait"
    <3>1. answers /\ (Len(down) = 2 => IsEvent(down[1]) /\ ~IsEvent(down[2]))
      <4>1. CASE WaitThenPing \/ Ping  BY <4>1, Short DEF WaitThenPing, Ping
      <4>2. CASE Crossed
        <5>1. PICK e \in Q!AbsEvent : down = <<Event(e)>>  BY <4>2 DEF Crossed
        <5>2. DOMAIN down = {1} /\ down[1] = Event(e) /\ Len(down) = 1  BY <5>1, Short
        <5> QED BY <5>2, Messages
      <4>3. CASE Told  BY <4>3, <2>2 DEF IInv, Types
      <4>4. CASE EventThenRet
        <5>1. PICK e \in Q!AbsEvent, n \in 0..Capacity : down = <<Event(e), Ret(reqid, n)>>
          BY <4>4 DEF EventThenRet
        <5>2. DOMAIN down = {1, 2} /\ down[1] = Event(e) /\ down[2] = Ret(reqid, n)
          BY <5>1, Short
        <5> QED BY <5>2, Messages
      <4> QED BY <2>5, <4>1, <4>2, <4>3, <4>4 DEF IInv, Wire
    <3> QED BY <2>5, <3>1 DEF Matched
  <2> QED BY <2>1, <2>3, <2>4, <2>5 DEF IInv, Types
<1> QED BY <1>1, Invariant, PTL

(* No event is lost between the server and the client, and none is doubled. *)
THEOREM EventsConserved == Spec => []Conserved
<1>1. IInv => Conserved  BY DEF IInv
<1> QED BY <1>1, Invariant, PTL

(* A blocked client is on the waiting list or has something under way.     *)
THEOREM ClientsAnswerable == Spec => []Answerable
<1>1. IInv => Answerable
  BY Short DEF IInv, Wire, Answerable, Asked, Told, Waits, Blocks, Woken, WaitThenPing, Ping,
               Crossed, EventThenRet
<1> QED BY <1>1, Invariant, PTL

(* A wait that pgCheckEvent has announced finds its event, as long as no   *)
(* widget goes (pgEventPoll).                                              *)
THEOREM PollsReturn == Spec => []PollReturns
<1>1. IInv => PollReturns
  <2> SUFFICES ASSUME IInv, waiting, live = Widget PROVE polled = {}
    BY DEF PollReturns
  <2>1. down = <<>>
    BY DEF IInv, Types, Wire, Quiet, Asked, Told, Waits, Blocks, Woken, WaitThenPing, Ping,
           Crossed, EventThenRet
  <2>2. pending = <<>>  BY DEF IInv, Queued
  <2> QED BY <2>1, <2>2 DEF IInv, Queued, Coming
<1> QED BY <1>1, Invariant, PTL
=============================================================================
