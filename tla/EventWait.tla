----------------------------- MODULE EventWait ------------------------------
(***************************************************************************)
(* How a client waits for events: pgGetEvent, the interruptible wait of    *)
(* _pg_recvtimeout and the idle handler of the client library              *)
(* (netcore.c), at the other end of the event queue of its connection.     *)
(*                                                                         *)
(* Wait requests are the only ones without an answer of their own: they    *)
(* are answered by an event, now or later, and taken back by any other     *)
(* request. The client keeps no record of what it has asked: it takes what *)
(* arrives for the answer to what it asked last.                           *)
(*                                                                         *)
(* The server's queue is the abstract one, which EventQueue implements;    *)
(* `delivered' is everything the server has put on the wire.               *)
(***************************************************************************)
EXTENDS Integers, Sequences

CONSTANTS
  Capacity,   \* events the server keeps for the client
  Widget, NoWidget,
  MaxPosts,   \* bound: events posted in a behaviour
  MaxCalls,   \* bound: calls of the API that are not waits
  IDS         \* number of request ids, before they wrap around

ASSUME EventWaitAssumption ==
  /\ Capacity \in Nat \ {0} /\ MaxPosts \in Nat /\ MaxCalls \in Nat
  /\ IDS \in Nat \ {0, 1}
  /\ NoWidget \notin Widget

Serial == 1..MaxPosts
Coding == {"PARAM"}

VARIABLES
  pending, waiting, live, open, delivered,  \* the server's side, see EventQueueAbs
  posted,    \* serial of the last event posted
  up, down,  \* the two directions of the socket
  pc,        \* where the client is
  idle,      \* _pgidle_lock: "no", or which call of _pg_idle took it
  period,    \* an idle handler and a period are set
  reqid,     \* _pgrequestid, and so the id of the request last sent
  after,     \* what the answer being waited for is needed for
  polled,    \* who was told of a pending event by pgCheckEvent
  received,  \* the events handed to the client
  calls

queue == <<pending, waiting, live, open, delivered>>
client == <<pc, idle, period, reqid, after, polled, received, calls>>
vars == <<queue, posted, up, down, client>>

Q == INSTANCE EventQueueAbs

Event(e) == [type |-> "EVENT", event |-> e]
Ret(id, n) == [type |-> "RET", id |-> id, ret |-> n]
IsEvent(m) == m.type = "EVENT"

Serials(s) == {s[i].serial : i \in DOMAIN s}

-----------------------------------------------------------------------------
(* The server: net_iteration and readfd for this connection, rqh_wait and  *)
(* rqh_checkevent.                                                         *)

PlusDead == Len(pending) + 1                          \* mutant of check_event
check_event == Len(pending)

Answer(m) == down' = Append(down, m)

ServeWait ==
  \/ \E k \in 1..Len(pending) : Q!Take(k) /\ Answer(Event(pending[k]))
  \/ Q!Block /\ UNCHANGED down

ServeOther(r) ==
  Q!Unwait /\ Answer(Ret(r.id, IF r.type = "CHECKEVENT" THEN check_event ELSE 0))

Serve ==
  /\ up # <<>> /\ up' = Tail(up)
  /\ IF Head(up).type = "WAIT" THEN ServeWait ELSE ServeOther(Head(up))
  /\ UNCHANGED <<posted, client>>

(* A first part of a request is enough to take the wait back.              *)
ServePart ==
  /\ up # <<>> /\ waiting
  /\ Q!Unwait /\ UNCHANGED <<posted, up, down, client>>

post_event(from) ==
  LET e == [serial |-> posted + 1, coding |-> "PARAM", from |-> from] IN
  /\ posted < MaxPosts /\ posted' = posted + 1
  /\ from \in live \cup {NoWidget}
  /\ \/ Q!Wake(e) /\ Answer(Event(e))
     \/ Q!Enqueue(e) /\ UNCHANGED down
  /\ UNCHANGED <<up, client>>

WidgetGone(w) == Q!Lose(w) /\ UNCHANGED <<posted, up, down, client>>

-----------------------------------------------------------------------------
(* The client. `Home' is the code that calls the library: the              *)
(* application's, or that of its idle handler while it runs.               *)
Home == IF idle = "no" THEN "app" ELSE "handler"

Send(type, id) == up' = Append(up, [type |-> type, id |-> id])
NextId(n) == (reqid + n) % IDS

(* A request with an answer of its own.                                    *)
Request(type, why) ==
  /\ Send(type, NextId(1)) /\ reqid' = NextId(1)
  /\ pc' = "answer" /\ after' = why

Update == Request("UPDATE", "wait")

(* _pg_getresponse: a wait can be interrupted when there is an idle        *)
(* handler and it is not the one that waits.                               *)
Interruptible == period /\ idle = "no"

(* The id of a wait does not come back.                                    *)
Wait ==
  /\ Send("WAIT", 0) /\ reqid' = NextId(1)
  /\ pc' = IF Interruptible THEN "select" ELSE "recv"
  /\ UNCHANGED after

(* What else the code outside the library does: pgCheckEvent, pgSetIdle,   *)
(* any other call.                                                         *)
Call ==
  /\ pc = Home
  /\ calls < MaxCalls /\ calls' = calls + 1
  /\ \/ Request("OTHER", "call") /\ UNCHANGED period
     \/ Request("CHECKEVENT", "poll") /\ UNCHANGED period
     \/ period' = ~period /\ UNCHANGED <<up, pc, reqid, after>>
  /\ UNCHANGED <<queue, posted, down, idle, polled, received>>

(* pgGetEvent: first _pg_idle, then pgUpdate. pgEventPoll calls it when    *)
(* pgCheckEvent has said that there is an event.                           *)
pgGetEvent ==
  /\ pc \in {Home, "poll"}
  /\ IF Interruptible
     THEN pc' = "handler" /\ idle' = "entry" /\ UNCHANGED <<up, reqid, after>>
     ELSE Update /\ UNCHANGED idle
  /\ UNCHANGED <<queue, posted, down, period, polled, received, calls>>

(* The idle handler returns, to pgGetEvent or to the wait it interrupted,  *)
(* which puts the client back on the waiting list.                         *)
Resume == pc' = "select" /\ UNCHANGED <<up, reqid, after>>  \* mutant of Restart
Restart == Send("WAIT", 0) /\ pc' = "select" /\ UNCHANGED <<reqid, after>>

HandlerReturns ==
  /\ pc = "handler"
  /\ idle' = "no"
  /\ IF idle = "entry" THEN Update ELSE Restart
  /\ UNCHANGED <<queue, posted, down, period, polled, received, calls>>

(* Nothing has come in for a period: take the wait back with a ping.       *)
Timeout ==
  /\ pc = "select" /\ period
  /\ Send("PING", NextId(2)) /\ reqid' = NextId(2)
  /\ pc' = "unwait"
  /\ UNCHANGED <<queue, posted, down, idle, period, after, polled, received, calls>>

(* An event comes out of pgGetEvent; so does what pgCheckEvent has said.   *)
Overwritten(m) == UNCHANGED received /\ polled' = {}      \* mutant of GetsEvent
GetsEvent(m) ==
  /\ received' = Append(received, m.event)
  /\ polled' = {}

Receive == down # <<>> /\ down' = Tail(down)
Local == UNCHANGED <<queue, posted, period, calls>>

(* The answer to the last request, whatever it is.                         *)
GetsAnswer ==
  LET told == ~IsEvent(Head(down)) /\ Head(down).ret > 0 IN
  /\ pc = "answer" /\ Receive
  /\ \/ after = "wait" /\ Wait /\ UNCHANGED polled
     \/ after = "call" /\ pc' = Home /\ UNCHANGED <<up, reqid, after, polled>>
     \/ /\ after = "poll"
        /\ IF told THEN pc' = "poll" /\ polled' = polled \cup {Home}
                   ELSE pc' = Home /\ polled' = polled \ {Home}
        /\ UNCHANGED <<up, reqid, after>>
  /\ UNCHANGED <<idle, received>> /\ Local

(* pgGetEvent waits again for anything but an event.                       *)
WaitEnds ==
  /\ pc \in {"select", "recv"} /\ Receive
  /\ IF IsEvent(Head(down))
     THEN GetsEvent(Head(down)) /\ pc' = Home /\ UNCHANGED <<up, reqid, after>>
     ELSE Wait /\ UNCHANGED <<polled, received>>
  /\ UNCHANGED idle /\ Local

(* The ping and an event may have crossed: then the answer to the ping     *)
(* comes after the event.                                                  *)
NoExtra == pc' = Home                               \* mutant of ExpectExtra
ExpectExtra == pc' = "extra"

Unwaited ==
  /\ pc = "unwait" /\ Receive
  /\ IF IsEvent(Head(down))
     THEN GetsEvent(Head(down)) /\ ExpectExtra /\ UNCHANGED idle
     ELSE idle' = "wait" /\ pc' = "handler" /\ UNCHANGED <<polled, received>>
  /\ UNCHANGED <<up, reqid, after>> /\ Local

Extra ==
  /\ pc = "extra" /\ Receive
  /\ pc' = Home
  /\ UNCHANGED <<up, reqid, after, idle, polled, received>> /\ Local

-----------------------------------------------------------------------------
Init ==
  /\ Q!AbsInit /\ posted = 0
  /\ up = <<>> /\ down = <<>>
  /\ pc = "app" /\ idle = "no" /\ period = FALSE
  /\ reqid = 0 /\ after = "call" /\ polled = {}
  /\ received = <<>> /\ calls = 0

Server == Serve \/ ServePart
Library == GetsAnswer \/ WaitEnds \/ Unwaited \/ Extra \/ Timeout
Program == pgGetEvent \/ HandlerReturns

Next ==
  \/ Server \/ Library \/ Program \/ Call
  \/ \E f \in Widget \cup {NoWidget} : post_event(f)
  \/ \E w \in Widget : WidgetGone(w)

(* The server and the library run; the application and its handler return  *)
(* to the event loop.                                                      *)
Spec == Init /\ [][Next]_vars /\ WF_vars(Serve) /\ WF_vars(Library) /\ WF_vars(Program)

-----------------------------------------------------------------------------
TypeOK ==
  /\ Len(pending) <= Capacity /\ Serials(pending) \subseteq Serial
  /\ waiting \in BOOLEAN /\ open /\ live \subseteq Widget
  /\ Len(up) <= 2 /\ Len(down) <= 2
  /\ pc \in {"app", "handler", "answer", "poll", "select", "recv", "unwait", "extra"}
  /\ idle \in {"no", "entry", "wait"} /\ period \in BOOLEAN
  /\ reqid \in 0..IDS - 1 /\ after \in {"call", "poll", "wait"}
  /\ polled \subseteq {"app", "handler"} /\ calls \in 0..MaxCalls

(* What the client receives is what it waits for, although neither the     *)
(* type nor the id of a response is checked: an answer belongs to the last *)
(* request, an event comes to a wait, and after the ping that takes a wait *)
(* back an event may come first. While the client does anything else       *)
(* nothing is under way.                                                   *)
Matched ==
  LET answers == \A i \in DOMAIN down : ~IsEvent(down[i]) => down[i].id = reqid IN
  CASE pc \in {"app", "handler", "poll"} -> up = <<>> /\ down = <<>> /\ ~waiting
    [] pc \in {"answer", "extra"} ->
         Len(up) + Len(down) = 1 /\ answers /\ \A i \in DOMAIN down : ~IsEvent(down[i])
    [] pc \in {"select", "recv"} -> \A i \in DOMAIN down : IsEvent(down[i])
    [] pc = "unwait" -> answers /\ (Len(down) = 2 => IsEvent(down[1]) /\ ~IsEvent(down[2]))

(* No event is lost between the two programs, and none comes twice: what   *)
(* the server has put on the wire is what the client has taken for an      *)
(* event, and at most one more, which is the first thing under way.        *)
Conserved ==
  delivered = IF down # <<>> /\ IsEvent(Head(down))
              THEN Append(received, Head(down).event) ELSE received

(* A client that is blocked will be woken: something is under way to it or *)
(* to the server, or the server has it on its waiting list.                *)
Answerable ==
  pc \in {"answer", "select", "recv", "unwait", "extra"} => up # <<>> \/ down # <<>> \/ waiting

(* api.c: pgEventPoll is completely nonblocking. A wait that pgCheckEvent  *)
(* has announced is not put on the waiting list, unless a widget has gone  *)
(* or the idle handler was faster.                                         *)
PollReturns == waiting => Home \notin polled \/ live # Widget

(* A pending event reaches the client, or gives way to newer ones, or goes *)
(* with its widget.                                                        *)
Arrives ==
  \A s \in Serial : s \in Serials(pending) ~> s \notin Serials(pending)

=============================================================================
