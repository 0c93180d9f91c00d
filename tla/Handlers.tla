------------------------------ MODULE Handlers ------------------------------
(***************************************************************************)
(* How the client library hands events to the handlers of the program      *)
(* (netcore.c, api.c): pgBind puts a handler in a list under a widget and  *)
(* an event, pgDispatchEvent walks along the list and calls those that     *)
(* match, and a handler may do all of this again before it returns: bind,  *)
(* unbind, delete a widget with its handlers, dispatch the events that are *)
(* there (pgEventPoll) or dispatch until a message has been answered       *)
(* (pgSyncAppMessage, which binds a handler of its own).                   *)
(*                                                                         *)
(* So dispatches are nested, each at a place in the one list that the      *)
(* inner ones change. The stack of the program has them, the innermost     *)
(* first, and the calls of pgSyncAppMessage between them.                  *)
(***************************************************************************)
EXTENDS Integers, Sequences, SequencesExt

CONSTANTS
  ClientWidget,  \* widgets of the program
  Source,    \* labels that pgSyncAppMessage makes, to get the answer
  WidgetEvent, OtherEvent, APPMSG,
  PGBIND_ANY,
  Binding,   \* what the program may bind: pairs of a widget and an event
  Node, NULL,
  Depth      \* as many dispatches and synchronous messages at a time

ASSUME HandlersAssumption ==
  /\ Binding \subseteq (ClientWidget \union {PGBIND_ANY}) \X (WidgetEvent \union OtherEvent \union {PGBIND_ANY})
  /\ APPMSG \notin WidgetEvent \union OtherEvent
  /\ WidgetEvent \intersect OtherEvent = {}
  /\ Source \intersect (ClientWidget \union {PGBIND_ANY}) = {}
  /\ NULL \notin Node \union Source /\ Depth \in Nat
  /\ NULL \notin (ClientWidget \union Source \union {PGBIND_ANY, NULL})
                \X (WidgetEvent \union OtherEvent \union {APPMSG, PGBIND_ANY})

VARIABLES
  list,   \* _pghandlerlist
  key,    \* the widget and the event each of its nodes is bound to
  stack   \* what has been called and has not returned

vars == <<list, key, stack>>

Event ==
  ((ClientWidget \X WidgetEvent) \union ({NULL} \X OtherEvent)) \union (Source \X {APPMSG})

Matches(k, evt) ==
  /\ k[1] \in {PGBIND_ANY, evt[1]} \/ evt[2] \in OtherEvent
  /\ k[2] \in {PGBIND_ANY, evt[2]}

Bound == ToSet(list)
At(n) == CHOOSE i \in DOMAIN list : list[i] = n

(* A dispatch has a node next to look at, or runs the handler that was at  *)
(* a binding and has the next node remembered. (History: the nodes it has  *)
(* called, and those that were there when it began and still are.)         *)
Dispatch(evt, l) ==
  [call |-> "dispatch", evt |-> evt, at |-> NULL, next |-> IF l = <<>> THEN NULL ELSE l[1],
   called |-> {}, due |-> {n \in ToSet(l) : Matches(key[n], evt)}]
Sync(s) == [call |-> "sync", source |-> s, answered |-> FALSE]

Top == stack[1]
Searching == stack # <<>> /\ Top.call = "dispatch" /\ Top.at = NULL
Handling == stack # <<>> /\ Top.call = "dispatch" /\ Top.at # NULL
Waiting == stack # <<>> /\ Top.call = "sync" /\ ~Top.answered

(* The program's own code runs, between events or in a handler.            *)
Program == stack = <<>> \/ (Handling /\ Top.at[1] \notin Source)

-----------------------------------------------------------------------------
(* A list without some nodes, which pass out of memory; a dispatch that    *)
(* has one of them as its next would go on from there (the FIXME in        *)
(* pgDispatchEvent), and the program must not do that.                     *)
Unbound == <<NULL, NULL>>
Freed(gone) == key' = [n \in Node |-> IF n \in gone THEN Unbound ELSE key[n]]

Forgotten(gone) ==
  [i \in DOMAIN stack |->
     IF stack[i].call = "sync" THEN stack[i]
     ELSE [stack[i] EXCEPT !.due = @ \ gone, !.called = @ \ gone]]

Spared(gone) ==
  \A i \in DOMAIN stack : stack[i].call = "dispatch" => stack[i].next \notin gone

Shrink(l) ==
  LET gone == Bound \ ToSet(l)
  IN Spared(gone) /\ list' = l /\ Freed(gone) /\ stack' = Forgotten(gone)

(* The head of the list, and then the node after the first, after the      *)
(* second, and so on in what the list is by then.                          *)
UnlinkAfter(k, r, w) ==
  IF k < Len(r) /\ key[r[k + 1]][1] = w THEN RemoveAt(r, k + 1) ELSE r

Unlinked(l, w) ==
  LET first == IF l # <<>> /\ key[l[1]][1] = w THEN Tail(l) ELSE l
      Behind[k \in 0..Len(l)] == IF k = 0 THEN first ELSE UnlinkAfter(k, Behind[k - 1], w)
  IN Behind[Len(l)]

Insert(n, k) ==
  /\ n \notin Bound
  /\ list' = <<n>> \o list
  /\ key' = [key EXCEPT ![n] = k]

(* Another handler for a node that is there, a new node, or no memory for *)
(* one.                                                                    *)
Bind(k) ==
  \/ UNCHANGED <<list, key>>
  \/ (\A n \in Bound : key[n] # k) /\ \E n \in Node : Insert(n, k)

pgBind(k) == Program /\ k \in Binding /\ Bind(k) /\ UNCHANGED stack

pgUnbind(k) ==   \* pgBind with no handler
  /\ Program
  /\ \E n \in Bound : key[n] = k /\ Shrink(RemoveAt(list, At(n)))

pgDelete(w) == Program /\ Shrink(Unlinked(list, w))

(* pgEventLoop, pgEventPoll or the loop of pgSyncAppMessage has an event.  *)
pgDispatchEvent(evt) ==
  /\ Program \/ Waiting
  /\ Len(stack) < Depth
  /\ stack' = <<Dispatch(evt, list)>> \o stack
  /\ UNCHANGED <<list, key>>

StartOver(i) == list[1]                           \* mutant of Following
Following(i) == IF i = Len(list) THEN NULL ELSE list[i + 1]

(* The first handler that matches from the next one on. *)
Later ==
  {i \in DOMAIN list : Top.next # NULL /\ i >= At(Top.next) /\ Matches(key[list[i]], Top.evt)}
First == CHOOSE i \in Later : \A j \in Later : i <= j
Found(f, i) ==
  [f EXCEPT !.at = key[list[i]], !.next = Following(i), !.called = @ \union {list[i]}]

Search ==
  /\ Searching
  /\ stack' = IF Later = {} THEN Tail(stack) ELSE [stack EXCEPT ![1] = Found(Top, First)]
  /\ UNCHANGED <<list, key>>

(* A handler of the program returns. *)
Return(stop) ==
  /\ Handling /\ Program
  /\ stack' = IF stop THEN Tail(stack) ELSE [stack EXCEPT ![1].at = NULL]
  /\ UNCHANGED <<list, key>>

Waiters(s) == {i \in DOMAIN stack : stack[i].call = "sync" /\ stack[i].source = s}

(* The caller waits for an answer to the label it has made, if it got one *)
(* (NULL when it could not be made: 0, the default widget by then, which   *)
(* no message comes from), whether its handler is there or not.            *)
pgSyncAppMessage(s) ==
  /\ Program /\ Len(stack) + 1 < Depth
  /\ s # NULL => Waiters(s) = {}
  /\ Bind(<<s, APPMSG>>)
  /\ stack' = <<Sync(s)>> \o stack

Stored(s, b) ==
  [i \in DOMAIN stack |->
     IF i \in Waiters(s) THEN [stack[i] EXCEPT !.answered = b] ELSE stack[i]]

(* It stores the answer where extra says: in the variable of the caller,   *)
(* and ends the dispatch; an empty answer is not stored. Without memory it *)
(* stores NULL, and the dispatch goes on.                                  *)
syncmsg_handler ==
  /\ Handling /\ Top.at[1] \in Source
  /\ \/ stack' = Tail(Stored(Top.at[1], TRUE))
     \/ stack' = Tail(stack)
     \/ stack' = [Stored(Top.at[1], FALSE) EXCEPT ![1].at = NULL]
  /\ UNCHANGED <<list, key>>

KeepSource ==                                     \* mutant of Answered
  /\ stack # <<>> /\ Top.call = "sync" /\ Top.answered
  /\ stack' = Tail(stack) /\ UNCHANGED <<list, key>>
Answered ==
  /\ stack # <<>> /\ Top.call = "sync" /\ Top.answered
  /\ LET l == IF Top.source = NULL THEN list ELSE Unlinked(list, Top.source)
         gone == Bound \ ToSet(l)
     IN list' = l /\ Freed(gone) /\ stack' = Tail(Forgotten(gone))

-----------------------------------------------------------------------------
Init == list = <<>> /\ key = [n \in Node |-> Unbound] /\ stack = <<>>

Next ==
  \/ \E k \in Binding : pgBind(k) \/ pgUnbind(k)
  \/ \E w \in ClientWidget : pgDelete(w)
  \/ \E evt \in Event : pgDispatchEvent(evt)
  \/ \E s \in Source \union {NULL} : pgSyncAppMessage(s)
  \/ \E stop \in BOOLEAN : Return(stop)
  \/ Search \/ syncmsg_handler \/ Answered

Spec == Init /\ [][Next]_vars
-----------------------------------------------------------------------------
(* When a dispatch has run out of handlers, those that were bound to the   *)
(* event from its beginning to its end have been called; and none is       *)
(* called twice for an event. Whatever the handlers bound, unbound,        *)
(* deleted and dispatched meanwhile (pgDispatchEvent).                     *)
EachOnce ==
  [][Search => IF Len(stack') < Len(stack) THEN Top.due \subseteq Top.called
               ELSE stack'[1].called # Top.called]_vars

(* The answer to a synchronous message is stored in the variable of a call *)
(* that has not returned, though labels, nodes and answers may be refused  *)
(* for lack of memory; and the node a dispatch will look at next is still  *)
(* bound when one of these calls has removed its handler                   *)
(* (pgSyncAppMessage, syncmsg_handler).                                    *)
AnswerHasWaiter ==
  /\ Handling /\ Top.at[1] \in Source => Waiters(Top.at[1]) # {}
  /\ Spared(Node \ Bound)
=============================================================================
