# PicoGUI: TLA+ models, model checking and proofs

PicoGUI 1 is a GUI server (`src/pg1/server`) and the libraries of the programs that use it
(`src/pg1/client`). The server is one thread around `select()`, interrupted by signals; it keeps
the widgets, themes and events of every client and answers their requests over sockets. This
directory holds TLA+ modules of the server's core and of the part of the C client library that
waits for it, configurations for TLC, and proofs for TLAPS. Line numbers in `PROJECT.json` tie
every definition to the code.

## The system

| Part | State | Operations | What makes it correct |
|---|---|---|---|
| event queue (`net/eventq.c`, `rqh_wait`) | a ring of `EVENTQ_LEN` events per connection, the set `evtwait` | post an event, wait, check, any other request, close | no wakeup is lost, cargo has one owner, events arrive in order and once, the newest are kept |
| handle tree (`gcore/handle.c`, first half) | a red-black tree of handle nodes with one constant sentinel | insert, delete, find | a search tree with sound links whatever was deleted; a map for its users |
| handle ownership (`gcore/handle.c`, second half, `theme/`) | owner, group, context of each handle; context counters; the loaders at work | make, free, share, group, duplicate, contexts, load a theme or a template, close | what a client made goes when it leaves, and nothing of another client's does |
| packet framing (`net/request.c`, `readfd`) | `struct conbuf` of each connection | receive a header, prepare a buffer, receive data, execute or refuse | each request taken once, with its own data, in memory it fits |
| session (`net/mainloop.c`, `os/posix_signals.c`) | run flag, child queue, signal mask, number of clients | start, next child, select, accept, read, close, signals | programs of a session one after the other; the server stops when it should and only then |
| event waits (`client/c/src/netcore.c`) | where the client is, its idle handler and its lock | get an event, poll, time out and ping, run the handler | an answer is taken for what it is, no event is lost, nobody waits for ever |
| timers (`gcore/timer.c`, `os/posix.c`) | a sorted list, the inactivity times, one itimer | install, remove, expire, activity | a timer that was installed fires, in order, and once |
| widget tree (`widget/widget.c`) | containers, attachment points, a tree of divnodes | create, attach, move, detach, traverse, remove | rows of widgets; no node lost, shared or freed while something points at it; copies true |
| pointing devices (`input/cursor.c`, `if_pntr_*.c`) | the cursors, the widget under each, capture, the cursors a widget counts | move, press, turn the wheel, hide, free, update | counts and cursors agree; who captured is told of the release |
| other input (`input/`) | the chain of filters, focus, the graph of hotspots | propagate, consume | a key goes to one application, in the order of the filters |
| applications, popups (`appmgr/`, `gcore/div.c`) | the list of applications, the stack of divtrees | register, focus, push, pop | list, stack and widgets agree |
| client binding (`netcore.c`, `api.c`) | the list of handlers, nested dispatches, synchronous messages | bind, unbind, delete, dispatch | a handler may change the list that is being walked; each is called once |
| themes, layout, rendering, drivers, fonts, formats, other clients | | | data and pixels; see the last section |

How they meet: `net_iteration` gives a readable connection to `readfd`, which cuts requests out of
the stream and calls `request_exec`; handlers look handles up, make and free them, and call
widgets. Input drivers and widgets call `post_event`, which answers a waiting client at once or
fills its ring. `closefd` frees a connection's handles, its ring and its buffers, and may stop the
main loop. Signal handlers add to `childqueue_pending` and clear the run flag in between.

The behaviours that are hard: signals between the steps of the main loop; sends and allocations
that fail in the middle of a handler; events that cross requests on the wire; a nested call of the
event loop from a handler; handles whose numbers wrap around; objects shared between owners; pointers
to pointers that every change around them must mend; a clock that goes on between two readings.
`PROJECT.json` lists them under `hazards`, at the line where each bites.

## The modules

| Module | Models | Composition |
|---|---|---|
| `EventQueueAbs` | what a connection promises: a queue that keeps the newest events | abstract |
| `EventQueue` | the ring, the cursors, left-over cargo, the waiting bit, failed mallocs and sends | implements `EventQueueAbs` |
| `EventQueueProofs` | proofs | |
| `HandleMap` | what the tree is for: a map from numbers to objects | abstract |
| `HandleNodes` | nodes, links, rotations on a heap | |
| `HandleTree` | `htree_insert`, `htree_delete`, their fixups, `htree_find` | uses `HandleNodes`, implements `HandleMap` |
| `HandleTable` | owners, groups, contexts; loaders that run requests, nested | takes the tree for a map |
| `HandleProofs` | proofs about the tree and about ownership | |
| `RequestStream` | the requests of a client, one after the other, each with its data | abstract |
| `Framing` | `readfd`, bytes by their position in the stream | implements `RequestStream` |
| `FramingProofs` | proofs | |
| `Session` | main loop, child queue, signals, connections | |
| `SessionProofs` | proofs | |
| `EventWait` | the client library's waits, both directions of the socket, the server's end | instantiates `EventQueueAbs` as the server's queue |
| `EventWaitProofs` | proofs | |
| `AlarmClock` | what widgets are promised: alarms that ring once, in order, on time | abstract |
| `Timers` | the list, the inactivity timers, the itimer, `master_timer` step by step | implements `AlarmClock` |
| `TimersProofs` | proofs | |
| `WidgetForest` | what clients are promised: rows of widgets | abstract |
| `WidgetTree` | divnodes, `where`, copies, every kind of attach, the removal of widgets, scrollboxes, widgets without a sub | implements `WidgetForest` |
| `WidgetTreeProofs` | proofs | |
| `Pointer` | cursors, normalizing and dispatching of pointers, capture, a popup | |
| `Handlers` | the client's list of handlers, nested dispatches, `pgSyncAppMessage` | above `EventWait` |
| `DispatchProofs` | proofs about `Pointer` and `Handlers` | |

The `MC*` modules give the constants their values.

**EventQueue.** `pending` of the abstract queue is the ring from `out` to `in` (`Count`, `SlotAt`,
`Wrap`). `Post` is `post_event` with its three outcomes: the client waits (`PostToWaiter`, whose
`send` the code does not check: a broken connection is found by the next `readfd`), the event is queued
(`PostQueued`, which drops the oldest when the ring is full), or the cargo cannot be allocated
(`PostNoMemory`). `WaitGets`, `WaitBlocks` and `WaitSendFails` are `rqh_wait` with the part of
`readfd` that answers it. Widgets disappear at any time (`WidgetGone`).

**HandleTree.** The heap is a function of nodes to records, the sentinel a node of its own that the
code declares `const`: a write to it faults, and `SentinelConst` says that it keeps its value.
`mkhandle` and `htree_delete` are the steps up to the loop of their fixup; each turn of the loop is
a step, and so is what comes after it (`InsertFixEnds`, `DeleteFixEnds`). What is said of the tree is
then said of every tree the next turn meets, and the three short loops that only follow pointers
are one recursive function, `LoopEnd`. `Renamed` names the nodes after their handles between
operations, which addresses, only ever compared, allow.

**HandleTable.** A node has its owner, group, context and, as history, the context it was made in
(`madeIn`, -1 once `handle_chcontext` moved it). The files of `theme_load` and `wt_load` and the
instances of `wt_instantiate` are requests run by `request_exec`, so loaders are a stack (`loading`)
on which any request of the client may run, another load included. What a request returns is what
the loader groups (`Returned`, `Grouped`): a new object, but also the handle that some query
returned, of whomever, the loader's own leader, a number that is a context, or none; `handle_group`
refuses what is not the client's. A load ends (`LoadEnds`), or fails and takes the loads around it
along (`LoadFails`). Deletion closes under groups (`Doomed`), as `handle_cleanup` and `handle_free`
do with their repeated walks. Numbers are reused as `newhandle` reuses them.

**Framing.** One step is one call of `readfd`. `recv` returns any part of what has arrived, for the
header and for the data in the same call; `malloc` may fail; what the client sends is a function
from positions to sizes, so a server that looks for a header in the wrong place reads a wild size.

**Session.** The steps of the main loop are those between which a signal can be handled: `start`,
`top`, `children`, `dec` and `store` (the decrement of `childqueue_pending` is a load and a store),
`select`, `mask`, `events`. Signals are merged while they are blocked, as the kernel does.
`failed` is a history variable: which failures have happened.

**EventWait.** Up and down are the two directions of one TCP connection, in order and without loss.
The client's `pc` is where it is in the library: `answer` (in `recv` for a request), `select` (the
wait that can be interrupted), `recv` (the one that cannot), `unwait` (the ping has been sent),
`extra` (an event crossed the ping), `app` and `handler` outside the library.

**Timers.** Times count down to the present, so a state does not depend on how long the server has
run; `Tick` is the clock. The signal handler runs while the main loop is in `select`, and
`master_timer` is cut where the clock may be read again: at each timer it looks at, before
`os_set_timer` computes the interval, and while a widget's trigger runs. `slipped` and `stalled` are
history variables: the clock passed the time being set, and a handler returned without a timer.

**WidgetTree.** A pointer is a node with `next` or `div`; `where` is such a pointer, as it is in the
code. There are boxes, scrollboxes, which are several widgets, and leaves, which have no sub, as
canvas, textbox and scroll: a widget put inside a leaf hangs nowhere, but copies its container and
divtree (`widget.c:207`). Every attach that the requests allow is modelled. Before its own next
sibling or after itself a widget is linked to itself, a ring reached from nowhere; inside itself or
inside one of those in it, it closes a circle (`InItself`), and when it is attached, detached or
removed next, `r_widget_setcontainer` recurses until the stack is full: `Overflow`, after which the
server starts again. `widget_remove` is a loop that removes children, so it is a stack of `frames`;
the loss of a client removes its widgets in any order the handle tree may have them. The row of a widget
in `WidgetForest` is read off the pointers (`Rows`); a widget in a ring is loose, and the restart is
`Restart` of the forest.

**Pointer.** What is drawn is a map of points to widgets, one for each divtree. Each handler of the
code is an operator from the record of cursors to the record of cursors; triggers of widgets that
update the screen re-read the widget under every cursor in the middle of a dispatch. Loops over the
list of cursors and up the containers are recursive functions. `pressed`
and `forgotten` are history: who was told of a press, and which hidden cursors were freed.

**Handlers.** The stack of the program is a variable: dispatches, each with the next node it
remembers, and synchronous messages between them. Freed nodes are reused for new handlers. A node
(`netcore.c:1027`), the label of a synchronous message (`api.c:989`) and the memory of its answer
(`api.c:977`) may be refused, and an answer may be empty: `pgBind` then changes nothing, the message waits
on the default widget or with no handler, `syncmsg_handler` lets the dispatch go on, or stores nothing.

## The runs

| Run | Instance | Shows |
|---|---|---|
| `EventQueue` | ring of 3, 2 widgets, 4 posts | the waiting bit and the ring agree; cargo is owned once; order; the ring implements the abstract queue |
| `HandleTree` | 7 handles, any sequence of operations | links stay sound, no node is lost, and the tree is a map |
| `HandleOwnership` | a client that loads files, two deep, and one that enters contexts; 3 numbers, contexts in 2 bits | owners, leaders and contexts; no step touches another client's objects, whatever the requests in a file return |
| `Framing` | header 2, static buffer 3, limit 5, 8 requests | no overrun, no leak, each request once with its data; those that have arrived are taken |
| `Session` | 2 programs, 2 clients, 2 user signals, failing forks and sends | programs in turn, clients counted, stopping |
| `FailedSendStops` | the same, failing sends, 1 user signal | *violated*: one failed send counts several clients out |
| `EventWait` | queue of 2, 1 widget, 4 posts, 3 other calls, 4 ids | answers matched, events conserved, clients woken, polls return, events arrive |
| `Timers` | 3 widgets, intervals 1 and 3, inactivity timers at 1 and 2 | the itimer is what the program believes; every timer is covered by it; the list is an alarm clock; all timers ring |
| `WidgetTree` | a root; of another client a scrollbox of 3 parts and a canvas; each takes the other's widgets | pointers and `where` agree, nodes are neither lost nor freed early, no step makes a right copy wrong, a forest |
| `BeforeParent` | the same | *violated*: a widget put before the one that follows it disappears |
| `Pointer` | a button in a box, a pointing device or touchscreen, the cursor of hotspots, 2 points, 2 scenes, a popup | widgets count the cursors over them; a capture ends with a release |
| `Handlers` | 3 bindings, 2 messages, 4 nodes, 4 calls deep; labels, nodes and answers may fail | every handler that stays bound is called once; an answer is stored where somebody waits |

The violation runs are disagreements between the code and what it says of itself; each is a finding
in `PROJECT.json` with the line it quotes. Other disagreements that were met are listed below.

### Bounds, and why they are enough

* `EVENTQ_LEN = 3`: two pending events, so both cursors wrap, overflow and pass each other;
  `MaxPosts = 4` overflows twice. The proofs hold for any length.
* Seven handles reach every branch of `htree_delete`: both children, one, none, the successor far
  or near, both sides of the fixup, three levels of black nodes.
* `HANDLE_SIZE = 5` (the code: 2^30) leaves 3 numbers: a group of two beside a stranger, or a leader in
  a leader. Numbers wrap around after a few requests and meet live ones. Loads are nested two deep,
  in one client; the other has contexts up to `CTX_HALF = 2` (the code: 128), one more than the `s8` of
  a node numbers, so `Int8` wraps. Loads and contexts in one client, and more of each, are left to
  the proofs, which bound neither.
* `Framing`: sizes 0, 2, 3, 7, 1, 5, 6, 2 lie below, at and above both limits, and each kind of
  buffer follows each other kind. The size of the stream is that of these requests.
* `Session`: two programs are the calibrator and the session manager of `pgserver_init`; two clients
  are the last one and another; with two user signals a SIGTERM and a SIGINT can meet.
* `EventWait`: a queue of 2 overflows with 4 posts; 3 other calls set the handler, clear it, and
  leave one to any other request; 4 ids wrap within a behaviour. `MaxPosts` and `MaxCalls` bound
  the behaviour, not the code.
* `Timers`: three widgets are a first timer, one between and a last; intervals 1 and 3 lie on both
  sides of the inactivity timers. `Longest` ends the counting of inactivity behind the last of them.
* `WidgetTree`: one widget of each kind, which can follow, contain and surround each other in every
  order, themselves included; each takes widgets of the other client, so that widgets are left in
  the container of a client that goes, and with the parts of the scrollbox six widgets hang together.
* `Pointer`: two cursors are one that points and one that is hidden; with chords of one and two
  buttons the second is pressed during a capture. `MaxForgotten` bounds a history: one cursor freed
  while hidden. Two scenes move each widget to another point, out of sight and into the popup.
* `Handlers`: depth 4 is a dispatch in which a message is sent whose dispatch has a handler that
  sends another. The list holds four of the three bindings and the two of the messages; one of each is
  enough, as binding the same again replaces the handler, and a fifth is refused, as any may be.

### Deadlock

Deadlock is checked for `HandleTree`, `HandleOwnership`, `Timers`, `WidgetTree`, `Pointer` and
`Handlers`. The others may really stop: a connection
is closed and its events are posted, the stream ends, the server has gone down, or the
client waits for a user who does nothing.

### Fairness

* `Framing`: weak fairness of `ReadFd`. `select` is level triggered and reports a connection until
  it is empty. Nothing is assumed of the client.
* `Session`: weak fairness of the server's steps and of the handler of deliverable signals. Nothing
  is assumed of clients, programs or users: no program has to end, no client has to leave.
* `EventWait`: weak fairness of the server's step for this connection, of the library's step, and of
  the application and its handler as far as they return to the event loop. A `select` with a
  period returns, so `Timeout` is a step of the library. Nothing is assumed of those who post events.
* `Timers`: weak fairness of the steps of `master_timer`, of the handling of a pending SIGALRM (the
  main loop always returns to `select`) and of the clock. That widgets install their timers
  again, or that the user is active, is not assumed but a premise of `AllRing`.
* `WidgetTree`, `Pointer` and `Handlers` claim safety only: clients and users need not go on.

## The proofs

All hold for every value of the constants under the `ASSUME` of each module; `HandleTree` has one
assumption more, which is named below.

**EventQueue.** The ring is a circular interval: lemmas say what each way of moving the cursors does
to the pending slots (`Span`, `QueuedRing`). The invariant adds to the type that every allocated
cargo of an open connection is in one slot, that pending data events have theirs, and that serials
grow along the ring and above what was delivered. With it `WaiterHasNothing`, `CargoOwnedOnce`,
`DeliveredInOrder` and the refinement `Refines` follow. The cargo left over in a slot that was read
is why it is needed: it is freed only when the slot is filled again.

**HandleTree.** A tree is a matter of paths, and induction along them is out of reach, so the
invariant (`TreeInv`) speaks of each node and what it leads to: there are bounds for each node
(`Shape`), its number lies between them, each child takes over the bound on its side and has the
number of the parent on the other, each node but the root is a child of its parent. For rotations,
for the removal of a node and for the move of an identity the new bounds are given (`RotateKeeps`,
`UnlinkKeeps`, `RetagKeeps`). That the loops along pointers end, and where, comes from the widest
and the narrowest of the bounds met so far (`PathEnds`). The fixups need one fact about colours: a
root is black but the one a loop is at (`InsertFixKeeps`, `DeleteFixKeeps`), so no loop asks for the
parent of a root, even in `htree_deletefix`, which is wrong about colours. From bounds follow that lookups
find what is there (`FindIs`), that no two nodes have one number (`IdsApart`) and that all nodes are
reached from the root (`InTreeIs`); with these, `SentinelConst`, `NoNodeLost`, `ParentLinks` and the refinement
to `HandleMap`. The assumption is that there is a greatest handle number, which `HANDLE_SIZE` is for.

**HandleTable.** Who owns a handle says little: themes give objects to the server, and files may
name any handle. The invariant says that every client has a domain, a set of handles: the domains
of two clients are disjoint, a domain holds what the client owns and otherwise only handles of the
server, and with each leader its whole group. As `handle_group` refuses a leader or a member that is
not the caller's, no request enlarges a group across domains, and the closure of what a client
deletes (`Doomed`) stays in its own: `OthersAreKept`. That leaders are there (`LeadersAreLive`) and
owners open (`OwnersAreOpen`) follow from the closure. `ContextsStack` needs that a stored context is
the one the handle was made in, as long as the `s8` numbers that; nothing is assumed of
how many contexts a client enters.

**Framing.** The invariant (`Standing`) says that the bytes received are those up to the end of the
last request, the part of the header, and the part of the data that `conbuf` counts, and which of
the three buffers it uses. `NeverOverrun` and `AlwaysFreed` follow, and each step maps to a step of
`RequestStream` or to none (`Refinement`).

**Session.** The invariant is an account of tokens (`Budget`): a living program, a death that is
still to be handled and a note in `childqueue_pending` are one token, so deaths and starts
alternate (`OneAtATime`). The torn decrement can lose the token and cannot double it. As long as no
send fails, `numclients` is the number of connections (`ClientsCounted`), and no step but a signal
or a failed send stops the server under a client or a waiting program (`StopsWithLastOnly`).

**EventWait.** The invariant (`IInv`) says for each place of the client what is on the wire in both
directions: nothing, a request or its answer, or, while a wait is taken back by a ping, one of five
states in which the event, the answer to the ping, or both are under way. The client cannot tell
the answers apart but by their order, and this is why it is right to (`ResponsesMatched`). Added to
it are that a client on the waiting list has no events (`Queued`) and that what the server has sent
is what the client has received and what is still on the wire (`EventsConserved`). From these
follow `ClientsAnswerable` and `PollsReturn`.

**Timers.** The invariant says of every moment inside `master_timer` what the properties say of
those outside: what has been looked at is covered by the timer set so far (`Watching`, `Setting`),
the list is sorted (`Ordered`), and the widget whose trigger runs has left it (`Trigger`). Then the
itimer is what the program believes (`TimerTruthful`), the first of the list and every inactivity
timer have a timer before or at their time (`WidgetsCovered`, `InactivityWatched`), and
the list is an alarm clock (`TimersAreClocks`).

**Handlers.** The invariant (`Good`) says of every dispatch on the stack, however deep, that what it
has called lies before its next node and what is due and not called does not (`Straight`). New
handlers go to the head of the list, and taking some away keeps the order of the others, so this
survives whatever inner dispatches do, and `EachCalledOnce` follows. It says of every synchronous
message with a label of its own that its handler, if it was given one, is the only one of its source
(`Alone`), has a waiting call (`Held`) and is new to the dispatches around that call (`Fresh`): thus
its removal frees no node that is next, and `AnswersWaitedFor` follows, also where an answer, a node or a
label could not be made. That the loop of `pgDelete`, which can leave one of two neighbours, does
remove a single handler (`UnlinkedProps`) is an induction along the list. The theorems of the
library for that take an operator, so it is done with the least number of a set (`Least`, `UpTo`).

**Pointer.** A lemma for each operator says that it keeps the account (`Fine`): the list names each
cursor once, and a widget that is there counts the cursors of the list that remember it, and those
that are forgotten. `ChangeUnderKeeps` is the heart of it: one cursor has changed its widget, and
both counts follow, so the one that goes down was not 0 and nothing is lost where the code cuts off
below it. All else, up to a `Status` with its two dispatches and an update within each, is made of that; the
loop over all cursors by induction along the list (`AllHoverIs`). The invariant (`PInv`) adds what
the operators need: cursors with a handle, that of each divtree's hotspots and that of touchscreens are in
the list, the divtrees do not share one, and widgets that are gone count nothing. `HoveredAlways`
follows, whatever the containers and the triggers accepted.

**WidgetTree.** The invariant (`Inv`) speaks of a pointer and what it leads to, and follows no path.
So it holds wherever a widget is attached, in a ring, in itself, in a leaf, and the theorems assume
nothing of it. Where a node may hang depends on whose it is (`Fits`): clients' widgets never mix with the
parts of a scrollbox. `where` and the pointers agree (`Agree`), so a node hangs in one place. There are
at most two removals at once, of a scrollbox and within it of one of its parts (`FramesOK`), and they
leave the interior of every scrollbox hanging until it goes (`Hung`): when its box goes first, the interior
is moved to the place the box had. What `r_divnode_free` frees is the least closed set of nodes
(`Least`), which is here the widget's own, because the widget has left its place, its children theirs, and
nothing else leads to them. `Linked` and `NodesOfLive` follow.

**Only model-checked.** Liveness (`Taken`, `EveryTurn`, `Stops`, `Arrives`, `AllRing`), which TLAPS
does not reach, nor `ENABLED`; `Kept`, which depends on who accepts what: when a `STATUS` moves the
cursor and presses, a widget may be told of the press through another in front of it, and it holds for
the containers and triggers of the run, not for all; of `WidgetTree`, `CopiesKept` and `ThereAndBack`,
which speak of whole paths, and `Places` and the refinement `Implements`, whose rows are sequences built
by recursion: both need induction over data.

`CopiesKept` and `ThereAndBack` have conditions. The code does make wrong copies, in a ring, whose
widgets keep a container they are not in; so `CopiesKept` says of each step that it keeps
right copies right where there is no ring, and `ThereAndBack` speaks of states with right copies. `Places`
excepts what is next to a ring, or put next to itself or inside a leaf: there is no place there. The run
reaches all of these states, and the conditions are no guards.

## Where the code and what it says differ

Besides the two findings, which have runs:

* `eventq.c:109`: equal cursors mean an empty ring, so it holds `EVENTQ_LEN - 1` events and the next one
  pushes out the oldest, against `pgnet.h:93` ("Number of events that can be backlogged"). `Refines`
  states the number the code provides.
* `request.c:341`: a data event whose answer cannot be sent has left the ring and is not freed.
* `handle.c:219` assigns the type it means to test, and `handle.c:296` skips the fixup: the black
  heights of the tree differ after deletions, against `handle.c:52`. Lookups stay right, only slower.
* `wt.c:95` makes the handle of a template before the template is complete; one that fails is freed and
  keeps its handle, against `handle.c:652`. `wt.c:191` returns with the translation table of a failed
  template installed, against `wt.h:68`.
* `requests.c:584`: contexts are counted in an int and kept in the `s8` of a handle: what is made in
  context 128 or deeper is not deleted when that is left, against `client_c.h:1471` ("nested a very
  large number of times").
* `memtheme.c:687`: a file that makes a request return the theme's own handle gives the theme to the
  server, as its own leader; it stays when its client leaves, against the comment above ("so it is cleaned
  up at the same time").
* `request.c:89`: when the last program of a session dies just before its last client leaves, the
  server runs on, against `README.configfile:95`.
* `request.c:306`: the id of a refused request is converted to host order once more.
* `timer.c:166`: `master_timer` takes one expired widget off the list and counts on it to install
  another timer; when it does not, those behind it wait, against `timer.c:91`.
* `posix.c:151`: an interval that has passed when it is computed disarms the itimer for good.
* `widget.c:207`: a widget put inside one without a sub is attached nowhere, but with the container and
  the divtree of that one, against `client_c.h:747`, which puts it inside. `canvas.c`, `textbox_frontend.c`
  and `scroll.c` set no sub.
* `widget.c:159`: a widget put inside itself, or inside one of those in it, closes a circle; when it is
  moved or removed next, `r_widget_setcontainer` never ends. No document speaks of it.
* `widget.c:134`: the parts of a scrollbox keep the divtree they had, against `widget.c:100`.
* `if_pntr_dispatch.c:108`: a capture outlives its button when that is released over the widget
  itself, so that a press elsewhere is not captured, against the comment at line 105.
* `sdlinput.c:142`, `ps2mouse.c:166`: a turn of the wheel comes with no buttons, and so ends a drag.
* `if_pntr_normalize.c:35`: the invisible cursor appears when the theme of a widget has another bitmap
  (`cursor.c:185`).
* `div.c:735`: `dts_push` hides the cursor of the divtree that has just been put on top, which has none.
* `cursor.c:237`: a hidden cursor that is freed stays counted by the widget under it.
* `api.c:313`: `pgDelete` steps over the node behind one that it has unlinked, so of two handlers of a widget
  that are next to each other one stays, against the comment at line 306. The node it leaves has the number
  of a widget that is gone.
* `api.c:989`: a label that could not be made has number 0. `pgSyncAppMessage` then binds its handler to the
  default widget, from which no message comes, waits for it without end, and `pgDelete(0)` would not
  unbind it; a node that could not be made (`netcore.c:1027`) leaves it without a handler. `api.c:977`: an empty
  answer is not stored, and the call waits on.
* `netcore.c:74`: a response that arrives in pieces is taken for a whole one.

## What the models leave out

* `EventQueue`: one connection; `post_event_global` is the same for each.
* `HandleTable`: `rehandle`, payloads and lookups leave ownership alone; `handle_bequeath` has no
  caller. The deletion of a widget is the release of one object, although it may delete others. Themes
  that the server loads itself (`memtheme.c:846`), whose leader is its own. A file that
  frees its own leader leaves the loader with memory that is gone; what it writes there is left out.
* `Framing`: what a request does, and ids. The wrong byte order of the id of a refusal is a hazard
  without a property.
* `Session`: SIGALRM runs the timers, SIGUSR talks to drivers, fatal signals exit. The shutdown of
  the other parts is one step.
* `EventWait`: `pgCustomizeSelect`, which also ends the wait; requests that are collected and sent
  as one batch; responses that arrive in pieces, which `_pg_recv` does not put together. The
  connection stays open, and memory for an event's data is there (`netcore.c:430`).
* `Timers`: the count of milliseconds, which wraps after seven weeks; what drivers do when the
  display goes to rest.
* `WidgetTree`: properties of widgets, panels, dialogs and tab pages, several divtrees. Triggers do
  not change the tree. A `widget_create` that fails midway, and the install error that `widget.c:101`
  ignores. A widget put inside a leaf keeps its address as container when the leaf is gone.
* `Pointer`: sprites and a failure to allocate one, rotation, more than one popup, toolbars that show
  through popups, updates of a part of the screen, the focus a click gives. Handles are not reused.
* `Handlers`: the data of events, of which only the server's nonempty messages come (`requests.c:1043`);
  dialogs, whose loops dispatch as the main loop does. The program is taken not to free the handler
  that a dispatch looks at next (the FIXME at `netcore.c:936`).
* Input filters other than those of pointers: keys go through a chain of filters in one call, and the
  graph of hotspots is geometry. Application managers: one list that requests change one at a
  time; that `appmgr.c:120` lists an application before its record is allocated is a hazard.
* Layout, rendering, drivers, fonts, text, formats and the configuration file are computations on
  data: a checker that explores interleavings has little to say about them. The other client
  libraries speak the same protocol; applications and `pg2` are not part of the server.

## The plan

1. **Keys and focus**: propagation over the stack of popups and the list of applications.
2. **Applications**: `appmgr_register`, `appmgr_unregister` and its failures, with the widget tree.
3. **Compositions**: a client's close across handle table, queue, widgets and cursors; batches, which
   stop at the first failure; `Handlers` on top of `EventWait`.
4. **Proofs**: the copies and the rows of the widget tree, and its refinement.
