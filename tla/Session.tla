------------------------------ MODULE Session -------------------------------
(***************************************************************************)
(* When the server starts the programs of its session and when it stops:   *)
(* the main loop and the child queue of net/mainloop.c, the counting of    *)
(* clients in net/request.c, and the signals, which net_iteration lets in  *)
(* only while it waits in select.                                          *)
(*                                                                         *)
(* The queue holds the programs 1..N in order: the touchscreen calibrator  *)
(* if there is one, then the session manager. A client is any connection;  *)
(* who makes it is left open, and so is how long a program runs.           *)
(***************************************************************************)
EXTENDS Integers, FiniteSets

CONSTANTS
  N,         \* programs in the child queue, the session manager last
  Clients,
  MaxKills,  \* bound: signals the user sends
  Faults     \* what may fail: "fork", "send"

ASSUME SessionAssumption ==
  N \in Nat \ {0} /\ IsFiniteSet(Clients) /\ MaxKills \in Nat
  /\ Faults \subseteq {"fork", "send"}

VARIABLES
  pc,          \* where the server is
  runflag,     \* mainloop_runflag
  pending,     \* childqueue_pending
  loaded,      \* its value in a register, between load and store
  head,        \* the program at childlist_head; N + 1 when the list is empty
  numclients,
  con,         \* the connections of the server
  ready,       \* what select returned: clients, or the listening socket
  masked,      \* the signals are blocked
  sigs,        \* signals sent and not handled yet
  kills,       \* how many the user has sent
  child,       \* what became of each program
  client,      \* what became of each client
  failed       \* what has gone wrong: "fork", "send", and "tear" for a
               \* count of the handler that was overwritten

server == <<pc, runflag, pending, loaded, head, numclients, con, ready, masked>>
world == <<sigs, kills, child, client, failed>>
vars == <<server, world>>

Programs == 1..N
Listener == "listener"

childqueue_is_empty == head > N /\ pending = 0

-----------------------------------------------------------------------------
(* Signals. One that is not blocked is handled before the server goes on.  *)
(* SIGINT is never blocked.                                                *)

Blocked == IF masked THEN {"CHLD", "TERM"} ELSE {}
Deliverable == sigs \ Blocked

At(p) == pc = p /\ Deliverable = {}
Goto(p) == pc' = p

(* waitpid takes one dead child, whoever it is.                            *)
Reap ==
  IF \E k \in Programs : child[k] = "zombie"
  THEN \E k \in Programs : child[k] = "zombie" /\ child' = [child EXCEPT ![k] = "reaped"]
  ELSE UNCHANGED child

ForgetChild == UNCHANGED pending               \* mutant of childqueue_pop
childqueue_pop == pending' = pending + 1

(* In select, a handler makes it return with EINTR; just before it does    *)
(* not.                                                                    *)
Interrupt ==
  \/ UNCHANGED <<pc, ready>>
  \/ pc = "select" /\ Goto("mask") /\ ready' = {}

mainloop_stop == runflag' = FALSE

signals_handler ==
  \E s \in Deliverable :
    /\ sigs' = sigs \ {s}
    /\ \/ s = "CHLD" /\ Reap /\ childqueue_pop /\ UNCHANGED runflag
       \/ s \in {"TERM", "INT"} /\ mainloop_stop /\ UNCHANGED <<child, pending>>
    /\ Interrupt
    /\ UNCHANGED <<loaded, head, numclients, con, masked, kills, client, failed>>

-----------------------------------------------------------------------------
(* pgserver_init ends by asking for the first program.                     *)
InitPop ==
  /\ At("init")
  /\ childqueue_pop /\ Goto("start")
  /\ UNCHANGED <<runflag, loaded, head, numclients, con, ready, masked, world>>

mainloop_start ==
  /\ At("start")
  /\ runflag' = TRUE /\ Goto("top")
  /\ UNCHANGED <<pending, loaded, head, numclients, con, ready, masked, world>>

Top ==
  /\ At("top")
  /\ Goto(IF runflag THEN "children" ELSE "down")
  /\ UNCHANGED <<runflag, pending, loaded, head, numclients, con, ready, masked, world>>

(* os_child_run: a fork that fails is not noticed.                         *)
Fork(k) ==
  \/ child' = [child EXCEPT ![k] = "running"] /\ UNCHANGED failed
  \/ "fork" \in Faults /\ UNCHANGED child /\ failed' = failed \cup {"fork"}

Advance ==
  IF head <= N THEN Fork(head) /\ head' = head + 1 ELSE UNCHANGED <<child, head, failed>>

childqueue_pop_internal ==
  /\ At("children") /\ pending > 0
  /\ Advance
  /\ Goto("dec")
  /\ UNCHANGED <<runflag, pending, loaded, numclients, con, ready, masked, sigs, kills, client>>

(* childqueue_pending-- is one instruction, or a load and a store.         *)
Decrement ==
  /\ At("dec")
  /\ \/ pending' = pending - 1 /\ Goto("children") /\ UNCHANGED loaded
     \/ loaded' = pending /\ Goto("store") /\ UNCHANGED pending
  /\ UNCHANGED <<runflag, head, numclients, con, ready, masked, world>>

Store ==
  /\ At("store")
  /\ pending' = loaded - 1 /\ loaded' = 0 /\ Goto("children")
  /\ failed' = failed \cup IF pending = loaded THEN {} ELSE {"tear"}
  /\ UNCHANGED <<runflag, head, numclients, con, ready, masked, sigs, kills, child, client>>

-----------------------------------------------------------------------------
(* net_iteration.                                                          *)
StayMasked == UNCHANGED masked                         \* mutant of AllowAll
AllowAll == masked' = FALSE

Unmask ==
  /\ At("children") /\ pending <= 0
  /\ AllowAll /\ Goto("select")
  /\ UNCHANGED <<runflag, pending, loaded, head, numclients, con, ready, world>>

Calling == {c \in Clients : client[c] = "calling"}
HungUp == {c \in con : client[c] = "left"}

(* select returns with everything that is readable, or after its timeout.  *)
Select ==
  /\ At("select")
  /\ \E talking \in SUBSET {c \in con : client[c] = "in"} :
       ready' = talking \cup HungUp \cup IF Calling = {} THEN {} ELSE {Listener}
  /\ Goto("mask")
  /\ UNCHANGED <<runflag, pending, loaded, head, numclients, con, masked, world>>

Mask ==
  /\ At("mask")
  /\ masked' = TRUE /\ Goto("events")
  /\ UNCHANGED <<runflag, pending, loaded, head, numclients, con, ready, world>>

(* closefd, called k times in a row for the same client, from a count of n.*)
LastLeft(n, k) == \E i \in 1..k : n - i = 0             \* mutant of Finished
Finished(n, k) == childqueue_is_empty /\ \E i \in 1..k : n - i = 0

CountWhenEmpty(n, k) == IF childqueue_is_empty THEN n - k ELSE n
                                                           \* mutant of Count
Count(n, k) == n - k

closefd(c, n, k) ==
  /\ numclients' = Count(n, k)
  /\ runflag' = (runflag /\ ~Finished(n, k))
  /\ con' = con \ {c}
  /\ client' = [client EXCEPT ![c] = "gone"]

SendFails == "send" \in Faults /\ failed' = failed \cup {"send"}

(* accept and newfd. When the hello cannot be sent, send_response has      *)
(* closed the connection already, and newfd closes it again.               *)
Accept ==
  /\ At("events") /\ Listener \in ready
  /\ ready' = ready \ {Listener}
  /\ IF Calling = {} THEN UNCHANGED <<numclients, con, client, runflag, failed>>
     ELSE \E c \in Calling :
       \/ /\ numclients' = numclients + 1
          /\ con' = con \cup {c}
          /\ client' = [client EXCEPT ![c] = "in"]
          /\ UNCHANGED <<runflag, failed>>
       \/ SendFails /\ closefd(c, numclients + 1, 2)
  /\ UNCHANGED <<pc, pending, loaded, head, masked, sigs, kills, child>>

(* readfd. The end of the stream closes once, an answer that cannot be     *)
(* sent twice, the two parts of a refusal three times. A client that has   *)
(* hung up may have left requests to be read first.                        *)
Read ==
  /\ At("events") /\ Listener \notin ready
  /\ \E c \in ready :
       /\ ready' = ready \ {c}
       /\ \/ c \in HungUp /\ closefd(c, numclients, 1) /\ UNCHANGED failed
          \/ SendFails /\ c \in con /\ \E k \in {2, 3} : closefd(c, numclients, k)
          \/ UNCHANGED <<numclients, con, client, runflag, failed>>
  /\ UNCHANGED <<pc, pending, loaded, head, masked, sigs, kills, child>>

(* An event posted to a waiting client cannot be sent.                     *)
PostFails ==
  /\ At("events") /\ SendFails
  /\ \E c \in con : closefd(c, numclients, 1)
  /\ UNCHANGED <<pc, pending, loaded, head, ready, masked, sigs, kills, child>>

Poll ==
  /\ At("events") /\ ready = {}
  /\ Goto("top")
  /\ UNCHANGED <<runflag, pending, loaded, head, numclients, con, ready, masked, world>>

-----------------------------------------------------------------------------
(* The programs, the clients and the user.                                 *)
Sent(s) == sigs' = sigs \cup {s} /\ UNCHANGED server

Exit(k) ==
  /\ child[k] = "running"
  /\ child' = [child EXCEPT ![k] = "zombie"]
  /\ Sent("CHLD") /\ UNCHANGED <<kills, client, failed>>

Kill(s) ==
  /\ kills < MaxKills /\ s \notin sigs
  /\ kills' = kills + 1
  /\ Sent(s) /\ UNCHANGED <<child, client, failed>>

Move(c, from, to) ==
  /\ client[c] = from /\ client' = [client EXCEPT ![c] = to]
  /\ UNCHANGED <<server, sigs, kills, child, failed>>

Call(c) == Move(c, "out", "calling")
HangUp(c) == Move(c, "in", "left")

-----------------------------------------------------------------------------
Init ==
  /\ pc = "init" /\ runflag = FALSE
  /\ pending = 0 /\ loaded = 0 /\ head = 1
  /\ numclients = 0 /\ con = {} /\ ready = {}
  /\ masked = FALSE /\ sigs = {} /\ kills = 0 /\ failed = {}
  /\ child = [k \in Programs |-> "queued"]
  /\ client = [c \in Clients |-> "out"]

Server ==
  \/ InitPop \/ mainloop_start \/ Top
  \/ childqueue_pop_internal \/ Decrement \/ Store
  \/ Unmask \/ Select \/ Mask
  \/ Accept \/ Read \/ PostFails \/ Poll

World ==
  \/ \E k \in Programs : Exit(k)
  \/ \E s \in {"TERM", "INT"} : Kill(s)
  \/ \E c \in Clients : Call(c) \/ HangUp(c)

Next == Server \/ signals_handler \/ World

(* The server runs, and handles the signals that are delivered.            *)
Spec == Init /\ [][Next]_vars /\ WF_vars(Server) /\ WF_vars(signals_handler)

-----------------------------------------------------------------------------
TypeOK ==
  /\ pc \in {"init", "start", "top", "children", "dec", "store", "select", "mask", "events", "down"}
  /\ runflag \in BOOLEAN /\ masked \in BOOLEAN
  /\ pending \in 0..N + 1 /\ loaded \in 0..N + 1 /\ head \in 1..N + 1
  /\ numclients \in Int /\ con \subseteq Clients
  /\ ready \subseteq Clients \cup {Listener}
  /\ sigs \subseteq {"CHLD", "TERM", "INT"} /\ kills \in 0..MaxKills
  /\ child \in [Programs -> {"queued", "running", "zombie", "reaped"}]
  /\ client \in [Clients -> {"out", "calling", "in", "left", "gone"}]
  /\ failed \subseteq {"fork", "send", "tear"}

(* A program is started when the one before it is dead and reaped, and     *)
(* every death starts one program at most.                                 *)
OneProgram ==
  /\ \A j, k \in Programs : j < k /\ child[k] # "queued" => child[j] = "reaped" \/ "fork" \in failed
  /\ Cardinality({k \in Programs : child[k] \in {"running", "zombie"}}) + pending
       <= IF pc \in {"dec", "store"} THEN 2 ELSE 1

(* While no send fails, the count of clients is that of the connections.   *)
CountsClients == "send" \in failed \/ numclients = Cardinality(con)

(* Apart from signals, and while no send fails, the server stops when its  *)
(* last client leaves, and not while a program waits for its turn: the     *)
(* calibrator that leaves does not take the session with it.               *)
StopsWithLast ==
  [][runflag /\ ~runflag' /\ sigs' = sigs => "send" \in failed' \/ (con' = {} /\ head > N)]_vars

(* When a program is over the next one is started, unless the server       *)
(* stops. A fork that fails and a torn count end the queue.                *)
Turn(k) == k = 1 \/ child[k - 1] = "zombie"
EveryTurn ==
  \A k \in Programs : Turn(k) ~> (child[k] # "queued" \/ pc = "down" \/ failed \cap {"fork", "tear"} # {})

(* SIGTERM and SIGINT stop the running server, whatever it is doing.       *)
Stops == (pc \notin {"init", "start"} /\ sigs \cap {"TERM", "INT"} # {}) ~> pc = "down"

(* README.configfile: the server exits when its last client leaves, and not  *)
(* before.                                                                 *)
OthersKeepRunning == [][runflag /\ ~runflag' /\ sigs' = sigs => con' = {}]_vars
=============================================================================
