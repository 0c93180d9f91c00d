--------------------------- MODULE SessionProofs ----------------------------
(***************************************************************************)
(* The child queue and the count of clients, for any number of programs    *)
(* and clients, and with every failure the model knows. The inductive      *)
(* invariant is an account: a program that has been started, a death that  *)
(* was not handled and a note in childqueue_pending are one and the same   *)
(* token, which passes from one to the next and is never doubled.          *)
(***************************************************************************)
EXTENDS Session, FiniteSetTheorems, TLAPS

USE SessionAssumption

Pcs == {"init", "start", "top", "children", "dec", "store", "select", "mask", "events", "down"}

Types ==
  /\ pc \in Pcs
  /\ runflag \in BOOLEAN /\ masked \in BOOLEAN
  /\ pending \in Nat /\ loaded \in Nat /\ head \in 1..N + 1
  /\ numclients \in Int /\ con \subseteq Clients
  /\ ready \subseteq Clients \cup {Listener}
  /\ sigs \subseteq {"CHLD", "TERM", "INT"} /\ kills \in 0..MaxKills
  /\ child \in [Programs -> {"queued", "running", "zombie", "reaped"}]
  /\ client \in [Clients -> {"out", "calling", "in", "left", "gone"}]
  /\ failed \subseteq {"fork", "send", "tear"}

Alive(k) == child[k] \in {"running", "zombie"}

(* What lies before and behind the head of the queue; the program that was *)
(* started last is the only one that may be alive, and a dead one that was *)
(* not reaped has its signal under way.                                    *)
Queue ==
  /\ \A k \in Programs : k >= head => child[k] = "queued"
  /\ \A k \in Programs : k < head => child[k] # "queued" \/ "fork" \in failed
  /\ \A k \in Programs : Alive(k) => k = head - 1
  /\ "CHLD" \in sigs => \E k \in Programs : child[k] = "zombie"

(* While a program is alive no further one is asked for; while a note is   *)
(* being taken off, it is still counted.                                   *)
Budget ==
  LET busy == pc \in {"dec", "store"} IN
  /\ pending <= IF busy THEN 2 ELSE 1
  /\ (\E k \in Programs : Alive(k)) => pending <= IF busy THEN 1 ELSE 0
  /\ busy => pending >= 1
  /\ pc = "store" => loaded >= 1 /\ loaded <= pending
  /\ pc # "store" => loaded = 0
  /\ pc = "init" => pending = 0 /\ head = 1

(* The connections are the clients that were accepted.                     *)
Connections ==
  /\ IsFiniteSet(con)
  /\ con = {c \in Clients : client[c] \in {"in", "left"}}
  /\ "send" \in failed \/ numclients = Cardinality(con)

IInv == Types /\ Queue /\ Budget /\ Connections

-----------------------------------------------------------------------------
LEMMA InitInv == Init => IInv
<1> SUFFICES ASSUME Init PROVE IInv  OBVIOUS
<1>1. Types
  <2>1. /\ pc \in Pcs /\ runflag \in BOOLEAN /\ masked \in BOOLEAN
        /\ con \subseteq Clients /\ ready \subseteq Clients \cup {Listener}
        /\ sigs \subseteq {"CHLD", "TERM", "INT"}
        /\ failed \subseteq {"fork", "send", "tear"}
    BY DEF Init, Pcs
  <2>2. /\ pending \in Nat /\ loaded \in Nat /\ head \in 1..N + 1
        /\ numclients \in Int /\ kills \in 0..MaxKills
    BY DEF Init
  <2>3. /\ child \in [Programs -> {"queued", "running", "zombie", "reaped"}]
        /\ client \in [Clients -> {"out", "calling", "in", "left", "gone"}]
    BY DEF Init
  <2> QED BY <2>1, <2>2, <2>3 DEF Types
<1>2. Queue  BY DEF Init, Queue, Alive, Programs
<1>3. Budget  BY DEF Init, Budget, Alive
<1>4. Connections
  <2>1. IsFiniteSet({}) /\ Cardinality({}) = 0  BY FS_EmptySet
  <2> QED BY <2>1 DEF Init, Connections
<1> QED BY <1>1, <1>2, <1>3, <1>4 DEF IInv

(* What a step of the handler does to the queue: a death is reaped and     *)
(* noted, or the server is told to stop.                                   *)
LEMMA HandlerCases ==
  ASSUME IInv, signals_handler
  PROVE  /\ UNCHANGED <<loaded, head, numclients, con, masked, kills, client, failed>>
         /\ (pc' = pc /\ ready' = ready) \/ (pc = "select" /\ pc' = "mask" /\ ready' = {})
         /\ sigs' # sigs /\ sigs' \subseteq sigs
         /\ \/ /\ "CHLD" \in sigs /\ "CHLD" \notin sigs'
               /\ \E k \in Programs : child[k] = "zombie" /\ child' = [child EXCEPT ![k] = "reaped"]
               /\ pending' = pending + 1 /\ UNCHANGED runflag
            \/ runflag' = FALSE /\ UNCHANGED <<child, pending>>
<1>1. PICK s \in Deliverable :
        /\ sigs' = sigs \ {s}
        /\ \/ s = "CHLD" /\ Reap /\ childqueue_pop /\ UNCHANGED runflag
           \/ s \in {"TERM", "INT"} /\ mainloop_stop /\ UNCHANGED <<child, pending>>
        /\ Interrupt
        /\ UNCHANGED <<loaded, head, numclients, con, masked, kills, client, failed>>
  BY DEF signals_handler
<1>2. s \in sigs  BY DEF Deliverable
<1>3. sigs' # sigs /\ sigs' \subseteq sigs  BY <1>1, <1>2
<1>4. (pc' = pc /\ ready' = ready) \/ (pc = "select" /\ pc' = "mask" /\ ready' = {})
  BY <1>1 DEF Interrupt, Goto
<1>5. CASE s = "CHLD"
  <2>1. Reap /\ childqueue_pop /\ UNCHANGED runflag  BY <1>1, <1>5
  <2>2. \E k \in Programs : child[k] = "zombie"  BY <1>2, <1>5 DEF IInv, Queue
  <2> QED BY <1>1, <1>2, <1>3, <1>4, <1>5, <2>1, <2>2 DEF Reap, childqueue_pop
<1>6. CASE s # "CHLD"
  <2>1. mainloop_stop /\ UNCHANGED <<child, pending>>  BY <1>1, <1>6
  <2> QED BY <1>1, <1>3, <1>4, <2>1 DEF mainloop_stop
<1> QED BY <1>5, <1>6

(* Which actions leave the queue of programs as it is.                     *)
LEMMA QueueStays ==
  ASSUME IInv,
         \/ InitPop \/ mainloop_start \/ Top \/ Decrement \/ Store
         \/ Unmask \/ Select \/ Mask \/ Accept \/ Read \/ PostFails \/ Poll
         \/ (\E s \in {"TERM", "INT"} : Kill(s))
         \/ (\E c \in Clients : Call(c) \/ HangUp(c))
         \/ UNCHANGED vars
  PROVE  /\ child' = child /\ head' = head
         /\ ("CHLD" \in sigs' => "CHLD" \in sigs)
         /\ ("fork" \in failed => "fork" \in failed')
BY DEF InitPop, mainloop_start, Top, Decrement, Store, Unmask, Select, Mask, Accept, Read,
       PostFails, Poll, Kill, Sent, Call, HangUp, Move, server, world, vars, SendFails

LEMMA QueueInv == IInv /\ [Next]_vars => Queue'
<1> SUFFICES ASSUME IInv, [Next]_vars PROVE Queue'  OBVIOUS
<1>1. Queue /\ Types /\ Budget  BY DEF IInv
<1>2. ASSUME child' = child, head' = head, "CHLD" \in sigs' => "CHLD" \in sigs,
             "fork" \in failed => "fork" \in failed'
      PROVE  Queue'
  BY <1>1, <1>2 DEF Queue, Alive
<1>3. CASE signals_handler
  <2>1. CASE child' = child
    BY <1>2, <1>3, <2>1, HandlerCases
  <2>2. CASE \E k \in Programs : child[k] = "zombie" /\ child' = [child EXCEPT ![k] = "reaped"]
    <3>1. PICK k \in Programs : child[k] = "zombie" /\ child' = [child EXCEPT ![k] = "reaped"]
      BY <2>2
    <3>2. head' = head /\ failed' = failed  BY <1>3, HandlerCases
    <3>3. k = head - 1  BY <1>1, <3>1 DEF Queue, Alive
    <3>4. "CHLD" \notin sigs'
      <4>1. child' # child  BY <1>1, <3>1 DEF Types
      <4> QED BY <1>3, <4>1, HandlerCases
    <3>5. \A j \in Programs : child'[j] = IF j = k THEN "reaped" ELSE child[j]
      BY <1>1, <3>1 DEF Types
    <3> QED BY <1>1, <3>1, <3>2, <3>3, <3>4, <3>5 DEF Queue, Alive, Types, Programs
  <2> QED BY <1>3, <2>1, <2>2, HandlerCases
<1>4. CASE childqueue_pop_internal
  <2>1. /\ pc = "children" /\ pending > 0 /\ Advance /\ sigs' = sigs
    BY <1>4 DEF childqueue_pop_internal, At
  <2>2. \A k \in Programs : ~Alive(k)
    BY <1>1, <2>1 DEF Budget, Types
  <2>3. CASE head <= N
    <3>1. head' = head + 1 /\ Fork(head) /\ head \in Programs
      BY <1>1, <2>1, <2>3 DEF Advance, Types, Programs
    <3>2. "CHLD" \notin sigs'  BY <1>1, <2>1, <2>2 DEF Queue, Alive
    <3>3. CASE child' = [child EXCEPT ![head] = "running"] /\ UNCHANGED failed
      <4>1. \A j \in Programs : child'[j] = IF j = head THEN "running" ELSE child[j]
        BY <1>1, <3>3 DEF Types
      <4> QED BY <1>1, <2>2, <3>1, <3>2, <3>3, <4>1 DEF Queue, Alive, Types, Programs
    <3>4. CASE UNCHANGED child /\ failed' = failed \cup {"fork"}
      BY <1>1, <2>2, <3>1, <3>2, <3>4 DEF Queue, Alive, Types, Programs
    <3> QED BY <3>1, <3>3, <3>4 DEF Fork
  <2>4. CASE ~(head <= N)
    BY <1>2, <2>1, <2>4 DEF Advance
  <2> QED BY <2>3, <2>4
<1>5. ASSUME NEW k \in Programs, Exit(k) PROVE Queue'
  <2>1. /\ child[k] = "running" /\ head' = head /\ failed' = failed
        /\ child' = [child EXCEPT ![k] = "zombie"]
    BY <1>5 DEF Exit, Sent, server
  <2>2. \A j \in Programs : child'[j] = IF j = k THEN "zombie" ELSE child[j]
    BY <1>1, <2>1 DEF Types
  <2> QED BY <1>1, <1>5, <2>1, <2>2 DEF Queue, Alive
<1>6. CASE \/ InitPop \/ mainloop_start \/ Top \/ Decrement \/ Store
           \/ Unmask \/ Select \/ Mask \/ Accept \/ Read \/ PostFails \/ Poll
           \/ (\E s \in {"TERM", "INT"} : Kill(s))
           \/ (\E c \in Clients : Call(c) \/ HangUp(c))
           \/ UNCHANGED vars
  BY <1>2, <1>6, QueueStays
<1> QED BY <1>3, <1>4, <1>5, <1>6 DEF Next, Server, World

-----------------------------------------------------------------------------
(* What is left alone by the steps that do not touch the queue's account.  *)
LEMMA BudgetInv == IInv /\ [Next]_vars => Budget'
<1> SUFFICES ASSUME IInv, [Next]_vars PROVE Budget'  OBVIOUS
<1>1. Queue /\ Types /\ Budget  BY DEF IInv
<1>2. CASE signals_handler
  <2>1. /\ loaded' = loaded /\ head' = head
        /\ pc' = pc \/ (pc = "select" /\ pc' = "mask")
    BY <1>2, HandlerCases
  <2>2. CASE UNCHANGED <<child, pending>>
    BY <1>1, <2>1, <2>2 DEF Budget, Alive
  <2>3. CASE \E k \in Programs : /\ child[k] = "zombie" /\ pending' = pending + 1
                                /\ child' = [child EXCEPT ![k] = "reaped"]
    <3>1. PICK k \in Programs : /\ child[k] = "zombie" /\ pending' = pending + 1
                                /\ child' = [child EXCEPT ![k] = "reaped"]
      BY <2>3
    <3>2. \A j \in Programs : child'[j] = IF j = k THEN "reaped" ELSE child[j]
      BY <1>1, <3>1 DEF Types
    <3>3. \A j \in Programs : ~Alive(j)'
      BY <1>1, <3>1, <3>2 DEF Queue, Alive
    <3>4. Alive(k) /\ pc # "init"
      BY <1>1, <3>1 DEF Alive, Budget, Queue, Programs
    <3> QED BY <1>1, <2>1, <3>1, <3>3, <3>4 DEF Budget, Types
  <2> QED BY <1>2, <2>2, <2>3, HandlerCases
<1>3. CASE InitPop
  BY <1>1, <1>3 DEF InitPop, At, Goto, childqueue_pop, Budget, Queue, Alive, Types, world, Programs
<1>4. CASE mainloop_start \/ Top \/ Unmask \/ Select \/ Mask \/ Poll
  <2>1. /\ UNCHANGED <<pending, loaded, head, child>>
        /\ pc \notin {"dec", "store"} /\ pc' \notin {"init", "dec", "store"}
    BY <1>4 DEF mainloop_start, Top, Unmask, Select, Mask, Poll, At, Goto, world
  <2> QED BY <1>1, <2>1 DEF Budget, Alive
<1>5. CASE Accept \/ Read \/ PostFails \/ (\E s \in {"TERM", "INT"} : Kill(s))
           \/ (\E c \in Clients : Call(c) \/ HangUp(c)) \/ UNCHANGED vars
  <2>1. UNCHANGED <<pc, pending, loaded, head, child>>
    BY <1>5 DEF Accept, Read, PostFails, Kill, Sent, Call, HangUp, Move, server, world, vars
  <2> QED BY <1>1, <2>1 DEF Budget, Alive
<1>6. CASE childqueue_pop_internal
  <2>1. /\ pc = "children" /\ pending > 0 /\ pc' = "dec" /\ UNCHANGED <<pending, loaded>>
    BY <1>6 DEF childqueue_pop_internal, At, Goto
  <2> QED BY <1>1, <2>1 DEF Budget, Types
<1>7. CASE Decrement
  <2>1. pc = "dec" /\ UNCHANGED <<head, child>>  BY <1>7 DEF Decrement, At, world
  <2>2. CASE pending' = pending - 1 /\ pc' = "children" /\ UNCHANGED loaded
    BY <1>1, <2>1, <2>2 DEF Budget, Alive, Types
  <2>3. CASE loaded' = pending /\ pc' = "store" /\ UNCHANGED pending
    BY <1>1, <2>1, <2>3 DEF Budget, Alive, Types
  <2> QED BY <1>7, <2>2, <2>3 DEF Decrement, Goto
<1>8. CASE Store
  <2>1. /\ pc = "store" /\ pc' = "children" /\ pending' = loaded - 1 /\ loaded' = 0
        /\ UNCHANGED <<head, child>>
    BY <1>8 DEF Store, At, Goto
  <2> QED BY <1>1, <2>1 DEF Budget, Alive, Types
<1>9. ASSUME NEW k \in Programs, Exit(k) PROVE Budget'
  <2>1. /\ UNCHANGED <<pc, pending, loaded, head>> /\ child[k] = "running"
        /\ child' = [child EXCEPT ![k] = "zombie"]
    BY <1>9 DEF Exit, Sent, server
  <2>2. Alive(k)  BY <2>1 DEF Alive
  <2> QED BY <1>1, <2>1, <2>2 DEF Budget, Alive, Types
<1> QED BY <1>2, <1>3, <1>4, <1>5, <1>6, <1>7, <1>8, <1>9 DEF Next, Server, World

-----------------------------------------------------------------------------
LEMMA TypesInv == IInv /\ [Next]_vars => Types'
<1> SUFFICES ASSUME IInv, [Next]_vars PROVE Types'  OBVIOUS
<1>1. Types /\ Budget  BY DEF IInv
<1>2. ASSUME NEW c \in Clients, NEW n \in Int, NEW k \in Nat, closefd(c, n, k)
      PROVE  /\ numclients' \in Int /\ runflag' \in BOOLEAN /\ con' \subseteq Clients
             /\ client' \in [Clients -> {"out", "calling", "in", "left", "gone"}]
  BY <1>1, <1>2 DEF closefd, Count, Types
<1>3. ASSUME SendFails PROVE failed' \subseteq {"fork", "send", "tear"}
  BY <1>1, <1>3 DEF SendFails, Types
<1>4. CASE signals_handler
  <2>1. /\ UNCHANGED <<loaded, head, numclients, con, masked, kills, client, failed>>
        /\ pc' \in Pcs /\ ready' \subseteq ready /\ sigs' \subseteq sigs
        /\ runflag' \in BOOLEAN
    BY <1>1, <1>4, HandlerCases DEF Types, Pcs
  <2>2. /\ pending' \in Nat
        /\ child' \in [Programs -> {"queued", "running", "zombie", "reaped"}]
    <3>1. \/ \E k \in Programs : child' = [child EXCEPT ![k] = "reaped"] /\ pending' = pending + 1
          \/ UNCHANGED <<child, pending>>
      BY <1>4, HandlerCases
    <3>2. CASE UNCHANGED <<child, pending>>  BY <1>1, <3>2 DEF Types
    <3>3. ASSUME NEW k \in Programs, child' = [child EXCEPT ![k] = "reaped"],
                 pending' = pending + 1
          PROVE  /\ pending' \in Nat
                 /\ child' \in [Programs -> {"queued", "running", "zombie", "reaped"}]
      BY <1>1, <3>3 DEF Types
    <3> QED BY <3>1, <3>2, <3>3
  <2> QED BY <1>1, <2>1, <2>2 DEF Types
<1>5. CASE InitPop
  BY <1>1, <1>5 DEF InitPop, childqueue_pop, Goto, world, Types, Pcs
<1>6. CASE mainloop_start
  BY <1>1, <1>6 DEF mainloop_start, Goto, world, Types, Pcs
<1>7. CASE Top
  BY <1>1, <1>7 DEF Top, Goto, world, Types, Pcs
<1>8. CASE childqueue_pop_internal
  <2>1. /\ child' \in [Programs -> {"queued", "running", "zombie", "reaped"}]
        /\ head' \in 1..N + 1 /\ failed' \subseteq {"fork", "send", "tear"}
    <3>1. Advance  BY <1>8 DEF childqueue_pop_internal
    <3>2. CASE head <= N
      <4>1. head' = head + 1 /\ Fork(head) /\ head \in Programs
        BY <1>1, <3>1, <3>2 DEF Advance, Types, Programs
      <4>2. head' \in 1..N + 1  BY <1>1, <3>2, <4>1 DEF Types
      <4>3. CASE child' = [child EXCEPT ![head] = "running"] /\ UNCHANGED failed
        BY <1>1, <4>1, <4>2, <4>3 DEF Types
      <4>4. CASE UNCHANGED child /\ failed' = failed \cup {"fork"}
        BY <1>1, <4>2, <4>4 DEF Types
      <4> QED BY <4>1, <4>3, <4>4 DEF Fork
    <3>3. CASE ~(head <= N)  BY <1>1, <3>1, <3>3 DEF Advance, Types
    <3> QED BY <3>2, <3>3
  <2> QED BY <1>1, <1>8, <2>1 DEF childqueue_pop_internal, Goto, Types, Pcs
<1>9. CASE Decrement
  <2>1. pending > 0  BY <1>1, <1>9 DEF Decrement, At, Budget, Types
  <2>2. pending' \in Nat /\ loaded' \in Nat /\ pc' \in Pcs
    BY <1>1, <1>9, <2>1 DEF Decrement, Goto, Types, Pcs
  <2> QED BY <1>1, <1>9, <2>2 DEF Decrement, world, Types
<1>10. CASE Store
  <2>1. pending' \in Nat /\ loaded' \in Nat /\ pc' \in Pcs
    BY <1>1, <1>10 DEF Store, At, Goto, Budget, Types, Pcs
  <2>2. failed' \subseteq {"fork", "send", "tear"}
    BY <1>1, <1>10 DEF Store, Types
  <2> QED BY <1>1, <1>10, <2>1, <2>2 DEF Store, Types
<1>11. CASE Unmask
  BY <1>1, <1>11 DEF Unmask, AllowAll, Goto, world, Types, Pcs
<1>12. CASE Select
  <2>1. ready' \subseteq Clients \cup {Listener}
    BY <1>1, <1>12 DEF Select, HungUp, Types
  <2> QED BY <1>1, <1>12, <2>1 DEF Select, Goto, world, Types, Pcs
<1>13. CASE Mask
  BY <1>1, <1>13 DEF Mask, Goto, world, Types, Pcs
<1>14. CASE Accept
  <2>1. /\ numclients' \in Int /\ runflag' \in BOOLEAN /\ con' \subseteq Clients
        /\ client' \in [Clients -> {"out", "calling", "in", "left", "gone"}]
        /\ failed' \subseteq {"fork", "send", "tear"}
    <3>1. CASE Calling = {}
      BY <1>1, <1>14, <3>1 DEF Accept, Types
    <3>2. CASE Calling # {}
      <4>1. PICK c \in Calling :
              \/ /\ numclients' = numclients + 1 /\ con' = con \cup {c}
                 /\ client' = [client EXCEPT ![c] = "in"] /\ UNCHANGED <<runflag, failed>>
              \/ SendFails /\ closefd(c, numclients + 1, 2)
        BY <1>14, <3>2 DEF Accept
      <4>2. c \in Clients  BY DEF Calling
      <4>3. numclients + 1 \in Int  BY <1>1 DEF Types
      <4> QED BY <1>1, <1>2, <1>3, <4>1, <4>2, <4>3 DEF Types
    <3> QED BY <3>1, <3>2
  <2> QED BY <1>1, <1>14, <2>1 DEF Accept, Types
<1>15. CASE Read
  <2>1. PICK c \in ready :
          /\ ready' = ready \ {c}
          /\ \/ c \in HungUp /\ closefd(c, numclients, 1) /\ UNCHANGED failed
             \/ SendFails /\ c \in con /\ \E k \in {2, 3} : closefd(c, numclients, k)
             \/ UNCHANGED <<numclients, con, client, runflag, failed>>
    BY <1>15 DEF Read
  <2>2. /\ numclients' \in Int /\ runflag' \in BOOLEAN /\ con' \subseteq Clients
        /\ client' \in [Clients -> {"out", "calling", "in", "left", "gone"}]
        /\ failed' \subseteq {"fork", "send", "tear"}
    <3>1. c \in HungUp => c \in con  BY DEF HungUp
    <3>2. con \subseteq Clients /\ numclients \in Int  BY <1>1 DEF Types
    <3> QED BY <1>1, <1>2, <1>3, <2>1, <3>1, <3>2 DEF Types
  <2> QED BY <1>1, <1>15, <2>1, <2>2 DEF Read, Types
<1>16. CASE PostFails
  <2>1. PICK c \in con : SendFails /\ closefd(c, numclients, 1)
    BY <1>16 DEF PostFails
  <2>2. c \in Clients /\ numclients \in Int  BY <1>1 DEF Types
  <2>3. /\ numclients' \in Int /\ runflag' \in BOOLEAN /\ con' \subseteq Clients
        /\ client' \in [Clients -> {"out", "calling", "in", "left", "gone"}]
        /\ failed' \subseteq {"fork", "send", "tear"}
    BY <1>2, <1>3, <2>1, <2>2
  <2> QED BY <1>1, <1>16, <2>3 DEF PostFails, Types
<1>17. CASE Poll
  BY <1>1, <1>17 DEF Poll, Goto, world, Types, Pcs
<1>18. ASSUME NEW k \in Programs, Exit(k) PROVE Types'
  <2>1. child' \in [Programs -> {"queued", "running", "zombie", "reaped"}]
    BY <1>1, <1>18 DEF Exit, Types
  <2> QED BY <1>1, <1>18, <2>1 DEF Exit, Sent, server, Types
<1>19. ASSUME NEW s \in {"TERM", "INT"}, Kill(s) PROVE Types'
  <2>1. kills' \in 0..MaxKills  BY <1>1, <1>19 DEF Kill, Types
  <2> QED BY <1>1, <1>19, <2>1 DEF Kill, Sent, server, Types
<1>20. ASSUME NEW c \in Clients, Call(c) \/ HangUp(c) PROVE Types'
  <2>1. client' \in [Clients -> {"out", "calling", "in", "left", "gone"}]
    BY <1>1, <1>20 DEF Call, HangUp, Move, Types
  <2> QED BY <1>1, <1>20, <2>1 DEF Call, HangUp, Move, server, Types
<1>21. CASE UNCHANGED vars
  BY <1>1, <1>21 DEF vars, server, world, Types
<1> QED
  BY <1>4, <1>5, <1>6, <1>7, <1>8, <1>9, <1>10, <1>11, <1>12, <1>13, <1>14, <1>15,
     <1>16, <1>17, <1>18, <1>19, <1>20, <1>21 DEF Next, Server, World

-----------------------------------------------------------------------------
(* One closefd for a connection takes one from the count and one from the  *)
(* connections; the count is not looked at any more after a failed send.   *)
LEMMA CloseOne ==
  ASSUME IInv, NEW c \in Clients, NEW n \in Int, NEW k \in Nat, closefd(c, n, k),
         failed' = failed \/ "send" \in failed', "send" \in failed => "send" \in failed',
         "send" \in failed' \/ (c \in con /\ n = numclients /\ k = 1)
  PROVE  Connections'
<1>1. Connections /\ Types  BY DEF IInv
<1>2. con' = con \ {c} /\ client' = [client EXCEPT ![c] = "gone"] /\ numclients' = n - k
  BY DEF closefd, Count
<1>3. con' = {d \in Clients : client'[d] \in {"in", "left"}}
  BY <1>1, <1>2 DEF Connections, Types
<1>4. IsFiniteSet(con')  BY <1>1, <1>2, FS_Subset DEF Connections
<1>5. "send" \in failed' \/ numclients' = Cardinality(con')
  <2>1. CASE "send" \in failed'  BY <2>1
  <2>2. CASE "send" \notin failed'
    <3>1. c \in con /\ n = numclients /\ k = 1 /\ numclients = Cardinality(con)
      BY <1>1, <2>2 DEF Connections
    <3>2. Cardinality(con \ {c}) = Cardinality(con) - 1
      BY <1>1, <3>1, FS_RemoveElement DEF Connections
    <3> QED BY <1>2, <3>1, <3>2
  <2> QED BY <2>1, <2>2
<1> QED BY <1>3, <1>4, <1>5 DEF Connections

LEMMA ConnectionsInv == IInv /\ [Next]_vars => Connections'
<1> SUFFICES ASSUME IInv, [Next]_vars PROVE Connections'  OBVIOUS
<1>1. Connections /\ Types  BY DEF IInv
<1>2. ASSUME UNCHANGED <<con, client, numclients>>, "send" \in failed => "send" \in failed'
      PROVE  Connections'
  BY <1>1, <1>2 DEF Connections
<1>3. CASE signals_handler
  BY <1>2, <1>3, HandlerCases
<1>4. CASE InitPop \/ mainloop_start \/ Top \/ childqueue_pop_internal \/ Decrement \/ Store
           \/ Unmask \/ Select \/ Mask \/ Poll
           \/ (\E s \in {"TERM", "INT"} : Kill(s)) \/ (\E k \in Programs : Exit(k))
           \/ UNCHANGED vars
  <2>1. UNCHANGED <<con, client, numclients>> /\ ("send" \in failed => "send" \in failed')
    BY <1>4 DEF InitPop, mainloop_start, Top, childqueue_pop_internal, Advance, Fork, Decrement,
                Store, Unmask, Select, Mask, Poll, Kill, Exit, Sent, server, world, vars
  <2> QED BY <1>2, <2>1
<1>5. CASE Accept
  <2>1. CASE Calling = {}
    BY <1>2, <1>5, <2>1 DEF Accept
  <2>2. CASE Calling # {}
    <3>1. PICK c \in Calling :
            \/ /\ numclients' = numclients + 1 /\ con' = con \cup {c}
               /\ client' = [client EXCEPT ![c] = "in"] /\ UNCHANGED <<runflag, failed>>
            \/ SendFails /\ closefd(c, numclients + 1, 2)
      BY <1>5, <2>2 DEF Accept
    <3>2. c \in Clients /\ client[c] = "calling"  BY DEF Calling
    <3>3. CASE SendFails /\ closefd(c, numclients + 1, 2)
      <4>1. "send" \in failed' /\ numclients + 1 \in Int  BY <1>1, <3>3 DEF SendFails, Types
      <4> QED BY <3>2, <3>3, <4>1, CloseOne
    <3>4. CASE /\ numclients' = numclients + 1 /\ con' = con \cup {c}
               /\ client' = [client EXCEPT ![c] = "in"] /\ UNCHANGED <<runflag, failed>>
      <4>1. c \notin con  BY <1>1, <3>2 DEF Connections
      <4>2. /\ IsFiniteSet(con \cup {c})
            /\ Cardinality(con \cup {c}) = Cardinality(con) + 1
        BY <1>1, <4>1, FS_AddElement DEF Connections
      <4>3. con' = {d \in Clients : client'[d] \in {"in", "left"}}
        BY <1>1, <3>2, <3>4 DEF Connections, Types
      <4> QED BY <1>1, <3>4, <4>2, <4>3 DEF Connections
    <3> QED BY <3>1, <3>3, <3>4
  <2> QED BY <2>1, <2>2
<1>6. CASE Read
  <2>1. PICK c \in ready :
          \/ c \in HungUp /\ closefd(c, numclients, 1) /\ UNCHANGED failed
          \/ SendFails /\ c \in con /\ \E k \in {2, 3} : closefd(c, numclients, k)
          \/ UNCHANGED <<numclients, con, client, runflag, failed>>
    BY <1>6 DEF Read
  <2>2. con \subseteq Clients /\ numclients \in Int  BY <1>1 DEF Types
  <2>3. CASE c \in HungUp /\ closefd(c, numclients, 1) /\ UNCHANGED failed
    <3>1. c \in con  BY <2>3 DEF HungUp
    <3> QED BY <2>2, <2>3, <3>1, CloseOne
  <2>4. CASE SendFails /\ c \in con /\ \E k \in {2, 3} : closefd(c, numclients, k)
    <3>1. "send" \in failed'  BY <2>4 DEF SendFails
    <3>2. PICK k \in {2, 3} : closefd(c, numclients, k)  BY <2>4
    <3>3. k \in Nat  OBVIOUS
    <3> QED BY <2>2, <2>4, <3>1, <3>2, <3>3, CloseOne
  <2>5. CASE UNCHANGED <<numclients, con, client, runflag, failed>>
    BY <1>2, <2>5
  <2> QED BY <2>1, <2>3, <2>4, <2>5
<1>7. CASE PostFails
  <2>1. PICK c \in con : SendFails /\ closefd(c, numclients, 1)
    BY <1>7 DEF PostFails
  <2>2. c \in Clients /\ numclients \in Int /\ "send" \in failed'
    BY <1>1, <2>1 DEF Types, SendFails
  <2> QED BY <2>1, <2>2, CloseOne
<1>8. ASSUME NEW c \in Clients, Call(c) \/ HangUp(c) PROVE Connections'
  <2>1. /\ UNCHANGED <<con, numclients, failed>>
        /\ \/ client[c] = "out" /\ client' = [client EXCEPT ![c] = "calling"]
           \/ client[c] = "in" /\ client' = [client EXCEPT ![c] = "left"]
    BY <1>8 DEF Call, HangUp, Move, server
  <2>2. con' = {d \in Clients : client'[d] \in {"in", "left"}}
    BY <1>1, <2>1 DEF Connections, Types
  <2> QED BY <1>1, <2>1, <2>2 DEF Connections
<1> QED BY <1>3, <1>4, <1>5, <1>6, <1>7, <1>8 DEF Next, Server, World

-----------------------------------------------------------------------------
(* The inductive invariant holds in every reachable state.                 *)
THEOREM Invariant == Spec => []IInv
<1>1. IInv /\ [Next]_vars => IInv'
  BY TypesInv, QueueInv, BudgetInv, ConnectionsInv DEF IInv
<1> QED BY InitInv, <1>1, PTL DEF Spec

(* Every variable has its type; no more than two programs' worth of notes  *)
(* is ever in childqueue_pending.                                          *)
THEOREM TypeCorrect == Spec => []TypeOK
<1>1. IInv => TypeOK
  <2> SUFFICES ASSUME IInv PROVE TypeOK  OBVIOUS
  <2>1. Types /\ Budget  BY DEF IInv
  <2>2. pending \in 0..N + 1 /\ loaded \in 0..N + 1
    BY <2>1 DEF Types, Budget
  <2> QED BY <2>1, <2>2 DEF Types, TypeOK, Pcs
<1> QED BY <1>1, Invariant, PTL

(* One program at a time, each after the one before it, and no death       *)
(* starts two.                                                             *)
THEOREM OneAtATime == Spec => []OneProgram
<1>1. IInv => OneProgram
  <2> SUFFICES ASSUME IInv PROVE OneProgram  OBVIOUS
  <2>1. Types /\ Queue /\ Budget  BY DEF IInv
  <2>2. ASSUME NEW j \in Programs, NEW k \in Programs, j < k, child[k] # "queued",
               "fork" \notin failed
        PROVE  child[j] = "reaped"
    <3>1. k < head /\ j < head - 1
      BY <2>1, <2>2 DEF Queue, Types, Programs
    <3>2. child[j] # "queued" /\ ~Alive(j)
      BY <2>1, <2>2, <3>1 DEF Queue, Types, Programs
    <3> QED BY <2>1, <3>2 DEF Alive, Types
  <2> DEFINE A == {k \in Programs : child[k] \in {"running", "zombie"}}
  <2>3. Cardinality(A) + pending <= IF pc \in {"dec", "store"} THEN 2 ELSE 1
    <3>1. CASE A = {}
      <4>1. Cardinality(A) = 0  BY <3>1, FS_EmptySet
      <4> HIDE DEF A
      <4> QED BY <2>1, <4>1 DEF Budget, Types
    <3>2. CASE A # {}
      <4>1. A = {head - 1}  BY <2>1, <3>2 DEF Queue, Alive
      <4>2. Cardinality(A) = 1
        <5> HIDE DEF A
        <5> QED BY <4>1, FS_Singleton
      <4>3. \E k \in Programs : Alive(k)  BY <3>2 DEF Alive
      <4> HIDE DEF A
      <4> QED BY <2>1, <4>2, <4>3 DEF Budget, Types
    <3> QED BY <3>1, <3>2
  <2> QED BY <2>2, <2>3 DEF OneProgram
<1> QED BY <1>1, Invariant, PTL

(* While no send fails, numclients is the number of connections.           *)
THEOREM ClientsCounted == Spec => []CountsClients
<1>1. IInv => CountsClients  BY DEF IInv, Connections, CountsClients
<1> QED BY <1>1, Invariant, PTL

(* While no send fails and no signal says so, the server stops only when   *)
(* its last client leaves and no program is queued.                        *)
THEOREM StopsWithLastOnly == Spec => StopsWithLast
<1>1. ASSUME IInv, [Next]_vars, runflag, ~runflag', sigs' = sigs, "send" \notin failed'
      PROVE  con' = {} /\ head > N
  <2>1. Types /\ Connections  BY <1>1 DEF IInv
  <2>2. ASSUME NEW c \in con, closefd(c, numclients, 1), "send" \notin failed
        PROVE  con' = {} /\ head > N
    <3>0. runflag' = (runflag /\ ~Finished(numclients, 1)) /\ con' = con \ {c}
      BY <2>2 DEF closefd
    <3>a. Finished(numclients, 1)  BY <1>1, <3>0, Zenon
    <3>1. head > N /\ numclients - 1 = 0 /\ con' = con \ {c}
      BY <2>1, <3>0, <3>a DEF Finished, childqueue_is_empty, Types
    <3>2. Cardinality(con) = 1 /\ IsFiniteSet(con)
      BY <2>1, <2>2, <3>1 DEF Connections, Types
    <3>3. Cardinality(con \ {c}) = 0 /\ IsFiniteSet(con \ {c})
      BY <2>2, <3>2, FS_RemoveElement
    <3>4. con \ {c} = {}  BY <3>3, FS_EmptySet
    <3> QED BY <3>1, <3>4
  <2>3. ~signals_handler  BY <1>1, HandlerCases
  <2>4. CASE Read
    <3>1. PICK c \in ready :
            \/ c \in HungUp /\ closefd(c, numclients, 1) /\ UNCHANGED failed
            \/ SendFails
            \/ UNCHANGED runflag
      BY <2>4 DEF Read
    <3>2. ~SendFails  BY <1>1 DEF SendFails
    <3>3. c \in HungUp => c \in con  BY DEF HungUp
    <3> QED BY <1>1, <2>2, <3>1, <3>2, <3>3
  <2>5. ~(InitPop \/ mainloop_start \/ Top \/ childqueue_pop_internal \/ Decrement \/ Store
          \/ Unmask \/ Select \/ Mask \/ Accept \/ PostFails \/ Poll \/ World \/ UNCHANGED vars)
    BY <1>1 DEF InitPop, mainloop_start, Top, childqueue_pop_internal, Decrement, Store, Unmask,
                Select, Mask, Accept, PostFails, Poll, SendFails, World, Kill, Exit, Sent, Call,
                HangUp, Move, server, vars
  <2> QED BY <1>1, <2>3, <2>4, <2>5 DEF Next, Server
<1>2. IInv /\ [Next]_vars =>
        [runflag /\ ~runflag' /\ sigs' = sigs => "send" \in failed' \/ (con' = {} /\ head > N)]_vars
  BY <1>1
<1> QED BY <1>2, Invariant, PTL DEF Spec, StopsWithLast
=============================================================================
