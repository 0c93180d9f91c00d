---------------------------- MODULE HandleTable -----------------------------
(***************************************************************************)
(* Who owns the server's objects: the handles of gcore/handle.c with their *)
(* owners, contexts and groups, and the requests that create, share, move  *)
(* and delete them: mkhandle, handle_free, handle_cleanup, handle_group,   *)
(* handle_dup, handle_chcontext, the context requests of gcore/requests.c, *)
(* and the loaders that group handles: theme_load, wt_load, wt_instantiate. *)
(*                                                                         *)
(* A loader runs the requests of its file one after the other with         *)
(* request_exec, as if its client had sent them, and any of them may be a  *)
(* load again. Whatever number a request returns, the loader calls         *)
(* handle_group with it: a new object, a handle that was there before, of  *)
(* whomever, its own leader, or no handle at all.                          *)
(*                                                                         *)
(* The tree behind htree_find is modelled by HandleTree; here a handle     *)
(* that is in the tree is in the domain of `node'. A handle with the high  *)
(* bit set is looked up in handle_mapping first: the requests below take   *)
(* the handle found there, whichever it is. The server has one thread: it  *)
(* serves one client until its request is done.                            *)
(***************************************************************************)
EXTENDS Integers, Sequences

CONSTANTS
  Client,       \* connections (file descriptors)
  System,       \* the server's own objects: owner -1
  HANDLE_SIZE,  \* handles are numbered 1 .. HANDLE_SIZE - 2
  CTX_HALF,     \* a node's context is in -CTX_HALF .. CTX_HALF - 1 (s8: 128)
  MaxContext,   \* bound: the contexts each client of the model enters
  MaxDepth,     \* bound: the loaders of each client inside one another
  Deltas        \* bound: the changes of context each client asks for

ASSUME HandleTableAssumption ==
  /\ System \notin Client
  /\ HANDLE_SIZE \in Nat /\ HANDLE_SIZE > 2
  /\ CTX_HALF \in Nat \ {0}
  /\ MaxContext \in [Client -> Nat]
  /\ MaxDepth \in [Client -> Nat]
  /\ Deltas \in [Client -> SUBSET Int]

VARIABLES
  node,     \* the handles in the tree
  last,     \* the static counter of newhandle
  context,  \* the context of each connection; -1 while it is closed
  loading   \* the loaders at work, the innermost first

vars == <<node, last, context, loading>>

N == HANDLE_SIZE - 2
Id == 1..N
Owner == Client \cup {System}
Kind == {"object", "template"}

(* `madeIn' records the past: the context the handle was made in, as long  *)
(* as chcontext has not changed it, and -1 afterwards.                     *)
Node == [owner : Owner, group : Id \cup {0}, context : -CTX_HALF..(CTX_HALF - 1),
         kind : Kind, madeIn : Int]

(* A call of theme_load, wt_load or wt_instantiate with its group leader.  *)
Loader == [leader : Id \cup {0}, owner : Client, kind : {"theme", "template", "instance"}]

Used == DOMAIN node
Open == {c \in Client : context[c] >= 0}
Owned(c) == {h \in Used : node[h].owner = c}
Serves(c) == \A i \in DOMAIN loading : loading[i].owner = c

(* A C integer stored into the s8 field `context'.                         *)
Int8(x) == ((x + CTX_HALF) % (2 * CTX_HALF)) - CTX_HALF

(* newhandle counts up from the last number given and wraps around, over   *)
(* the numbers in use. It loops for ever when all are.                     *)
Distance(l, h) == (h - l - 1 + N) % N
IsNew(h) ==
  /\ h \in Id \ Used
  /\ \A k \in Id \ Used : Distance(last, h) <= Distance(last, k)

(* mkhandle, with the context its owner is in; group is 0 until handle_group. *)
NodeFor(c, kind) ==
  LET ctx == IF c = System THEN -1 ELSE context[c]
  IN [owner |-> c, group |-> 0, context |-> Int8(ctx), kind |-> kind, madeIn |-> ctx]

With(t, h, n) == [k \in DOMAIN t \cup {h} |-> IF k = h THEN n ELSE t[k]]

NewOwner(l) == IF l.kind = "theme" THEN System ELSE l.owner

(* handle_group, by which a theme gives its members to everyone. It is     *)
(* refused unless both are in the tree and belong to the caller, and the   *)
(* loaders ignore the refusal.                                             *)
GroupedAny(t, l, h) ==                                    \* mutant of Grouped
  IF {l.leader, h} \subseteq DOMAIN t /\ t[l.leader].owner = l.owner
  THEN With(t, h, [t[h] EXCEPT !.group = l.leader, !.owner = NewOwner(l)])
  ELSE t
Grouped(t, l, h) ==
  IF /\ {l.leader, h} \subseteq DOMAIN t
     /\ t[l.leader].owner = l.owner /\ t[h].owner = l.owner
  THEN With(t, h, [t[h] EXCEPT !.group = l.leader, !.owner = NewOwner(l)])
  ELSE t

(* A request that leaves the table t returns ret, to a loader when there   *)
(* is one.                                                                 *)
Returned(t, ret, loaders) ==
  IF loaders = <<>> THEN t ELSE Grouped(t, Head(loaders), ret)

Return(t, ret) ==
  /\ node' = Returned(t, ret, loading)
  /\ UNCHANGED loading

-----------------------------------------------------------------------------
(* What handle_free and r_handle_cleanup remove with a set of handles: the *)
(* members of their groups, the members of theirs, and so on.              *)
NoExpunge(S) == S                                            \* mutant of Doomed
Doomed(S) ==
  {h \in Used :
     \A C \in SUBSET Used :
       (S \subseteq C /\ \A m \in Used : node[m].group \in C => m \in C) => h \in C}

Kept(S) == LET gone == Doomed(S) IN [h \in Used \ gone |-> node[h]]

(* handle_cleanup(owner, ctx): a negative ctx stands for all contexts.     *)
InContext(c, ctx) == {h \in Owned(c) : ctx < 0 \/ node[h].context = ctx}

-----------------------------------------------------------------------------
Init ==
  /\ node = [h \in {} |-> 0]
  /\ last = 1
  /\ context = [c \in Client |-> -1]
  /\ loading = <<>>

Connect(c) ==
  /\ c \notin Open /\ loading = <<>>
  /\ context' = [context EXCEPT ![c] = 0]
  /\ UNCHANGED <<node, last, loading>>

(* closefd, when the client went away; its number is used again by accept. *)
CloseTop(c) == InContext(c, context[c])                \* mutant of ClosedBy
ClosedBy(c) == InContext(c, -1)

Close(c) ==
  /\ loading = <<>>
  /\ node' = Kept(ClosedBy(c))
  /\ context' = [context EXCEPT ![c] = -1]
  /\ UNCHANGED <<last, loading>>

(* Any request that makes one object: a string, a bitmap, a widget.        *)
Make(c) ==
  \E h \in Id :
    /\ IsNew(h)
    /\ Return(With(node, h, NodeFor(c, "object")), h)
    /\ last' = h
    /\ UNCHANGED context

(* A request that changes no handle: its answer is a payload, a size, a    *)
(* handle that was there.                                                  *)
Query(c) ==
  /\ \E ret \in Id \cup {0} : Return(node, ret)
  /\ UNCHANGED <<last, context>>

(* rdhandle: one's own handles and the server's.                           *)
Readable(c) == Owned(c) \cup Owned(System)

(* handle_dup of an object that can be duplicated.                         *)
Dup(c, src) ==
  /\ src \in Readable(c) /\ node[src].kind = "object"
  /\ Make(c)

Free(c, h) ==
  /\ h \in Owned(c)
  /\ Return(Kept({h}), 0)
  /\ UNCHANGED <<last, context>>

(* It returns the number of the context, which may be that of a handle.    *)
MkContext(c) ==
  /\ context[c] < MaxContext[c]
  /\ context' = [context EXCEPT ![c] = @ + 1]
  /\ \E ret \in Id \cup {0} : Return(node, ret)
  /\ UNCHANGED last

(* rmcontext without an argument: the stack.                               *)
ContextBelow(c) == context[c] - 1                         \* mutant of ContextLeft
ContextLeft(c) == context[c]

RmContext(c) ==
  /\ context[c] > 0
  /\ Return(Kept(InContext(c, ContextLeft(c))), 0)
  /\ context' = [context EXCEPT ![c] = @ - 1]
  /\ UNCHANGED last

(* rmcontext with an argument: one context, by number.                     *)
RmContextNumber(c, ctx) ==
  /\ Return(Kept(InContext(c, ctx)), 0)
  /\ UNCHANGED <<last, context>>

ChContext(c, h, delta) ==
  /\ h \in Owned(c)
  /\ Return(With(node, h, [node[h] EXCEPT !.context = Int8(@ + delta), !.madeIn = -1]), 0)
  /\ UNCHANGED <<last, context>>

-----------------------------------------------------------------------------
(* theme_load and wt_load make the group leader first.                     *)
LeaderKind(kind) == IF kind = "template" THEN "template" ELSE "object"

Load(c, kind) ==
  /\ Len(loading) < MaxDepth[c]
  /\ \E h \in Id :
       /\ IsNew(h)
       /\ node' = With(node, h, NodeFor(c, LeaderKind(kind)))
       /\ last' = h
       /\ loading' = <<[leader |-> h, owner |-> c, kind |-> kind]>> \o loading
  /\ UNCHANGED context

(* handle_dup of a template: wt_instantiate groups with it. A template     *)
(* named through handle_mapping is not found when handle_group looks for   *)
(* it, because the mapping is taken away before. Of a template whose load  *)
(* failed the memory is gone: what is run then may be anything.            *)
Instantiate(c, t) ==
  /\ t \in Readable(c) /\ node[t].kind = "template"
  /\ Len(loading) < MaxDepth[c]
  /\ \E leader \in {t, 0} :
       loading' = <<[leader |-> leader, owner |-> c, kind |-> "instance"]>> \o loading
  /\ UNCHANGED <<node, last, context>>

(* The end of the file. A load returns its leader, and an instance what    *)
(* the first entry of its handle table holds.                              *)
LoadEnds(c) ==
  /\ loading # <<>>
  /\ \E ret \in Id \cup {0} :
       /\ Head(loading).kind # "instance" => ret = Head(loading).leader
       /\ node' = Returned(node, ret, Tail(loading))
  /\ loading' = Tail(loading)
  /\ UNCHANGED <<last, context>>

(* A request of the file fails or the file is bad: so fail the loaders     *)
(* around it. theme_load frees its theme, with what it has grouped; wt_load *)
(* frees its template only when its last allocation fails, and leaves the  *)
(* handle otherwise.                                                       *)
Abandoned(c) ==
  {h \in Owned(c) : \E i \in DOMAIN loading : loading[i].kind = "theme" /\ loading[i].leader = h}

LoadFails(c) ==
  /\ loading # <<>>
  /\ \/ node' = Kept(Abandoned(c))
     \/ /\ Head(loading).kind = "template"
        /\ node' = Kept(Abandoned(c) \cup ({Head(loading).leader} \cap Owned(c)))
  /\ loading' = <<>>
  /\ UNCHANGED <<last, context>>

-----------------------------------------------------------------------------
SystemFree(h) ==
  /\ h \in Owned(System) /\ node[h].group = 0 /\ loading = <<>>
  /\ node' = Kept({h})
  /\ UNCHANGED <<last, context, loading>>

Request(c) ==
  \/ Make(c)
  \/ Query(c)
  \/ \E kind \in {"theme", "template"} : Load(c, kind)
  \/ \E h \in Used : Dup(c, h) \/ Instantiate(c, h) \/ Free(c, h)
  \/ LoadEnds(c) \/ LoadFails(c)
  \/ MkContext(c) \/ RmContext(c)
  \/ \E ctx \in -1..MaxContext[c] : RmContextNumber(c, ctx)
  \/ \E h \in Used, delta \in Deltas[c] : ChContext(c, h, delta)

ClientStep(c) == c \in Open /\ Serves(c) /\ (Request(c) \/ Close(c))

Next ==
  \/ \E c \in Client : Connect(c) \/ ClientStep(c)
  \/ loading = <<>> /\ Make(System)
  \/ \E h \in Used : SystemFree(h)

Spec == Init /\ [][Next]_vars

-----------------------------------------------------------------------------
(* Type invariant.                                                         *)
TypeOK ==
  /\ Used \subseteq Id
  /\ \A h \in Used : node[h] \in Node
  /\ last \in Id
  /\ context \in [Client -> Int]
  /\ loading \in Seq(Loader)

(* closefd leaves no handle of a connection behind, whatever the loaders   *)
(* did with owners and groups: the next client of that number would own it. *)
OwnersOpen == \A h \in Used : node[h].owner \in Open \cup {System}

(* Nothing survives the leader of its group, through nested groups and     *)
(* numbers that are given again, also when the leader went away while its  *)
(* file was still being loaded.                                            *)
LeadersLive == \A h \in Used : node[h].group \in Used \cup {0}

(* Nothing made in a context outlives it, for the contexts that a node can *)
(* number: unless its context was changed, a handle lies no deeper than    *)
(* its owner. What is made in deeper contexts stays (gcore/requests.c:584). *)
ContextStack ==
  \A h \in Used :
    node[h].owner \in Open /\ node[h].madeIn < CTX_HALF
      => node[h].madeIn <= context[node[h].owner]

(* Whatever a client asks for, in requests or in the files it loads, no    *)
(* handle that another client owns disappears or changes.                  *)
ForeignKept ==
  [][\A c \in Client :
       (\E h \in Used :
          /\ node[h].owner \in Client \ {c}
          /\ h \in DOMAIN node' => node'[h] # node[h])
         => ~ClientStep(c)]_vars

=============================================================================
