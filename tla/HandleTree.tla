----------------------------- MODULE HandleTree -----------------------------
(***************************************************************************)
(* The red-black tree of gcore/handle.c that maps handle numbers to        *)
(* objects: htree_insert, htree_delete and their fixups, htree_find. The   *)
(* server is single threaded and nothing else runs during one of these.    *)
(* The loop of a fixup is a step for each time it goes round, so that what *)
(* is said of the tree is said of every tree that the next turn meets.     *)
(*                                                                         *)
(* Reading a field through the null pointer is an application of a         *)
(* function outside its domain: a run that finishes shows that no          *)
(* behaviour of the instance does it.                                      *)
(***************************************************************************)
EXTENDS HandleNodes

VARIABLES
  tree,
  loop    \* the fixup that is running, its x, and what htree_delete will free

treevars == <<tree, loop>>

Fixed == [of |-> "none", x |-> NIL, y |-> NIL]

-----------------------------------------------------------------------------
(* Where the search for h goes from n. *)
Towards(t, n, h) == t.kid[IF h < t.id[n] THEN "left" ELSE "right"][n]

htree_find(t, h) ==
  LET next == [n \in Addr |-> IF t.id[n] = h THEN NIL ELSE Towards(t, n, h)]
      end == LoopEnd(next, t.root)
  IN IF t.root # NIL /\ t.id[end] = h THEN end ELSE NULL

(* Where a node numbered h belongs: the leaf that ends the search for it.  *)
LeafFor(t, h) ==
  IF t.root = NIL THEN NULL ELSE LoopEnd([n \in Addr |-> Towards(t, n, h)], t.root)

(* mkhandle fills in a node that malloc returned, and htree_insert.        *)
Insert(t, x, h) ==
  LET p  == LeafFor(t, h)
      t1 == [t EXCEPT !.id[x] = h, !.obj[x] = h, !.red[x] = TRUE,
                      !.parent[x] = p, !.kid["left"][x] = NIL,
                      !.kid["right"][x] = NIL, !.heap = @ \cup {x}]
  IN IF p = NULL THEN [t1 EXCEPT !.root = x]
     ELSE SetKid(t1, IF h < t.id[p] THEN "left" ELSE "right", p, x)

(* One turn of the loop of htree_insertfix.                                *)
Turn(t, x) == [tree |-> t, x |-> x]

InsertFix(t, x) ==
  LET p == t.parent[x]
      g == t.parent[p]
      s == IF p = t.kid["left"][g] THEN "left" ELSE "right"
      uncle == t.kid[Other(s)][g]
      inner == x = t.kid[Other(s)][p]
      t1 == IF inner THEN Rotate(t, s, p) ELSE t
      x1 == IF inner THEN p ELSE x
      p1 == t1.parent[x1]
      g1 == t1.parent[p1]
  IN IF t.red[uncle]
     THEN Turn(Paint(Paint(Paint(t, p, FALSE), uncle, FALSE), g, TRUE), g)
     ELSE Turn(Rotate(Paint(Paint(t1, p1, FALSE), g1, TRUE), Other(s), g1), x1)

-----------------------------------------------------------------------------
(* `w->type |= HFLAG_RED' is an assignment: on the right the test is       *)
(* always true.                                                            *)
SiblingIsRed(t, s, w) == s = "right" \/ t.red[w]

(* The sibling w takes the parent's colour over and rises above it. Its    *)
(* colour bit was cleared first, so `|=' copies the parent's.              *)
Borrow(t, p, s, w) ==
  LET t1 == Paint(Paint(t, w, t.red[p]), p, FALSE)
      t2 == Rotate(Paint(t1, t1.kid[Other(s)][w], FALSE), s, p)
  IN Turn(t2, t2.root)

(* One turn of the loop of htree_deletefix. No x is left if it returns.    *)
DeleteFix(t, x) ==
  LET p == t.parent[x]
      s == IF x = t.kid["left"][p] THEN "left" ELSE "right"
      o == Other(s)
      w0 == t.kid[o][p]
      up == SiblingIsRed(t, s, w0)
      t1 == IF up THEN Rotate(Paint(Paint(t, w0, FALSE), p, TRUE), s, p) ELSE t
      w1 == t1.kid[o][p]
      turn == ~t1.red[t1.kid[o][w1]]
      t2 == IF turn THEN Rotate(Paint(Paint(t1, t1.kid[s][w1], FALSE), w1, TRUE), o, w1)
            ELSE t1
      w2 == t2.kid[o][p]
  IN IF w0 = NIL THEN Turn(t, NIL)
     ELSE IF w1 = NIL THEN Turn(t1, NIL)
     ELSE IF ~t1.red[t1.kid[s][w1]] /\ turn THEN Turn(Paint(t1, w1, TRUE), p)
     ELSE IF w2 = NIL THEN Turn(t2, NIL)
     ELSE Borrow(t2, p, s, w2)

Leftmost(t, n) == LoopEnd([m \in Addr |-> t.kid["left"][m]], n)

Successor(t, z) == Leftmost(t, t.kid["right"][z])

TakeNumber(t, z, y) == [t EXCEPT !.id[z] = t.id[y]]        \* mutant of TakeIdentity
TakeIdentity(t, z, y) == [t EXCEPT !.id[z] = t.id[y], !.obj[z] = t.obj[y]]

(* The node that leaves the tree of z, and the one that takes its place.   *)
Leaver(t, z) ==
  IF t.kid["left"][z] = NIL \/ t.kid["right"][z] = NIL THEN z ELSE Successor(t, z)
OnlyChild(t, y) == IF t.kid["left"][y] # NIL THEN t.kid["left"][y] ELSE t.kid["right"][y]

Unlink(t, y) ==
  LET x == OnlyChild(t, y) IN Relink(Adopt(t, x, t.parent[y]), "left", y, x)

NeedsFix(t, y, x) == ~t.red[y] /\ x # NIL

FreedOther(y, z) == z                                      \* mutant of ToFree
ToFree(y, z) == y

(* The end of htree_delete. *)
g_free(t, y) ==
  Renamed([t EXCEPT !.heap = @ \ {y}, !.kid["left"][y] = NIL, !.kid["right"][y] = NIL,
                    !.parent[y] = NIL, !.red[y] = FALSE, !.id[y] = 0, !.obj[y] = 0])

-----------------------------------------------------------------------------
Lookup(h) == htree_find(tree, h)

TreeInit == tree = EmptyTree /\ loop = Fixed

(* mkhandle: newhandle returned a number that htree_find does not find.    *)
mkhandle(h) ==
  /\ loop = Fixed /\ Lookup(h) = NULL
  /\ tree' = Insert(tree, h, h)
  /\ loop' = [of |-> "insert", x |-> h, y |-> NIL]

InsertFixed == loop.x # tree.root => ~tree.red[tree.parent[loop.x]]

InsertFixTurns ==
  /\ loop.of = "insert" /\ ~InsertFixed
  /\ LET done == InsertFix(tree, loop.x)
     IN tree' = done.tree /\ loop' = [loop EXCEPT !.x = done.x]

InsertFixEnds ==
  /\ loop.of = "insert" /\ InsertFixed
  /\ tree' = BlackRoot(tree) /\ loop' = Fixed

(* handle_free and r_handle_cleanup remove a handle they have found.       *)
htree_delete(h) ==
  /\ loop = Fixed /\ Lookup(h) # NULL
  /\ LET z == Lookup(h)
         y == Leaver(tree, z)
         x == OnlyChild(tree, y)
         t1 == Unlink(tree, y)
         t2 == IF y = z THEN t1 ELSE TakeIdentity(t1, z, y)
     IN IF NeedsFix(tree, y, x)
        THEN tree' = t2 /\ loop' = [of |-> "delete", x |-> x, y |-> ToFree(y, z)]
        ELSE tree' = g_free(t2, ToFree(y, z)) /\ loop' = Fixed

DeleteFixed == loop.x # tree.root => tree.red[loop.x]

DeleteFixTurns ==
  /\ loop.of = "delete" /\ ~DeleteFixed
  /\ LET done == DeleteFix(tree, loop.x)
     IN IF done.x # NIL THEN tree' = done.tree /\ loop' = [loop EXCEPT !.x = done.x]
        ELSE tree' = g_free(done.tree, loop.y) /\ loop' = Fixed

DeleteFixEnds ==
  /\ loop.of = "delete" /\ DeleteFixed
  /\ tree' = g_free(Paint(tree, loop.x, FALSE), loop.y) /\ loop' = Fixed

TreeNext ==
  \/ \E h \in Handle : mkhandle(h) \/ htree_delete(h)
  \/ InsertFixTurns \/ InsertFixEnds \/ DeleteFixTurns \/ DeleteFixEnds

TreeSpec == TreeInit /\ [][TreeNext]_treevars

-----------------------------------------------------------------------------
(* What can be reached from the root.                                      *)
InTree ==
  LET Below[ns \in SUBSET Addr] ==
        LET more == ns \cup ({tree.kid[s][n] : s \in Side, n \in ns} \ {NIL})
        IN IF more = ns THEN ns ELSE Below[more]
  IN Below[{tree.root} \ {NIL}]

(* The sentinel is a constant object: no step changes it, since a write     *)
(* would fault, though the fixups read its colour and children.            *)
SentinelConst ==
  /\ tree.parent[NIL] = NIL /\ \A s \in Side : tree.kid[s][NIL] = NIL
  /\ ~tree.red[NIL] /\ tree.id[NIL] = 0

(* The tree holds every node that is allocated and none that is freed,     *)
(* whichever of two nodes a deletion frees at its end.                     *)
NoNodeLost == InTree = tree.heap \ {loop.y}

(* Parent pointers mirror the child pointers, through every rotation.      *)
ParentLinks ==
  /\ tree.root # NIL => tree.parent[tree.root] = NULL
  /\ \A n \in InTree, s \in Side :
       tree.kid[s][n] # NIL => tree.parent[tree.kid[s][n]] = n

-----------------------------------------------------------------------------
(* What htree_find returns, as a map from handle numbers to objects.       *)
Map == [h \in {k \in Handle : Lookup(k) # NULL} |-> tree.obj[Lookup(h)]]

Abs == INSTANCE HandleMap WITH map <- Map, ObjectOf <- [h \in Handle |-> h]

(* Lookups through the tree behave as lookups in a map, whatever rotations *)
(* and moves of identity happen underneath.                                *)
ImplementsMap == Abs!MapSpec
=============================================================================
