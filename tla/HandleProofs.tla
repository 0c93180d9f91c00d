---------------------------- MODULE HandleProofs ----------------------------
(***************************************************************************)
(* Proofs about gcore/handle.c, for any number of handles, connections and *)
(* contexts: first the tree of HandleTree, then the ownership of           *)
(* HandleTable, which takes the tree for a map.                            *)
(***************************************************************************)
EXTENDS HandleTable, HandleTree, FiniteSetTheorems, WellFoundedInduction, TLAPS

-----------------------------------------------------------------------------
(***************************************************************************)
(* The tree. What a pointer leads to, and no path, is spoken of: each node *)
(* has bounds, between which its number and those of the nodes below it    *)
(* lie, and bounds that fit the links of every node and its parent are     *)
(* what makes it a search tree. Rotations, the removal of a node and the   *)
(* move of an identity change the bounds of the nodes they touch only. The *)
(* fixups need one fact about the colours: a root is black, but the one    *)
(* that a loop is at.                                                      *)
(***************************************************************************)

(* The tree, with bounds: the numbers of a node and of what is below it    *)
(* lie between b["left"] and b["right"] of the node. A child takes over    *)
(* the bound on its side and has the number of its parent on the other.    *)
MaxHandle == CHOOSE m \in Handle : \A h \in Handle : h <= m

Bound  == 0..(MaxHandle + 1)
Bounds == [Side -> [Addr -> Bound]]
InRange(h, b, n) == b["left"][n] < h /\ h < b["right"][n]
Width(b, n) == b["right"][n] - b["left"][n]

Sentinel(t) ==
  /\ t.parent[NIL] = NIL /\ \A s \in Side : t.kid[s][NIL] = NIL
  /\ ~t.red[NIL] /\ t.id[NIL] = 0

Child(t, T, b, n, s) ==
  LET k == t.kid[s][n]
  IN k = NIL \/ (k \in T /\ t.parent[k] = n /\ b[s][k] = b[s][n] /\ b[Other(s)][k] = t.id[n])

Shape(t, T, b) ==
  /\ t \in Tree /\ T \subseteq Addr /\ b \in Bounds /\ Sentinel(t)
  /\ t.root \in T \cup {NIL}
  /\ t.root # NIL =>
       t.parent[t.root] = NULL /\ b["left"][t.root] = 0 /\ b["right"][t.root] = MaxHandle + 1
  /\ \A n \in T : t.id[n] \in Handle /\ InRange(t.id[n], b, n)
  /\ \A n \in T, s \in Side : Child(t, T, b, n, s)
  /\ \A n \in T : n # t.root => t.parent[n] \in T /\ \E s \in Side : t.kid[s][t.parent[n]] = n

LEMMA Addresses ==
  /\ Handle \subseteq Nat /\ 0 \notin Handle /\ Addr = Handle
  /\ NIL \notin Addr /\ NULL \notin Addr /\ NIL # NULL /\ NULL \notin Cell
  /\ MaxHandle \in Handle /\ \A h \in Handle : h <= MaxHandle
<1>1. \E m \in Handle : \A h \in Handle : h <= m
  BY HandleNodesAssumption DEF HandleNodesAssumption
<1>2. MaxHandle \in Handle /\ \A h \in Handle : h <= MaxHandle  BY <1>1 DEF MaxHandle
<1> QED BY <1>2, HandleNodesAssumption DEF HandleNodesAssumption, Addr, Cell

LEMMA Sides ==
  ASSUME NEW s \in Side
  PROVE  /\ Other(s) \in Side /\ Other(s) # s /\ Other(Other(s)) = s
         /\ \A s2 \in Side : s2 = s \/ s2 = Other(s)
BY DEF Side, Other

-----------------------------------------------------------------------------
(* What the writes to a node do, field by field.                           *)
OnlyKids(t, r) ==
  /\ r \in Tree /\ r.parent = t.parent /\ r.red = t.red /\ r.id = t.id
  /\ r.obj = t.obj /\ r.heap = t.heap

KidSet(t, r, s, x, y) ==
  /\ OnlyKids(t, r) /\ r.root = t.root
  /\ \A s2 \in Side, n \in Cell :
       r.kid[s2][n] = IF s2 = s /\ n = x THEN y ELSE t.kid[s2][n]

Relinked(t, r, x, y) ==
  /\ OnlyKids(t, r) /\ r.root = IF t.parent[x] = NULL THEN y ELSE t.root
  /\ \A s2 \in Side, n \in Cell :
       r.kid[s2][n] = IF n = t.parent[x] /\ t.kid[s2][n] = x THEN y ELSE t.kid[s2][n]

Adopted(t, r, x, p) ==
  /\ r \in Tree /\ r.root = t.root /\ r.kid = t.kid /\ r.red = t.red /\ r.id = t.id
  /\ r.obj = t.obj /\ r.heap = t.heap
  /\ \A n \in Cell : r.parent[n] = IF n = x /\ x # NIL THEN p ELSE t.parent[n]

Painted(t, r, x, c) ==
  /\ r \in Tree /\ r.root = t.root /\ r.kid = t.kid /\ r.parent = t.parent /\ r.id = t.id
  /\ r.obj = t.obj /\ r.heap = t.heap
  /\ r.red[x] = c /\ \A n \in Cell : n # x => r.red[n] = t.red[n]

LEMMA SetKidIs ==
  ASSUME NEW t \in Tree, NEW s \in Side, NEW x \in Cell, NEW y \in Cell
  PROVE  KidSet(t, SetKid(t, s, x, y), s, x, y)
BY DEF SetKid, Tree, KidSet, OnlyKids

LEMMA AdoptIs ==
  ASSUME NEW t \in Tree, NEW x \in Cell, NEW p \in Link
  PROVE  Adopted(t, Adopt(t, x, p), x, p)
BY DEF Adopt, SetParent, Tree, Adopted

LEMMA PaintIs ==
  ASSUME NEW t \in Tree, NEW x \in Cell, NEW c \in BOOLEAN
  PROVE  Painted(t, Paint(t, x, c), x, c)
BY DEF Paint, Tree, Painted

LEMMA RelinkIs ==
  ASSUME NEW t \in Tree, NEW s \in Side, NEW x \in Addr, NEW y \in Cell,
         t.parent[x] = NULL \/ (t.parent[x] \in Addr /\ \E s2 \in Side : t.kid[s2][t.parent[x]] = x),
         t.parent[x] # NULL => t.kid["left"][t.parent[x]] # t.kid["right"][t.parent[x]]
  PROVE  Relinked(t, Relink(t, s, x, y), x, y)
<1>1. CASE t.parent[x] = NULL
  BY <1>1, Addresses DEF Relink, Tree, Relinked, OnlyKids
<1>2. CASE t.parent[x] # NULL
  <2> DEFINE p == t.parent[x]
             side == IF t.kid[s][p] = x THEN s ELSE Other(s)
  <2>1. p \in Addr /\ p \in Cell /\ x \in Cell  BY <1>2 DEF Cell
  <2>2. side \in Side /\ t.kid[side][p] = x  BY <1>2, Sides
  <2>3. \A s2 \in Side : s2 # side => t.kid[s2][p] # x  BY <1>2, <2>2 DEF Side
  <2>4. Relink(t, s, x, y) = SetKid(t, side, p, y)  BY <1>2 DEF Relink
  <2>5. KidSet(t, SetKid(t, side, p, y), side, p, y)  BY <2>1, <2>2, SetKidIs
  <2> HIDE DEF side
  <2> QED BY <1>2, <2>2, <2>3, <2>4, <2>5 DEF Relinked, KidSet
<1> QED BY <1>1, <1>2

-----------------------------------------------------------------------------
(* A child has its own part of its parent's numbers; no node is a child    *)
(* twice, or a grandchild of itself.                                       *)
LEMMA ShapeTypes ==
  ASSUME NEW t, NEW T, NEW b, Shape(t, T, b), NEW n \in T
  PROVE  /\ n \in Addr /\ n \in Cell /\ n # NIL /\ n # NULL
         /\ t.id[n] \in Handle /\ t.id[n] \in Nat /\ t.id[n] \in Bound
         /\ \A s \in Side : b[s][n] \in Bound /\ b[s][n] \in Nat /\ t.kid[s][n] \in T \cup {NIL} /\ t.kid[s][n] \in Cell
         /\ b["left"][n] \in Nat /\ b["right"][n] \in Nat /\ Width(b, n) \in Nat
         /\ t.parent[n] \in T \cup {NULL} /\ t.parent[n] \in Link
<1>1. n \in Addr /\ n \in Cell /\ n # NIL /\ n # NULL  BY Addresses DEF Shape, Cell
<1>0. Bound \subseteq Nat /\ Handle \subseteq Bound  BY Addresses DEF Bound
<1>2. t.id[n] \in Handle /\ t.id[n] \in Nat /\ t.id[n] \in Bound  BY <1>0 DEF Shape
<1>3. b["left"][n] \in Nat /\ b["right"][n] \in Nat  BY <1>0, <1>1 DEF Shape, Bounds, Side
<1>4. Width(b, n) \in Nat  BY <1>2, <1>3 DEF Shape, InRange, Width
<1>5. \A s \in Side : b[s][n] \in Bound /\ b[s][n] \in Nat  BY <1>0, <1>1 DEF Shape, Bounds
<1>6. ASSUME NEW s \in Side PROVE t.kid[s][n] \in T \cup {NIL} /\ t.kid[s][n] \in Cell
  <2>1. Child(t, T, b, n, s) /\ T \subseteq Addr  BY DEF Shape
  <2> QED BY <2>1 DEF Child, Cell
<1>7. t.parent[n] \in T \cup {NULL}
  <2>1. CASE n = t.root  BY <2>1, <1>1 DEF Shape
  <2>2. CASE n # t.root  BY <2>2 DEF Shape
  <2> QED BY <2>1, <2>2
<1>8. t.parent[n] \in Link  BY <1>7 DEF Shape, Link, Cell
<1> QED BY <1>1, <1>2, <1>3, <1>4, <1>5, <1>6, <1>7, <1>8

LEMMA ChildRange ==
  ASSUME NEW t, NEW T, NEW b, Shape(t, T, b), NEW n \in T, NEW s \in Side, t.kid[s][n] # NIL
  PROVE  LET k == t.kid[s][n]
         IN /\ k \in T /\ t.parent[k] = n /\ k # t.root
            /\ b[s][k] = b[s][n] /\ b[Other(s)][k] = t.id[n]
            /\ Width(b, k) < Width(b, n)
            /\ \A h \in Nat : InRange(h, b, k) => InRange(h, b, n)
            /\ ~InRange(t.id[n], b, k) /\ InRange(t.id[k], b, n)
            /\ \A h \in Nat : InRange(h, b, n) =>
                 \/ h = t.id[n]
                 \/ InRange(h, b, k) /\ (s = "left" <=> h < t.id[n])
                 \/ ~InRange(h, b, k) /\ (s = "right" <=> h < t.id[n])
<1> DEFINE k == t.kid[s][n]
<1>1. k \in T /\ t.parent[k] = n /\ b[s][k] = b[s][n] /\ b[Other(s)][k] = t.id[n]
  BY DEF Shape, Child
<1>2. InRange(t.id[n], b, n) /\ InRange(t.id[k], b, k)  BY <1>1 DEF Shape
<1>2a. n # NULL /\ t.id[n] \in Nat /\ k # NIL /\ t.id[k] \in Nat  BY <1>1, ShapeTypes
<1>3. k # t.root  BY <1>1, <1>2a DEF Shape
<1>4. \/ s = "left" /\ b["left"][k] = b["left"][n] /\ b["right"][k] = t.id[n]
      \/ s = "right" /\ b["right"][k] = b["right"][n] /\ b["left"][k] = t.id[n]
  BY <1>1 DEF Side, Other
<1>5. b["left"][n] \in Nat /\ b["right"][n] \in Nat /\ b["left"][k] \in Nat /\ b["right"][k] \in Nat
  BY <1>1, ShapeTypes
<1> HIDE DEF k
<1>6. /\ Width(b, k) < Width(b, n)
      /\ \A h \in Nat : InRange(h, b, k) => InRange(h, b, n)
      /\ ~InRange(t.id[n], b, k) /\ InRange(t.id[k], b, n)
      /\ \A h \in Nat : InRange(h, b, n) =>
           \/ h = t.id[n]
           \/ InRange(h, b, k) /\ (s = "left" <=> h < t.id[n])
           \/ ~InRange(h, b, k) /\ (s = "right" <=> h < t.id[n])
  BY <1>2, <1>2a, <1>4, <1>5 DEF InRange, Width
<1> QED BY <1>1, <1>3, <1>6 DEF k

LEMMA TwoChildren ==
  ASSUME NEW t, NEW T, NEW b, Shape(t, T, b), NEW n \in T,
         t.kid["left"][n] # NIL \/ t.kid["right"][n] # NIL
  PROVE  t.kid["left"][n] # t.kid["right"][n]
<1> SUFFICES ASSUME t.kid["left"][n] = t.kid["right"][n] PROVE FALSE
  OBVIOUS
<1> DEFINE k == t.kid["left"][n]
<1>1. k \in T /\ b["right"][k] = t.id[n] /\ b["left"][k] = t.id[n]
  BY ChildRange DEF Side, Other
<1>2. t.id[k] \in Nat /\ t.id[n] \in Nat  BY <1>1, ShapeTypes
<1>3. InRange(t.id[k], b, k)  BY <1>1 DEF Shape
<1> QED BY <1>1, <1>2, <1>3 DEF InRange

LEMMA ParentFacts ==
  ASSUME NEW t, NEW T, NEW b, Shape(t, T, b), NEW n \in T
  PROVE  LET p == t.parent[n]
         IN /\ n = t.root <=> p = NULL
            /\ p # NULL => /\ p \in T /\ p # n /\ Width(b, n) < Width(b, p)
                           /\ \E s \in Side : t.kid[s][p] = n
                           /\ t.kid["left"][p] # t.kid["right"][p]
                           /\ \A s \in Side : t.kid[s][n] # p
<1> DEFINE p == t.parent[n]
<1>0. n # NIL  BY ShapeTypes
<1>1. n = t.root => p = NULL  BY <1>0 DEF Shape
<1>2. n # t.root => p \in T /\ p # NULL /\ \E s \in Side : t.kid[s][p] = n
  <2>1. n # t.root => p \in T /\ \E s \in Side : t.kid[s][p] = n  BY DEF Shape
  <2>2. p \in T => p # NULL  BY ShapeTypes
  <2> QED BY <2>1, <2>2
<1>3. ASSUME p # NULL PROVE p # n /\ Width(b, n) < Width(b, p) /\ \A s \in Side : t.kid[s][n] # p
  <2>1. PICK s \in Side : t.kid[s][p] = n  BY <1>1, <1>2, <1>3
  <2>2. p \in T /\ n # NIL  BY <1>1, <1>2, <1>3, ShapeTypes
  <2>3. Width(b, n) < Width(b, p) /\ Width(b, n) \in Nat /\ Width(b, p) \in Nat
    BY <2>1, <2>2, ChildRange, ShapeTypes
  <2>4. ASSUME NEW s2 \in Side, t.kid[s2][n] = p PROVE FALSE
    <3>1. Width(b, p) < Width(b, n)  BY <2>2, <2>4, ChildRange, ShapeTypes
    <3> QED BY <2>3, <3>1
  <2> QED BY <2>3, <2>4
<1>4. ASSUME p # NULL PROVE t.kid["left"][p] # t.kid["right"][p]
  <2>1. PICK s \in Side : t.kid[s][p] = n  BY <1>1, <1>2, <1>4
  <2>2. p \in T /\ n # NIL  BY <1>1, <1>2, <1>4, ShapeTypes
  <2> QED BY <2>1, <2>2, TwoChildren DEF Side
<1> QED BY <1>1, <1>2, <1>3, <1>4

-----------------------------------------------------------------------------
(* A rotation: y, the child of x away from side s, takes the place of x,   *)
(* which becomes its child on that side; what was there goes to x.         *)
Rotated(t, r, s, x) ==
  LET o == Other(s)
      y == t.kid[o][x]
      inner == t.kid[s][y]
      p == t.parent[x]
  IN /\ r \in Tree /\ r.red = t.red /\ r.id = t.id /\ r.obj = t.obj /\ r.heap = t.heap
     /\ r.root = IF p = NULL THEN y ELSE t.root
     /\ \A n \in Cell :
          r.parent[n] = IF n = y THEN p ELSE IF n = x THEN y
                        ELSE IF n = inner /\ n # NIL THEN x ELSE t.parent[n]
     /\ \A s2 \in Side, n \in Cell :
          r.kid[s2][n] = IF n = x /\ s2 = o THEN inner ELSE IF n = y /\ s2 = s THEN x
                         ELSE IF n = p /\ t.kid[s2][n] = x THEN y ELSE t.kid[s2][n]

LEMMA RotateIs ==
  ASSUME NEW t, NEW T, NEW b, Shape(t, T, b), NEW x \in T, NEW s \in Side,
         t.kid[Other(s)][x] # NIL
  PROVE  Rotated(t, Rotate(t, s, x), s, x)
<1> DEFINE o == Other(s)
           y == t.kid[o][x]
           inner == t.kid[s][y]
           p == t.parent[x]
           t1 == SetKid(t, o, x, inner)
           t2 == Adopt(t1, inner, x)
           t3 == Adopt(t2, y, p)
           t4 == Relink(t3, s, x, y)
           t5 == SetKid(t4, s, y, x)
           r == Adopt(t5, x, y)
<1>0. o \in Side /\ o # s /\ \A s2 \in Side : s2 = s \/ s2 = o  BY Sides
<1>1. y \in T /\ t.parent[y] = x /\ y # t.root  BY <1>0, ChildRange
<1>2. x \in Addr /\ x \in Cell /\ x # NIL /\ x # NULL /\ p \in T \cup {NULL} /\ p \in Link
  BY ShapeTypes
<1>3. y \in Addr /\ y \in Cell /\ y # NIL /\ y # NULL /\ inner \in T \cup {NIL} /\ inner \in Cell
  BY <1>1, ShapeTypes
<1>4. y # x  BY <1>1, <1>2, ParentFacts
<1>5. inner # x /\ inner # y
  <2>1. inner # x  BY <1>1, <1>2, ParentFacts
  <2>2. CASE inner = NIL  BY <2>1, <2>2, <1>3
  <2>3. CASE inner # NIL
    <3>1. t.parent[inner] = y  BY <2>3, <1>1, ChildRange
    <3> QED BY <2>1, <3>1, <1>1, <1>4
  <2> QED BY <2>1, <2>2, <2>3
<1>6. p # NULL => /\ p \in T /\ p # x /\ p # y /\ (\E s2 \in Side : t.kid[s2][p] = x)
                  /\ t.kid["left"][p] # t.kid["right"][p] /\ p \in Addr /\ p \in Cell
  <2>1. p # NULL => p \in T /\ p # x /\ (\E s2 \in Side : t.kid[s2][p] = x)
                      /\ t.kid["left"][p] # t.kid["right"][p] /\ (\A s2 \in Side : t.kid[s2][x] # p)
    BY ParentFacts
  <2>2. p \in T => p \in Addr /\ p \in Cell  BY ShapeTypes
  <2> QED BY <2>1, <2>2, <1>0
<1>7. t \in Tree /\ x \in Link /\ Sentinel(t)  BY <1>2 DEF Shape, Link
<1>t1. KidSet(t, t1, o, x, inner)  BY <1>0, <1>2, <1>3, <1>7, SetKidIs
<1>t2. Adopted(t1, t2, inner, x)  BY <1>t1, <1>3, <1>7, AdoptIs DEF KidSet, OnlyKids
<1>8. t2.parent[x] = p
  BY <1>t1, <1>t2, <1>2, <1>5 DEF KidSet, Adopted, OnlyKids
<1>t3. Adopted(t2, t3, y, p)
  <2>1. t2 \in Tree  BY <1>t2 DEF Adopted
  <2> QED BY <2>1, <1>2, <1>3, AdoptIs
<1> HIDE DEF t1, t2, t3
<1>9. t3 \in Tree /\ t3.parent[x] = p /\ t3.root = t.root
        /\ \A s2 \in Side, n \in Cell : t3.kid[s2][n] = t1.kid[s2][n]
  BY <1>t1, <1>t2, <1>t3, <1>8, <1>2, <1>4 DEF KidSet, OnlyKids, Adopted
<1>10. p # NULL => \A s2 \in Side : t3.kid[s2][p] = t.kid[s2][p]
  BY <1>6, <1>9, <1>t1 DEF KidSet
<1>t4. Relinked(t3, t4, x, y)
  <2>1. p = NULL \/ (p \in Addr /\ \E s2 \in Side : t3.kid[s2][p] = x)  BY <1>6, <1>10
  <2>2. p # NULL => t3.kid["left"][p] # t3.kid["right"][p]  BY <1>6, <1>10 DEF Side
  <2> QED BY <2>1, <2>2, <1>2, <1>3, <1>9, RelinkIs
<1> HIDE DEF t4
<1>t5. KidSet(t4, t5, s, y, x)  BY <1>t4, <1>2, <1>3, SetKidIs DEF Relinked, OnlyKids
<1> HIDE DEF t5
<1>r. Adopted(t5, r, x, y)
  <2>1. y \in Link  BY <1>3 DEF Link
  <2> QED BY <2>1, <1>t5, <1>2, AdoptIs DEF KidSet, OnlyKids
<1>11. Rotate(t, s, x) = r  BY <1>8 DEF Rotate, t1, t2, t3, t4, t5
<1> HIDE DEF r
<1>12. r \in Tree /\ r.red = t.red /\ r.id = t.id /\ r.obj = t.obj /\ r.heap = t.heap
  BY <1>t1, <1>t2, <1>t3, <1>t4, <1>t5, <1>r DEF KidSet, OnlyKids, Adopted, Relinked
<1>13. r.root = IF p = NULL THEN y ELSE t.root
  BY <1>9, <1>t4, <1>t5, <1>r DEF KidSet, OnlyKids, Adopted, Relinked
<1>14. ASSUME NEW n \in Cell
       PROVE  r.parent[n] = IF n = y THEN p ELSE IF n = x THEN y
                            ELSE IF n = inner /\ n # NIL THEN x ELSE t.parent[n]
  <2>1. t1.parent[n] = t.parent[n]  BY <1>t1 DEF KidSet, OnlyKids
  <2>2. t2.parent[n] = IF n = inner /\ inner # NIL THEN x ELSE t1.parent[n]
    BY <1>t2 DEF Adopted
  <2>3. t3.parent[n] = IF n = y THEN p ELSE t2.parent[n]  BY <1>t3, <1>3 DEF Adopted
  <2>4. t5.parent[n] = t3.parent[n]  BY <1>t4, <1>t5 DEF KidSet, OnlyKids, Relinked
  <2>5. r.parent[n] = IF n = x THEN y ELSE t5.parent[n]  BY <1>r, <1>2 DEF Adopted
  <2> QED BY <2>1, <2>2, <2>3, <2>4, <2>5, <1>4
<1>15. ASSUME NEW s2 \in Side, NEW n \in Cell
       PROVE  r.kid[s2][n] = IF n = x /\ s2 = o THEN inner ELSE IF n = y /\ s2 = s THEN x
                             ELSE IF n = p /\ t.kid[s2][n] = x THEN y ELSE t.kid[s2][n]
  <2>1. t3.kid[s2][n] = IF s2 = o /\ n = x THEN inner ELSE t.kid[s2][n]
    BY <1>9, <1>t1 DEF KidSet
  <2>2. t4.kid[s2][n] = IF n = p /\ t3.kid[s2][n] = x THEN y ELSE t3.kid[s2][n]
    BY <1>t4, <1>9 DEF Relinked
  <2>3. t5.kid[s2][n] = IF s2 = s /\ n = y THEN x ELSE t4.kid[s2][n]  BY <1>t5 DEF KidSet
  <2>4. r.kid[s2][n] = t5.kid[s2][n]  BY <1>r DEF Adopted
  <2>5. n = p => n # x /\ n # y  BY <1>6, <1>2, <1>3
  <2> QED BY <2>1, <2>2, <2>3, <2>4, <2>5, <1>4, <1>5
<1> QED BY <1>11, <1>12, <1>13, <1>14, <1>15 DEF Rotated

SoundTree(t, T) == \E b : Shape(t, T, b)

LEMMA RotateKeeps ==
  ASSUME NEW t, NEW T, NEW b, Shape(t, T, b), NEW x \in T, NEW s \in Side,
         t.kid[Other(s)][x] # NIL
  PROVE  SoundTree(Rotate(t, s, x), T)
<1> DEFINE o == Other(s)
           y == t.kid[o][x]
           inner == t.kid[s][y]
           p == t.parent[x]
           b2 == [s2 \in Side |-> [n \in Addr |->
                    IF s2 = s /\ n = y THEN b[s][x]
                    ELSE IF s2 = o /\ n = x THEN t.id[y] ELSE b[s2][n]]]
<1> SUFFICES ASSUME NEW r, Rotated(t, r, s, x) PROVE Shape(r, T, b2)
  BY RotateIs DEF SoundTree
<1>0. o \in Side /\ o # s /\ Other(o) = s /\ \A s2 \in Side : s2 = s \/ s2 = o  BY Sides
<1>1. /\ y \in T /\ t.parent[y] = x /\ y # t.root
      /\ b[o][y] = b[o][x] /\ b[s][y] = t.id[x] /\ InRange(t.id[y], b, x)
  BY <1>0, ChildRange
<1>2. /\ x \in Addr /\ x \in Cell /\ x # NIL /\ x # NULL /\ p \in T \cup {NULL}
      /\ b[s][x] \in Nat /\ b[o][x] \in Nat /\ t.id[x] \in Nat
  BY <1>0, ShapeTypes
<1>3. /\ y \in Addr /\ y \in Cell /\ y # NIL /\ y # NULL /\ inner \in T \cup {NIL} /\ inner \in Cell
      /\ t.id[y] \in Nat /\ b[o][y] \in Nat
  BY <1>0, <1>1, ShapeTypes
<1>4. y # x /\ inner # x  BY <1>1, <1>2, ParentFacts
<1>5. inner # NIL => /\ inner \in T /\ t.parent[inner] = y /\ inner # y /\ inner # t.root
                     /\ b[s][inner] = t.id[x] /\ b[o][inner] = t.id[y]
  <2>1. inner # NIL => /\ inner \in T /\ t.parent[inner] = y /\ inner # t.root
                       /\ b[s][inner] = b[s][y] /\ b[o][inner] = t.id[y]
    <3> HIDE DEF y
    <3> QED BY <1>1, ChildRange
  <2> QED BY <2>1, <1>1, <1>4
<1>6. p # NULL => p \in T /\ p # x /\ p # y /\ x # t.root /\ (\E s2 \in Side : t.kid[s2][p] = x)
  <2>1. p # NULL => p \in T /\ p # x /\ (\E s2 \in Side : t.kid[s2][p] = x)
                      /\ (\A s2 \in Side : t.kid[s2][x] # p) /\ x # t.root
    BY ParentFacts
  <2> QED BY <2>1, <1>0
<1>7. p = NULL => x = t.root  BY ParentFacts
<1>8. /\ t \in Tree /\ T \subseteq Addr /\ b \in Bounds /\ Sentinel(t)
      /\ t.root \in T \cup {NIL}
      /\ t.root # NIL =>
           t.parent[t.root] = NULL /\ b["left"][t.root] = 0 /\ b["right"][t.root] = MaxHandle + 1
      /\ \A n \in T : t.id[n] \in Handle /\ InRange(t.id[n], b, n)
  BY DEF Shape
<1>9. /\ r \in Tree /\ r.red = t.red /\ r.id = t.id
      /\ r.root = IF p = NULL THEN y ELSE t.root
      /\ \A n \in Cell :
           r.parent[n] = IF n = y THEN p ELSE IF n = x THEN y
                         ELSE IF n = inner /\ n # NIL THEN x ELSE t.parent[n]
      /\ \A s2 \in Side, n \in Cell :
           r.kid[s2][n] = IF n = x /\ s2 = o THEN inner ELSE IF n = y /\ s2 = s THEN x
                          ELSE IF n = p /\ t.kid[s2][n] = x THEN y ELSE t.kid[s2][n]
  BY DEF Rotated
<1>10. b2 \in Bounds
  <2>1. b[s][x] \in Bound /\ t.id[y] \in Bound  BY <1>1, ShapeTypes
  <2>2. ASSUME NEW s2 \in Side, NEW n \in Addr PROVE b2[s2][n] \in Bound
    BY <2>1, <1>8 DEF Bounds
  <2> QED BY <2>2 DEF Bounds
<1>11. /\ b2[s][y] = b[s][x] /\ b2[o][x] = t.id[y] /\ b2[s][x] = b[s][x] /\ b2[o][y] = b[o][x]
       /\ \A s2 \in Side, n \in Addr : n # x /\ n # y => b2[s2][n] = b[s2][n]
  BY <1>0, <1>1, <1>2, <1>3, <1>4
<1> HIDE DEF b2
<1>12. T \subseteq Cell  BY <1>8 DEF Cell
<1>13. Sentinel(r)
  <2>1. NIL \in Cell /\ p # NIL  BY <1>2, <1>8, Addresses DEF Cell
  <2> QED BY <2>1, <1>2, <1>3, <1>8, <1>9 DEF Sentinel
<1>14. r.root \in T \cup {NIL}
          /\ (r.root # NIL => /\ r.parent[r.root] = NULL
                              /\ b2["left"][r.root] = 0 /\ b2["right"][r.root] = MaxHandle + 1)
  <2>1. CASE p = NULL
    <3>1. b2[s][y] = b[s][t.root] /\ b2[o][y] = b[o][t.root] /\ t.root # NIL
      BY <2>1, <1>2, <1>7, <1>11
    <3>2. b2["left"][y] = b["left"][t.root] /\ b2["right"][y] = b["right"][t.root]
      BY <3>1, <1>0 DEF Side
    <3> QED BY <3>1, <3>2, <2>1, <1>1, <1>3, <1>8, <1>9
  <2>2. CASE p # NULL
    <3>1. t.root # NIL => t.root \in Addr /\ t.root \in Cell /\ t.root # x /\ t.root # y /\ t.root # inner
      BY <2>2, <1>1, <1>5, <1>6, <1>8, <1>12
    <3> QED BY <3>1, <2>2, <1>8, <1>9, <1>11 DEF Side
  <2> QED BY <2>1, <2>2
<1>15. ASSUME NEW n \in T PROVE r.id[n] \in Handle /\ InRange(r.id[n], b2, n)
  <2>1. b["left"][n] \in Nat /\ b["right"][n] \in Nat /\ t.id[n] \in Nat /\ n \in Addr
    BY ShapeTypes
  <2>2. t.id[n] \in Handle /\ InRange(t.id[n], b, n)  BY <1>8
  <2>3. CASE n # x /\ n # y  BY <2>2, <2>3, <2>1, <1>9, <1>11 DEF InRange, Side
  <2>4. CASE n = y
    <3>1. b2["left"][y] = b["left"][x] /\ b2["right"][y] = b["right"][x]  BY <1>0, <1>11 DEF Side
    <3> QED BY <3>1, <2>2, <2>4, <1>1, <1>9 DEF InRange
  <2>5. CASE n = x
    <3>1. InRange(t.id[y], b, y)  BY <1>1, <1>8
    <3>2. CASE s = "left"
      <4>1. o = "right"  BY <3>2 DEF Other
      <4> QED BY <4>1, <3>1, <3>2, <2>2, <2>5, <1>1, <1>9, <1>11 DEF InRange
    <3>3. CASE s = "right"
      <4>1. o = "left"  BY <3>3 DEF Other
      <4> QED BY <4>1, <3>1, <3>3, <2>2, <2>5, <1>1, <1>9, <1>11 DEF InRange
    <3> QED BY <3>2, <3>3 DEF Side
  <2> QED BY <2>3, <2>4, <2>5
<1>16. ASSUME NEW n \in T, NEW s2 \in Side PROVE Child(r, T, b2, n, s2)
  <2> DEFINE k == t.kid[s2][n]
  <2>0. n \in Cell /\ n \in Addr /\ n # NIL /\ n # NULL  BY ShapeTypes
  <2>1. k # NIL => /\ k \in T /\ t.parent[k] = n /\ k # t.root /\ k \in Addr /\ k \in Cell
                   /\ b[s2][k] = b[s2][n] /\ b[Other(s2)][k] = t.id[n]
    <3>1. k # NIL => /\ k \in T /\ t.parent[k] = n /\ k # t.root
                     /\ b[s2][k] = b[s2][n] /\ b[Other(s2)][k] = t.id[n]
      BY ChildRange
    <3> QED BY <3>1, ShapeTypes
  <2>2. Other(s2) \in Side  BY Sides
  <2>3. r.kid[s2][n] = IF n = x /\ s2 = o THEN inner ELSE IF n = y /\ s2 = s THEN x
                       ELSE IF n = p /\ t.kid[s2][n] = x THEN y ELSE t.kid[s2][n]
    BY <2>0, <1>9
  <2> HIDE DEF k
  <2>4. CASE n = x /\ s2 = o
    <3>1. inner # NIL => r.parent[inner] = x  BY <1>3, <1>4, <1>5, <1>9
    <3>2. inner # NIL => b2[o][inner] = t.id[y] /\ b2[s][inner] = t.id[x]
      BY <1>0, <1>4, <1>5, <1>8, <1>11
    <3> QED BY <3>1, <3>2, <2>3, <2>4, <1>0, <1>5, <1>9, <1>11 DEF Child
  <2>5. CASE n = y /\ s2 = s
    <3>1. r.parent[x] = y  BY <1>2, <1>4, <1>9
    <3> QED BY <3>1, <2>3, <2>5, <1>4, <1>9, <1>11 DEF Child
  <2>6. CASE n = p /\ k = x
    <3>1. r.kid[s2][n] = y /\ r.parent[y] = p  BY <2>3, <2>6, <2>0, <1>3, <1>6, <1>9 DEF k
    <3>2. p # NULL /\ p # x /\ p # y  BY <2>6, <2>0, <1>6
    <3>3. b[s2][x] = b[s2][p] /\ b[Other(s2)][x] = t.id[p]  BY <2>1, <2>6, <1>2
    <3>4. b2[s2][y] = b[s2][x] /\ b2[Other(s2)][y] = b[Other(s2)][x]
      BY <1>0, <1>11
    <3>5. b2[s2][p] = b[s2][p]  BY <2>0, <2>6, <3>2, <1>11
    <3>6. t.id[p] = r.id[p] /\ y \in T  BY <1>1, <1>9
    <3>7. b2[s2][y] = b2[s2][p] /\ b2[Other(s2)][y] = r.id[p]  BY <3>3, <3>4, <3>5, <3>6
    <3> QED BY <3>1, <3>6, <3>7, <2>6 DEF Child
  <2>7. CASE /\ ~(n = x /\ s2 = o) /\ ~(n = y /\ s2 = s) /\ ~(n = p /\ k = x)
    <3>1. r.kid[s2][n] = k  BY <2>3, <2>7 DEF k
    <3>2. CASE k = NIL  BY <3>1, <3>2 DEF Child
    <3>3. CASE k # NIL
      <4>1. k # x  BY <2>1, <2>7, <3>3
      <4>2. k # y
        <5> SUFFICES ASSUME k = y PROVE FALSE  OBVIOUS
        <5>1. n = x  BY <2>1, <3>3, <1>1
        <5>2. s2 = s  BY <5>1, <2>7, <1>0
        <5>3. t.kid["left"][x] # t.kid["right"][x]  BY <1>0, <1>3, TwoChildren DEF Side
        <5> QED BY <5>1, <5>2, <5>3, <1>0 DEF k, Side
      <4>3. k # inner
        <5> SUFFICES ASSUME k = inner PROVE FALSE  OBVIOUS
        <5>1. n = y  BY <2>1, <3>3, <1>5
        <5>2. s2 = o  BY <5>1, <2>7, <1>0
        <5>3. t.kid["left"][y] # t.kid["right"][y]  BY <1>0, <1>1, <3>3, TwoChildren DEF Side
        <5> QED BY <5>1, <5>2, <5>3, <1>0 DEF k, Side
      <4>4. r.parent[k] = n  BY <4>1, <4>2, <4>3, <2>1, <3>3, <1>9
      <4>5. b2[s2][k] = b[s2][k] /\ b2[Other(s2)][k] = b[Other(s2)][k]
        BY <4>1, <4>2, <2>1, <2>2, <3>3, <1>11
      <4>6. b2[s2][n] = b[s2][n]  BY <2>0, <2>7, <1>0, <1>1, <1>11
      <4> QED BY <3>1, <3>3, <4>4, <4>5, <4>6, <2>1, <1>9 DEF Child
    <3> QED BY <3>2, <3>3
  <2> QED BY <2>4, <2>5, <2>6, <2>7
<1>17. ASSUME NEW n \in T, n # r.root
       PROVE  r.parent[n] \in T /\ \E s2 \in Side : r.kid[s2][r.parent[n]] = n
  <2>0. n \in Cell /\ n # NIL  BY ShapeTypes
  <2>1. CASE n = y
    <3>1. p # NULL /\ r.parent[y] = p  BY <2>1, <1>3, <1>9, <1>17
    <3>2. PICK s2 \in Side : t.kid[s2][p] = x  BY <3>1, <1>6
    <3>3. p \in Cell  BY <3>1, <1>6, <1>12
    <3>4. r.kid[s2][p] = y  BY <3>1, <3>2, <3>3, <1>6, <1>9
    <3> QED BY <3>1, <3>4, <2>1, <1>6
  <2>2. CASE n = x  BY <2>2, <1>0, <1>1, <1>2, <1>3, <1>4, <1>9
  <2>3. CASE n = inner
    <3>1. r.parent[n] = x  BY <2>0, <2>3, <1>4, <1>5, <1>9
    <3>2. r.kid[o][x] = n  BY <2>3, <1>0, <1>2, <1>9
    <3> QED BY <3>1, <3>2, <1>0
  <2>4. CASE n # x /\ n # y /\ n # inner
    <3> DEFINE q == t.parent[n]
    <3>1. n # t.root  BY <2>4, <1>7, <1>9, <1>17
    <3>2. q \in T  BY <3>1 DEF Shape
    <3>3. PICK s2 \in Side : t.kid[s2][q] = n  BY <3>1 DEF Shape
    <3>4. r.parent[n] = q  BY <2>0, <2>4, <1>9
    <3>5. q \in Cell  BY <3>2, <1>12
    <3>6. r.kid[s2][q] = n  BY <3>3, <3>5, <2>4, <1>9
    <3> QED BY <3>2, <3>4, <3>6
  <2> QED BY <2>1, <2>2, <2>3, <2>4
<1> QED BY <1>8, <1>9, <1>10, <1>13, <1>14, <1>15, <1>16, <1>17 DEF Shape

-----------------------------------------------------------------------------
(* The turns of the fixups. Each of them paints and rotates nodes of the   *)
(* tree, so that all that is left to show is that the nodes it reads are   *)
(* there, and that only the node the loop goes on with is a red root.      *)
LEMMA PaintKeeps ==
  ASSUME NEW t, NEW T, SoundTree(t, T), NEW x \in T \cup {NIL}, NEW c \in BOOLEAN,
         x # NIL \/ ~c
  PROVE  SoundTree(Paint(t, x, c), T) /\ Painted(t, Paint(t, x, c), x, c)
<1>1. PICK b : Shape(t, T, b)  BY DEF SoundTree
<1>2. t \in Tree /\ T \subseteq Addr  BY <1>1 DEF Shape
<1>3. Painted(t, Paint(t, x, c), x, c)  BY <1>2, PaintIs DEF Cell
<1>4. ASSUME NEW r, Painted(t, r, x, c) PROVE Shape(r, T, b)
  <2>1. /\ r \in Tree /\ r.root = t.root /\ r.kid = t.kid /\ r.parent = t.parent /\ r.id = t.id
        /\ r.red[x] = c /\ \A n \in Cell : n # x => r.red[n] = t.red[n]
    BY <1>4 DEF Painted
  <2>2. Sentinel(t)  BY <1>1 DEF Shape
  <2>3. Sentinel(r)  BY <2>1, <2>2 DEF Sentinel, Cell
  <2>4. \A n \in T, s \in Side : Child(r, T, b, n, s)
    <3>1. \A n \in T, s \in Side : Child(t, T, b, n, s)  BY <1>1 DEF Shape
    <3> QED BY <2>1, <3>1 DEF Child
  <2> QED BY <1>1, <2>1, <2>3, <2>4 DEF Shape
<1> QED BY <1>3, <1>4 DEF SoundTree

LEMMA RotateStep ==
  ASSUME NEW t, NEW T, SoundTree(t, T), NEW x \in T, NEW s \in Side, t.kid[Other(s)][x] # NIL
  PROVE  SoundTree(Rotate(t, s, x), T) /\ Rotated(t, Rotate(t, s, x), s, x)
<1>1. PICK b : Shape(t, T, b)  BY DEF SoundTree
<1> QED BY <1>1, RotateIs, RotateKeeps

(* What is said of every tree with a shape, without its bounds.            *)
LEMMA NodeIn ==
  ASSUME NEW t, NEW T, SoundTree(t, T)
  PROVE  /\ t \in Tree /\ T \subseteq Addr /\ T \subseteq Cell /\ NIL \notin T /\ NULL \notin T
         /\ NIL \in Cell /\ ~t.red[NIL] /\ t.root \in T \cup {NIL}
         /\ \A n \in T : /\ t.id[n] \in Handle
                         /\ n = t.root <=> t.parent[n] = NULL
                         /\ n # t.root => /\ t.parent[n] \in T /\ t.parent[n] # n
                                          /\ \A s \in Side : t.kid[s][n] # t.parent[n]
         /\ \A n \in T, s \in Side :
              /\ t.kid[s][n] \in T \cup {NIL}
              /\ t.kid[s][n] # NIL => /\ t.parent[t.kid[s][n]] = n /\ t.kid[s][n] # t.root
                                      /\ t.kid[s][n] # t.kid[Other(s)][n] /\ t.kid[s][n] # n
         /\ \A n \in T : n # t.root => \E s \in Side : t.kid[s][t.parent[n]] = n
<1>1. PICK b : Shape(t, T, b)  BY DEF SoundTree
<1>2. t \in Tree /\ T \subseteq Addr /\ ~t.red[NIL] /\ t.root \in T \cup {NIL}
  BY <1>1 DEF Shape, Sentinel
<1>3. T \subseteq Cell /\ NIL \notin T /\ NULL \notin T /\ NIL \in Cell
  BY <1>2, Addresses DEF Cell
<1>4. \A n \in T : /\ t.id[n] \in Handle
                   /\ n = t.root <=> t.parent[n] = NULL
                   /\ n # t.root => /\ t.parent[n] \in T /\ t.parent[n] # n
                                    /\ \A s \in Side : t.kid[s][n] # t.parent[n]
  <2>1. \A n \in T : t.id[n] \in Handle  BY <1>1, ShapeTypes
  <2>2. \A n \in T : /\ n = t.root <=> t.parent[n] = NULL
                     /\ n # t.root => /\ t.parent[n] \in T /\ t.parent[n] # n
                                      /\ \A s \in Side : t.kid[s][n] # t.parent[n]
    BY <1>1, ParentFacts
  <2> QED BY <2>1, <2>2
<1>5. ASSUME NEW n \in T, NEW s \in Side
      PROVE  /\ t.kid[s][n] \in T \cup {NIL}
             /\ t.kid[s][n] # NIL => /\ t.parent[t.kid[s][n]] = n /\ t.kid[s][n] # t.root
                                     /\ t.kid[s][n] # t.kid[Other(s)][n] /\ t.kid[s][n] # n
  <2>1. t.kid[s][n] \in T \cup {NIL}  BY <1>1, ShapeTypes
  <2>2. ASSUME t.kid[s][n] # NIL
        PROVE  /\ t.parent[t.kid[s][n]] = n /\ t.kid[s][n] # t.root /\ t.kid[s][n] \in T
    BY <1>1, <2>2, ChildRange
  <2>3. ASSUME t.kid[s][n] # NIL PROVE t.kid[s][n] # t.kid[Other(s)][n]
    <3>1. t.kid["left"][n] # t.kid["right"][n]  BY <1>1, <2>3, TwoChildren DEF Side
    <3> QED BY <3>1 DEF Side, Other
  <2>4. ASSUME t.kid[s][n] # NIL PROVE t.kid[s][n] # n
    BY <1>4, <2>2, <2>4
  <2> QED BY <2>1, <2>2, <2>3, <2>4
<1>6. \A n \in T : n # t.root => \E s \in Side : t.kid[s][t.parent[n]] = n
  BY <1>1 DEF Shape
<1> QED BY <1>2, <1>3, <1>4, <1>5, <1>6

Same(t, r) == r.id = t.id /\ r.obj = t.obj /\ r.heap = t.heap

LEMMA PaintedSame ==
  ASSUME NEW t, NEW r, NEW x, NEW c, Painted(t, r, x, c)
  PROVE  Same(t, r) /\ r.root = t.root /\ r.kid = t.kid /\ r.parent = t.parent
BY DEF Painted, Same

LEMMA RotatedSame ==
  ASSUME NEW t, NEW r, NEW s, NEW x, Rotated(t, r, s, x)
  PROVE  Same(t, r) /\ r.red = t.red
BY DEF Rotated, Same

LEMMA InsertFixKeeps ==
  ASSUME NEW t, NEW T, SoundTree(t, T), NEW x \in T, x # t.root, t.red[t.parent[x]],
         ~t.red[t.root]
  PROVE  LET done == InsertFix(t, x)
             r == done.tree
         IN /\ SoundTree(r, T) /\ Same(t, r) /\ done.x \in T
            /\ r.red[r.root] => done.x = r.root
<1> DEFINE p == t.parent[x]
           g == t.parent[p]
           s == IF p = t.kid["left"][g] THEN "left" ELSE "right"
           uncle == t.kid[Other(s)][g]
           inner == x = t.kid[Other(s)][p]
           t1 == IF inner THEN Rotate(t, s, p) ELSE t
           x1 == IF inner THEN p ELSE x
           p1 == t1.parent[x1]
           g1 == t1.parent[p1]
<1>0. /\ T \subseteq Cell /\ NIL \notin T /\ NULL \notin T /\ NIL \in Cell
      /\ ~t.red[NIL] /\ t.root \in T \cup {NIL} /\ t \in Tree
  BY NodeIn
<1>1. p \in T /\ p # x /\ p # t.root  BY NodeIn
<1>2. g \in T /\ g # p  BY <1>1, NodeIn
<1>3. s \in Side /\ t.kid[s][g] = p
  <2>1. \E s2 \in Side : t.kid[s2][g] = p  BY <1>1, NodeIn
  <2> QED BY <2>1 DEF Side
<1> HIDE DEF s
<1>4. Other(s) \in Side /\ Other(Other(s)) = s  BY <1>3, Sides
<1>5. uncle \in T \cup {NIL}
  <2> HIDE DEF g
  <2> QED BY <1>2, <1>4, NodeIn
<1>6. p # NULL /\ g # NULL  BY <1>0, <1>1, <1>2
<1>7. CASE t.red[uncle]
  <2> DEFINE u1 == Paint(t, p, FALSE)
             u2 == Paint(u1, uncle, FALSE)
             u3 == Paint(u2, g, TRUE)
  <2>1. SoundTree(u1, T) /\ Painted(t, u1, p, FALSE)  BY <1>1, PaintKeeps
  <2>2. SoundTree(u2, T) /\ Painted(u1, u2, uncle, FALSE)  BY <1>5, <2>1, PaintKeeps
  <2>3. SoundTree(u3, T) /\ Painted(u2, u3, g, TRUE)  BY <1>0, <1>2, <2>2, PaintKeeps
  <2>5. InsertFix(t, x) = Turn(u3, g)  BY <1>7 DEF InsertFix, s
  <2> HIDE DEF u1, u2, u3
  <2>4. Same(t, u3) /\ u3.root = t.root
    <3>1. Same(t, u1) /\ u1.root = t.root  BY <2>1, PaintedSame
    <3>2. Same(u1, u2) /\ u2.root = u1.root  BY <2>2, PaintedSame
    <3>3. Same(u2, u3) /\ u3.root = u2.root  BY <2>3, PaintedSame
    <3> QED BY <3>1, <3>2, <3>3 DEF Same
  <2>6. t.root # g => ~u3.red[t.root]
    <3>1. t.root \in Cell  BY <1>0
    <3>2. \A n \in Cell : n # g /\ n # uncle /\ n # p => u3.red[n] = t.red[n]
      BY <2>1, <2>2, <2>3 DEF Painted
    <3>3. t.root # uncle  BY <1>7
    <3> QED BY <1>1, <3>1, <3>2, <3>3
  <2>7. u3.red[u3.root] => g = u3.root  BY <2>4, <2>6
  <2>8. InsertFix(t, x).tree = u3 /\ InsertFix(t, x).x = g  BY <2>5 DEF Turn
  <2> HIDE DEF g
  <2> QED BY <1>2, <2>3, <2>4, <2>7, <2>8
<1>8. CASE ~t.red[uncle]
  <2>1. /\ SoundTree(t1, T) /\ Same(t, t1) /\ t1.red = t.red /\ t1.root = t.root
        /\ x1 \in T /\ p1 \in T /\ g1 = g /\ t1.kid[s][g] = p1
    <3>1. CASE ~inner
      <4>1. t1 = t /\ x1 = x /\ p1 = p /\ g1 = g  BY <3>1
      <4> QED BY <4>1, <1>1, <1>3 DEF Same
    <3>2. CASE inner
      <4> DEFINE r == Rotate(t, s, p)
      <4>1. t.kid[Other(s)][p] # NIL  BY <3>2, <1>0
      <4>2. SoundTree(r, T) /\ Rotated(t, r, s, p)  BY <1>1, <1>3, <4>1, RotateStep
      <4>3. Same(t, r) /\ r.red = t.red  BY <4>2, RotatedSame
      <4>4. r.root = t.root /\ r.parent[p] = x /\ r.parent[x] = g /\ r.kid[s][g] = x
        <5>1. x \in Cell /\ p \in Cell /\ g \in Cell  BY <1>0, <1>1, <1>2
        <5>2. r.root = t.root  BY <4>2, <1>6, <3>2 DEF Rotated
        <5>3. r.parent[p] = x /\ r.parent[x] = g  BY <4>2, <5>1, <3>2, <1>1 DEF Rotated
        <5>4. g # x  BY <3>2, <1>1, <1>4, NodeIn
        <5>5. r.kid[s][g] = x  BY <4>2, <5>1, <5>4, <1>2, <1>3, <3>2 DEF Rotated
        <5> QED BY <5>2, <5>3, <5>5
      <4>5. t1 = r /\ x1 = p  BY <3>2
      <4> HIDE DEF r
      <4> QED BY <4>2, <4>3, <4>4, <4>5, <1>1
    <3> QED BY <3>1, <3>2
  <2>1a. g1 = t1.parent[p1]  OBVIOUS
  <2> HIDE DEF t1, x1, p1, g1
  <2>1b. p1 # t1.root /\ p1 # g1 /\ (g1 = t1.root <=> t1.parent[g1] = NULL)
    <3>1. t1.kid[s][g] # NIL  BY <2>1, <1>0
    <3>2. t1.kid[s][g] # t1.root  BY <3>1, <2>1, <1>2, <1>3, NodeIn
    <3>3. t1.parent[p1] # p1  BY <3>2, <2>1, NodeIn
    <3>4. g1 \in T  BY <2>1, <1>2
    <3>5. g1 = t1.root <=> t1.parent[g1] = NULL  BY <3>4, <2>1, NodeIn
    <3> QED BY <3>2, <3>3, <3>5, <2>1, <2>1a
  <2> DEFINE u1 == Paint(t1, p1, FALSE)
             u2 == Paint(u1, g1, TRUE)
             u3 == Rotate(u2, Other(s), g1)
  <2>2. SoundTree(u1, T) /\ Painted(t1, u1, p1, FALSE)  BY <2>1, PaintKeeps
  <2>3. SoundTree(u2, T) /\ Painted(u1, u2, g1, TRUE)  BY <1>0, <1>2, <2>1, <2>2, PaintKeeps
  <2>7. InsertFix(t, x) = Turn(u3, x1)  BY <1>8 DEF InsertFix, t1, x1, p1, g1, s
  <2> HIDE DEF u1, u2
  <2>4. u2.kid[s][g1] = p1 /\ u2.root = t.root /\ Same(t, u2) /\ u2.parent = t1.parent
    <3>1. Same(t1, u1) /\ u1.root = t1.root /\ u1.kid = t1.kid /\ u1.parent = t1.parent
      BY <2>2, PaintedSame
    <3>2. Same(u1, u2) /\ u2.root = u1.root /\ u2.kid = u1.kid /\ u2.parent = u1.parent
      BY <2>3, PaintedSame
    <3>3. Same(t, u2)  BY <2>1, <3>1, <3>2 DEF Same
    <3> QED BY <2>1, <3>1, <3>2, <3>3
  <2>5. SoundTree(u3, T) /\ Rotated(u2, u3, Other(s), g1)
    <3>1. u2.kid[Other(Other(s))][g1] # NIL  BY <2>1, <2>4, <1>0, <1>4
    <3>2. g1 \in T  BY <2>1, <1>2
    <3> QED BY <2>3, <3>1, <3>2, <1>4, RotateStep
  <2> HIDE DEF u3
  <2>6. Same(u2, u3) /\ u3.red = u2.red  BY <2>5, RotatedSame
  <2>8. u3.root = IF t1.parent[g1] = NULL THEN p1 ELSE t.root
    BY <2>4, <2>5, <1>4 DEF Rotated
  <2>9. ~u3.red[u3.root]
    <3>1. p1 # g1  BY <2>1b
    <3>2. CASE t1.parent[g1] = NULL
      <4>1. ~u1.red[p1]  BY <2>2 DEF Painted
      <4>2. u2.red[p1] = u1.red[p1]  BY <2>1, <2>3, <1>0, <3>1 DEF Painted
      <4> QED BY <4>1, <4>2, <3>2, <2>6, <2>8
    <3>3. CASE t1.parent[g1] # NULL
      <4>1. t.root # g1  BY <2>1, <2>1b, <3>3
      <4>2. t.root \in Cell  BY <1>0
      <4>3. u2.red[t.root] = u1.red[t.root]  BY <2>3, <4>1, <4>2 DEF Painted
      <4>4. ~u1.red[t.root]  BY <2>1, <2>2, <4>2 DEF Painted
      <4> QED BY <4>3, <4>4, <3>3, <2>6, <2>8
    <3> QED BY <3>2, <3>3
  <2>10. InsertFix(t, x).tree = u3 /\ InsertFix(t, x).x = x1  BY <2>7 DEF Turn
  <2>11. Same(t, u3)  BY <2>4, <2>6 DEF Same
  <2> QED BY <2>1, <2>5, <2>9, <2>10, <2>11
<1> QED BY <1>7, <1>8

-----------------------------------------------------------------------------
(* There is no induction along the paths of a tree: what is said of every  *)
(* node holds because it cannot fail first at the widest range of numbers, *)
(* or at the narrowest.                                                    *)
LEMMA LeastNat ==
  ASSUME NEW S \in SUBSET Nat, S # {}
  PROVE  \E x \in S : \A y \in S : x <= y
<1> DEFINE R == OpToRel(<, Nat)
<1>1. IsWellFoundedOn(R, Nat)  BY NatLessThanWellFounded
<1>2. R = {ss \in Nat \X Nat : ss[1] < ss[2]}  BY DEF OpToRel
<1>3. \A x, y \in Nat : y < x => <<y, x>> \in R  BY <1>2
<1> HIDE DEF R
<1>4. PICK x \in S : \A y \in S : ~(<<y, x>> \in R)  BY <1>1, WFMin
<1>5. x \in Nat /\ S \subseteq Nat  OBVIOUS
<1>6. ASSUME NEW y \in S PROVE x <= y
  <2>1. <<y, x>> \notin R  BY <1>4
  <2>2. y < x => <<y, x>> \in R  BY <1>3, <1>5
  <2> QED BY <1>5, <2>1, <2>2
<1> QED BY <1>6

LEMMA Narrowest ==
  ASSUME NEW t, NEW T, NEW b, Shape(t, T, b), NEW S \in SUBSET T, S # {}
  PROVE  \E n \in S : \A m \in S : Width(b, n) <= Width(b, m)
<1> DEFINE W == {Width(b, n) : n \in S}
<1>1. W \in SUBSET Nat /\ W # {}  BY ShapeTypes
<1> HIDE DEF W
<1>2. PICK x \in W : \A y \in W : x <= y  BY <1>1, LeastNat
<1> QED BY <1>2 DEF W

LEMMA Widest ==
  ASSUME NEW t, NEW T, NEW b, Shape(t, T, b), NEW S \in SUBSET T, S # {}
  PROVE  \E n \in S : \A m \in S : Width(b, m) <= Width(b, n)
<1> DEFINE Rest(n) == MaxHandle + 1 - Width(b, n)
           W == {Rest(n) : n \in S}
<1>1. ASSUME NEW n \in S PROVE Width(b, n) \in Nat /\ Rest(n) \in Nat
  <2>1. b["left"][n] \in Bound /\ b["right"][n] \in Bound /\ Width(b, n) \in Nat
    BY ShapeTypes DEF Side
  <2>2. MaxHandle \in Nat  BY Addresses
  <2> QED BY <2>1, <2>2 DEF Bound, Width
<1>2. W \in SUBSET Nat /\ W # {}  BY <1>1
<1> HIDE DEF W
<1>3. PICK x \in W : \A y \in W : x <= y  BY <1>2, LeastNat
<1>4. PICK n \in S : x = Rest(n)  BY <1>3 DEF W
<1>5. ASSUME NEW m \in S PROVE Width(b, m) <= Width(b, n)
  <2>1. Rest(n) <= Rest(m)  BY <1>3, <1>4 DEF W
  <2>2. MaxHandle \in Nat  BY Addresses
  <2>3. Width(b, n) \in Nat /\ Width(b, m) \in Nat  BY <1>1
  <2> QED BY <2>1, <2>2, <2>3
<1> QED BY <1>5

LEMMA RootThere ==
  ASSUME NEW t, NEW T, SoundTree(t, T), T # {}
  PROVE  t.root \in T
<1>1. PICK b : Shape(t, T, b)  BY DEF SoundTree
<1>2. PICK n \in T : \A m \in T : Width(b, m) <= Width(b, n)  BY <1>1, Widest
<1>3. ASSUME n # t.root PROVE FALSE
  <2>1. t.parent[n] \in T /\ Width(b, n) < Width(b, t.parent[n])
    BY <1>1, <1>3, ParentFacts
  <2>2. Width(b, n) \in Nat /\ Width(b, t.parent[n]) \in Nat  BY <1>1, <2>1, ShapeTypes
  <2>3. Width(b, t.parent[n]) <= Width(b, n)  BY <1>2, <2>1
  <2> QED BY <2>1, <2>2, <2>3
<1> QED BY <1>3

-----------------------------------------------------------------------------
LEMMA BorrowKeeps ==
  ASSUME NEW t, NEW T, SoundTree(t, T), NEW p \in T, NEW s \in Side,
         t.kid[Other(s)][p] # NIL, ~t.red[t.root]
  PROVE  LET done == Borrow(t, p, s, t.kid[Other(s)][p])
             r == done.tree
         IN SoundTree(r, T) /\ Same(t, r) /\ done.x \in T /\ ~r.red[r.root]
<1> DEFINE w == t.kid[Other(s)][p]
           u0 == Paint(t, w, t.red[p])
           u1 == Paint(u0, p, FALSE)
           u2 == Paint(u1, u1.kid[Other(s)][w], FALSE)
           r == Rotate(u2, s, p)
<1>0. /\ T \subseteq Cell /\ NIL \notin T /\ NULL \notin T /\ NIL \in Cell
      /\ ~t.red[NIL] /\ t.root \in T \cup {NIL} /\ t \in Tree
  BY NodeIn
<1>1. Other(s) \in Side  BY Sides
<1>2. w \in T /\ w # t.root /\ w # p  BY <1>1, NodeIn
<1>3. t.red[p] \in BOOLEAN  BY <1>0 DEF Tree
<1>4. Borrow(t, p, s, w) = Turn(r, r.root)  BY DEF Borrow
<1>5. SoundTree(u0, T) /\ Painted(t, u0, w, t.red[p])  BY <1>0, <1>2, <1>3, PaintKeeps
<1> HIDE DEF u0
<1>6. SoundTree(u1, T) /\ Painted(u0, u1, p, FALSE)  BY <1>5, PaintKeeps
<1> HIDE DEF u1
<1> DEFINE v == u1.kid[Other(s)][w]
<1>7. v \in T \cup {NIL}  BY <1>1, <1>2, <1>6, NodeIn
<1> HIDE DEF v, w
<1>8. SoundTree(u2, T) /\ Painted(u1, u2, v, FALSE)  BY <1>6, <1>7, PaintKeeps DEF v
<1> HIDE DEF u2
<1>9. Same(t, u2) /\ u2.root = t.root /\ u2.kid = t.kid /\ u2.parent = t.parent
  <2>1. Same(t, u0) /\ u0.root = t.root /\ u0.kid = t.kid /\ u0.parent = t.parent
    BY <1>5, PaintedSame
  <2>2. Same(u0, u1) /\ u1.root = u0.root /\ u1.kid = u0.kid /\ u1.parent = u0.parent
    BY <1>6, PaintedSame
  <2>3. Same(u1, u2) /\ u2.root = u1.root /\ u2.kid = u1.kid /\ u2.parent = u1.parent
    BY <1>8, PaintedSame
  <2> QED BY <2>1, <2>2, <2>3 DEF Same
<1>10. SoundTree(r, T) /\ Rotated(u2, r, s, p)  BY <1>8, <1>9, RotateStep
<1> HIDE DEF r
<1>11. Same(u2, r) /\ r.red = u2.red  BY <1>10, RotatedSame
<1>12. r.root = IF t.parent[p] = NULL THEN w ELSE t.root
  BY <1>9, <1>10 DEF Rotated, w
<1>13. ~r.red[r.root]
  <2>1. CASE t.parent[p] = NULL
    <3>1. p = t.root  BY <2>1, NodeIn
    <3>2. ~u0.red[w]  BY <3>1, <1>5 DEF Painted
    <3>3. w \in Cell  BY <1>0, <1>2
    <3>4. ~u1.red[w]  BY <3>2, <3>3, <1>6 DEF Painted
    <3>5. ~u2.red[w]  BY <3>3, <3>4, <1>8 DEF Painted
    <3> QED BY <2>1, <3>5, <1>11, <1>12
  <2>2. CASE t.parent[p] # NULL
    <3>1. t.root \in Cell /\ t.root # w  BY <1>0, <1>2
    <3>2. ~u0.red[t.root]  BY <3>1, <1>5 DEF Painted
    <3>3. ~u1.red[t.root]  BY <3>1, <3>2, <1>6 DEF Painted
    <3>4. ~u2.red[t.root]  BY <3>1, <3>3, <1>8 DEF Painted
    <3> QED BY <2>2, <3>4, <1>11, <1>12
  <2> QED BY <2>1, <2>2
<1>14. r.root \in T  BY <1>10, RootThere
<1>15. Same(t, r)  BY <1>9, <1>11 DEF Same
<1>16. Borrow(t, p, s, w).tree = r /\ Borrow(t, p, s, w).x = r.root  BY <1>4 DEF Turn
<1> QED BY <1>10, <1>13, <1>14, <1>15, <1>16 DEF w

LEMMA DeleteFixKeeps ==
  ASSUME NEW t, NEW T, SoundTree(t, T), NEW x \in T, x # t.root, ~t.red[t.root]
  PROVE  LET done == DeleteFix(t, x)
             r == done.tree
         IN SoundTree(r, T) /\ Same(t, r) /\ done.x \in T \cup {NIL} /\ ~r.red[r.root]
<1> DEFINE Fine(r) == SoundTree(r, T) /\ Same(t, r) /\ ~r.red[r.root]
           p == t.parent[x]
           s == IF x = t.kid["left"][p] THEN "left" ELSE "right"
           o == Other(s)
           w0 == t.kid[o][p]
           up == SiblingIsRed(t, s, w0)
           a1 == Paint(t, w0, FALSE)
           a2 == Paint(a1, p, TRUE)
           t1 == IF up THEN Rotate(a2, s, p) ELSE t
           w1 == t1.kid[o][p]
           turn == ~t1.red[t1.kid[o][w1]]
           c1 == Paint(t1, t1.kid[s][w1], FALSE)
           c2 == Paint(c1, w1, TRUE)
           t2 == IF turn THEN Rotate(c2, o, w1) ELSE t1
           w2 == t2.kid[o][p]
<1>0. /\ T \subseteq Cell /\ NIL \notin T /\ NULL \notin T /\ NIL \in Cell
      /\ ~t.red[NIL] /\ t.root \in T \cup {NIL} /\ t \in Tree
  BY NodeIn
<1>1. p \in T  BY NodeIn
<1>2. s \in Side /\ o \in Side /\ Other(o) = s
  <2>1. s \in Side  BY DEF Side
  <2> QED BY <2>1, Sides
<1>3. DeleteFix(t, x) = IF w0 = NIL THEN Turn(t, NIL)
                        ELSE IF w1 = NIL THEN Turn(t1, NIL)
                        ELSE IF ~t1.red[t1.kid[s][w1]] /\ turn THEN Turn(Paint(t1, w1, TRUE), p)
                        ELSE IF w2 = NIL THEN Turn(t2, NIL)
                        ELSE Borrow(t2, p, s, w2)
  BY DEF DeleteFix
<1> HIDE DEF s, p, o
<1>4. Fine(t)  BY DEF Same
<1>5. ASSUME w0 # NIL PROVE Fine(t1)
  <2>1. CASE ~up  BY <2>1, <1>4
  <2>2. CASE up
    <3>1. w0 \in T /\ w0 # t.root /\ w0 # p  BY <1>1, <1>2, <1>5, NodeIn DEF o
    <3> HIDE DEF w0
    <3>2. SoundTree(a1, T) /\ Painted(t, a1, w0, FALSE)  BY <3>1, PaintKeeps
    <3> HIDE DEF a1
    <3>3. SoundTree(a2, T) /\ Painted(a1, a2, p, TRUE)  BY <3>2, <1>0, <1>1, PaintKeeps
    <3> HIDE DEF a2
    <3>4. Same(t, a2) /\ a2.root = t.root /\ a2.kid = t.kid /\ a2.parent = t.parent
      <4>1. Same(t, a1) /\ a1.root = t.root /\ a1.kid = t.kid /\ a1.parent = t.parent
        BY <3>2, PaintedSame
      <4>2. Same(a1, a2) /\ a2.root = a1.root /\ a2.kid = a1.kid /\ a2.parent = a1.parent
        BY <3>3, PaintedSame
      <4> QED BY <4>1, <4>2 DEF Same
    <3>5. a2.kid[Other(s)][p] = w0  BY <3>4 DEF w0, o
    <3> DEFINE r == Rotate(a2, s, p)
    <3>6. SoundTree(r, T) /\ Rotated(a2, r, s, p)  BY <3>3, <3>5, <1>1, <1>2, <1>5, RotateStep
    <3>7. t1 = r  BY <2>2
    <3> HIDE DEF r, t1
    <3>8. Same(a2, r) /\ r.red = a2.red  BY <3>6, RotatedSame
    <3>9. r.root = IF t.parent[p] = NULL THEN w0 ELSE t.root
      BY <3>4, <3>5, <3>6 DEF Rotated
    <3>10. ~r.red[r.root]
      <4>1. CASE t.parent[p] = NULL
        <5>1. w0 \in Cell  BY <3>1, <1>0
        <5>2. ~a1.red[w0]  BY <3>2 DEF Painted
        <5>3. ~a2.red[w0]  BY <3>1, <3>3, <5>1, <5>2 DEF Painted
        <5> QED BY <4>1, <5>3, <3>8, <3>9
      <4>2. CASE t.parent[p] # NULL
        <5>1. t.root # p /\ t.root \in Cell  BY <4>2, <1>0, <1>1, NodeIn
        <5>2. ~a1.red[t.root]  BY <3>1, <3>2, <5>1 DEF Painted
        <5>3. ~a2.red[t.root]  BY <3>3, <5>1, <5>2 DEF Painted
        <5> QED BY <4>2, <5>3, <3>8, <3>9
      <4> QED BY <4>1, <4>2
    <3>11. Same(t, r)  BY <3>4, <3>8 DEF Same
    <3> QED BY <3>6, <3>7, <3>10, <3>11
  <2> QED BY <2>1, <2>2
<1> HIDE DEF t1, w0
<1>6. ASSUME w0 # NIL, w1 # NIL PROVE w1 \in T /\ w1 # t1.root
  BY <1>1, <1>2, <1>5, <1>6, NodeIn
<1>7. ASSUME w0 # NIL, w1 # NIL PROVE Fine(Paint(t1, w1, TRUE))
  <2>1. w1 \in T /\ w1 # t1.root /\ SoundTree(t1, T) /\ Same(t, t1) /\ ~t1.red[t1.root]
    BY <1>5, <1>6, <1>7
  <2> HIDE DEF w1
  <2> DEFINE r == Paint(t1, w1, TRUE)
  <2>2. SoundTree(r, T) /\ Painted(t1, r, w1, TRUE)  BY <2>1, <1>0, PaintKeeps
  <2> HIDE DEF r
  <2>3. Same(t1, r) /\ r.root = t1.root  BY <2>2, PaintedSame
  <2>4. t1.root \in Cell  BY <2>1, <1>0, NodeIn
  <2>5. ~r.red[r.root]  BY <2>1, <2>2, <2>3, <2>4 DEF Painted
  <2>6. Same(t, r)  BY <2>1, <2>3 DEF Same
  <2> QED BY <2>2, <2>5, <2>6 DEF r
<1>8. ASSUME w0 # NIL, w1 # NIL, t1.red[t1.kid[s][w1]] \/ ~turn PROVE Fine(t2)
  <2>0. w1 \in T /\ w1 # t1.root /\ SoundTree(t1, T) /\ Same(t, t1) /\ ~t1.red[t1.root]
    BY <1>5, <1>6, <1>8
  <2>1. CASE ~turn  BY <2>0, <2>1
  <2>2. CASE turn
    <3> DEFINE v == t1.kid[s][w1]
    <3> HIDE DEF w1
    <3>1. /\ ~t1.red[NIL] /\ t1.root \in Cell /\ v \in T \cup {NIL}
          /\ t1.parent[w1] # NULL
      BY <2>0, <1>0, <1>2, NodeIn
    <3>2. v # NIL  BY <2>2, <3>1, <1>8
    <3>3. v # w1  BY <2>0, <3>2, <1>2, NodeIn
    <3> HIDE DEF v
    <3>4. SoundTree(c1, T) /\ Painted(t1, c1, v, FALSE)  BY <2>0, <3>1, PaintKeeps DEF v
    <3> HIDE DEF c1
    <3>5. SoundTree(c2, T) /\ Painted(c1, c2, w1, TRUE)  BY <2>0, <3>4, <1>0, PaintKeeps
    <3> HIDE DEF c2
    <3>6. Same(t1, c2) /\ c2.root = t1.root /\ c2.kid = t1.kid /\ c2.parent = t1.parent
      <4>1. Same(t1, c1) /\ c1.root = t1.root /\ c1.kid = t1.kid /\ c1.parent = t1.parent
        BY <3>4, PaintedSame
      <4>2. Same(c1, c2) /\ c2.root = c1.root /\ c2.kid = c1.kid /\ c2.parent = c1.parent
        BY <3>5, PaintedSame
      <4> QED BY <4>1, <4>2 DEF Same
    <3>7. c2.kid[Other(o)][w1] # NIL  BY <3>2, <3>6, <1>2 DEF v
    <3> DEFINE r == Rotate(c2, o, w1)
    <3>8. SoundTree(r, T) /\ Rotated(c2, r, o, w1)  BY <2>0, <3>5, <3>7, <1>2, RotateStep
    <3>9. t2 = r  BY <2>2
    <3> HIDE DEF r, t2
    <3>10. Same(c2, r) /\ r.red = c2.red  BY <3>8, RotatedSame
    <3>11. r.root = t1.root  BY <3>1, <3>6, <3>8 DEF Rotated
    <3>12. ~c1.red[t1.root]  BY <2>0, <3>1, <3>4 DEF Painted
    <3>13. ~c2.red[t1.root]  BY <2>0, <3>1, <3>5, <3>12 DEF Painted
    <3>14. Same(t, r)  BY <2>0, <3>6, <3>10 DEF Same
    <3> QED BY <3>8, <3>9, <3>10, <3>11, <3>13, <3>14
  <2> QED BY <2>1, <2>2
<1> HIDE DEF t2
<1>9. ASSUME w0 # NIL, w1 # NIL, t1.red[t1.kid[s][w1]] \/ ~turn, w2 # NIL
      PROVE  LET done == Borrow(t2, p, s, w2) IN Fine(done.tree) /\ done.x \in T
  <2>1. SoundTree(t2, T) /\ Same(t, t2) /\ ~t2.red[t2.root]  BY <1>8, <1>9
  <2>2. t2.kid[Other(s)][p] # NIL  BY <1>9 DEF o
  <2> DEFINE done == Borrow(t2, p, s, t2.kid[Other(s)][p])
  <2>3. SoundTree(done.tree, T) /\ Same(t2, done.tree) /\ done.x \in T /\ ~done.tree.red[done.tree.root]
    BY <2>1, <2>2, <1>1, <1>2, BorrowKeeps
  <2>4. done = Borrow(t2, p, s, w2)  BY DEF o
  <2> HIDE DEF done
  <2>5. Same(t, done.tree)  BY <2>1, <2>3 DEF Same
  <2> QED BY <2>3, <2>4, <2>5
<1> DEFINE done == DeleteFix(t, x)
<1>10. Fine(done.tree) /\ done.x \in T \cup {NIL}
  <2> HIDE DEF w1, w2, turn, Fine, done
  <2>1. CASE w0 = NIL
    <3>1. done = Turn(t, NIL)  BY <1>3, <2>1 DEF done
    <3> QED BY <3>1, <1>4 DEF Turn
  <2>2. CASE w0 # NIL /\ w1 = NIL
    <3>1. done = Turn(t1, NIL)  BY <1>3, <2>2 DEF done
    <3> QED BY <3>1, <2>2, <1>5 DEF Turn
  <2>3. CASE w0 # NIL /\ w1 # NIL /\ ~t1.red[t1.kid[s][w1]] /\ turn
    <3>1. done = Turn(Paint(t1, w1, TRUE), p)  BY <1>3, <2>3 DEF done
    <3> QED BY <3>1, <2>3, <1>1, <1>7 DEF Turn
  <2>4. CASE w0 # NIL /\ w1 # NIL /\ (t1.red[t1.kid[s][w1]] \/ ~turn) /\ w2 = NIL
    <3>1. done = Turn(t2, NIL)  BY <1>3, <2>4 DEF done
    <3> QED BY <3>1, <2>4, <1>8 DEF Turn
  <2>5. CASE w0 # NIL /\ w1 # NIL /\ (t1.red[t1.kid[s][w1]] \/ ~turn) /\ w2 # NIL
    <3>1. done = Borrow(t2, p, s, w2)  BY <1>3, <2>5 DEF done
    <3> QED BY <3>1, <2>5, <1>9
  <2> QED BY <2>1, <2>2, <2>3, <2>4, <2>5
<1> QED BY <1>10

-----------------------------------------------------------------------------
(* The function that LoopEnd looks for exists: what lies ahead of a node   *)
(* is the least set that contains it and where its members lead to.        *)
LeadsInto(next, S) == \A j \in S : next[j] # NIL => next[j] \in S
Ahead(next, m) == {k \in Addr : \A S \in SUBSET Addr : m \in S /\ LeadsInto(next, S) => k \in S}
Stops(next, m) == {k \in Ahead(next, m) : next[k] = NIL}

LEMMA LoopEndIs ==
  ASSUME NEW next \in [Addr -> Cell], NEW n \in Addr
  PROVE  LoopEnd(next, n) = IF next[n] = NIL THEN n ELSE LoopEnd(next, next[n])
<1> DEFINE Is(f) == f = [m \in Addr |-> IF next[m] = NIL THEN m ELSE f[next[m]]]
           Go == CHOOSE f : Is(f)
           stop == [m \in Addr |-> CHOOSE e : e \in Stops(next, m)]
<1>1. \A m \in Addr : LoopEnd(next, m) = Go[m]  BY DEF LoopEnd
<1>2. \A m \in Addr : next[m] # NIL => next[m] \in Addr  BY DEF Cell
<1>3. ASSUME NEW m \in Addr, next[m] = NIL PROVE Stops(next, m) = {m}
  <2>1. LeadsInto(next, {m}) /\ {m} \in SUBSET Addr  BY <1>3 DEF LeadsInto
  <2>2. Ahead(next, m) = {m}  BY <2>1 DEF Ahead
  <2> QED BY <2>2, <1>3 DEF Stops
<1>4. ASSUME NEW m \in Addr, next[m] # NIL PROVE Stops(next, m) = Stops(next, next[m])
  <2>1. ASSUME NEW S \in SUBSET Addr, LeadsInto(next, S), m \in S PROVE next[m] \in S
    BY <2>1, <1>4 DEF LeadsInto
  <2>2. Ahead(next, next[m]) \subseteq Ahead(next, m)  BY <2>1 DEF Ahead
  <2>3. ASSUME NEW k \in Ahead(next, m), k # m PROVE k \in Ahead(next, next[m])
    <3>1. SUFFICES ASSUME NEW S \in SUBSET Addr, next[m] \in S, LeadsInto(next, S) PROVE k \in S
      BY DEF Ahead
    <3>2. LeadsInto(next, S \cup {m}) /\ S \cup {m} \in SUBSET Addr  BY <3>1 DEF LeadsInto
    <3>3. k \in S \cup {m}  BY <3>2 DEF Ahead
    <3> QED BY <2>3, <3>3
  <2> QED BY <2>2, <2>3, <1>4 DEF Stops
<1>5. Is(stop)
  <2>1. ASSUME NEW m \in Addr PROVE stop[m] = IF next[m] = NIL THEN m ELSE stop[next[m]]
    <3>1. CASE next[m] = NIL
      <4>1. stop[m] = CHOOSE e : e \in {m}  BY <3>1, <1>3
      <4>2. (CHOOSE e : e \in {m}) = m  OBVIOUS
      <4> QED BY <3>1, <4>1, <4>2
    <3>2. CASE next[m] # NIL
      <4>1. next[m] \in Addr /\ Stops(next, m) = Stops(next, next[m])  BY <3>2, <1>2, <1>4
      <4> QED BY <3>2, <4>1
    <3> QED BY <3>1, <3>2
  <2>2. stop = [m \in Addr |-> stop[m]]  OBVIOUS
  <2> HIDE DEF stop
  <2>3. [m \in Addr |-> stop[m]] = [m \in Addr |-> IF next[m] = NIL THEN m ELSE stop[next[m]]]
    BY <2>1
  <2> QED BY <2>2, <2>3
<1>6. Is(Go)
  <2> HIDE DEF stop, Is
  <2> QED BY <1>5
<1> HIDE DEF Go
<1>7. Go[n] = IF next[n] = NIL THEN n ELSE Go[next[n]]  BY <1>6
<1> QED BY <1>1, <1>2, <1>7

(* A loop that goes down the tree stays in what its steps stay in, and     *)
(* stops where there is nowhere to go.                                     *)
LEMMA PathEnds ==
  ASSUME NEW t, NEW T, NEW b, Shape(t, T, b), NEW next \in [Addr -> Cell],
         \A n \in T : next[n] = NIL \/ \E s \in Side : next[n] = t.kid[s][n],
         NEW S \in SUBSET T, LeadsInto(next, S), NEW n \in S
  PROVE  LoopEnd(next, n) \in S /\ next[LoopEnd(next, n)] = NIL
<1> DEFINE Good(m) == LoopEnd(next, m) \in S /\ next[LoopEnd(next, m)] = NIL
           Bad == {m \in S : ~Good(m)}
<1>1. Bad = {}
  <2> SUFFICES ASSUME Bad # {} PROVE FALSE  OBVIOUS
  <2>0. Bad \in SUBSET T  OBVIOUS
  <2> HIDE DEF Bad
  <2>1. PICK m \in Bad : \A k \in Bad : Width(b, m) <= Width(b, k)  BY <2>0, Narrowest
  <2> USE DEF Bad
  <2>2. m \in S /\ ~Good(m) /\ m \in T /\ m \in Addr  BY ShapeTypes
  <2>3. LoopEnd(next, m) = IF next[m] = NIL THEN m ELSE LoopEnd(next, next[m])
    BY <2>2, LoopEndIs
  <2>4. next[m] # NIL  BY <2>2, <2>3
  <2>5. next[m] \in S  BY <2>2, <2>4 DEF LeadsInto
  <2>6. next[m] \in Bad  BY <2>2, <2>3, <2>4, <2>5
  <2>7. Width(b, next[m]) < Width(b, m)  BY <2>2, <2>4, ChildRange
  <2>8. Width(b, m) \in Nat /\ Width(b, next[m]) \in Nat  BY <2>2, <2>5, ShapeTypes
  <2> HIDE DEF Bad
  <2> QED BY <2>1, <2>6, <2>7, <2>8
<1> QED BY <1>1

-----------------------------------------------------------------------------
(* A node and those above it. The search for its number goes down through  *)
(* these, and they are all the nodes that have the number in their range.  *)
RisesInto(t, S) == \A k \in S : t.parent[k] # NULL => t.parent[k] \in S
Lineage(t, T, n) == {m \in T : \A S \in SUBSET T : n \in S /\ RisesInto(t, S) => m \in S}

LEMMA LineageFacts ==
  ASSUME NEW t, NEW T, NEW b, Shape(t, T, b), NEW n \in T
  PROVE  LET up == Lineage(t, T, n)
             h == t.id[n]
         IN /\ n \in up /\ up \in SUBSET T /\ t.root \in up
            /\ \A m \in up : InRange(h, b, m)
            /\ \A m \in up : m # n => Towards(t, m, h) \in up /\ t.id[m] # h
            /\ \A m \in T : InRange(h, b, m) => m \in up
<1> DEFINE up == Lineage(t, T, n)
           h == t.id[n]
<1>1. n \in up /\ up \in SUBSET T  BY DEF Lineage
<1>2. \A m \in T : t.parent[m] # NULL => t.parent[m] \in T  BY ParentFacts
<1>3. RisesInto(t, up)  BY <1>2 DEF RisesInto, Lineage
<1>4. h \in Nat /\ \A m \in T : t.id[m] \in Nat  BY ShapeTypes
<1>5. \A m \in up : InRange(h, b, m)
  <2> DEFINE S == {m \in T : InRange(h, b, m)}
  <2>1. n \in S  BY DEF Shape
  <2>2. ASSUME NEW k \in S, t.parent[k] # NULL PROVE t.parent[k] \in S
    <3>1. PICK s \in Side : t.parent[k] \in T /\ t.kid[s][t.parent[k]] = k
      BY <2>2, ParentFacts
    <3>2. k # NIL  BY ShapeTypes
    <3>3. InRange(h, b, t.parent[k])  BY <1>4, <3>1, <3>2, ChildRange
    <3> QED BY <3>1, <3>3
  <2>3. RisesInto(t, S)  BY <2>2 DEF RisesInto
  <2> QED BY <2>1, <2>3 DEF Lineage
<1>6. t.root \in up
  <2>1. PICK m \in up : \A k \in up : Width(b, k) <= Width(b, m)  BY <1>1, Widest
  <2>2. ASSUME m # t.root PROVE FALSE
    <3>1. t.parent[m] \in T /\ Width(b, m) < Width(b, t.parent[m]) /\ t.parent[m] # NULL
      BY <1>1, <2>2, ParentFacts
    <3>2. t.parent[m] \in up  BY <1>3, <3>1 DEF RisesInto
    <3>3. Width(b, m) \in Nat /\ Width(b, t.parent[m]) \in Nat  BY <1>1, <3>1, ShapeTypes
    <3>4. Width(b, t.parent[m]) <= Width(b, m)  BY <2>1, <3>2
    <3> QED BY <3>1, <3>3, <3>4
  <2> QED BY <2>2
<1>7. ASSUME NEW m \in T, NEW s \in Side, t.kid[s][m] # NIL, InRange(h, b, t.kid[s][m])
      PROVE  t.kid[s][m] = Towards(t, m, h) /\ t.id[m] # h
  <2>1. InRange(h, b, m) /\ t.id[m] # h  BY <1>4, <1>7, ChildRange
  <2>2. s = "left" <=> h < t.id[m]  BY <1>4, <1>7, <2>1, ChildRange
  <2> QED BY <2>1, <2>2 DEF Towards, Side
<1>8. ASSUME NEW m \in up, m # n PROVE Towards(t, m, h) \in up /\ t.id[m] # h
  <2>1. PICK k \in up : t.parent[k] = m
    <3> SUFFICES ASSUME \A k \in up : t.parent[k] # m PROVE FALSE  OBVIOUS
    <3>1. RisesInto(t, up \ {m})  BY <1>3 DEF RisesInto
    <3>2. n \in up \ {m} /\ up \ {m} \in SUBSET T  BY <1>1, <1>8
    <3> QED BY <3>1, <3>2, <1>8 DEF Lineage
  <2>2. m \in T /\ k \in T /\ m # NULL /\ k # NIL  BY <1>1, ShapeTypes
  <2>3. PICK s \in Side : t.kid[s][m] = k  BY <2>1, <2>2, ParentFacts
  <2>4. InRange(h, b, k)  BY <1>5
  <2> QED BY <1>7, <2>2, <2>3, <2>4
<1>9. \A m \in T : InRange(h, b, m) => m \in up
  <2> DEFINE Out == {m \in T : InRange(h, b, m) /\ m \notin up}
  <2>1. Out = {}
    <3> SUFFICES ASSUME Out # {} PROVE FALSE  OBVIOUS
    <3>0. Out \in SUBSET T  OBVIOUS
    <3> HIDE DEF Out
    <3>1. PICK m \in Out : \A k \in Out : Width(b, k) <= Width(b, m)  BY <3>0, Widest
    <3>2. m \in T /\ InRange(h, b, m) /\ m \notin up  BY DEF Out
    <3>3. m # t.root  BY <3>2, <1>6
    <3> DEFINE p == t.parent[m]
    <3>4. p \in T /\ p # NULL /\ Width(b, m) < Width(b, p) /\ \E s \in Side : t.kid[s][p] = m
      BY <3>2, <3>3, ParentFacts
    <3>5. Width(b, m) \in Nat /\ Width(b, p) \in Nat /\ m # NIL  BY <3>2, <3>4, ShapeTypes
    <3>6. PICK s \in Side : t.kid[s][p] = m  BY <3>4
    <3>7. InRange(h, b, p)  BY <1>4, <3>2, <3>4, <3>5, <3>6, ChildRange
    <3>8. m = Towards(t, p, h) /\ t.id[p] # h  BY <1>7, <3>2, <3>4, <3>5, <3>6
    <3>9. p \in up
      <4> SUFFICES ASSUME p \notin up PROVE FALSE  OBVIOUS
      <4>1. p \in Out  BY <3>4, <3>7 DEF Out
      <4>2. Width(b, p) <= Width(b, m)  BY <3>1, <4>1
      <4> QED BY <3>4, <3>5, <4>2
    <3>10. p # n  BY <3>8
    <3> QED BY <3>2, <3>8, <3>9, <3>10, <1>8
  <2> QED BY <2>1
<1> QED BY <1>1, <1>5, <1>6, <1>8, <1>9

LEMMA FindIs ==
  ASSUME NEW t, NEW T, SoundTree(t, T), NEW h \in Handle
  PROVE  /\ \A n \in T : t.id[n] = h => htree_find(t, h) = n
         /\ (\A n \in T : t.id[n] # h) => htree_find(t, h) = NULL
<1> DEFINE next == [n \in Addr |-> IF t.id[n] = h THEN NIL ELSE Towards(t, n, h)]
           end == LoopEnd(next, t.root)
<1>1. PICK b : Shape(t, T, b)  BY DEF SoundTree
<1>2. t \in Tree /\ T \subseteq Addr /\ NIL \notin T /\ t.root \in T \cup {NIL}  BY NodeIn
<1>3. ASSUME NEW n \in Addr PROVE Towards(t, n, h) \in Cell /\ \E s \in Side : Towards(t, n, h) = t.kid[s][n]
  <2>1. "left" \in Side /\ "right" \in Side /\ n \in Cell  BY DEF Side, Cell
  <2> QED BY <1>2, <2>1 DEF Tree, Towards
<1>4. next \in [Addr -> Cell]  BY <1>3 DEF Cell
<1>5. \A n \in T : next[n] = NIL \/ \E s \in Side : next[n] = t.kid[s][n]  BY <1>2, <1>3
<1>6. htree_find(t, h) = IF t.root # NIL /\ t.id[end] = h THEN end ELSE NULL  BY DEF htree_find
<1> HIDE DEF next
<1>7. ASSUME NEW n \in T, t.id[n] = h PROVE htree_find(t, h) = n
  <2> DEFINE up == Lineage(t, T, n)
  <2>1. /\ n \in up /\ up \in SUBSET T /\ t.root \in up
        /\ \A m \in up : m # n => Towards(t, m, h) \in up /\ t.id[m] # h
    BY <1>1, <1>7, LineageFacts
  <2>2. \A m \in up : m # n => next[m] \in up /\ next[m] # NIL
    BY <1>2, <2>1 DEF next
  <2>3. next[n] = NIL  BY <1>2, <1>7 DEF next
  <2>4. LeadsInto(next, up)  BY <2>2, <2>3 DEF LeadsInto
  <2> HIDE DEF up
  <2>5. end \in up /\ next[end] = NIL  BY <1>1, <1>4, <1>5, <2>1, <2>4, PathEnds
  <2>6. end = n  BY <2>2, <2>5
  <2>7. t.root # NIL  BY <1>2, <2>1
  <2> QED BY <1>6, <1>7, <2>6, <2>7
<1>8. ASSUME \A n \in T : t.id[n] # h PROVE htree_find(t, h) = NULL
  <2>1. CASE t.root = NIL  BY <2>1, <1>6
  <2>2. CASE t.root # NIL
    <3>1. LeadsInto(next, T)
      <4>1. \A n \in T, s \in Side : t.kid[s][n] # NIL => t.kid[s][n] \in T  BY NodeIn
      <4> QED BY <4>1, <1>5 DEF LeadsInto
    <3>2. t.root \in T /\ T \in SUBSET T  BY <2>2, <1>2
    <3>3. end \in T  BY <1>1, <1>4, <1>5, <3>1, <3>2, PathEnds
    <3> QED BY <3>3, <1>6, <1>8
  <2> QED BY <2>1, <2>2
<1> QED BY <1>7, <1>8

(* No two nodes of the tree stand for the same number.                     *)
LEMMA IdsApart ==
  ASSUME NEW t, NEW T, SoundTree(t, T), NEW m \in T, NEW n \in T, t.id[m] = t.id[n]
  PROVE  m = n
<1>1. t.id[m] \in Handle  BY NodeIn
<1> QED BY <1>1, FindIs

-----------------------------------------------------------------------------
(* A node that is inserted hangs from the leaf whose range has its number. *)
LEMMA LeafIs ==
  ASSUME NEW t, NEW T, NEW b, Shape(t, T, b), NEW h \in Handle, \A n \in T : t.id[n] # h
  PROVE  LET p == LeafFor(t, h)
         IN IF t.root = NIL THEN p = NULL
            ELSE p \in T /\ InRange(h, b, p) /\ Towards(t, p, h) = NIL
<1> DEFINE next == [n \in Addr |-> Towards(t, n, h)]
           S == {m \in T : InRange(h, b, m)}
           end == LoopEnd(next, t.root)
<1>1. CASE t.root = NIL  BY <1>1 DEF LeafFor
<1>2. CASE t.root # NIL
  <2>0. t \in Tree /\ T \subseteq Addr /\ t.root \in T  BY <1>2 DEF Shape
  <2>1. ASSUME NEW n \in Addr
        PROVE  Towards(t, n, h) \in Cell /\ \E s \in Side : Towards(t, n, h) = t.kid[s][n]
    <3>1. "left" \in Side /\ "right" \in Side /\ n \in Cell  BY DEF Side, Cell
    <3> QED BY <2>0, <3>1 DEF Tree, Towards
  <2>2. next \in [Addr -> Cell]  BY <2>1
  <2>3. \A n \in T : next[n] = NIL \/ \E s \in Side : next[n] = t.kid[s][n]  BY <2>0, <2>1
  <2>4. t.root \in S
    <3>1. b["left"][t.root] = 0 /\ b["right"][t.root] = MaxHandle + 1  BY <1>2 DEF Shape
    <3>2. h \in Nat /\ h # 0 /\ MaxHandle \in Nat /\ h <= MaxHandle  BY Addresses
    <3> QED BY <2>0, <3>1, <3>2 DEF InRange
  <2>5. ASSUME NEW m \in S, next[m] # NIL PROVE next[m] \in S
    <3> DEFINE s == IF h < t.id[m] THEN "left" ELSE "right"
    <3>1. s \in Side /\ next[m] = t.kid[s][m]  BY <2>0 DEF Towards, Side
    <3>2. h \in Nat /\ t.id[m] \in Nat /\ t.id[m] # h  BY ShapeTypes, Addresses
    <3>3. s = "left" <=> h < t.id[m]  OBVIOUS
    <3> HIDE DEF s
    <3>4. t.kid[s][m] # NIL /\ t.kid[s][m] \in T  BY <2>5, <3>1, ChildRange
    <3>5. InRange(h, b, m)  OBVIOUS
    <3>6. InRange(h, b, t.kid[s][m])
      <4>1. s = "right" <=> ~(h < t.id[m])  BY <3>1, <3>3 DEF Side
      <4> QED BY <3>1, <3>2, <3>3, <3>4, <3>5, <4>1, ChildRange
    <3> QED BY <3>1, <3>4, <3>6
  <2>6. LeadsInto(next, S) /\ S \in SUBSET T  BY <2>5 DEF LeadsInto
  <2> HIDE DEF next, S
  <2>7. end \in S /\ next[end] = NIL  BY <2>2, <2>3, <2>4, <2>6, PathEnds
  <2>8. LeafFor(t, h) = end  BY <1>2 DEF LeafFor, next
  <2>9. next[end] = Towards(t, end, h)  BY <2>0, <2>7 DEF next, S
  <2> QED BY <1>2, <2>7, <2>8, <2>9 DEF S
<1> QED BY <1>1, <1>2

Inserted(t, r, x, h) ==
  /\ r \in Tree /\ r.heap = t.heap \cup {x} /\ r.red[x]
  /\ \A n \in Cell : /\ n # x => r.red[n] = t.red[n]
                     /\ r.id[n] = IF n = x THEN h ELSE t.id[n]
                     /\ r.obj[n] = IF n = x THEN h ELSE t.obj[n]

LEMMA InsertKeeps ==
  ASSUME NEW t, NEW T, SoundTree(t, T), NEW x \in Addr, x \notin T, NEW h \in Handle,
         \A n \in T : t.id[n] # h
  PROVE  LET r == Insert(t, x, h)
         IN /\ SoundTree(r, T \cup {x}) /\ Inserted(t, r, x, h)
            /\ r.root = IF t.root = NIL THEN x ELSE t.root
<1> DEFINE p == LeafFor(t, h)
           side == IF h < t.id[p] THEN "left" ELSE "right"
           r == Insert(t, x, h)
           U == T \cup {x}
<1>1. PICK b : Shape(t, T, b)  BY DEF SoundTree
<1>2. /\ t \in Tree /\ T \subseteq Addr /\ T \subseteq Cell /\ NIL \notin T /\ NULL \notin T
      /\ NIL \in Cell /\ t.root \in T \cup {NIL}
  BY NodeIn
<1>3. IF t.root = NIL THEN p = NULL
      ELSE p \in T /\ InRange(h, b, p) /\ Towards(t, p, h) = NIL
  BY <1>1, LeafIs
<1>4. x \in Cell /\ x # NIL /\ x # NULL /\ h \in Nat /\ h \in Bound /\ h # 0 /\ h <= MaxHandle
      /\ MaxHandle \in Nat
  BY Addresses DEF Cell, Bound
<1>5. side \in Side /\ "left" \in Side /\ "right" \in Side  BY DEF Side
<1>6. t.root # NIL => t.kid[side][p] = NIL  BY <1>3 DEF Towards
<1>7. /\ r \in Tree /\ r.heap = t.heap \cup {x}
      /\ r.root = IF p = NULL THEN x ELSE t.root
      /\ \A n \in Cell : /\ r.red[n] = IF n = x THEN TRUE ELSE t.red[n]
                         /\ r.id[n] = IF n = x THEN h ELSE t.id[n]
                         /\ r.obj[n] = IF n = x THEN h ELSE t.obj[n]
                         /\ r.parent[n] = IF n = x THEN p ELSE t.parent[n]
      /\ \A s \in Side, n \in Cell :
           r.kid[s][n] = IF n = x THEN NIL ELSE IF p # NULL /\ n = p /\ s = side THEN x
                         ELSE t.kid[s][n]
  <2> DEFINE t1 == [t EXCEPT !.id[x] = h, !.obj[x] = h, !.red[x] = TRUE,
                             !.parent[x] = p, !.kid["left"][x] = NIL,
                             !.kid["right"][x] = NIL, !.heap = @ \cup {x}]
  <2>1. p \in Link  BY <1>2, <1>3 DEF Link
  <2> HIDE DEF p
  <2>2. /\ t1 \in Tree /\ t1.heap = t.heap \cup {x} /\ t1.root = t.root
        /\ \A n \in Cell : /\ t1.red[n] = IF n = x THEN TRUE ELSE t.red[n]
                           /\ t1.id[n] = IF n = x THEN h ELSE t.id[n]
                           /\ t1.obj[n] = IF n = x THEN h ELSE t.obj[n]
                           /\ t1.parent[n] = IF n = x THEN p ELSE t.parent[n]
        /\ \A s \in Side, n \in Cell : t1.kid[s][n] = IF n = x THEN NIL ELSE t.kid[s][n]
    <3> DEFINE e1 == [t EXCEPT !.id[x] = h]
               e2 == [e1 EXCEPT !.obj[x] = h]
               e3 == [e2 EXCEPT !.red[x] = TRUE]
               e4 == [e3 EXCEPT !.parent[x] = p]
               e5 == SetKid(e4, "left", x, NIL)
               e6 == SetKid(e5, "right", x, NIL)
               e7 == [e6 EXCEPT !.heap = @ \cup {x}]
    <3>0. t1 = e7  BY DEF SetKid
    <3> HIDE DEF t1
    <3>1. e4 \in Tree /\ e4.kid = t.kid /\ e4.heap = t.heap /\ e4.root = t.root
            /\ \A n \in Cell : /\ e4.red[n] = IF n = x THEN TRUE ELSE t.red[n]
                               /\ e4.id[n] = IF n = x THEN h ELSE t.id[n]
                               /\ e4.obj[n] = IF n = x THEN h ELSE t.obj[n]
                               /\ e4.parent[n] = IF n = x THEN p ELSE t.parent[n]
      BY <1>2, <1>4, <2>1 DEF Tree
    <3> HIDE DEF e4
    <3>2. KidSet(e4, e5, "left", x, NIL)  BY <3>1, <1>2, <1>4, <1>5, SetKidIs
    <3> HIDE DEF e5
    <3>3. KidSet(e5, e6, "right", x, NIL)
      <4>1. e5 \in Tree  BY <3>2 DEF KidSet, OnlyKids
      <4> QED BY <4>1, <1>2, <1>4, <1>5, SetKidIs
    <3> HIDE DEF e6
    <3>4. /\ e6 \in Tree /\ e6.heap = t.heap /\ e6.root = t.root
          /\ e6.red = e4.red /\ e6.id = e4.id /\ e6.obj = e4.obj /\ e6.parent = e4.parent
      BY <3>1, <3>2, <3>3 DEF KidSet, OnlyKids
    <3>5. \A s \in Side, n \in Cell : e6.kid[s][n] = IF n = x THEN NIL ELSE t.kid[s][n]
      BY <3>1, <3>2, <3>3 DEF KidSet, Side
    <3>6. /\ e7 \in Tree /\ e7.heap = t.heap \cup {x} /\ e7.root = e6.root
          /\ e7.red = e6.red /\ e7.id = e6.id /\ e7.obj = e6.obj /\ e7.parent = e6.parent
          /\ e7.kid = e6.kid
      BY <3>4 DEF Tree
    <3> HIDE DEF e7
    <3>7. /\ t1 \in Tree /\ t1.heap = t.heap \cup {x} /\ t1.root = t.root
          /\ t1.red = e4.red /\ t1.id = e4.id /\ t1.obj = e4.obj /\ t1.parent = e4.parent
      BY <3>0, <3>1, <3>4, <3>6
    <3>8. \A s \in Side, n \in Cell : t1.kid[s][n] = IF n = x THEN NIL ELSE t.kid[s][n]
      BY <3>0, <3>5, <3>6
    <3>9. \A n \in Cell : /\ t1.red[n] = IF n = x THEN TRUE ELSE t.red[n]
                          /\ t1.id[n] = IF n = x THEN h ELSE t.id[n]
                          /\ t1.obj[n] = IF n = x THEN h ELSE t.obj[n]
                          /\ t1.parent[n] = IF n = x THEN p ELSE t.parent[n]
      BY <3>1, <3>7
    <3> QED BY <3>7, <3>8, <3>9
  <2>3. r = IF p = NULL THEN [t1 EXCEPT !.root = x] ELSE SetKid(t1, side, p, x)
    <3>1. p # NULL => t1.id = [t.id EXCEPT ![x] = h]  BY <1>2 DEF Tree
    <3> QED BY DEF Insert, p
  <2> HIDE DEF t1, r
  <2>4. CASE p = NULL
    <3>1. r = [t1 EXCEPT !.root = x]  BY <2>3, <2>4
    <3> QED BY <3>1, <2>2, <2>4, <1>4 DEF Tree
  <2>5. CASE p # NULL
    <3>1. r = SetKid(t1, side, p, x)  BY <2>3, <2>5
    <3>2. p \in T /\ p \in Cell /\ p # x  BY <2>5, <1>2, <1>3 DEF p
    <3> HIDE DEF side
    <3>3. KidSet(t1, r, side, p, x)  BY <3>1, <3>2, <2>2, <1>4, <1>5, SetKidIs
    <3>4. /\ r \in Tree /\ r.heap = t1.heap /\ r.root = t1.root /\ r.red = t1.red
          /\ r.id = t1.id /\ r.obj = t1.obj /\ r.parent = t1.parent
      BY <3>3 DEF KidSet, OnlyKids
    <3>5. ASSUME NEW s \in Side, NEW n \in Cell
          PROVE  r.kid[s][n] = IF n = x THEN NIL ELSE IF p # NULL /\ n = p /\ s = side THEN x
                               ELSE t.kid[s][n]
      BY <2>2, <2>5, <3>2, <3>3 DEF KidSet
    <3>6. ASSUME NEW n \in Cell
          PROVE  /\ r.red[n] = IF n = x THEN TRUE ELSE t.red[n]
                 /\ r.id[n] = IF n = x THEN h ELSE t.id[n]
                 /\ r.obj[n] = IF n = x THEN h ELSE t.obj[n]
                 /\ r.parent[n] = IF n = x THEN p ELSE t.parent[n]
      <4>1. r.red[n] = t1.red[n] /\ r.id[n] = t1.id[n] /\ r.obj[n] = t1.obj[n] /\ r.parent[n] = t1.parent[n]
        BY <3>4
      <4> QED BY <2>2, <4>1
    <3>7. r \in Tree /\ r.heap = t.heap \cup {x} /\ r.root = IF p = NULL THEN x ELSE t.root
      BY <2>2, <2>5, <3>4
    <3> QED BY <3>5, <3>6, <3>7
  <2> QED BY <2>4, <2>5
<1> HIDE DEF r
<1>8. r.root = IF t.root = NIL THEN x ELSE t.root  BY <1>2, <1>3, <1>7
<1>9. Inserted(t, r, x, h)  BY <1>4, <1>7 DEF Inserted
<1> DEFINE edge(s) == IF p = NULL THEN (IF s = "left" THEN 0 ELSE MaxHandle + 1)
                      ELSE IF s = side THEN b[s][p] ELSE t.id[p]
           b2 == [s \in Side |-> [n \in Addr |-> IF n = x THEN edge(s) ELSE b[s][n]]]
<1>10. Shape(r, U, b2)
  <2>1. p # NULL => /\ p \in T /\ t.root # NIL /\ p \in Cell /\ p \in Addr /\ p # x /\ p # NIL
                    /\ t.id[p] \in Nat /\ t.id[p] \in Bound /\ t.id[p] # h
                    /\ InRange(h, b, p)
                    /\ (\A s \in Side : b[s][p] \in Bound)
                    /\ b["left"][p] \in Nat /\ b["right"][p] \in Nat
    <3>1. p # NULL => p \in T /\ t.root # NIL /\ InRange(h, b, p)  BY <1>3
    <3>2. p \in T => /\ p \in Cell /\ p \in Addr /\ p # NIL
                     /\ t.id[p] \in Nat /\ t.id[p] \in Bound
                     /\ (\A s \in Side : b[s][p] \in Bound)
                     /\ b["left"][p] \in Nat /\ b["right"][p] \in Nat
      BY <1>1, ShapeTypes
    <3> HIDE DEF p
    <3> QED BY <3>1, <3>2
  <2>2. \A s \in Side : edge(s) \in Bound  BY <2>1, <1>4 DEF Bound
  <2>3. b2 \in Bounds
    <3>1. \A s \in Side, n \in Addr : b[s][n] \in Bound  BY <1>1 DEF Shape, Bounds
    <3> HIDE DEF edge
    <3> QED BY <2>2, <3>1 DEF Bounds
  <2>4. edge("left") < h /\ h < edge("right")
    <3>1. CASE p = NULL  BY <3>1, <1>4
    <3>2. CASE p # NULL /\ h < t.id[p]
      <4>1. side = "left"  BY <3>2
      <4> HIDE DEF p, side
      <4> QED BY <3>2, <4>1, <2>1 DEF InRange
    <3>3. CASE p # NULL /\ ~(h < t.id[p])
      <4>1. side = "right"  BY <3>3
      <4>2. t.id[p] < h  BY <3>3, <2>1, <1>4
      <4> HIDE DEF p, side
      <4> QED BY <3>3, <4>1, <4>2, <2>1 DEF InRange
    <3> QED BY <3>1, <3>2, <3>3
  <2>5. /\ \A s \in Side : b2[s][x] = edge(s)
        /\ \A s \in Side, n \in Addr : n # x => b2[s][n] = b[s][n]
    OBVIOUS
  <2>6. p # NULL => edge(side) = b[side][p] /\ edge(Other(side)) = t.id[p]
    BY <1>5, Sides
  <2>7. p = NULL => T = {} /\ edge("left") = 0 /\ edge("right") = MaxHandle + 1
    <3>1. p = NULL => t.root = NIL  BY <1>2, <1>3
    <3>2. t.root = NIL => T = {}  BY <1>2, RootThere
    <3> QED BY <3>1, <3>2
  <2> HIDE DEF b2, edge, p, side, U
  <2>8. Sentinel(r)
    <3>1. Sentinel(t)  BY <1>1 DEF Shape
    <3> QED BY <3>1, <1>2, <1>4, <1>7, <2>1 DEF Sentinel
  <2>9. r.root \in U /\ r.parent[r.root] = NULL
          /\ b2["left"][r.root] = 0 /\ b2["right"][r.root] = MaxHandle + 1
    <3>1. CASE p = NULL
      <4>1. r.root = x /\ r.parent[x] = NULL  BY <3>1, <1>4, <1>7
      <4>2. b2["left"][x] = 0 /\ b2["right"][x] = MaxHandle + 1  BY <3>1, <1>5, <2>5, <2>7
      <4> QED BY <4>1, <4>2 DEF U
    <3>2. CASE p # NULL
      <4>1. t.root \in T /\ t.root \in Cell /\ t.root \in Addr /\ t.root # x
        BY <3>2, <1>2, <2>1
      <4>2. t.parent[t.root] = NULL /\ b["left"][t.root] = 0 /\ b["right"][t.root] = MaxHandle + 1
        BY <1>1, <2>1, <3>2 DEF Shape
      <4>3. r.root = t.root /\ r.parent[t.root] = NULL  BY <3>2, <4>1, <4>2, <1>7
      <4>4. b2["left"][t.root] = 0 /\ b2["right"][t.root] = MaxHandle + 1
        BY <4>1, <4>2, <1>5, <2>5
      <4> QED BY <4>1, <4>3, <4>4 DEF U
    <3> QED BY <3>1, <3>2
  <2>10. ASSUME NEW n \in U PROVE r.id[n] \in Handle /\ InRange(r.id[n], b2, n)
    <3>1. CASE n = x  BY <3>1, <1>4, <1>5, <1>7, <2>4, <2>5 DEF InRange
    <3>2. CASE n # x
      <4>1. n \in T /\ n \in Cell /\ n \in Addr  BY <3>2, <1>2 DEF U
      <4>2. t.id[n] \in Handle /\ InRange(t.id[n], b, n)  BY <1>1, <4>1 DEF Shape
      <4> QED BY <3>2, <4>1, <4>2, <1>5, <1>7, <2>5 DEF InRange
    <3> QED BY <3>1, <3>2
  <2>11. ASSUME NEW n \in U, NEW s \in Side PROVE Child(r, U, b2, n, s)
    <3>0. Other(s) \in Side  BY Sides
    <3>1. CASE n = x  BY <3>1, <1>4, <1>7 DEF Child
    <3>2. CASE n # x /\ p # NULL /\ n = p /\ s = side
      <4>1. r.kid[s][n] = x /\ r.parent[x] = n  BY <3>2, <2>1, <1>4, <1>7
      <4>2. b2[s][x] = b2[s][n] /\ b2[Other(s)][x] = t.id[p]
        BY <3>0, <3>2, <2>1, <2>5, <2>6
      <4>3. r.id[n] = t.id[p]  BY <3>2, <2>1, <1>7
      <4> QED BY <4>1, <4>2, <4>3 DEF Child, U
    <3>3. CASE n # x /\ ~(p # NULL /\ n = p /\ s = side)
      <4>1. n \in T /\ n \in Cell /\ n \in Addr  BY <3>3, <1>2 DEF U
      <4>2. r.kid[s][n] = t.kid[s][n]  BY <3>3, <4>1, <1>7
      <4>3. Child(t, T, b, n, s)  BY <1>1, <4>1 DEF Shape
      <4> DEFINE k == t.kid[s][n]
      <4>4. CASE k = NIL  BY <4>2, <4>4 DEF Child
      <4>5. CASE k # NIL
        <5>1. k \in T /\ t.parent[k] = n /\ b[s][k] = b[s][n] /\ b[Other(s)][k] = t.id[n]
          BY <4>3, <4>5 DEF Child
        <5>2. k # x /\ k \in Cell /\ k \in Addr  BY <5>1, <1>2
        <5>3. r.parent[k] = n /\ r.id[n] = t.id[n]  BY <5>1, <5>2, <4>1, <3>3, <1>7
        <5>4. b2[s][k] = b2[s][n] /\ b2[Other(s)][k] = r.id[n]
          BY <5>1, <5>2, <5>3, <4>1, <3>0, <3>3, <2>5
        <5> HIDE DEF k
        <5> QED BY <5>1, <5>3, <5>4, <4>2 DEF Child, U, k
      <4> QED BY <4>4, <4>5
    <3> QED BY <3>1, <3>2, <3>3
  <2>12. ASSUME NEW n \in U, n # r.root
         PROVE  r.parent[n] \in U /\ \E s \in Side : r.kid[s][r.parent[n]] = n
    <3>1. CASE n = x
      <4>1. p # NULL  BY <2>12, <3>1, <1>7
      <4>2. r.parent[n] = p /\ r.kid[side][p] = x  BY <3>1, <4>1, <2>1, <1>4, <1>5, <1>7
      <4> QED BY <3>1, <4>1, <4>2, <2>1, <1>5 DEF U
    <3>2. CASE n # x
      <4>1. n \in T /\ n \in Cell /\ p # NULL  BY <3>2, <1>2, <2>7 DEF U
      <4>2. n # t.root  BY <4>1, <2>12, <1>7
      <4>3. PICK s \in Side : t.parent[n] \in T /\ t.kid[s][t.parent[n]] = n
        BY <1>1, <4>1, <4>2 DEF Shape
      <4>4. r.parent[n] = t.parent[n] /\ t.parent[n] \in Cell /\ t.parent[n] # x
        BY <3>2, <4>1, <4>3, <1>2, <1>7
      <4>5. r.kid[s][t.parent[n]] = n
        <5>1. n # NIL  BY <1>2, <4>1
        <5>2. ~(t.parent[n] = p /\ s = side)  BY <5>1, <4>1, <4>3, <1>6, <2>1
        <5> QED BY <5>2, <4>3, <4>4, <1>7
      <4> QED BY <4>3, <4>4, <4>5 DEF U
    <3> QED BY <3>1, <3>2
  <2>13. U \subseteq Addr  BY <1>2 DEF U
  <2> QED BY <1>7, <2>3, <2>8, <2>9, <2>10, <2>11, <2>12, <2>13 DEF Shape
<1> QED BY <1>8, <1>9, <1>10 DEF SoundTree, r

-----------------------------------------------------------------------------
(* A node with one child at most leaves the tree, and the ranges that end  *)
(* at its number grow to where its own range ends.                         *)
Widened(t, b, y) ==
  [s \in Side |-> [n \in Addr |-> IF b[s][n] = t.id[y] THEN b[s][y] ELSE b[s][n]]]

Unlinked(t, r, y, x) ==
  /\ r \in Tree /\ r.red = t.red /\ r.id = t.id /\ r.obj = t.obj /\ r.heap = t.heap
  /\ r.root = IF t.parent[y] = NULL THEN x ELSE t.root
  /\ \A n \in Cell : r.parent[n] = IF n = x /\ x # NIL THEN t.parent[y] ELSE t.parent[n]
  /\ \A s \in Side, n \in Cell :
       r.kid[s][n] = IF n = t.parent[y] /\ t.kid[s][n] = y THEN x ELSE t.kid[s][n]

LEMMA UnlinkIs ==
  ASSUME NEW t, NEW T, SoundTree(t, T), NEW y \in T
  PROVE  LET x == OnlyChild(t, y)
         IN /\ Unlinked(t, Unlink(t, y), y, x) /\ x \in (T \ {y}) \cup {NIL}
            /\ x # NIL => t.parent[x] = y
<1> DEFINE x == OnlyChild(t, y)
           p == t.parent[y]
           u == Adopt(t, x, p)
           r == Relink(u, "left", y, x)
<1>0. /\ t \in Tree /\ T \subseteq Addr /\ T \subseteq Cell /\ NIL \notin T /\ NULL \notin T
      /\ NIL \in Cell
  BY NodeIn
<1>1. "left" \in Side /\ "right" \in Side  BY DEF Side
<1>2. x \in (T \ {y}) \cup {NIL} /\ (x # NIL => t.parent[x] = y)
  <2>1. \A s \in Side : /\ t.kid[s][y] \in T \cup {NIL}
                        /\ t.kid[s][y] # NIL => t.kid[s][y] # y /\ t.parent[t.kid[s][y]] = y
    BY NodeIn
  <2> QED BY <1>1, <2>1 DEF OnlyChild
<1>3. p \in T \cup {NULL} /\ p \in Link /\ (p # NULL => p # y /\ \E s \in Side : t.kid[s][p] = y)
  <2>1. y = t.root <=> p = NULL  BY NodeIn
  <2>2. y # t.root => p \in T /\ p # y /\ \E s \in Side : t.kid[s][p] = y  BY NodeIn
  <2> QED BY <1>0, <2>1, <2>2 DEF Link
<1>4. Unlink(t, y) = r  BY DEF Unlink
<1> HIDE DEF x, p
<1>5. Adopted(t, u, x, p)  BY <1>0, <1>2, <1>3, AdoptIs
<1> HIDE DEF u
<1>6. u \in Tree /\ u.root = t.root /\ u.kid = t.kid /\ u.parent[y] = p
  BY <1>0, <1>2, <1>5 DEF Adopted, p
<1>7. p # NULL => t.kid["left"][p] # t.kid["right"][p]
  <2>1. ASSUME p # NULL PROVE t.kid["left"][p] # t.kid["right"][p]
    <3>1. PICK s \in Side : t.kid[s][p] = y  BY <1>3, <2>1
    <3>2. t.kid[s][p] # t.kid[Other(s)][p]  BY <3>1, <2>1, <1>0, <1>3, NodeIn
    <3> QED BY <3>2 DEF Side, Other
  <2> QED BY <2>1
<1>8. Relinked(u, r, y, x)
  <2>1. y \in Addr /\ x \in Cell  BY <1>0, <1>2
  <2>2. u.parent[y] = NULL \/ (u.parent[y] \in Addr /\ \E s \in Side : u.kid[s][u.parent[y]] = y)
    BY <1>0, <1>3, <1>6
  <2>3. u.parent[y] # NULL => u.kid["left"][u.parent[y]] # u.kid["right"][u.parent[y]]
    BY <1>6, <1>7
  <2> QED BY <2>1, <2>2, <2>3, <1>1, <1>6, RelinkIs
<1> HIDE DEF r
<1>9. Unlinked(t, r, y, x)
  <2>1. /\ r \in Tree /\ r.red = t.red /\ r.id = t.id /\ r.obj = t.obj /\ r.heap = t.heap
        /\ r.parent = u.parent
    BY <1>5, <1>8 DEF Adopted, Relinked, OnlyKids
  <2>2. r.root = IF p = NULL THEN x ELSE t.root  BY <1>6, <1>8 DEF Relinked
  <2>3. \A n \in Cell : r.parent[n] = IF n = x /\ x # NIL THEN p ELSE t.parent[n]
    BY <2>1, <1>5 DEF Adopted
  <2>4. \A s \in Side, n \in Cell :
          r.kid[s][n] = IF n = p /\ t.kid[s][n] = y THEN x ELSE t.kid[s][n]
    BY <1>6, <1>8 DEF Relinked
  <2> QED BY <2>1, <2>2, <2>3, <2>4 DEF Unlinked, p
<1> QED BY <1>2, <1>4, <1>9 DEF x

LEMMA UnlinkKeeps ==
  ASSUME NEW t, NEW T, NEW b, Shape(t, T, b), NEW y \in T,
         t.kid["left"][y] = NIL \/ t.kid["right"][y] = NIL
  PROVE  Shape(Unlink(t, y), T \ {y}, Widened(t, b, y))
<1> DEFINE x == OnlyChild(t, y)
           p == t.parent[y]
           U == T \ {y}
           b2 == Widened(t, b, y)
<1> SUFFICES ASSUME NEW r, Unlinked(t, r, y, x) PROVE Shape(r, U, b2)
  BY UnlinkIs DEF SoundTree
<1>0. SoundTree(t, T)  BY DEF SoundTree
<1>1. /\ t \in Tree /\ T \subseteq Addr /\ T \subseteq Cell /\ NIL \notin T /\ NULL \notin T
      /\ NIL \in Cell /\ t.root \in T \cup {NIL} /\ Sentinel(t)
      /\ t.root # NIL => t.parent[t.root] = NULL
  BY <1>0, NodeIn DEF Shape
<1>2. x \in U \cup {NIL} /\ (x # NIL => t.parent[x] = y)  BY <1>0, UnlinkIs
<1>3. \A s \in Side : t.kid[s][y] \in {x, NIL}  BY DEF OnlyChild, Side
<1>4. ASSUME NEW s \in Side, NEW k, k = t.kid[s][y], k # NIL
      PROVE  k = x /\ b[s][k] = b[s][y] /\ b[Other(s)][k] = t.id[y]
  <2>1. k = x  BY <1>3, <1>4
  <2>2. b[s][t.kid[s][y]] = b[s][y] /\ b[Other(s)][t.kid[s][y]] = t.id[y]
    BY <1>4, ChildRange
  <2> QED BY <1>4, <2>1, <2>2
<1>5. (y = t.root <=> p = NULL)
      /\ (p # NULL => p \in T /\ p # y /\ \E s \in Side : t.kid[s][p] = y)
  BY ParentFacts
<1>6. /\ r \in Tree /\ r.red = t.red /\ r.id = t.id
      /\ r.root = IF p = NULL THEN x ELSE t.root
      /\ \A n \in Cell : r.parent[n] = IF n = x /\ x # NIL THEN p ELSE t.parent[n]
      /\ \A s \in Side, n \in Cell :
           r.kid[s][n] = IF n = p /\ t.kid[s][n] = y THEN x ELSE t.kid[s][n]
  BY DEF Unlinked
<1>7. /\ t.id[y] \in Nat /\ b["left"][y] \in Nat /\ b["right"][y] \in Nat /\ t.id[y] \in Handle
      /\ b["left"][y] < t.id[y] /\ t.id[y] < b["right"][y]
  <2>1. t.id[y] \in Nat /\ b["left"][y] \in Nat /\ b["right"][y] \in Nat /\ t.id[y] \in Handle
    BY ShapeTypes
  <2>2. InRange(t.id[y], b, y)  BY DEF Shape
  <2> QED BY <2>1, <2>2 DEF InRange
<1>8. \A s \in Side, n \in Addr : b2[s][n] = IF b[s][n] = t.id[y] THEN b[s][y] ELSE b[s][n]
  BY DEF Widened
<1>9. b2 \in Bounds
  <2>1. \A s \in Side, n \in Addr : b[s][n] \in Bound  BY DEF Shape, Bounds
  <2>2. y \in Addr  BY <1>1
  <2> QED BY <2>1, <2>2 DEF Widened, Bounds
<1> HIDE DEF b2, x, p
<1>10. \A s \in Side : b[s][y] # t.id[y] /\ b2[s][y] = b[s][y]  BY <1>1, <1>7, <1>8 DEF Side
<1>11. x # NIL => \A s \in Side : b2[s][x] = b[s][y]
  <2>1. ASSUME x # NIL PROVE \A s \in Side : b2[s][x] = b[s][y]
    <3>1. PICK s \in Side : t.kid[s][y] = x
      <4>1. x \in T /\ t.parent[x] = y /\ x # t.root  BY <2>1, <1>2, <1>0, <1>1, NodeIn
      <4> QED BY <4>1, <1>0, NodeIn
    <3>2. b[s][x] = b[s][y] /\ b[Other(s)][x] = t.id[y]  BY <2>1, <3>1, <1>4
    <3>3. x \in Addr /\ Other(s) \in Side  BY <2>1, <1>1, <1>2, Sides
    <3>4. b2[s][x] = b[s][y] /\ b2[Other(s)][x] = b[Other(s)][y]
      BY <3>2, <3>3, <1>8, <1>10
    <3> QED BY <3>4, Sides
  <2> QED BY <2>1
<1>12. Sentinel(r)
  <2>1. p # NIL /\ p # NULL => p \in T  BY <1>5
  <2>2. p # NIL  BY <1>1, <1>5, Addresses
  <2> QED BY <2>2, <1>1, <1>6 DEF Sentinel
<1>13. /\ r.root \in U \cup {NIL}
       /\ r.root # NIL =>
            r.parent[r.root] = NULL /\ b2["left"][r.root] = 0 /\ b2["right"][r.root] = MaxHandle + 1
  <2>0. t.root # NIL => /\ t.parent[t.root] = NULL
                        /\ b["left"][t.root] = 0 /\ b["right"][t.root] = MaxHandle + 1
    BY DEF Shape
  <2>1. CASE p = NULL
    <3>1. r.root = x /\ y = t.root /\ y # NIL  BY <2>1, <1>1, <1>5, <1>6
    <3>2. x # NIL => r.parent[x] = NULL /\ b2["left"][x] = 0 /\ b2["right"][x] = MaxHandle + 1
      BY <2>0, <2>1, <3>1, <1>1, <1>2, <1>6, <1>11 DEF Side
    <3> QED BY <3>1, <3>2, <1>2
  <2>2. CASE p # NULL
    <3>1. r.root = t.root /\ t.root # y  BY <2>2, <1>5, <1>6
    <3>2. ASSUME t.root # NIL
          PROVE  /\ r.parent[t.root] = NULL
                 /\ b2["left"][t.root] = 0 /\ b2["right"][t.root] = MaxHandle + 1
      <4>1. t.root \in Cell /\ t.root \in Addr /\ t.root # x
        <5>1. t.root \in T /\ y # NULL  BY <3>2, <1>1
        <5> QED BY <5>1, <2>0, <3>2, <1>1, <1>2
      <4>2. 0 # t.id[y] /\ MaxHandle + 1 # t.id[y]
        <5>1. t.id[y] <= MaxHandle /\ MaxHandle \in Nat  BY <1>7, Addresses
        <5> QED BY <5>1, <1>7
      <4> QED BY <2>0, <3>2, <4>1, <4>2, <1>6, <1>8 DEF Side
    <3> QED BY <3>1, <3>2, <1>1
  <2> QED BY <2>1, <2>2
<1>14. ASSUME NEW n \in U PROVE r.id[n] \in Handle /\ InRange(r.id[n], b2, n)
  <2>1. n \in T /\ n \in Addr /\ t.id[n] \in Handle /\ t.id[n] \in Nat
          /\ b["left"][n] \in Nat /\ b["right"][n] \in Nat
    BY ShapeTypes
  <2>2. b["left"][n] < t.id[n] /\ t.id[n] < b["right"][n]  BY <2>1 DEF Shape, InRange
  <2>3. b2["left"][n] = (IF b["left"][n] = t.id[y] THEN b["left"][y] ELSE b["left"][n])
        /\ b2["right"][n] = (IF b["right"][n] = t.id[y] THEN b["right"][y] ELSE b["right"][n])
    BY <2>1, <1>8 DEF Side
  <2>4. b2["left"][n] < t.id[n] /\ t.id[n] < b2["right"][n]  BY <2>1, <2>2, <2>3, <1>7
  <2> QED BY <2>1, <2>4, <1>6 DEF InRange
<1>15. ASSUME NEW n \in U, NEW s \in Side PROVE Child(r, U, b2, n, s)
  <2> DEFINE k == t.kid[s][n]
  <2>0. n \in T /\ n \in Cell /\ n \in Addr /\ Other(s) \in Side  BY <1>1, Sides
  <2>1. r.kid[s][n] = IF n = p /\ k = y THEN x ELSE k  BY <2>0, <1>6
  <2>2. k # NIL => /\ k \in T /\ t.parent[k] = n
                   /\ b[s][k] = b[s][n] /\ b[Other(s)][k] = t.id[n]
    BY <2>0, ChildRange
  <2> HIDE DEF k
  <2>3. CASE n = p /\ k = y
    <3>1. CASE x = NIL  BY <2>1, <2>3, <3>1 DEF Child
    <3>2. CASE x # NIL
      <4>1. r.kid[s][n] = x /\ r.parent[x] = n /\ x \in U  BY <2>1, <2>3, <3>2, <1>1, <1>2, <1>6
      <4>2. b[s][y] = b[s][n] /\ b[Other(s)][y] = t.id[n]  BY <2>2, <2>3, <1>1
      <4>3. b2[s][x] = b[s][n] /\ b2[Other(s)][x] = t.id[n]  BY <2>0, <3>2, <4>2, <1>11
      <4>4. b2[s][n] = b[s][n]  BY <2>0, <4>2, <1>8, <1>10
      <4> QED BY <4>1, <4>3, <4>4, <1>6 DEF Child
    <3> QED BY <3>1, <3>2
  <2>4. CASE ~(n = p /\ k = y)
    <3>1. r.kid[s][n] = k  BY <2>1, <2>4
    <3>2. CASE k = NIL  BY <3>1, <3>2 DEF Child
    <3>3. CASE k # NIL
      <4>1. k # y  BY <2>2, <2>4, <3>3 DEF p
      <4>2. k # x  BY <2>0, <2>2, <3>3, <1>2
      <4>3. k \in U /\ k \in Cell /\ k \in Addr  BY <2>2, <3>3, <4>1, <1>1
      <4>4. r.parent[k] = n  BY <2>2, <3>3, <4>2, <4>3, <1>6
      <4>5. t.id[n] # t.id[y]  BY <2>0, <1>0, IdsApart
      <4>6. b2[s][k] = b2[s][n] /\ b2[Other(s)][k] = t.id[n]
        BY <2>0, <2>2, <3>3, <4>3, <4>5, <1>8
      <4> QED BY <3>1, <4>3, <4>4, <4>6, <1>6 DEF Child
    <3> QED BY <3>2, <3>3
  <2> QED BY <2>3, <2>4
<1>16. ASSUME NEW n \in U, n # r.root
       PROVE  r.parent[n] \in U /\ \E s \in Side : r.kid[s][r.parent[n]] = n
  <2>0. n \in T /\ n \in Cell /\ n # NIL /\ n # y  BY <1>1
  <2>1. CASE n = x
    <3>1. p # NULL /\ r.parent[n] = p  BY <2>0, <2>1, <1>6, <1>16
    <3>2. p \in U /\ p \in Cell /\ \E s \in Side : t.kid[s][p] = y  BY <3>1, <1>1, <1>5
    <3>3. \E s \in Side : r.kid[s][p] = x  BY <3>2, <1>6
    <3> QED BY <2>1, <3>1, <3>2, <3>3
  <2>2. CASE n # x
    <3>1. n # t.root  BY <2>0, <1>5, <1>6, <1>16
    <3>2. PICK s \in Side : t.parent[n] \in T /\ t.kid[s][t.parent[n]] = n
      BY <2>0, <3>1 DEF Shape
    <3>3. t.parent[n] # y  BY <2>0, <2>2, <3>2, <1>3
    <3>4. r.parent[n] = t.parent[n] /\ t.parent[n] \in U /\ t.parent[n] \in Cell
      BY <2>0, <2>2, <3>2, <3>3, <1>1, <1>6
    <3>5. r.kid[s][t.parent[n]] = n  BY <2>0, <3>2, <3>4, <1>6
    <3> QED BY <3>4, <3>5
  <2> QED BY <2>1, <2>2
<1>17. U \subseteq Addr  BY <1>1
<1> QED BY <1>6, <1>9, <1>12, <1>13, <1>14, <1>15, <1>16, <1>17 DEF Shape

-----------------------------------------------------------------------------
(* The successor of a node with two children has the next number and no    *)
(* left child; the node that takes the number over stays in order.         *)
LEMMA SuccessorFacts ==
  ASSUME NEW t, NEW T, NEW b, Shape(t, T, b), NEW z \in T, t.kid["right"][z] # NIL
  PROVE  LET y == Successor(t, z)
         IN /\ y \in T /\ y # z /\ t.kid["left"][y] = NIL
            /\ t.id[z] < t.id[y] /\ t.id[y] < b["right"][z]
            /\ \A n \in T : t.id[z] < t.id[n] /\ n # y => t.id[y] < t.id[n]
<1> DEFINE next == [m \in Addr |-> t.kid["left"][m]]
           k == t.kid["right"][z]
           y == LoopEnd(next, k)
           S == {m \in T : b["left"][m] = t.id[z] /\ b["right"][m] <= b["right"][z]}
<1>0. t \in Tree /\ T \subseteq Addr /\ "left" \in Side /\ "right" \in Side /\ NIL \notin T
  BY Addresses DEF Shape, Side
<1>1. next \in [Addr -> Cell]  BY <1>0 DEF Tree, Cell
<1>2. \A n \in T : next[n] = NIL \/ \E s \in Side : next[n] = t.kid[s][n]  BY <1>0
<1>3. k \in S
  <2>1. k \in T /\ b["right"][k] = b["right"][z] /\ b["left"][k] = t.id[z]
    BY <1>0, ChildRange DEF Other
  <2>2. b["right"][k] \in Nat  BY <2>1, ShapeTypes
  <2> QED BY <2>1, <2>2
<1>4. LeadsInto(next, S)
  <2> SUFFICES ASSUME NEW m \in S, next[m] # NIL PROVE next[m] \in S  BY DEF LeadsInto
  <2>1. next[m] = t.kid["left"][m] /\ m \in T  BY <1>0
  <2> DEFINE j == t.kid["left"][m]
  <2>2. j \in T /\ b["left"][j] = b["left"][m] /\ b["right"][j] = t.id[m] /\ InRange(t.id[m], b, m)
    <3>1. j \in T /\ b["left"][j] = b["left"][m] /\ b["right"][j] = t.id[m]
      BY <2>1, <1>0, ChildRange DEF Other
    <3>2. InRange(t.id[m], b, m)  BY <2>1 DEF Shape
    <3> QED BY <3>1, <3>2
  <2>3. t.id[m] \in Nat /\ b["right"][m] \in Nat /\ b["right"][z] \in Nat  BY <2>1, ShapeTypes
  <2>4. t.id[m] <= b["right"][z]  BY <2>2, <2>3 DEF InRange
  <2> QED BY <2>1, <2>2, <2>4
<1>5. S \in SUBSET T  OBVIOUS
<1> HIDE DEF next, S
<1>6. y \in S /\ next[y] = NIL  BY <1>1, <1>2, <1>3, <1>4, <1>5, PathEnds
<1>7. Successor(t, z) = y  BY DEF Successor, Leftmost, next
<1> HIDE DEF y
<1>8. y \in T /\ t.kid["left"][y] = NIL /\ b["left"][y] = t.id[z] /\ b["right"][y] <= b["right"][z]
  BY <1>0, <1>6 DEF S, next
<1>9. /\ InRange(t.id[y], b, y) /\ t.id[y] \in Nat /\ t.id[z] \in Nat
      /\ b["right"][y] \in Nat /\ b["right"][z] \in Nat
  <2>1. InRange(t.id[y], b, y)  BY <1>8 DEF Shape
  <2> QED BY <2>1, <1>8, ShapeTypes
<1>10. t.id[z] < t.id[y] /\ t.id[y] < b["right"][z]  BY <1>8, <1>9 DEF InRange
<1>11. ASSUME NEW n \in T, t.id[z] < t.id[n], n # y PROVE t.id[y] < t.id[n]
  <2> SUFFICES ASSUME ~(t.id[y] < t.id[n]) PROVE FALSE  OBVIOUS
  <2>1. t.id[n] \in Nat  BY ShapeTypes
  <2>2. t.id[n] # t.id[y]  BY <1>8, <1>11, IdsApart DEF SoundTree
  <2>3. t.id[n] < t.id[y]  BY <1>9, <2>1, <2>2
  <2>4. InRange(t.id[n], b, y)  BY <1>8, <1>9, <1>11, <2>1, <2>3 DEF InRange
  <2>5. y \in Lineage(t, T, n)  BY <1>8, <2>4, LineageFacts
  <2>6. Towards(t, y, t.id[n]) \in Lineage(t, T, n) /\ Lineage(t, T, n) \in SUBSET T
    BY <1>11, <2>5, LineageFacts
  <2>7. Towards(t, y, t.id[n]) = NIL  BY <1>8, <2>3 DEF Towards
  <2> QED BY <1>0, <2>6, <2>7
<1> QED BY <1>7, <1>8, <1>9, <1>10, <1>11

Retagged(t, b, z, h) ==
  [s \in Side |-> [n \in Addr |-> IF b[s][n] = t.id[z] THEN h ELSE b[s][n]]]

LEMMA RetagKeeps ==
  ASSUME NEW t, NEW T, NEW b, Shape(t, T, b), NEW z \in T, NEW h \in Handle,
         t.id[z] < h, h < b["right"][z],
         \A n \in T : t.id[z] < t.id[n] => h < t.id[n],
         NEW r \in Tree, r.root = t.root, r.kid = t.kid, r.parent = t.parent, r.red = t.red,
         \A n \in Cell : r.id[n] = IF n = z THEN h ELSE t.id[n]
  PROVE  Shape(r, T, Retagged(t, b, z, h))
<1> DEFINE b2 == Retagged(t, b, z, h)
<1>0. /\ t \in Tree /\ T \subseteq Addr /\ T \subseteq Cell /\ NIL \notin T
      /\ NIL \in Cell /\ t.root \in T \cup {NIL} /\ Sentinel(t) /\ SoundTree(t, T)
  <2>1. SoundTree(t, T)  BY DEF SoundTree
  <2> QED BY <2>1, NodeIn DEF Shape
<1>1. \A s \in Side, n \in Addr : b2[s][n] = IF b[s][n] = t.id[z] THEN h ELSE b[s][n]
  BY DEF Retagged
<1>2. h \in Nat /\ h \in Bound /\ MaxHandle \in Nat /\ h <= MaxHandle
  BY Addresses DEF Bound
<1>3. t.id[z] \in Handle /\ t.id[z] \in Nat /\ t.id[z] # 0 /\ t.id[z] <= MaxHandle
  BY ShapeTypes, Addresses
<1>4. b2 \in Bounds
  <2>1. \A s \in Side, n \in Addr : b[s][n] \in Bound  BY DEF Shape, Bounds
  <2> QED BY <2>1, <1>2 DEF Retagged, Bounds
<1> HIDE DEF b2
<1>5. Sentinel(r)  BY <1>0 DEF Sentinel
<1>6. r.root # NIL =>
        r.parent[r.root] = NULL /\ b2["left"][r.root] = 0 /\ b2["right"][r.root] = MaxHandle + 1
  <2>1. ASSUME t.root # NIL
        PROVE  /\ t.parent[t.root] = NULL
               /\ b2["left"][t.root] = 0 /\ b2["right"][t.root] = MaxHandle + 1
    <3>1. t.parent[t.root] = NULL /\ b["left"][t.root] = 0 /\ b["right"][t.root] = MaxHandle + 1
      BY <2>1 DEF Shape
    <3>2. t.root \in Addr  BY <2>1, <1>0
    <3>3. 0 # t.id[z] /\ MaxHandle + 1 # t.id[z]  BY <1>2, <1>3
    <3> QED BY <3>1, <3>2, <3>3, <1>1 DEF Side
  <2> QED BY <2>1
<1>7. ASSUME NEW n \in T PROVE r.id[n] \in Handle /\ InRange(r.id[n], b2, n)
  <2>1. n \in Addr /\ n \in Cell /\ t.id[n] \in Handle /\ t.id[n] \in Nat
          /\ b["left"][n] \in Nat /\ b["right"][n] \in Nat
    BY ShapeTypes
  <2>2. b["left"][n] < t.id[n] /\ t.id[n] < b["right"][n]  BY <2>1 DEF Shape, InRange
  <2>3. b2["left"][n] = (IF b["left"][n] = t.id[z] THEN h ELSE b["left"][n])
        /\ b2["right"][n] = (IF b["right"][n] = t.id[z] THEN h ELSE b["right"][n])
    BY <2>1, <1>1 DEF Side
  <2>4. CASE n = z
    <3>1. b2["left"][n] = b["left"][n] /\ b2["right"][n] = b["right"][n]
      BY <2>1, <2>2, <2>3, <2>4
    <3>2. r.id[n] = h  BY <2>1, <2>4
    <3> QED BY <3>1, <3>2, <2>1, <2>2, <2>4, <1>2 DEF InRange
  <2>5. CASE n # z
    <3>1. r.id[n] = t.id[n]  BY <2>1, <2>5
    <3>2. b2["left"][n] < t.id[n]  BY <2>1, <2>2, <2>3
    <3>3. t.id[n] < b2["right"][n]  BY <2>1, <2>2, <2>3, <1>2, <1>3
    <3> QED BY <3>1, <3>2, <3>3, <2>1 DEF InRange
  <2> QED BY <2>4, <2>5
<1>8. ASSUME NEW n \in T, NEW s \in Side PROVE Child(r, T, b2, n, s)
  <2> DEFINE k == t.kid[s][n]
  <2>0. n \in Addr /\ n \in Cell /\ Other(s) \in Side  BY <1>0, Sides
  <2>1. k # NIL => k \in T /\ t.parent[k] = n /\ b[s][k] = b[s][n] /\ b[Other(s)][k] = t.id[n]
    BY ChildRange
  <2>2. r.kid[s][n] = k  OBVIOUS
  <2> HIDE DEF k
  <2>3. CASE k = NIL  BY <2>2, <2>3 DEF Child
  <2>4. CASE k # NIL
    <3>1. k \in T /\ k \in Addr /\ r.parent[k] = n  BY <2>1, <2>4, <1>0
    <3>2. b2[s][k] = b2[s][n]  BY <2>0, <2>1, <2>4, <3>1, <1>1
    <3>3. b2[Other(s)][k] = IF t.id[n] = t.id[z] THEN h ELSE t.id[n]
      BY <2>0, <2>1, <2>4, <3>1, <1>1
    <3>4. t.id[n] = t.id[z] <=> n = z  BY <1>0, IdsApart
    <3> QED BY <2>0, <2>2, <3>1, <3>2, <3>3, <3>4 DEF Child
  <2> QED BY <2>3, <2>4
<1>9. \A n \in T : n # r.root => r.parent[n] \in T /\ \E s \in Side : r.kid[s][r.parent[n]] = n
  BY DEF Shape
<1>10. r.root \in T \cup {NIL}  BY <1>0
<1>11. Shape(r, T, b2)  BY <1>0, <1>4, <1>5, <1>6, <1>7, <1>8, <1>9, <1>10 DEF Shape
<1> QED BY <1>11 DEF b2

-----------------------------------------------------------------------------
(* htree_delete up to its fixup: z's number is the one that goes, though   *)
(* another node may leave for it.                                          *)
Numbers(t, T) == {t.id[n] : n \in T}
Faithful(t, T) == \A n \in T : t.obj[n] = t.id[n]

Removed(t, z) ==
  LET y == Leaver(t, z)
  IN IF y = z THEN Unlink(t, y) ELSE TakeIdentity(Unlink(t, y), z, y)

LEMMA RemovedKeeps ==
  ASSUME NEW t, NEW T, SoundTree(t, T), NEW z \in T
  PROVE  LET y == Leaver(t, z)
             x == OnlyChild(t, y)
             r == Removed(t, z)
         IN /\ y \in T /\ x \in (T \ {y}) \cup {NIL} /\ SoundTree(r, T \ {y})
            /\ r.red = t.red /\ r.heap = t.heap /\ r.root = IF y = t.root THEN x ELSE t.root
            /\ Numbers(r, T \ {y}) = Numbers(t, T) \ {t.id[z]}
            /\ Faithful(t, T) => Faithful(r, T \ {y})
<1> DEFINE y == Leaver(t, z)
           x == OnlyChild(t, y)
           u == Unlink(t, y)
           r == Removed(t, z)
           U == T \ {y}
<1>1. PICK b : Shape(t, T, b)  BY DEF SoundTree
<1>2. "left" \in Side /\ "right" \in Side /\ T \subseteq Addr /\ T \subseteq Cell /\ t \in Tree
  BY NodeIn DEF Side
<1>3. /\ y \in T /\ (t.kid["left"][y] = NIL \/ t.kid["right"][y] = NIL)
      /\ y # z => /\ t.id[z] < t.id[y] /\ t.id[y] < b["right"][z]
                  /\ \A n \in T : t.id[z] < t.id[n] /\ n # y => t.id[y] < t.id[n]
  <2>1. CASE t.kid["left"][z] = NIL \/ t.kid["right"][z] = NIL  BY <2>1 DEF Leaver
  <2>2. CASE t.kid["left"][z] # NIL /\ t.kid["right"][z] # NIL
    <3>1. y = Successor(t, z)  BY <2>2 DEF Leaver
    <3> HIDE DEF y
    <3> QED BY <2>2, <3>1, <1>1, SuccessorFacts
  <2> QED BY <2>1, <2>2
<1>4. x \in U \cup {NIL} /\ Unlinked(t, u, y, x)  BY <1>3, UnlinkIs
<1>5. Shape(u, U, Widened(t, b, y))  BY <1>1, <1>3, UnlinkKeeps
<1>6. r = IF y = z THEN u ELSE TakeIdentity(u, z, y)  BY DEF Removed
<1>7. y = t.root <=> t.parent[y] = NULL  BY <1>3, NodeIn
<1>8. \A n \in T : t.id[n] \in Handle  BY NodeIn
<1> HIDE DEF r, u, x, y
<1>9. /\ u \in Tree /\ u.red = t.red /\ u.id = t.id /\ u.obj = t.obj /\ u.heap = t.heap
      /\ u.root = IF y = t.root THEN x ELSE t.root
  BY <1>4, <1>7 DEF Unlinked
<1>10. CASE y = z
  <2>1. Numbers(u, U) = Numbers(t, T) \ {t.id[z]}
    <3>1. \A n \in T : n # z => t.id[n] # t.id[z]  BY IdsApart
    <3> QED BY <3>1, <1>9, <1>10 DEF Numbers
  <2>2. Faithful(t, T) => Faithful(u, U)  BY <1>9 DEF Faithful
  <2> QED BY <2>1, <2>2, <1>3, <1>4, <1>5, <1>6, <1>9, <1>10 DEF SoundTree, r, u, x, y
<1>11. CASE y # z
  <2>1. r = TakeIdentity(u, z, y)  BY <1>6, <1>11
  <2>2. z \in U /\ z \in Cell /\ y \in Cell /\ z \in Addr  BY <1>2, <1>3, <1>11
  <2>3. /\ r \in Tree /\ r.root = u.root /\ r.kid = u.kid /\ r.parent = u.parent /\ r.red = u.red
        /\ r.heap = u.heap
        /\ \A n \in Cell : /\ r.id[n] = IF n = z THEN t.id[y] ELSE u.id[n]
                           /\ r.obj[n] = IF n = z THEN t.obj[y] ELSE u.obj[n]
    BY <2>1, <2>2, <1>9 DEF TakeIdentity, Tree
  <2>4. t.id[y] \in Handle /\ u.id[z] < t.id[y]  BY <1>3, <1>8, <1>9, <1>11
  <2>5. t.id[y] < Widened(t, b, y)["right"][z]
    <3>1. t.id[y] \in Nat /\ b["right"][z] \in Nat  BY <1>1, <1>3, ShapeTypes
    <3>2. b["right"][z] # t.id[y]  BY <1>3, <1>11, <3>1
    <3>3. Widened(t, b, y)["right"][z] = b["right"][z]  BY <2>2, <3>2, <1>2 DEF Widened
    <3> QED BY <3>3, <1>3, <1>11
  <2>6. \A n \in U : u.id[z] < u.id[n] => t.id[y] < u.id[n]  BY <1>3, <1>9, <1>11
  <2>7. SoundTree(r, U)
    <3>1. Shape(r, U, Retagged(u, Widened(t, b, y), z, t.id[y]))
      BY <1>5, <2>2, <2>3, <2>4, <2>5, <2>6, RetagKeeps
    <3> QED BY <3>1 DEF SoundTree
  <2>8. \A n \in U : r.id[n] = (IF n = z THEN t.id[y] ELSE t.id[n])
                     /\ r.obj[n] = (IF n = z THEN t.obj[y] ELSE t.obj[n])
    BY <2>3, <1>2, <1>9
  <2>9. Numbers(r, U) = Numbers(t, T) \ {t.id[z]}
    <3>1. \A n \in T : n # z => t.id[n] # t.id[z]  BY IdsApart
    <3>2. ASSUME NEW h \in Numbers(r, U) PROVE h \in Numbers(t, T) \ {t.id[z]}
      <4>1. PICK n \in U : h = r.id[n]  BY DEF Numbers
      <4> QED BY <4>1, <2>8, <3>1, <1>3, <1>11 DEF Numbers
    <3>3. ASSUME NEW n \in T, t.id[n] # t.id[z] PROVE t.id[n] \in Numbers(r, U)
      <4>1. CASE n = y  BY <4>1, <2>2, <2>8 DEF Numbers
      <4>2. CASE n # y
        <5>1. n \in U /\ n # z  BY <4>2, <3>3
        <5>2. r.id[n] = t.id[n]  BY <5>1, <2>8
        <5> QED BY <5>1, <5>2 DEF Numbers
      <4> QED BY <4>1, <4>2
    <3> QED BY <3>2, <3>3 DEF Numbers
  <2>10. Faithful(t, T) => Faithful(r, U)  BY <2>8, <1>3 DEF Faithful
  <2> QED BY <2>3, <2>7, <2>9, <2>10, <1>3, <1>4, <1>9 DEF x, y, r
<1> QED BY <1>10, <1>11

-----------------------------------------------------------------------------
(* The node is freed and the others are named after their numbers again: a *)
(* tree of the same form, since no two of them have the same number.       *)
NamedByNumber(t) == \A n \in t.heap : t.id[n] = n

LEMMA RenameKeeps ==
  ASSUME NEW t, NEW T, SoundTree(t, T), t.heap = T, Faithful(t, T)
  PROVE  LET r == Renamed(t)
         IN /\ r.heap = Numbers(t, T) /\ SoundTree(r, r.heap)
            /\ NamedByNumber(r) /\ Faithful(r, r.heap)
            /\ ~t.red[t.root] => ~r.red[r.root]
<1> DEFINE V == Numbers(t, T)
           Name(n) == IF n \in t.heap THEN t.id[n] ELSE n
           At(h) == IF \E n \in t.heap : t.id[n] = h
                    THEN CHOOSE n \in t.heap : t.id[n] = h ELSE NIL
           r == Renamed(t)
<1>1. PICK b : Shape(t, T, b)  BY DEF SoundTree
<1>2. /\ t \in Tree /\ T \subseteq Addr /\ T \subseteq Cell /\ NIL \notin T /\ NULL \notin T
      /\ NIL \in Cell /\ ~t.red[NIL] /\ t.root \in T \cup {NIL} /\ Sentinel(t)
      /\ \A n \in T : t.id[n] \in Handle
  BY <1>1, NodeIn DEF Shape
<1>3. V \subseteq Addr /\ V \subseteq Handle /\ V \subseteq Cell /\ NIL \notin V /\ NULL \notin V
  <2>1. V \subseteq Handle  BY <1>2 DEF Numbers
  <2> QED BY <2>1, Addresses DEF Cell
<1>4. \A n \in T : Name(n) = t.id[n] /\ Name(n) \in V  BY DEF Numbers
<1>5. Name(NIL) = NIL /\ Name(NULL) = NULL  BY <1>2
<1>6. \A n \in T : At(t.id[n]) = n  BY IdsApart
<1>7. \A h \in V : At(h) \in T /\ t.id[At(h)] = h
  <2>1. \A h \in V : \E n \in T : t.id[n] = h  BY DEF Numbers
  <2> QED BY <2>1
<1>8. \A h : h \notin V => At(h) = NIL  BY DEF Numbers
<1>9. /\ r.root = Name(t.root) /\ r.heap = {Name(n) : n \in t.heap}
      /\ r = [root   |-> Name(t.root),
              kid    |-> [s \in Side |-> [h \in Cell |-> Name(t.kid[s][At(h)])]],
              parent |-> [h \in Cell |-> Name(t.parent[At(h)])],
              red    |-> [h \in Cell |-> t.red[At(h)]],
              id     |-> [h \in Cell |-> t.id[At(h)]],
              obj    |-> [h \in Cell |-> t.obj[At(h)]],
              heap   |-> {Name(n) : n \in t.heap}]
  BY DEF Renamed
<1> HIDE DEF Name, At, V
<1>10. \A h \in Cell : /\ \A s \in Side : r.kid[s][h] = Name(t.kid[s][At(h)])
                       /\ r.parent[h] = Name(t.parent[At(h)]) /\ r.red[h] = t.red[At(h)]
                       /\ r.id[h] = t.id[At(h)] /\ r.obj[h] = t.obj[At(h)]
  BY <1>9
<1>11. r.heap = V  BY <1>4, <1>9 DEF V, Numbers
<1>12. \A h \in Cell : At(h) \in T \cup {NIL} /\ At(h) \in Cell  BY <1>2, <1>7, <1>8
<1>13. \A n \in T \cup {NIL} : Name(n) \in V \cup {NIL} /\ Name(n) \in Cell
  BY <1>3, <1>4, <1>5, <1>2
<1>14. \A n \in T \cup {NIL}, s \in Side : t.kid[s][n] \in T \cup {NIL}
  BY <1>1, <1>2, ShapeTypes DEF Sentinel
<1>15. \A n \in T \cup {NIL} : t.parent[n] \in T \cup {NULL, NIL}
  BY <1>1, <1>2, ShapeTypes DEF Sentinel
<1>16. r \in Tree
  <2>1. Name(t.root) \in Cell  BY <1>2, <1>13
  <2>2. \A s \in Side, h \in Cell : Name(t.kid[s][At(h)]) \in Cell  BY <1>12, <1>13, <1>14
  <2>3. \A h \in Cell : Name(t.parent[At(h)]) \in Link
    <3>1. \A n \in T \cup {NULL, NIL} : Name(n) \in Link  BY <1>5, <1>13 DEF Link
    <3> QED BY <3>1, <1>12, <1>15
  <2>4. \A h \in Cell : /\ t.red[At(h)] \in BOOLEAN /\ t.id[At(h)] \in Handle \cup {0}
                        /\ t.obj[At(h)] \in Handle \cup {0}
    BY <1>2, <1>12 DEF Tree
  <2>5. {Name(n) : n \in t.heap} \subseteq Addr  BY <1>3, <1>9, <1>11
  <2> HIDE DEF r
  <2> QED BY <1>9, <2>1, <2>2, <2>3, <2>4, <2>5 DEF Tree
<1> HIDE DEF r
<1>17. Sentinel(r)
  <2>1. At(NIL) = NIL  BY <1>3, <1>8
  <2> QED BY <2>1, <1>2, <1>5, <1>10 DEF Sentinel
<1> DEFINE b2 == [s \in Side |-> [h \in Addr |-> IF h \in V THEN b[s][At(h)] ELSE 0]]
<1>18. b2 \in Bounds
  <2>1. \A s \in Side, n \in Addr : b[s][n] \in Bound  BY <1>1 DEF Shape, Bounds
  <2>2. 0 \in Bound
    <3>1. MaxHandle \in Nat  BY Addresses
    <3> QED BY <3>1 DEF Bound
  <2> QED BY <2>1, <2>2, <1>2, <1>7 DEF Bounds
<1>19. \A s \in Side, h \in V : b2[s][h] = b[s][At(h)]  BY <1>3
<1> HIDE DEF b2
<1>20. \A h \in V : r.id[h] = h  BY <1>3, <1>7, <1>10
<1>21. \A n \in T : n # t.root => t.id[n] # r.root
  <2>1. CASE t.root = NIL  BY <2>1, <1>2, <1>3, <1>4, <1>5, <1>9
  <2>2. CASE t.root # NIL
    <3>1. t.root \in T /\ r.root = t.id[t.root]  BY <2>2, <1>2, <1>4, <1>9
    <3> QED BY <3>1, IdsApart
  <2> QED BY <2>1, <2>2
<1>22. Shape(r, V, b2)
  <2>1. r.root \in V \cup {NIL}  BY <1>2, <1>9, <1>13
  <2>2. ASSUME r.root # NIL
        PROVE  /\ r.parent[r.root] = NULL
               /\ b2["left"][r.root] = 0 /\ b2["right"][r.root] = MaxHandle + 1
    <3>1. t.root # NIL  BY <2>2, <1>5, <1>9
    <3>2. /\ t.root \in T /\ t.parent[t.root] = NULL
          /\ b["left"][t.root] = 0 /\ b["right"][t.root] = MaxHandle + 1
      BY <3>1, <1>1 DEF Shape
    <3>3. r.root = t.id[t.root] /\ r.root \in V /\ r.root \in Cell
      BY <3>2, <1>3, <1>4, <1>9
    <3>4. At(r.root) = t.root  BY <3>2, <3>3, <1>6
    <3> QED BY <3>2, <3>3, <3>4, <1>5, <1>10, <1>19 DEF Side
  <2>3. ASSUME NEW h \in V PROVE r.id[h] \in Handle /\ InRange(r.id[h], b2, h)
    <3>1. At(h) \in T /\ t.id[At(h)] = h  BY <1>7
    <3>2. InRange(t.id[At(h)], b, At(h))  BY <3>1, <1>1 DEF Shape
    <3>3. h \in Handle  BY <1>3
    <3> QED BY <3>1, <3>2, <3>3, <1>19, <1>20 DEF InRange, Side
  <2>4. ASSUME NEW h \in V, NEW s \in Side PROVE Child(r, V, b2, h, s)
    <3> DEFINE n == At(h)
               k == t.kid[s][n]
    <3>1. n \in T /\ t.id[n] = h /\ h \in Cell  BY <1>3, <1>7
    <3>2. r.kid[s][h] = Name(k)  BY <3>1, <1>10
    <3>3. k # NIL => k \in T /\ t.parent[k] = n /\ b[s][k] = b[s][n] /\ b[Other(s)][k] = t.id[n]
      BY <3>1, <1>1, ChildRange
    <3> HIDE DEF k
    <3>4. CASE k = NIL  BY <3>2, <3>4, <1>5 DEF Child
    <3>5. CASE k # NIL
      <4>1. r.kid[s][h] = t.id[k] /\ t.id[k] \in V /\ t.id[k] \in Cell /\ At(t.id[k]) = k
        BY <3>2, <3>3, <3>5, <1>3, <1>4, <1>6
      <4>2. r.parent[t.id[k]] = h  BY <4>1, <3>1, <3>3, <3>5, <1>4, <1>10
      <4>3. Other(s) \in Side  BY Sides
      <4>4. b2[s][t.id[k]] = b2[s][h] /\ b2[Other(s)][t.id[k]] = h
        BY <4>1, <4>3, <3>1, <3>3, <3>5, <1>19
      <4> QED BY <4>1, <4>2, <4>4, <1>20 DEF Child
    <3> QED BY <3>4, <3>5
  <2>5. ASSUME NEW h \in V, h # r.root
        PROVE  r.parent[h] \in V /\ \E s \in Side : r.kid[s][r.parent[h]] = h
    <3> DEFINE n == At(h)
    <3>1. n \in T /\ t.id[n] = h /\ h \in Cell  BY <1>3, <1>7
    <3> HIDE DEF n
    <3>2. n # t.root  BY <3>1, <2>5, <1>4, <1>9
    <3>3. PICK s \in Side : t.parent[n] \in T /\ t.kid[s][t.parent[n]] = n
      BY <3>1, <3>2, <1>1 DEF Shape
    <3> DEFINE q == t.id[t.parent[n]]
    <3>4. q \in V /\ q \in Cell /\ At(q) = t.parent[n]  BY <3>3, <1>3, <1>4, <1>6
    <3>5. r.parent[h] = q  BY <3>1, <3>3, <1>4, <1>10 DEF n
    <3>6. r.kid[s][q] = h  BY <3>1, <3>3, <3>4, <1>4, <1>10
    <3> QED BY <3>4, <3>5, <3>6
  <2> QED BY <1>3, <1>16, <1>17, <1>18, <2>1, <2>2, <2>3, <2>4, <2>5 DEF Shape
<1>23. \A h \in V : r.obj[h] = h
  BY <1>3, <1>7, <1>10 DEF Faithful
<1>24. ASSUME ~t.red[t.root] PROVE ~r.red[r.root]
  <2>1. At(r.root) = t.root /\ r.root \in Cell
    <3>1. CASE t.root = NIL  BY <3>1, <1>2, <1>3, <1>5, <1>8, <1>9
    <3>2. CASE t.root # NIL
      <4>1. t.root \in T /\ r.root = t.id[t.root] /\ r.root \in V
        BY <3>2, <1>2, <1>4, <1>9
      <4> QED BY <4>1, <1>3, <1>6
    <3> QED BY <3>1, <3>2
  <2> QED BY <2>1, <1>10, <1>24
<1> QED BY <1>11, <1>20, <1>22, <1>23, <1>24 DEF SoundTree, NamedByNumber, Faithful, V, r

LEMMA FreeKeeps ==
  ASSUME NEW t, NEW T, SoundTree(t, T), NEW y \in Addr, t.heap \ {y} = T, y \notin T,
         Faithful(t, T)
  PROVE  LET r == g_free(t, y)
         IN /\ r.heap = Numbers(t, T) /\ SoundTree(r, r.heap)
            /\ NamedByNumber(r) /\ Faithful(r, r.heap)
            /\ ~t.red[t.root] => ~r.red[r.root]
<1> DEFINE e1 == [t EXCEPT !.heap = @ \ {y}]
           e2 == SetKid(e1, "left", y, NIL)
           e3 == SetKid(e2, "right", y, NIL)
           e4 == SetParent(e3, y, NIL)
           e5 == Paint(e4, y, FALSE)
           e6 == [e5 EXCEPT !.id[y] = 0]
           u  == [e6 EXCEPT !.obj[y] = 0]
<1>1. g_free(t, y) = Renamed(u)  BY DEF g_free, SetKid, SetParent, Paint
<1>2. PICK b : Shape(t, T, b)  BY DEF SoundTree
<1>3. /\ t \in Tree /\ T \subseteq Addr /\ T \subseteq Cell /\ NIL \notin T /\ NULL \notin T
      /\ NIL \in Cell /\ t.root \in T \cup {NIL} /\ Sentinel(t)
  BY <1>2, NodeIn DEF Shape
<1>4. y \in Cell /\ y # NIL /\ "left" \in Side /\ "right" \in Side /\ NIL \in Link
  BY <1>3, Addresses DEF Cell, Link, Side
<1>5. /\ u \in Tree /\ u.heap = T /\ u.root = t.root
      /\ \A n \in Cell : n # y => /\ u.parent[n] = t.parent[n] /\ u.red[n] = t.red[n]
                                  /\ u.id[n] = t.id[n] /\ u.obj[n] = t.obj[n]
                                  /\ \A s \in Side : u.kid[s][n] = t.kid[s][n]
  <2>1. /\ e1 \in Tree /\ e1.heap = T /\ e1.root = t.root /\ e1.kid = t.kid
        /\ e1.parent = t.parent /\ e1.red = t.red /\ e1.id = t.id /\ e1.obj = t.obj
    BY <1>3 DEF Tree
  <2> HIDE DEF e1
  <2>2. KidSet(e1, e2, "left", y, NIL)  BY <2>1, <1>3, <1>4, SetKidIs
  <2>3. e2 \in Tree  BY <2>2 DEF KidSet, OnlyKids
  <2> HIDE DEF e2
  <2>4. KidSet(e2, e3, "right", y, NIL)  BY <2>3, <1>3, <1>4, SetKidIs
  <2> HIDE DEF e3
  <2>5. /\ e3 \in Tree /\ e3.heap = T /\ e3.root = t.root
        /\ e3.parent = t.parent /\ e3.red = t.red /\ e3.id = t.id /\ e3.obj = t.obj
    BY <2>1, <2>2, <2>4 DEF KidSet, OnlyKids
  <2>6. \A n \in Cell, s \in Side : n # y => e3.kid[s][n] = t.kid[s][n]
    BY <2>1, <2>2, <2>4 DEF KidSet
  <2>7. /\ e4 \in Tree /\ e4.heap = T /\ e4.root = t.root
        /\ e4.kid = e3.kid /\ e4.red = t.red /\ e4.id = t.id /\ e4.obj = t.obj
        /\ \A n \in Cell : n # y => e4.parent[n] = t.parent[n]
    BY <2>5, <1>4 DEF SetParent, Tree
  <2> HIDE DEF e4
  <2>8. Painted(e4, e5, y, FALSE)  BY <2>7, <1>4, PaintIs
  <2> HIDE DEF e5
  <2>9. /\ e5 \in Tree /\ e5.heap = T /\ e5.root = t.root
        /\ e5.kid = e3.kid /\ e5.parent = e4.parent /\ e5.id = t.id /\ e5.obj = t.obj
        /\ \A n \in Cell : n # y => e5.red[n] = t.red[n]
    BY <2>7, <2>8 DEF Painted
  <2>10. /\ e6 \in Tree /\ e6.heap = T /\ e6.root = t.root /\ e6.red = e5.red
         /\ e6.kid = e3.kid /\ e6.parent = e4.parent /\ e6.obj = t.obj
         /\ \A n \in Cell : n # y => e6.id[n] = t.id[n]
    BY <2>9, <1>4 DEF Tree
  <2> HIDE DEF e6
  <2>11. /\ u \in Tree /\ u.heap = T /\ u.root = t.root /\ u.red = e5.red
         /\ u.kid = e3.kid /\ u.parent = e4.parent /\ u.id = e6.id
         /\ \A n \in Cell : n # y => u.obj[n] = t.obj[n]
    BY <2>10, <1>4 DEF Tree
  <2> HIDE DEF u
  <2> QED BY <2>6, <2>7, <2>9, <2>10, <2>11
<1> HIDE DEF u
<1>6. Shape(u, T, b)
  <2>1. Sentinel(u)  BY <1>3, <1>4, <1>5 DEF Sentinel
  <2>2. \A n \in T : n \in Cell /\ n # y  BY <1>3
  <2>3. /\ u.root \in T \cup {NIL}
        /\ u.root # NIL =>
             u.parent[u.root] = NULL /\ b["left"][u.root] = 0 /\ b["right"][u.root] = MaxHandle + 1
    <3>1. t.root # NIL => /\ t.root \in T /\ t.parent[t.root] = NULL
                          /\ b["left"][t.root] = 0 /\ b["right"][t.root] = MaxHandle + 1
      BY <1>2 DEF Shape
    <3> QED BY <3>1, <2>2, <1>3, <1>5
  <2>4. \A n \in T : u.id[n] \in Handle /\ InRange(u.id[n], b, n)
    BY <2>2, <1>2, <1>5 DEF Shape
  <2>5. ASSUME NEW n \in T, NEW s \in Side PROVE Child(u, T, b, n, s)
    <3>1. Child(t, T, b, n, s)  BY <1>2 DEF Shape
    <3>2. u.kid[s][n] = t.kid[s][n] /\ u.id[n] = t.id[n]  BY <2>2, <1>5
    <3>3. t.kid[s][n] \in T => u.parent[t.kid[s][n]] = t.parent[t.kid[s][n]]  BY <2>2, <1>5
    <3> QED BY <3>1, <3>2, <3>3 DEF Child
  <2>6. ASSUME NEW n \in T, n # u.root
        PROVE  u.parent[n] \in T /\ \E s \in Side : u.kid[s][u.parent[n]] = n
    <3>1. t.parent[n] \in T /\ \E s \in Side : t.kid[s][t.parent[n]] = n
      BY <2>6, <1>2, <1>5 DEF Shape
    <3> QED BY <3>1, <2>2, <1>5
  <2> QED BY <2>1, <2>3, <2>4, <2>5, <2>6, <1>2, <1>3, <1>5 DEF Shape
<1>7. Numbers(u, T) = Numbers(t, T) /\ Faithful(u, T)
  <2>1. \A n \in T : u.id[n] = t.id[n] /\ u.obj[n] = t.obj[n]  BY <1>3, <1>5
  <2> QED BY <2>1 DEF Numbers, Faithful
<1>8. ~t.red[t.root] => ~u.red[u.root]
  <2>1. t.root \in Cell /\ t.root # y  BY <1>3, <1>4
  <2> QED BY <2>1, <1>5
<1> QED BY <1>1, <1>5, <1>6, <1>7, <1>8, RenameKeeps DEF SoundTree

-----------------------------------------------------------------------------
(* What can be reached from the root is the tree: a set of nodes that is   *)
(* extended by the children of its members cannot miss a node, and cannot  *)
(* grow for ever.                                                          *)
Downward(t, ns) == ns \cup ({t.kid[s][n] : s \in Side, n \in ns} \ {NIL})

LEMMA AddrFinite == IsFiniteSet(Addr)
<1>1. Addr \in SUBSET Nat /\ MaxHandle \in Nat /\ \A n \in Addr : n <= MaxHandle
  BY Addresses
<1> QED BY <1>1, FS_BoundedSetOfNaturals

LEMMA AllReached ==
  ASSUME NEW t, NEW T, SoundTree(t, T), NEW ns \in SUBSET T, t.root \in ns \cup {NIL},
         Downward(t, ns) = ns
  PROVE  ns = T
<1>1. PICK b : Shape(t, T, b)  BY DEF SoundTree
<1> DEFINE Out == T \ ns
<1>2. Out = {}
  <2> SUFFICES ASSUME Out # {} PROVE FALSE  OBVIOUS
  <2>0. Out \in SUBSET T  OBVIOUS
  <2> HIDE DEF Out
  <2>1. PICK m \in Out : \A k \in Out : Width(b, k) <= Width(b, m)  BY <1>1, <2>0, Widest
  <2>2. m \in T /\ m \notin ns /\ m # NIL  BY <2>0, NodeIn DEF Out
  <2>3. m # t.root  BY <2>2
  <2> DEFINE p == t.parent[m]
  <2>4. p \in T /\ Width(b, m) < Width(b, p) /\ \E s \in Side : t.kid[s][p] = m
    BY <1>1, <2>2, <2>3, ParentFacts
  <2>5. Width(b, m) \in Nat /\ Width(b, p) \in Nat  BY <1>1, <2>2, <2>4, ShapeTypes
  <2> HIDE DEF p
  <2>6. p \notin ns
    <3> SUFFICES ASSUME p \in ns PROVE FALSE  OBVIOUS
    <3>1. m \in Downward(t, ns)  BY <2>2, <2>4 DEF Downward
    <3> QED BY <2>2, <3>1
  <2>7. Width(b, p) <= Width(b, m)  BY <2>1, <2>4, <2>6 DEF Out
  <2> QED BY <2>4, <2>5, <2>7
<1> QED BY <1>2

LEMMA InTreeIs ==
  ASSUME NEW T, SoundTree(tree, T)
  PROVE  InTree = T
<1> DEFINE more(ns) == Downward(tree, ns)
           Is(R) == R = [ns \in SUBSET Addr |-> IF more(ns) = ns THEN ns ELSE R[more(ns)]]
           Below == CHOOSE R : Is(R)
           least(ns) == {n \in Addr : \A c \in SUBSET Addr : ns \subseteq c /\ more(c) = c => n \in c}
           start == {tree.root} \ {NIL}
<1>0. /\ tree \in Tree /\ T \subseteq Addr /\ NIL \notin T /\ tree.root \in T \cup {NIL}
      /\ \A n \in T, s \in Side : tree.kid[s][n] \in T \cup {NIL}
  BY NodeIn
<1>1. InTree = Below[start]  BY DEF InTree, Downward
<1>2. \A ns \in SUBSET Addr : more(ns) \in SUBSET Addr
  <2>1. \A n \in Addr, s \in Side : tree.kid[s][n] \in Addr \cup {NIL}
    BY <1>0 DEF Tree, Cell
  <2> SUFFICES ASSUME NEW ns \in SUBSET Addr, NEW n \in more(ns) PROVE n \in Addr  OBVIOUS
  <2>2. CASE n \in ns  BY <2>2
  <2>3. CASE n \notin ns
    <3>1. n # NIL /\ \E s \in Side, m \in ns : n = tree.kid[s][m]  BY <2>3 DEF Downward
    <3> QED BY <2>1, <3>1
  <2> QED BY <2>2, <2>3
<1>3. Is([ns \in SUBSET Addr |-> least(ns)])
  <2>1. ASSUME NEW ns \in SUBSET Addr
        PROVE  least(ns) = IF more(ns) = ns THEN ns ELSE least(more(ns))
    <3>1. CASE more(ns) = ns
      <4>1. least(ns) \subseteq ns  BY <3>1
      <4>2. ns \subseteq least(ns)  OBVIOUS
      <4> QED BY <3>1, <4>1, <4>2
    <3>2. CASE more(ns) # ns
      <4>1. ASSUME NEW c \in SUBSET Addr, more(c) = c, ns \subseteq c PROVE more(ns) \subseteq c
        <5>1. more(ns) \subseteq more(c)  BY <4>1 DEF Downward
        <5> QED BY <4>1, <5>1
      <4>2. ns \subseteq more(ns)  BY DEF Downward
      <4> HIDE DEF more
      <4>3. \A c \in SUBSET Addr : more(c) = c => (ns \subseteq c <=> more(ns) \subseteq c)
        BY <4>1, <4>2
      <4>4. least(ns) = least(more(ns))  BY <4>3
      <4> QED BY <3>2, <4>4
    <3> QED BY <3>1, <3>2
  <2> HIDE DEF least
  <2> DEFINE L == [ns \in SUBSET Addr |-> least(ns)]
  <2>2. \A ns \in SUBSET Addr : L[ns] = least(ns)  OBVIOUS
  <2>3. L = [ns \in SUBSET Addr |-> L[ns]]  OBVIOUS
  <2> HIDE DEF L, more
  <2>4. \A ns \in SUBSET Addr : L[ns] = IF more(ns) = ns THEN ns ELSE L[more(ns)]
    BY <1>2, <2>1, <2>2
  <2>5. Is(L)  BY <2>3, <2>4
  <2> QED BY <2>5 DEF L
<1>4. Is(Below)
  <2> HIDE DEF Is
  <2> QED BY <1>3
<1> HIDE DEF Below
<1>5. \A ns \in SUBSET Addr : Below[ns] = IF more(ns) = ns THEN ns ELSE Below[more(ns)]
  BY <1>4
<1> DEFINE Seen == {ns \in SUBSET T : start \subseteq ns /\ Below[ns] = Below[start]}
           Left(ns) == Cardinality(T \ ns)
<1>6. start \in Seen  BY <1>0
<1>7. IsFiniteSet(T)  BY <1>0, AddrFinite, FS_Subset
<1>8. ASSUME NEW ns \in SUBSET T PROVE IsFiniteSet(T \ ns) /\ Left(ns) \in Nat
  BY <1>7, FS_Difference, FS_CardinalityType
<1>9. PICK ns \in Seen : \A k \in Seen : Left(ns) <= Left(k)
  <2> DEFINE W == {Left(k) : k \in Seen}
  <2>1. W \in SUBSET Nat  BY <1>8
  <2>2. W # {}  BY <1>6
  <2> HIDE DEF W
  <2>3. PICK x \in W : \A y \in W : x <= y  BY <2>1, <2>2, LeastNat
  <2> QED BY <2>3 DEF W
<1>10. ns \in SUBSET T /\ ns \in SUBSET Addr /\ start \subseteq ns /\ Below[ns] = Below[start]
  BY <1>0
<1>11. more(ns) \in SUBSET T /\ ns \subseteq more(ns)
  BY <1>0, <1>10 DEF Downward
<1>12. more(ns) = ns
  <2> SUFFICES ASSUME more(ns) # ns PROVE FALSE  OBVIOUS
  <2>1. Below[more(ns)] = Below[start]  BY <1>5, <1>10
  <2> HIDE DEF more, Left
  <2>2. more(ns) \in Seen  BY <2>1, <1>10, <1>11
  <2> DEFINE A == T \ ns
             B == T \ more(ns)
  <2>3. B \in SUBSET A /\ B # A  BY <1>10, <1>11
  <2>4. IsFiniteSet(A) /\ Cardinality(A) = Left(ns) /\ Cardinality(B) = Left(more(ns))
    BY <1>8, <1>10 DEF Left
  <2> HIDE DEF A, B
  <2>5. Cardinality(B) <= Cardinality(A) /\ Cardinality(A) # Cardinality(B)
    BY <2>3, <2>4, FS_Subset
  <2>6. Left(ns) \in Nat /\ Left(more(ns)) \in Nat  BY <1>8, <1>10, <1>11
  <2>7. Left(ns) <= Left(more(ns))  BY <1>9, <2>2
  <2> QED BY <2>4, <2>5, <2>6, <2>7
<1>13. Below[start] = ns  BY <1>5, <1>10, <1>12
<1>14. ns = T
  <2>1. tree.root \in ns \cup {NIL}  BY <1>10
  <2> QED BY <2>1, <1>10, <1>12, AllReached
<1> QED BY <1>1, <1>13, <1>14

-----------------------------------------------------------------------------
(* The invariant. A fixup goes on with a node of the tree, and that node is *)
(* the only root that may be red; what a deletion has yet to free is no     *)
(* longer in the tree.                                                      *)
TreeNodes == tree.heap \ {loop.y}
Held == Numbers(tree, TreeNodes)

TreeInv ==
  /\ SoundTree(tree, TreeNodes) /\ Faithful(tree, TreeNodes)
  /\ loop \in [of : {"none", "insert", "delete"}, x : Cell, y : Cell]
  /\ tree.red[tree.root] => loop.of # "none" /\ loop.x = tree.root
  /\ loop.of = "none" => loop = Fixed
  /\ loop.of # "none" => loop.x \in TreeNodes
  /\ loop.of # "delete" => loop.y = NIL /\ NamedByNumber(tree)
  /\ loop.of = "delete" => loop.y \in tree.heap

LEMMA TreeInvInit == TreeInit => TreeInv /\ Held = {}
<1> SUFFICES ASSUME TreeInit PROVE TreeInv /\ Held = {}  OBVIOUS
<1> USE DEF TreeInit
<1>1. /\ tree = EmptyTree /\ loop = Fixed /\ tree.heap = {} /\ tree.root = NIL
      /\ ~tree.red[NIL] /\ NIL \in Cell /\ TreeNodes = {}
  BY DEF EmptyTree, Cell, TreeNodes
<1>2. EmptyTree \in Tree /\ Sentinel(EmptyTree)
  BY DEF EmptyTree, Tree, Sentinel, Cell, Link
<1>3. SoundTree(tree, {})
  <2> DEFINE b == [s \in Side |-> [n \in Addr |-> 0]]
  <2>1. b \in Bounds
    <3>1. 0 \in Bound  BY Addresses DEF Bound
    <3> QED BY <3>1 DEF Bounds
  <2> HIDE DEF b
  <2>2. Shape(tree, {}, b)  BY <1>1, <1>2, <2>1 DEF Shape
  <2> QED BY <2>2 DEF SoundTree
<1>4. loop \in [of : {"none", "insert", "delete"}, x : Cell, y : Cell] /\ loop.of = "none" /\ loop.y = NIL
  BY <1>1 DEF Fixed
<1> QED BY <1>1, <1>3, <1>4 DEF TreeInv, Faithful, NamedByNumber, Held, Numbers

(* What htree_find returns in a state.                                     *)
LEMMA LookupIs ==
  ASSUME TreeInv, NEW h \in Handle
  PROVE  /\ Lookup(h) # NULL <=> h \in Held
         /\ Lookup(h) # NULL => Lookup(h) \in TreeNodes /\ tree.id[Lookup(h)] = h
<1>1. SoundTree(tree, TreeNodes)  BY DEF TreeInv
<1>2. NULL \notin TreeNodes  BY <1>1, NodeIn
<1>3. ASSUME NEW n \in TreeNodes, tree.id[n] = h PROVE Lookup(h) = n
  BY <1>1, <1>3, FindIs DEF Lookup
<1>4. (\A n \in TreeNodes : tree.id[n] # h) => Lookup(h) = NULL
  BY <1>1, FindIs DEF Lookup
<1> QED BY <1>2, <1>3, <1>4 DEF Held, Numbers

MapIsHeld == Map = [h \in Held |-> h]

LEMMA MapIs ==
  ASSUME TreeInv
  PROVE  MapIsHeld
<1>1. SoundTree(tree, TreeNodes) /\ Faithful(tree, TreeNodes)  BY DEF TreeInv
<1>2. Held \subseteq Handle
  <2>1. \A n \in TreeNodes : tree.id[n] \in Handle  BY <1>1, NodeIn
  <2> QED BY <2>1 DEF Held, Numbers
<1>3. {k \in Handle : Lookup(k) # NULL} = Held  BY <1>2, LookupIs
<1>4. \A h \in Held : tree.obj[Lookup(h)] = h  BY <1>1, <1>2, LookupIs DEF Faithful
<1> QED BY <1>3, <1>4 DEF Map, MapIsHeld

-----------------------------------------------------------------------------
LEMMA InsertStep ==
  ASSUME TreeInv, NEW h \in Handle, mkhandle(h)
  PROVE  TreeInv' /\ Held' = Held \cup {h} /\ h \notin Held
<1>1. /\ loop = Fixed /\ Lookup(h) = NULL /\ tree' = Insert(tree, h, h)
      /\ loop' = [of |-> "insert", x |-> h, y |-> NIL]
  BY DEF mkhandle
<1>2. loop.of = "none" /\ loop.y = NIL  BY <1>1 DEF Fixed
<1>3. /\ SoundTree(tree, TreeNodes) /\ Faithful(tree, TreeNodes) /\ NamedByNumber(tree)
      /\ ~tree.red[tree.root]
  BY <1>2 DEF TreeInv
<1>4. /\ tree \in Tree /\ NIL \notin TreeNodes /\ tree.root \in TreeNodes \cup {NIL}
      /\ TreeNodes \subseteq Cell /\ NIL \in Cell
  BY <1>3, NodeIn
<1>5. TreeNodes = tree.heap
  <2>1. NIL \notin tree.heap  BY <1>4, Addresses DEF Tree
  <2> QED BY <2>1, <1>2 DEF TreeNodes
<1>6. h \notin Held  BY <1>1, LookupIs
<1>7. (\A n \in TreeNodes : tree.id[n] # h) /\ h \notin TreeNodes
  <2>1. \A n \in TreeNodes : tree.id[n] # h  BY <1>6 DEF Held, Numbers
  <2> QED BY <2>1, <1>3, <1>5 DEF NamedByNumber
<1>8. h \in Addr /\ h \in Cell /\ h # NIL  BY Addresses DEF Cell
<1>9. /\ SoundTree(tree', TreeNodes \cup {h}) /\ Inserted(tree, tree', h, h)
      /\ tree'.root = IF tree.root = NIL THEN h ELSE tree.root
  BY <1>1, <1>3, <1>7, <1>8, InsertKeeps
<1>10. /\ tree'.heap = tree.heap \cup {h}
       /\ \A n \in Cell : /\ n # h => tree'.red[n] = tree.red[n]
                          /\ tree'.id[n] = IF n = h THEN h ELSE tree.id[n]
                          /\ tree'.obj[n] = IF n = h THEN h ELSE tree.obj[n]
  BY <1>9 DEF Inserted
<1>11. TreeNodes' = TreeNodes \cup {h} /\ tree'.heap = TreeNodes'
  BY <1>1, <1>4, <1>5, <1>8, <1>10 DEF TreeNodes
<1>12. \A n \in TreeNodes' : /\ tree'.id[n] = IF n = h THEN h ELSE tree.id[n]
                             /\ tree'.obj[n] = IF n = h THEN h ELSE tree.obj[n]
  BY <1>4, <1>8, <1>10, <1>11
<1>13. Faithful(tree', TreeNodes') /\ NamedByNumber(tree')
  BY <1>3, <1>5, <1>11, <1>12 DEF Faithful, NamedByNumber
<1>14. tree'.red[tree'.root] => tree'.root = h  BY <1>3, <1>4, <1>9, <1>10
<1>15. Held' = Held \cup {h}
  <2>1. Numbers(tree', TreeNodes') = Numbers(tree, TreeNodes) \cup {h}
    BY <1>7, <1>11, <1>12 DEF Numbers
  <2> QED BY <2>1 DEF Held
<1>16. /\ loop'.of = "insert" /\ loop'.x = h /\ loop'.y = NIL
       /\ loop' \in [of : {"none", "insert", "delete"}, x : Cell, y : Cell]
  BY <1>1, <1>4, <1>8
<1> QED BY <1>6, <1>9, <1>11, <1>13, <1>14, <1>15, <1>16 DEF TreeInv

(* Whatever a fixup does to the tree, it keeps what is said of the nodes.  *)
LEMMA SameKeeps ==
  ASSUME NEW t, NEW r, Same(t, r), NEW T
  PROVE  /\ Numbers(r, T) = Numbers(t, T) /\ (Faithful(t, T) => Faithful(r, T))
         /\ NamedByNumber(t) => NamedByNumber(r)
BY DEF Same, Numbers, Faithful, NamedByNumber

LEMMA FixStep ==
  ASSUME TreeInv, NEW r, SoundTree(r, TreeNodes), Same(tree, r), NEW x \in TreeNodes,
         r.red[r.root] => x = r.root,
         loop.of # "none", tree' = r, loop' = [loop EXCEPT !.x = x]
  PROVE  TreeInv' /\ Held' = Held
<1>1. loop \in [of : {"none", "insert", "delete"}, x : Cell, y : Cell] /\ TreeNodes \subseteq Cell
  BY NodeIn DEF TreeInv
<1>2. /\ loop'.of = loop.of /\ loop'.x = x /\ loop'.y = loop.y
      /\ loop' \in [of : {"none", "insert", "delete"}, x : Cell, y : Cell]
  BY <1>1
<1>3. tree'.heap = tree.heap /\ TreeNodes' = TreeNodes  BY <1>2 DEF Same, TreeNodes
<1>4. /\ Faithful(tree', TreeNodes') /\ Numbers(tree', TreeNodes') = Numbers(tree, TreeNodes)
      /\ NamedByNumber(tree) => NamedByNumber(tree')
  BY <1>3, SameKeeps DEF TreeInv
<1> QED BY <1>2, <1>3, <1>4 DEF TreeInv, Held

LEMMA FreeStep ==
  ASSUME NEW t, NEW T, SoundTree(t, T), Faithful(t, T), NEW y \in tree.heap, y \notin T,
         tree \in Tree, t.heap = tree.heap, tree.heap \ {y} = T, ~t.red[t.root],
         tree' = g_free(t, y), loop' = Fixed
  PROVE  TreeInv' /\ Held' = Numbers(t, T)
<1>1. y \in Addr  BY DEF Tree
<1>2. /\ tree'.heap = Numbers(t, T) /\ SoundTree(tree', tree'.heap)
      /\ NamedByNumber(tree') /\ Faithful(tree', tree'.heap) /\ ~tree'.red[tree'.root]
  BY <1>1, FreeKeeps
<1>3. /\ loop'.of = "none" /\ loop'.y = NIL /\ NIL \in Cell
      /\ loop' \in [of : {"none", "insert", "delete"}, x : Cell, y : Cell]
  BY DEF Fixed, Cell
<1>4. TreeNodes' = tree'.heap
  <2>1. NIL \notin tree'.heap  BY <1>2, NodeIn
  <2> QED BY <2>1, <1>3 DEF TreeNodes
<1>5. Numbers(tree', tree'.heap) = tree'.heap  BY <1>2 DEF NamedByNumber, Numbers
<1> QED BY <1>2, <1>3, <1>4, <1>5 DEF TreeInv, Held

LEMMA DeleteStep ==
  ASSUME TreeInv, NEW h \in Handle, htree_delete(h)
  PROVE  TreeInv' /\ Held' = Held \ {h} /\ h \in Held
<1> DEFINE z == Lookup(h)
           y == Leaver(tree, z)
           x == OnlyChild(tree, y)
           t == Removed(tree, z)
           T == TreeNodes
           U == TreeNodes \ {y}
<1>1. /\ loop = Fixed /\ z # NULL
      /\ IF NeedsFix(tree, y, x)
         THEN tree' = t /\ loop' = [of |-> "delete", x |-> x, y |-> y]
         ELSE tree' = g_free(t, y) /\ loop' = Fixed
  BY DEF htree_delete, Removed, ToFree
<1>2. loop.of = "none" /\ loop.y = NIL  BY <1>1 DEF Fixed
<1>3. SoundTree(tree, T) /\ Faithful(tree, T) /\ ~tree.red[tree.root]
  BY <1>2 DEF TreeInv
<1>4. h \in Held /\ z \in T /\ tree.id[z] = h  BY <1>1, LookupIs
<1>5. /\ tree \in Tree /\ NIL \notin T /\ T \subseteq Cell /\ ~tree.red[NIL] /\ NIL \in Cell
  BY <1>3, NodeIn
<1>6. T = tree.heap
  <2>1. NIL \notin tree.heap  BY <1>5, Addresses DEF Tree
  <2> QED BY <2>1, <1>2 DEF TreeNodes
<1> HIDE DEF z, T
<1>7. /\ y \in T /\ x \in (T \ {y}) \cup {NIL} /\ SoundTree(t, T \ {y})
      /\ t.red = tree.red /\ t.heap = tree.heap
      /\ t.root = IF y = tree.root THEN x ELSE tree.root
      /\ Numbers(t, T \ {y}) = Numbers(tree, T) \ {tree.id[z]}
      /\ Faithful(t, T \ {y})
  BY <1>3, <1>4, RemovedKeeps
<1> HIDE DEF x, y, t
<1>8. Numbers(t, T \ {y}) = Held \ {h}  BY <1>4, <1>7 DEF Held, T
<1>9. CASE NeedsFix(tree, y, x)
  <2>1. tree' = t /\ loop' = [of |-> "delete", x |-> x, y |-> y]  BY <1>1, <1>9
  <2>2. x # NIL  BY <1>9 DEF NeedsFix
  <2>3. TreeNodes' = T \ {y}  BY <2>1, <1>6, <1>7 DEF TreeNodes
  <2>4. x \in T \ {y} /\ x \in Cell /\ y \in Cell  BY <2>2, <1>5, <1>7
  <2>5. tree'.red[tree'.root] => tree'.root = x  BY <2>1, <1>3, <1>7
  <2>6. /\ loop'.of = "delete" /\ loop'.x = x /\ loop'.y = y
        /\ loop' \in [of : {"none", "insert", "delete"}, x : Cell, y : Cell]
    BY <2>1, <2>4
  <2>7. y \in tree'.heap  BY <2>1, <1>6, <1>7
  <2>8. TreeInv'  BY <2>1, <2>3, <2>4, <2>5, <2>6, <2>7, <1>7 DEF TreeInv
  <2> QED BY <2>1, <2>3, <2>8, <1>4, <1>8 DEF Held
<1>10. CASE ~NeedsFix(tree, y, x)
  <2>1. tree' = g_free(t, y) /\ loop' = Fixed  BY <1>1, <1>10
  <2>2. ~t.red[t.root]
    <3>1. CASE y # tree.root  BY <3>1, <1>3, <1>7
    <3>2. CASE y = tree.root
      <4>1. x = NIL  BY <3>2, <1>3, <1>10 DEF NeedsFix
      <4> QED BY <3>2, <4>1, <1>5, <1>7
    <3> QED BY <3>1, <3>2
  <2>3. TreeInv' /\ Held' = Numbers(t, T \ {y})
    <3>1. y \in tree.heap /\ tree.heap \ {y} = T \ {y}  BY <1>6, <1>7
    <3> QED BY <2>1, <2>2, <3>1, <1>5, <1>7, FreeStep
  <2> QED BY <2>3, <1>4, <1>8
<1> QED BY <1>9, <1>10

LEMMA InsertTurn ==
  ASSUME TreeInv, InsertFixTurns
  PROVE  TreeInv' /\ Held' = Held
<1> DEFINE done == InsertFix(tree, loop.x)
           r == done.tree
<1>1. loop.of = "insert" /\ ~InsertFixed /\ tree' = r /\ loop' = [loop EXCEPT !.x = done.x]
  BY DEF InsertFixTurns
<1>2. /\ SoundTree(tree, TreeNodes) /\ loop.x \in TreeNodes
      /\ tree.red[tree.root] => loop.x = tree.root
  BY <1>1 DEF TreeInv
<1>3. loop.x # tree.root /\ tree.red[tree.parent[loop.x]]  BY <1>1 DEF InsertFixed
<1>4. /\ SoundTree(r, TreeNodes) /\ Same(tree, r) /\ done.x \in TreeNodes
      /\ r.red[r.root] => done.x = r.root
  BY <1>2, <1>3, InsertFixKeeps
<1> HIDE DEF done
<1> QED BY <1>1, <1>4, FixStep

LEMMA InsertEnd ==
  ASSUME TreeInv, InsertFixEnds
  PROVE  TreeInv' /\ Held' = Held
<1>1. loop.of = "insert" /\ tree' = BlackRoot(tree) /\ loop' = Fixed  BY DEF InsertFixEnds
<1>2. /\ SoundTree(tree, TreeNodes) /\ Faithful(tree, TreeNodes) /\ loop.y = NIL
      /\ NamedByNumber(tree)
  BY <1>1 DEF TreeInv
<1>3. tree.root \in TreeNodes \cup {NIL} /\ NIL \in Cell  BY <1>2, NodeIn
<1>4. SoundTree(tree', TreeNodes) /\ Painted(tree, tree', tree.root, FALSE)
  BY <1>1, <1>2, <1>3, PaintKeeps DEF BlackRoot
<1>5. Same(tree, tree') /\ tree'.root = tree.root  BY <1>4, PaintedSame
<1>6. ~tree'.red[tree'.root]  BY <1>4, <1>5 DEF Painted
<1>7. TreeNodes' = TreeNodes  BY <1>1, <1>2, <1>5 DEF TreeNodes, Same, Fixed
<1>8. /\ Faithful(tree', TreeNodes) /\ Numbers(tree', TreeNodes) = Numbers(tree, TreeNodes)
      /\ NamedByNumber(tree')
  BY <1>2, <1>5, SameKeeps
<1>9. /\ loop'.of = "none" /\ loop'.y = NIL /\ loop' = Fixed
      /\ loop' \in [of : {"none", "insert", "delete"}, x : Cell, y : Cell]
  BY <1>1, <1>3 DEF Fixed
<1> QED BY <1>4, <1>6, <1>7, <1>8, <1>9 DEF TreeInv, Held

LEMMA DeleteTurn ==
  ASSUME TreeInv, DeleteFixTurns
  PROVE  TreeInv' /\ Held' = Held
<1> DEFINE done == DeleteFix(tree, loop.x)
           r == done.tree
<1>1. /\ loop.of = "delete" /\ ~DeleteFixed
      /\ IF done.x # NIL THEN tree' = r /\ loop' = [loop EXCEPT !.x = done.x]
         ELSE tree' = g_free(r, loop.y) /\ loop' = Fixed
  BY DEF DeleteFixTurns
<1>2. /\ SoundTree(tree, TreeNodes) /\ Faithful(tree, TreeNodes) /\ loop.x \in TreeNodes
      /\ (tree.red[tree.root] => loop.x = tree.root) /\ loop.y \in tree.heap
  BY <1>1 DEF TreeInv
<1>3. loop.x # tree.root  BY <1>1 DEF DeleteFixed
<1>4. SoundTree(r, TreeNodes) /\ Same(tree, r) /\ done.x \in TreeNodes \cup {NIL} /\ ~r.red[r.root]
  BY <1>2, <1>3, DeleteFixKeeps
<1> HIDE DEF done
<1>5. CASE done.x # NIL
  BY <1>1, <1>4, <1>5, FixStep
<1>6. CASE done.x = NIL
  <2>1. tree' = g_free(r, loop.y) /\ loop' = Fixed  BY <1>1, <1>6
  <2>2. tree \in Tree /\ r.heap = tree.heap /\ tree.heap \ {loop.y} = TreeNodes /\ loop.y \notin TreeNodes
    BY <1>2, <1>4, NodeIn DEF Same, TreeNodes
  <2>3. Faithful(r, TreeNodes) /\ Numbers(r, TreeNodes) = Held
    BY <1>2, <1>4, SameKeeps DEF Held
  <2>4. TreeInv' /\ Held' = Numbers(r, TreeNodes)
    BY <2>1, <2>2, <2>3, <1>2, <1>4, FreeStep
  <2> QED BY <2>3, <2>4
<1> QED BY <1>5, <1>6

LEMMA DeleteEnd ==
  ASSUME TreeInv, DeleteFixEnds
  PROVE  TreeInv' /\ Held' = Held
<1> DEFINE r == Paint(tree, loop.x, FALSE)
<1>1. loop.of = "delete" /\ tree' = g_free(r, loop.y) /\ loop' = Fixed  BY DEF DeleteFixEnds
<1>2. /\ SoundTree(tree, TreeNodes) /\ Faithful(tree, TreeNodes) /\ loop.x \in TreeNodes
      /\ (tree.red[tree.root] => loop.x = tree.root) /\ loop.y \in tree.heap
  BY <1>1 DEF TreeInv
<1>3. SoundTree(r, TreeNodes) /\ Painted(tree, r, loop.x, FALSE)  BY <1>2, PaintKeeps
<1> HIDE DEF r
<1>4. Same(tree, r) /\ r.root = tree.root  BY <1>3, PaintedSame
<1>5. ~r.red[r.root]
  <2>1. tree.root \in Cell  BY <1>2, NodeIn
  <2> QED BY <2>1, <1>2, <1>3, <1>4 DEF Painted
<1>6. tree \in Tree /\ r.heap = tree.heap /\ tree.heap \ {loop.y} = TreeNodes /\ loop.y \notin TreeNodes
  BY <1>2, <1>4, NodeIn DEF Same, TreeNodes
<1>7. Faithful(r, TreeNodes) /\ Numbers(r, TreeNodes) = Held
  BY <1>2, <1>4, SameKeeps DEF Held
<1>8. TreeInv' /\ Held' = Numbers(r, TreeNodes)
  BY <1>1, <1>2, <1>3, <1>5, <1>6, <1>7, FreeStep
<1> QED BY <1>7, <1>8

-----------------------------------------------------------------------------
LEMMA TreeStutter ==
  ASSUME TreeInv, UNCHANGED treevars
  PROVE  TreeInv' /\ Held' = Held
<1>1. tree' = tree /\ loop' = loop  BY DEF treevars
<1> QED BY <1>1 DEF TreeInv, TreeNodes, Held

LEMMA TreeStep ==
  ASSUME TreeInv, [TreeNext]_treevars
  PROVE  /\ TreeInv'
         /\ \/ Held' = Held
            \/ \E h \in Handle : h \notin Held /\ Held' = Held \cup {h}
            \/ \E h \in Handle : h \in Held /\ Held' = Held \ {h}
<1>1. CASE \E h \in Handle : mkhandle(h)  BY <1>1, InsertStep
<1>2. CASE \E h \in Handle : htree_delete(h)  BY <1>2, DeleteStep
<1>3. CASE InsertFixTurns  BY <1>3, InsertTurn
<1>4. CASE InsertFixEnds  BY <1>4, InsertEnd
<1>5. CASE DeleteFixTurns  BY <1>5, DeleteTurn
<1>6. CASE DeleteFixEnds  BY <1>6, DeleteEnd
<1>7. CASE UNCHANGED treevars  BY <1>7, TreeStutter
<1> QED BY <1>1, <1>2, <1>3, <1>4, <1>5, <1>6, <1>7 DEF TreeNext

(* Between any two turns of a fixup, the nodes form one ordered tree, with *)
(* each node in the range its place leaves for it, and their objects are   *)
(* those of their numbers.                                                 *)
THEOREM TreeInvariant == TreeSpec => []TreeInv
<1>1. TreeInit => TreeInv  BY TreeInvInit
<1>2. TreeInv /\ [TreeNext]_treevars => TreeInv'  BY TreeStep
<1> QED BY <1>1, <1>2, PTL DEF TreeSpec

(* The sentinel that every empty link points to is never written: it is a  *)
(* constant object of the code, shared by all trees and all rotations.     *)
THEOREM SentinelUntouched == TreeSpec => []SentinelConst
<1>1. TreeInv => SentinelConst
  BY DEF TreeInv, SoundTree, Shape, Sentinel, SentinelConst
<1> QED BY <1>1, TreeInvariant, PTL

(* htree_delete neither leaks a node nor frees one that is still linked:   *)
(* what the root leads to is what is allocated, but for the node that the  *)
(* running deletion will free.                                             *)
THEOREM NoNodeIsLost == TreeSpec => []NoNodeLost
<1>1. TreeInv => NoNodeLost
  BY InTreeIs DEF TreeInv, NoNodeLost, TreeNodes
<1> QED BY <1>1, TreeInvariant, PTL

(* Every parent pointer the fixups climb by is the mirror of a child       *)
(* pointer, at every turn of every fixup.                                  *)
THEOREM ParentsMirrorChildren == TreeSpec => []ParentLinks
<1>1. ASSUME TreeInv PROVE ParentLinks
  <2>1. SoundTree(tree, TreeNodes)  BY <1>1 DEF TreeInv
  <2>2. InTree = TreeNodes  BY <2>1, InTreeIs
  <2>3. /\ tree.root \in TreeNodes \cup {NIL}
        /\ \A n \in TreeNodes : n = tree.root <=> tree.parent[n] = NULL
        /\ \A n \in TreeNodes, s \in Side :
             tree.kid[s][n] # NIL => tree.parent[tree.kid[s][n]] = n
    BY <2>1, NodeIn
  <2> QED BY <2>2, <2>3 DEF ParentLinks
<1> QED BY <1>1, TreeInvariant, PTL

(* htree_find sees a map: a number is found from the moment its node is    *)
(* inserted to the moment its deletion unlinks it, always with the object  *)
(* it was made for, however the tree is rebalanced in between and though   *)
(* deletions move identities from node to node.                            *)
THEOREM TreeIsAMap == TreeSpec => ImplementsMap
<1>1. TreeInit => Abs!MapInit
  BY TreeInvInit, MapIs DEF Abs!MapInit, MapIsHeld
<1>2. TreeInv => MapIsHeld  BY MapIs
<1>3. TreeInv' => MapIsHeld'  BY <1>2, PTL
<1>4. TreeInv /\ TreeInv' /\ [TreeNext]_treevars => [Abs!MapNext]_Map
  <2> SUFFICES ASSUME TreeInv, TreeInv', [TreeNext]_treevars PROVE [Abs!MapNext]_Map
    OBVIOUS
  <2>1. Map = [h \in Held |-> h]  BY <1>2 DEF MapIsHeld
  <2>2. Map' = [h \in Held' |-> h]  BY <1>3 DEF MapIsHeld
  <2>3. CASE Held' = Held  BY <2>1, <2>2, <2>3
  <2>4. CASE \E h \in Handle : h \notin Held /\ Held' = Held \cup {h}
    <3>1. PICK h \in Handle : h \notin Held /\ Held' = Held \cup {h}  BY <2>4
    <3>2. Abs!Add(h)  BY <2>1, <2>2, <3>1 DEF Abs!Add
    <3> QED BY <3>2 DEF Abs!MapNext
  <2>5. CASE \E h \in Handle : h \in Held /\ Held' = Held \ {h}
    <3>1. PICK h \in Handle : h \in Held /\ Held' = Held \ {h}  BY <2>5
    <3>2. Abs!Drop(h)  BY <2>1, <2>2, <3>1 DEF Abs!Drop
    <3> QED BY <3>2 DEF Abs!MapNext
  <2> QED BY <2>3, <2>4, <2>5, TreeStep
<1> QED BY <1>1, <1>4, TreeInvariant, PTL DEF TreeSpec, ImplementsMap, Abs!MapSpec

-----------------------------------------------------------------------------
(***************************************************************************)
(* Ownership in the handle table, for any number of connections, handles,  *)
(* contexts and loaders inside one another. Properties of one handle with  *)
(* its leader are not inductive, because a group may be given to the       *)
(* server and its leader's leader may not. The invariant gives every       *)
(* client a domain: a set of handles that holds what the client owns and   *)
(* with every leader its group, and in which the rest is the server's.     *)
(* What a client deletes takes along nothing from outside of its domain,   *)
(* and handle_group, whatever handle it is called with, links only handles *)
(* of one owner, so that every domain stays one.                           *)
(***************************************************************************)

(* A node in the table t, when x are the contexts of the connections.      *)
NodeOK(t, x, h) ==
  /\ t[h] \in Node
  /\ t[h].group \in DOMAIN t \cup {0}
  /\ t[h].owner # System => x[t[h].owner] >= 0
  /\ t[h].owner # System /\ 0 <= t[h].madeIn /\ t[h].madeIn < CTX_HALF
       => /\ t[h].context = t[h].madeIn
          /\ t[h].madeIn <= x[t[h].owner]

Domain(t, c, C) ==
  /\ C \subseteq DOMAIN t
  /\ \A h \in DOMAIN t : t[h].owner = c => h \in C
  /\ \A h \in DOMAIN t : t[h].group \in C => h \in C
  /\ \A h \in C : t[h].owner \in {c, System}

Apart(t) == \A c \in Client : \E C : Domain(t, c, C)

Sound(t, x) ==
  /\ DOMAIN t \subseteq Id
  /\ \A h \in DOMAIN t : NodeOK(t, x, h)
  /\ Apart(t)

(* Nothing of another client is touched.                                   *)
Spares(c, t, u) ==
  \A h \in DOMAIN t : t[h].owner \in Client \ {c} => h \in DOMAIN u /\ u[h] = t[h]

IInv ==
  /\ Sound(node, context)
  /\ last \in Id
  /\ context \in [Client -> Int]
  /\ loading \in Seq(Loader)

USE HandleTableAssumption

-----------------------------------------------------------------------------
(* The numbers a node's context can be stored as.                          *)
LEMMA Int8Type ==
  ASSUME NEW x \in Int
  PROVE  Int8(x) \in -CTX_HALF..(CTX_HALF - 1)
BY DEF Int8

(* The contexts a node can number are stored unchanged.                    *)
LEMMA Int8Small ==
  ASSUME NEW x \in Int, 0 <= x, x < CTX_HALF
  PROVE  Int8(x) = x
<1>1. x + CTX_HALF \in 0..(2 * CTX_HALF - 1)  OBVIOUS
<1>2. (x + CTX_HALF) % (2 * CTX_HALF) = x + CTX_HALF  BY <1>1
<1> QED BY <1>2 DEF Int8

(* The closure under group membership: it contains what is deleted, every  *)
(* member of a group in it, and nothing else.                              *)
LEMMA DoomedIncludes ==
  ASSUME NEW S \in SUBSET Used
  PROVE  S \subseteq Doomed(S) /\ Doomed(S) \subseteq Used
BY DEF Doomed

LEMMA DoomedClosed ==
  ASSUME NEW S, NEW h \in Used, node[h].group \in Doomed(S)
  PROVE  h \in Doomed(S)
BY DEF Doomed

LEMMA DoomedLeast ==
  ASSUME NEW S, NEW C \in SUBSET Used, S \subseteq C,
         \A m \in Used : node[m].group \in C => m \in C
  PROVE  Doomed(S) \subseteq C
BY DEF Doomed

LEMMA KeptIs ==
  ASSUME NEW S
  PROVE  /\ DOMAIN Kept(S) = Used \ Doomed(S)
         /\ \A h \in DOMAIN Kept(S) : Kept(S)[h] = node[h]
BY DEF Kept

-----------------------------------------------------------------------------
(* What the requests do to a table. A new node, without a group, of an     *)
(* open client or the server.                                              *)
Fresh(n, x) ==
  /\ n \in Node /\ n.group = 0
  /\ n.owner # System => x[n.owner] >= 0
  /\ n.owner # System /\ 0 <= n.madeIn /\ n.madeIn < CTX_HALF
       => n.context = n.madeIn /\ n.madeIn <= x[n.owner]

LEMMA AddSound ==
  ASSUME NEW t, NEW x, Sound(t, x), NEW h \in Id, h \notin DOMAIN t,
         NEW n, Fresh(n, x), NEW u, u = With(t, h, n)
  PROVE  Sound(u, x)
<1>1. /\ DOMAIN u = DOMAIN t \cup {h} /\ u[h] = n
      /\ \A k \in DOMAIN t : u[k] = t[k]
  BY DEF With
<1>2. DOMAIN u \subseteq Id
  <2>1. DOMAIN t \subseteq Id  BY DEF Sound
  <2> QED BY <1>1, <2>1
<1>3. 0 \notin Id  BY DEF Id
<1>4. ASSUME NEW k \in DOMAIN u PROVE NodeOK(u, x, k)
  <2>1. CASE k = h  BY <1>1, <2>1 DEF Fresh, NodeOK
  <2>2. CASE k # h
    <3>1. k \in DOMAIN t /\ NodeOK(t, x, k) /\ u[k] = t[k]
      BY <1>1, <2>2 DEF Sound
    <3> QED BY <1>1, <3>1 DEF NodeOK
  <2> QED BY <2>1, <2>2
<1>5. ASSUME NEW c \in Client PROVE \E C : Domain(u, c, C)
  <2>1. PICK C : Domain(t, c, C)  BY DEF Sound, Apart
  <2> DEFINE D == IF n.owner = c THEN C \cup {h} ELSE C
  <2>2. \A k \in DOMAIN t : t[k].group # h /\ h \notin C
    BY <1>3, <2>1 DEF Sound, NodeOK, Domain
  <2>3. 0 \notin D  BY <1>2, <1>1, <1>3, <2>1 DEF Domain
  <2>4. D \subseteq DOMAIN u /\ \A k \in DOMAIN u : u[k].owner = c => k \in D
    BY <1>1, <2>1 DEF Domain
  <2>5. ASSUME NEW k \in DOMAIN u, u[k].group \in D PROVE k \in D
    <3>1. k # h  BY <1>1, <2>3, <2>5 DEF Fresh
    <3>2. k \in DOMAIN t /\ u[k] = t[k] /\ t[k].group # h
      BY <1>1, <2>2, <3>1
    <3> QED BY <2>1, <2>5, <3>2 DEF Domain
  <2>6. \A k \in D : u[k].owner \in {c, System}
    BY <1>1, <2>1, <2>2 DEF Domain
  <2> HIDE DEF D
  <2> QED BY <2>4, <2>5, <2>6 DEF Domain
<1> QED BY <1>2, <1>4, <1>5 DEF Sound, Apart

(* handle_group, as a loader of c calls it: with any handle.               *)
LEMMA GroupedSound ==
  ASSUME NEW t, NEW x, Sound(t, x), NEW l \in Loader, NEW h,
         NEW u, u = Grouped(t, l, h)
  PROVE  Sound(u, x) /\ Spares(l.owner, t, u)
<1> DEFINE o == l.owner
           effective == /\ l.leader \in DOMAIN t /\ h \in DOMAIN t
                        /\ t[l.leader].owner = o /\ t[h].owner = o
<1>1. CASE ~effective
  <2>1. u = t  BY <1>1 DEF Grouped
  <2> QED BY <2>1 DEF Spares
<1>2. CASE effective
  <2> DEFINE n == [t[h] EXCEPT !.group = l.leader, !.owner = NewOwner(l)]
  <2>1. u = With(t, h, n)  BY <1>2 DEF Grouped
  <2>2. /\ o \in Client /\ o # System /\ NewOwner(l) \in {o, System}
        /\ l.leader \in DOMAIN t /\ h \in DOMAIN t
        /\ t[l.leader].owner = o /\ t[h].owner = o
    BY <1>2 DEF Loader, NewOwner
  <2>3. /\ t[h] \in Node /\ NodeOK(t, x, h)
        /\ l.leader \in Id /\ NewOwner(l) \in Owner
    BY <2>2 DEF Sound, NodeOK, Owner
  <2>4. /\ n \in Node /\ n.group = l.leader /\ n.owner \in {o, System}
        /\ n.context = t[h].context /\ n.madeIn = t[h].madeIn
    BY <2>2, <2>3 DEF Node
  <2> HIDE DEF n
  <2>5. /\ DOMAIN u = DOMAIN t /\ u[h] = n
        /\ \A k \in DOMAIN t : k # h => u[k] = t[k]
    BY <2>1, <2>2 DEF With
  <2>6. ASSUME NEW k \in DOMAIN u PROVE NodeOK(u, x, k)
    <3>1. k \in DOMAIN t /\ NodeOK(t, x, k)  BY <2>5 DEF Sound
    <3>2. CASE k = h
      <4>1. u[k] = n /\ n \in Node /\ n.group \in DOMAIN u
        BY <2>2, <2>4, <2>5, <3>2
      <4>2. n.owner # System => n.owner = t[h].owner
        BY <2>2, <2>4
      <4>3. n.owner # System => t[h].owner # System
        BY <2>2
      <4>4. n.context = t[h].context /\ n.madeIn = t[h].madeIn
        BY <2>4
      <4> QED BY <2>3, <4>1, <4>2, <4>3, <4>4 DEF NodeOK
    <3>3. CASE k # h  BY <2>5, <3>1, <3>3 DEF NodeOK
    <3> QED BY <3>2, <3>3
  <2>7. ASSUME NEW c \in Client PROVE \E C : Domain(u, c, C)
    <3>1. PICK C : Domain(t, c, C)  BY DEF Sound, Apart
    <3>2. c # o => l.leader \notin C /\ h \notin C
      BY <2>2, <3>1 DEF Domain
    <3>3. c = o => h \in C  BY <2>2, <3>1 DEF Domain
    <3>4. C \subseteq DOMAIN u /\ \A k \in DOMAIN u : u[k].owner = c => k \in C
      BY <2>2, <2>4, <2>5, <3>1, <3>3 DEF Domain
    <3>5. ASSUME NEW k \in DOMAIN u, u[k].group \in C PROVE k \in C
      BY <2>4, <2>5, <3>1, <3>2, <3>3, <3>5 DEF Domain
    <3>6. \A k \in C : u[k].owner \in {c, System}
      BY <2>2, <2>4, <2>5, <3>1, <3>2 DEF Domain
    <3> QED BY <3>4, <3>5, <3>6 DEF Domain
  <2>8. Spares(o, t, u)
    BY <2>2, <2>5 DEF Spares
  <2> QED BY <2>5, <2>6, <2>7, <2>8 DEF Sound, Apart
<1> QED BY <1>1, <1>2

(* A node's context is changed.                                            *)
LEMMA MoveSound ==
  ASSUME NEW t, NEW x, Sound(t, x), NEW h \in DOMAIN t,
         NEW ctx \in -CTX_HALF..(CTX_HALF - 1),
         NEW u, u = With(t, h, [t[h] EXCEPT !.context = ctx, !.madeIn = -1])
  PROVE  Sound(u, x)
<1> DEFINE n == [t[h] EXCEPT !.context = ctx, !.madeIn = -1]
<1>1. t[h] \in Node /\ NodeOK(t, x, h)  BY DEF Sound, NodeOK
<1>2. /\ n \in Node /\ n.group = t[h].group /\ n.owner = t[h].owner
      /\ n.madeIn = -1
  <2>1. -1 \in Int  OBVIOUS
  <2> QED BY <1>1, <2>1 DEF Node
<1>3. u = With(t, h, n)  OBVIOUS
<1> HIDE DEF n
<1>4. /\ DOMAIN u = DOMAIN t /\ u[h] = n
      /\ \A k \in DOMAIN t : k # h => u[k] = t[k]
  BY <1>3 DEF With
<1>5. ASSUME NEW k \in DOMAIN u PROVE NodeOK(u, x, k)
  <2>1. k \in DOMAIN t /\ NodeOK(t, x, k)  BY <1>4 DEF Sound
  <2>2. CASE k = h
    <3>1. /\ u[k] = n /\ n \in Node /\ n.group \in DOMAIN u \cup {0}
          /\ n.owner # System => x[n.owner] >= 0
          /\ ~(0 <= n.madeIn)
      BY <1>1, <1>2, <1>4, <2>2 DEF NodeOK
    <3> QED BY <3>1 DEF NodeOK
  <2>3. CASE k # h  BY <1>4, <2>1, <2>3 DEF NodeOK
  <2> QED BY <2>2, <2>3
<1>6. \A k \in DOMAIN t : u[k].owner = t[k].owner /\ u[k].group = t[k].group
  BY <1>2, <1>4
<1>7. ASSUME NEW c \in Client PROVE \E C : Domain(u, c, C)
  <2>1. PICK C : Domain(t, c, C)  BY DEF Sound, Apart
  <2> QED BY <1>4, <1>6, <2>1 DEF Domain
<1> QED BY <1>4, <1>5, <1>7 DEF Sound, Apart

(* A set of handles is deleted, with the groups: every domain shrinks, and *)
(* what a client owns takes along its domain at most.                      *)
LEMMA KeptSound ==
  ASSUME NEW x, Sound(node, x), NEW S
  PROVE  Sound(Kept(S), x)
<1> DEFINE u == Kept(S)
<1>1. DOMAIN u = Used \ Doomed(S) /\ \A h \in DOMAIN u : u[h] = node[h]
  BY KeptIs
<1> HIDE DEF u
<1>2. ASSUME NEW h \in DOMAIN u PROVE NodeOK(u, x, h)
  <2>1. h \in Used /\ u[h] = node[h] /\ NodeOK(node, x, h)
    BY <1>1 DEF Sound, Used
  <2>2. node[h].group \notin Doomed(S)  BY <1>1, <2>1, DoomedClosed
  <2> QED BY <1>1, <2>1, <2>2 DEF NodeOK, Used
<1>3. ASSUME NEW c \in Client PROVE \E C : Domain(u, c, C)
  <2>1. PICK C : Domain(node, c, C)  BY DEF Sound, Apart
  <2> DEFINE D == C \cap DOMAIN u
  <2>2. Domain(u, c, D)  BY <1>1, <2>1 DEF Domain, Used
  <2> QED BY <2>2
<1> QED BY <1>1, <1>2, <1>3 DEF Sound, Apart, Used, u

LEMMA KeptSpares ==
  ASSUME NEW x, Sound(node, x), NEW c \in Client, NEW S \in SUBSET Owned(c)
  PROVE  Spares(c, node, Kept(S))
<1>1. PICK C : Domain(node, c, C)  BY DEF Sound, Apart
<1>2. C \in SUBSET Used /\ S \subseteq C
  BY <1>1 DEF Domain, Used, Owned
<1>3. Doomed(S) \subseteq C
  BY <1>1, <1>2, DoomedLeast DEF Domain, Used
<1>4. \A h \in Used : node[h].owner \in Client \ {c} => h \notin C
  BY <1>1 DEF Domain
<1> QED BY <1>3, <1>4, KeptIs DEF Spares, Used

-----------------------------------------------------------------------------
(* The actions. The loaders at work for one client.                        *)
Works(c, ls) == ls \in Seq(Loader) /\ \A i \in DOMAIN ls : ls[i].owner = c

LEMMA ReturnedSound ==
  ASSUME NEW c, NEW ls, Works(c, ls), NEW x, NEW t, Sound(t, x), NEW ret,
         NEW u, u = Returned(t, ret, ls)
  PROVE  Sound(u, x) /\ Spares(c, t, u)
<1>1. CASE ls = <<>>
  BY <1>1 DEF Returned, Spares
<1>2. CASE ls # <<>>
  <2>1. Head(ls) \in Loader /\ Head(ls).owner = c
    BY <1>2 DEF Works
  <2>2. u = Grouped(t, Head(ls), ret)
    BY <1>2 DEF Returned
  <2> QED BY <2>1, <2>2, GroupedSound
<1> QED BY <1>1, <1>2

LEMMA SparesTrans ==
  ASSUME NEW c, NEW t, NEW u, NEW v, Spares(c, t, u), Spares(c, u, v)
  PROVE  Spares(c, t, v)
BY DEF Spares

LEMMA SparesWith ==
  ASSUME NEW c, NEW t, NEW h, NEW n, h \notin DOMAIN t \/ t[h].owner = c
  PROVE  Spares(c, t, With(t, h, n))
BY DEF Spares, With

LEMMA NodeForFresh ==
  ASSUME IInv, NEW c \in Open \cup {System}, NEW kind \in Kind
  PROVE  Fresh(NodeFor(c, kind), context)
<1> DEFINE ctx == IF c = System THEN -1 ELSE context[c]
<1>1. c \in Owner /\ ctx \in Int /\ (c # System => ctx >= 0 /\ ctx = context[c])
  BY DEF IInv, Owner, Open
<1>2. Int8(ctx) \in -CTX_HALF..(CTX_HALF - 1)  BY <1>1, Int8Type
<1>3. 0 <= ctx /\ ctx < CTX_HALF => Int8(ctx) = ctx  BY <1>1, Int8Small
<1> DEFINE n == NodeFor(c, kind)
<1>4. /\ n.owner = c /\ n.group = 0 /\ n.context = Int8(ctx) /\ n.madeIn = ctx
  BY DEF NodeFor
<1>5. n \in Node  BY <1>1, <1>2 DEF NodeFor, Node
<1> HIDE DEF n, ctx
<1>6. Fresh(n, context)  BY <1>1, <1>3, <1>4, <1>5 DEF Fresh
<1> QED BY <1>6 DEF n

(* What a request of an open client may do, with its contexts as they are. *)
Fair(c) ==
  /\ Sound(node', context') /\ Spares(c, node, node')
  /\ last' \in Id /\ loading' \in Seq(Loader)
  /\ context' \in [Client -> Int]

(* A new handle, of a client or the server, and its return to a loader.    *)
LEMMA MakeFair ==
  ASSUME IInv, NEW c \in Open \cup {System}, Works(c, loading), Make(c)
  PROVE  Fair(c)
<1>1. PICK h \in Id : /\ h \notin DOMAIN node
                      /\ Return(With(node, h, NodeFor(c, "object")), h)
                      /\ last' = h /\ context' = context
  BY DEF Make, IsNew, Used
<1> DEFINE n == NodeFor(c, "object")
           t == With(node, h, n)
<1>2. Fresh(n, context)  BY NodeForFresh DEF Kind
<1>3. Sound(node, context)  BY DEF IInv
<1>4. Spares(c, node, t)  BY <1>1, SparesWith
<1>5. t = With(node, h, n) /\ node' = Returned(t, h, loading) /\ loading' = loading
  BY <1>1 DEF Return
<1> HIDE DEF n, t
<1>6. Sound(t, context)  BY <1>1, <1>2, <1>3, <1>5, AddSound
<1>7. Sound(node', context) /\ Spares(c, t, node')
  BY <1>5, <1>6, ReturnedSound
<1> QED BY <1>1, <1>4, <1>5, <1>7, SparesTrans DEF Fair, IInv

LEMMA LoadFair ==
  ASSUME IInv, NEW c \in Open, NEW kind \in {"theme", "template"}, Load(c, kind)
  PROVE  Fair(c)
<1>1. PICK h \in Id : /\ h \notin DOMAIN node
                      /\ node' = With(node, h, NodeFor(c, LeaderKind(kind)))
                      /\ last' = h /\ context' = context
                      /\ loading' = <<[leader |-> h, owner |-> c, kind |-> kind]>> \o loading
  BY DEF Load, IsNew, Used
<1> DEFINE n == NodeFor(c, LeaderKind(kind))
           l == [leader |-> h, owner |-> c, kind |-> kind]
<1>2. Fresh(n, context)  BY NodeForFresh DEF Kind, LeaderKind
<1>3. Sound(node, context) /\ loading \in Seq(Loader)  BY DEF IInv
<1>4. Spares(c, node, With(node, h, n))  BY <1>1, SparesWith
<1>5. l \in Loader  BY DEF Loader, Open
<1>6. node' = With(node, h, n) /\ loading' = <<l>> \o loading  BY <1>1
<1> HIDE DEF n, l
<1>7. Sound(node', context)  BY <1>1, <1>2, <1>3, <1>6, AddSound
<1>8. loading' \in Seq(Loader)  BY <1>3, <1>5, <1>6
<1> QED BY <1>1, <1>4, <1>6, <1>7, <1>8 DEF Fair, IInv

(* A request that leaves a table with what is not the client's untouched.  *)
LEMMA ReturnFair ==
  ASSUME IInv, NEW c, Works(c, loading), NEW t, NEW ret,
         Sound(t, context'), Spares(c, node, t), Return(t, ret),
         last' = last, context' \in [Client -> Int]
  PROVE  Fair(c)
<1>1. node' = Returned(t, ret, loading) /\ loading' = loading  BY DEF Return
<1>2. Sound(node', context') /\ Spares(c, t, node')  BY <1>1, ReturnedSound
<1> QED BY <1>1, <1>2, SparesTrans DEF Fair, IInv

LEMMA KeepsAll ==
  ASSUME NEW c, NEW t PROVE Spares(c, t, t)
BY DEF Spares

LEMMA FreeFair ==
  ASSUME IInv, NEW c \in Open, Works(c, loading), NEW h, Free(c, h)
  PROVE  Fair(c)
<1>1. {h} \in SUBSET Owned(c) /\ c \in Client  BY DEF Free, Open
<1>2. Return(Kept({h}), 0) /\ last' = last /\ context' = context  BY DEF Free
<1>3. Sound(node, context) /\ context \in [Client -> Int]  BY DEF IInv
<1>4. Sound(Kept({h}), context)  BY <1>3, KeptSound
<1>5. Spares(c, node, Kept({h}))  BY <1>1, <1>3, KeptSpares
<1> QED BY <1>2, <1>3, <1>4, <1>5, ReturnFair

LEMMA ChContextFair ==
  ASSUME IInv, NEW c \in Open, Works(c, loading), NEW h, NEW delta \in Int,
         ChContext(c, h, delta)
  PROVE  Fair(c)
<1> DEFINE ctx == Int8(node[h].context + delta)
           t == With(node, h, [node[h] EXCEPT !.context = ctx, !.madeIn = -1])
<1>1. h \in DOMAIN node /\ node[h].owner = c /\ c \in Client
  BY DEF ChContext, Owned, Used, Open
<1>2. Sound(node, context) /\ context \in [Client -> Int]  BY DEF IInv
<1>3. node[h] \in Node  BY <1>1, <1>2 DEF Sound, NodeOK
<1>4. node[h].context + delta \in Int  BY <1>3 DEF Node
<1>5. ctx \in -CTX_HALF..(CTX_HALF - 1)  BY <1>4, Int8Type
<1>6. [node[h] EXCEPT !.context = Int8(@ + delta), !.madeIn = -1]
        = [node[h] EXCEPT !.context = ctx, !.madeIn = -1]
  OBVIOUS
<1>7. Return(t, 0) /\ last' = last /\ context' = context  BY <1>6 DEF ChContext
<1>8. Spares(c, node, t)  BY <1>1, SparesWith
<1> HIDE DEF ctx
<1>9. Sound(t, context)  BY <1>1, <1>2, <1>5, MoveSound
<1> HIDE DEF t
<1> QED BY <1>2, <1>7, <1>8, <1>9, ReturnFair

(* Contexts are entered ...                                                *)
LEMMA MkContextFair ==
  ASSUME IInv, NEW c \in Open, Works(c, loading), MkContext(c)
  PROVE  Fair(c)
<1>1. /\ context \in [Client -> Int] /\ c \in Client /\ last' = last
      /\ context' = [context EXCEPT ![c] = @ + 1]
  BY DEF IInv, Open, MkContext
<1>2. \A d \in Client : context[d] \in Int /\ context'[d] \in Int /\ context'[d] >= context[d]
  BY <1>1
<1>3. ASSUME NEW h \in DOMAIN node PROVE NodeOK(node, context', h)
  <2>1. NodeOK(node, context, h)  BY DEF IInv, Sound
  <2>2. node[h].owner = System \/ node[h].owner \in Client  BY <2>1 DEF NodeOK, Node, Owner
  <2>3. node[h].madeIn \in Int  BY <2>1 DEF NodeOK, Node
  <2> QED BY <1>2, <2>1, <2>2, <2>3 DEF NodeOK
<1>4. Sound(node, context')  BY <1>3 DEF IInv, Sound
<1>5. PICK ret : Return(node, ret)  BY DEF MkContext
<1>6. context' \in [Client -> Int]  BY <1>1
<1> QED BY <1>1, <1>4, <1>5, <1>6, KeepsAll, ReturnFair

(* ... and left: what was made in the context is owned by the client and   *)
(* has its number, so it is deleted.                                       *)
LEMMA RmContextFair ==
  ASSUME IInv, NEW c \in Open, Works(c, loading), RmContext(c)
  PROVE  Fair(c)
<1> DEFINE S == InContext(c, context[c])
           t == Kept(S)
<1>1. /\ context \in [Client -> Int] /\ c \in Client /\ last' = last
      /\ context' = [context EXCEPT ![c] = @ - 1] /\ context[c] > 0
      /\ Return(t, 0)
  BY DEF IInv, Open, RmContext, ContextLeft
<1>2. Sound(node, context)  BY DEF IInv
<1>3. S \in SUBSET Owned(c) /\ S \in SUBSET Used  BY DEF InContext, Owned
<1>4. \A h \in Used : node[h].owner = c /\ node[h].context = context[c] => h \in S
  BY DEF InContext, Owned
<1> HIDE DEF S
<1>5. Spares(c, node, t)  BY <1>1, <1>2, <1>3, KeptSpares
<1>6. Sound(t, context)  BY <1>2, KeptSound
<1>7. /\ DOMAIN t = Used \ Doomed(S) /\ S \subseteq Doomed(S)
      /\ \A h \in DOMAIN t : t[h] = node[h]
  BY <1>3, KeptIs, DoomedIncludes
<1> HIDE DEF t
<1>8. ASSUME NEW h \in DOMAIN t PROVE NodeOK(t, context', h)
  <2>1. NodeOK(t, context, h) /\ h \in Used /\ t[h] = node[h] /\ h \notin S
    BY <1>6, <1>7 DEF Sound
  <2>2. t[h].madeIn \in Int /\ t[h].owner \in Owner  BY <2>1 DEF NodeOK, Node
  <2>3. CASE t[h].owner = c
    <3>1. t[h].context # context[c]  BY <1>4, <2>1, <2>3
    <3>2. context[c] \in Int /\ context'[c] = context[c] - 1  BY <1>1
    <3>3. c # System  BY <1>1
    <3> QED BY <1>1, <2>1, <2>2, <2>3, <3>1, <3>2, <3>3 DEF NodeOK
  <2>4. CASE t[h].owner # c
    <3>1. t[h].owner # System => context'[t[h].owner] = context[t[h].owner]
      BY <1>1, <2>2, <2>4 DEF Owner
    <3> QED BY <2>1, <3>1 DEF NodeOK
  <2> QED BY <2>3, <2>4
<1>9. Sound(t, context')  BY <1>6, <1>8 DEF Sound
<1>10. context' \in [Client -> Int]  BY <1>1
<1> QED BY <1>1, <1>5, <1>9, <1>10, ReturnFair

LEMMA RmContextNumberFair ==
  ASSUME IInv, NEW c \in Open, Works(c, loading), NEW ctx, RmContextNumber(c, ctx)
  PROVE  Fair(c)
<1> DEFINE S == InContext(c, ctx)
<1>1. S \in SUBSET Owned(c) /\ c \in Client  BY DEF InContext, Open
<1>2. Return(Kept(S), 0) /\ last' = last /\ context' = context
  BY DEF RmContextNumber
<1> HIDE DEF S
<1>3. Sound(node, context) /\ context \in [Client -> Int]  BY DEF IInv
<1>4. Sound(Kept(S), context)  BY <1>3, KeptSound
<1>5. Spares(c, node, Kept(S))  BY <1>1, <1>3, KeptSpares
<1> QED BY <1>2, <1>3, <1>4, <1>5, ReturnFair

(* A loader starts, ends or fails.                                         *)
LEMMA InstantiateFair ==
  ASSUME IInv, NEW c \in Open, NEW t, Instantiate(c, t)
  PROVE  Fair(c)
<1>1. t \in Id  BY DEF Instantiate, Readable, Owned, Used, IInv, Sound
<1>2. PICK leader \in {t, 0} :
        loading' = <<[leader |-> leader, owner |-> c, kind |-> "instance"]>> \o loading
  BY DEF Instantiate
<1> DEFINE l == [leader |-> leader, owner |-> c, kind |-> "instance"]
<1>3. l \in Loader  BY <1>1, <1>2 DEF Loader, Open
<1>4. loading' = <<l>> \o loading /\ loading \in Seq(Loader)  BY <1>2 DEF IInv
<1> HIDE DEF l
<1>5. loading' \in Seq(Loader)  BY <1>3, <1>4
<1>6. node' = node /\ last' = last /\ context' = context  BY DEF Instantiate
<1> QED BY <1>5, <1>6, KeepsAll DEF Fair, IInv

LEMMA LoadEndsFair ==
  ASSUME IInv, NEW c \in Open, Works(c, loading), LoadEnds(c)
  PROVE  Fair(c)
<1>1. /\ loading # <<>> /\ loading' = Tail(loading)
      /\ last' = last /\ context' = context
  BY DEF LoadEnds
<1>2. PICK ret : node' = Returned(node, ret, Tail(loading))  BY DEF LoadEnds
<1>3. Works(c, Tail(loading))  BY <1>1 DEF Works
<1>4. Sound(node, context)  BY DEF IInv
<1>5. Sound(node', context) /\ Spares(c, node, node')
  BY <1>2, <1>3, <1>4, ReturnedSound
<1> QED BY <1>1, <1>3, <1>5 DEF Fair, IInv, Works

LEMMA LoadFailsFair ==
  ASSUME IInv, NEW c \in Open, LoadFails(c)
  PROVE  Fair(c)
<1>1. PICK S \in SUBSET Owned(c) : node' = Kept(S)
  <2>1. Abandoned(c) \subseteq Owned(c)  BY DEF Abandoned
  <2> QED BY <2>1 DEF LoadFails
<1>2. loading' = <<>> /\ last' = last /\ context' = context  BY DEF LoadFails
<1>3. Sound(node, context) /\ c \in Client  BY DEF IInv, Open
<1>4. Sound(node', context) /\ Spares(c, node, node')
  BY <1>1, <1>3, KeptSound, KeptSpares
<1> QED BY <1>2, <1>4 DEF Fair, IInv

LEMMA RequestFair ==
  ASSUME IInv, NEW c \in Open, Works(c, loading), Request(c)
  PROVE  Fair(c)
<1>1. c \in Open \cup {System} /\ c \in Client  BY DEF Open
<1>2. Make(c) => Fair(c)  BY <1>1, MakeFair
<1>3. ASSUME Query(c) PROVE Fair(c)
  <2>1. PICK ret : Return(node, ret)  BY <1>3 DEF Query
  <2>2. last' = last /\ context' = context  BY <1>3 DEF Query
  <2>3. Sound(node, context) /\ context \in [Client -> Int]  BY DEF IInv
  <2> QED BY <2>1, <2>2, <2>3, KeepsAll, ReturnFair
<1>4. ASSUME NEW kind \in {"theme", "template"}, Load(c, kind) PROVE Fair(c)
  BY <1>4, LoadFair
<1>5. ASSUME NEW h \in Used, Dup(c, h) \/ Instantiate(c, h) \/ Free(c, h) PROVE Fair(c)
  BY <1>2, <1>5, InstantiateFair, FreeFair DEF Dup
<1>6. ASSUME NEW h \in Used, NEW delta \in Deltas[c], ChContext(c, h, delta) PROVE Fair(c)
  <2>1. delta \in Int  BY <1>1, <1>6
  <2> QED BY <1>6, <2>1, ChContextFair
<1>7. ASSUME NEW ctx, RmContextNumber(c, ctx) PROVE Fair(c)
  BY <1>7, RmContextNumberFair
<1>8. LoadEnds(c) \/ LoadFails(c) \/ MkContext(c) \/ RmContext(c) => Fair(c)
  BY LoadEndsFair, LoadFailsFair, MkContextFair, RmContextFair
<1> QED BY <1>2, <1>3, <1>4, <1>5, <1>6, <1>7, <1>8 DEF Request

(* closefd deletes everything the client owns, and nothing of another's.   *)
LEMMA CloseFair ==
  ASSUME IInv, NEW c \in Open, Close(c)
  PROVE  Fair(c)
<1> DEFINE S == ClosedBy(c)
<1>1. S = Owned(c) /\ S \in SUBSET Used  BY DEF ClosedBy, InContext, Owned
<1>2. /\ node' = Kept(S) /\ last' = last /\ loading' = loading
      /\ context' = [context EXCEPT ![c] = -1]
      /\ Sound(node, context) /\ c \in Client /\ context \in [Client -> Int]
  BY DEF Close, IInv, Open
<1> HIDE DEF S
<1>3. Spares(c, node, node') /\ Sound(node', context)
  BY <1>1, <1>2, KeptSound, KeptSpares
<1>4. ASSUME NEW h \in DOMAIN node' PROVE NodeOK(node', context', h)
  <2>1. h \in Used /\ h \notin S /\ node'[h] = node[h]
    <3>1. DOMAIN node' = Used \ Doomed(S)  BY <1>2, KeptIs
    <3>2. node'[h] = node[h]  BY <1>2, KeptIs
    <3>3. S \subseteq Doomed(S)  BY <1>1, DoomedIncludes
    <3> QED BY <3>1, <3>2, <3>3
  <2>2. NodeOK(node', context, h)  BY <1>3 DEF Sound
  <2>3. node'[h].owner # c /\ node'[h].owner \in Owner
    BY <1>1, <2>1, <2>2 DEF Owned, NodeOK, Node
  <2>4. node'[h].owner # System => context'[node'[h].owner] = context[node'[h].owner]
    BY <1>2, <2>3 DEF Owner
  <2> QED BY <2>2, <2>4 DEF NodeOK
<1>5. Sound(node', context')  BY <1>3, <1>4 DEF Sound
<1>6. context' \in [Client -> Int]  BY <1>2
<1> QED BY <1>2, <1>3, <1>5, <1>6 DEF Fair, IInv

LEMMA ClientFair ==
  ASSUME IInv, NEW c \in Client, ClientStep(c)
  PROVE  Fair(c)
<1>1. c \in Open /\ Works(c, loading)
  BY DEF ClientStep, Serves, Works, IInv
<1> QED BY <1>1, RequestFair, CloseFair DEF ClientStep

LEMMA ConnectInv ==
  ASSUME IInv, NEW c \in Client, Connect(c)
  PROVE  IInv'
<1>1. /\ node' = node /\ last' = last /\ loading' = loading
      /\ context' = [context EXCEPT ![c] = 0] /\ context \in [Client -> Int]
      /\ ~(context[c] >= 0)
  BY DEF Connect, IInv, Open
<1>2. ASSUME NEW h \in DOMAIN node PROVE NodeOK(node, context', h)
  <2>1. NodeOK(node, context, h)  BY DEF IInv, Sound
  <2>2. node[h].owner # System => node[h].owner # c /\ node[h].owner \in Client
    BY <1>1, <2>1 DEF NodeOK, Node, Owner
  <2>3. node[h].owner # System => context'[node[h].owner] = context[node[h].owner]
    BY <1>1, <2>2
  <2> QED BY <2>1, <2>3 DEF NodeOK
<1>3. Sound(node, context')  BY <1>2 DEF IInv, Sound
<1>4. context' \in [Client -> Int]  BY <1>1
<1> QED BY <1>1, <1>3, <1>4 DEF IInv

(* The inductive invariant.                                                *)
THEOREM Invariant == Spec => []IInv
<1>1. Init => IInv
  <2> SUFFICES ASSUME Init PROVE IInv  OBVIOUS
  <2>1. DOMAIN node = {} /\ loading = <<>>  BY DEF Init
  <2>2. 1 \in Id /\ context \in [Client -> Int] /\ last = 1  BY DEF Init, Id, N
  <2>3. \A c \in Client : Domain(node, c, {})  BY <2>1 DEF Domain
  <2>4. Sound(node, context)  BY <2>1, <2>3 DEF Sound, Apart
  <2>5. <<>> \in Seq(Loader)  OBVIOUS
  <2> QED BY <2>1, <2>2, <2>4, <2>5 DEF IInv
<1>2. IInv /\ [Next]_vars => IInv'
  <2> SUFFICES ASSUME IInv, [Next]_vars PROVE IInv'  OBVIOUS
  <2>1. ASSUME NEW c \in Client, Connect(c) PROVE IInv'  BY <2>1, ConnectInv
  <2>2. ASSUME NEW c \in Client, ClientStep(c) PROVE IInv'
    <3>1. Fair(c)  BY <2>2, ClientFair
    <3> QED BY <3>1 DEF Fair, IInv
  <2>3. ASSUME loading = <<>>, Make(System) PROVE IInv'
    <3>1. Works(System, loading)  BY <2>3 DEF Works
    <3>2. Fair(System)  BY <2>3, <3>1, MakeFair
    <3> QED BY <3>2 DEF Fair, IInv
  <2>4. ASSUME NEW h \in Used, SystemFree(h) PROVE IInv'
    <3>1. node' = Kept({h}) /\ last' = last /\ context' = context /\ loading' = loading
      BY <2>4 DEF SystemFree
    <3>2. Sound(node', context)  BY <3>1, KeptSound DEF IInv
    <3> QED BY <3>1, <3>2 DEF IInv
  <2>5. ASSUME UNCHANGED vars PROVE IInv'  BY <2>5 DEF vars, IInv
  <2> QED BY <2>1, <2>2, <2>3, <2>4, <2>5 DEF Next
<1> QED BY <1>1, <1>2, PTL DEF Spec

(* Owners, groups, contexts and the last number stay in their ranges, for  *)
(* any number of clients and handles.                                      *)
THEOREM TypeCorrect == Spec => []TypeOK
<1>1. IInv => TypeOK  BY DEF IInv, TypeOK, Sound, NodeOK, Used
<1> QED BY <1>1, Invariant, PTL

(* No handle is owned by a closed connection, so the next client with its  *)
(* number starts with none.                                                *)
THEOREM OwnersAreOpen == Spec => []OwnersOpen
<1>1. ASSUME IInv PROVE OwnersOpen
  <2>1. \A h \in Used : node[h].owner \in Owner /\ (node[h].owner # System => context[node[h].owner] >= 0)
    BY <1>1 DEF IInv, Sound, NodeOK, Used, Node
  <2> QED BY <2>1 DEF OwnersOpen, Open, Owner
<1> QED BY <1>1, Invariant, PTL

(* Group numbers always name handles in the tree, although numbers are     *)
(* used again, groups nest and a leader may go away during its load.       *)
THEOREM LeadersAreLive == Spec => []LeadersLive
<1>1. IInv => LeadersLive  BY DEF IInv, Sound, NodeOK, Used, LeadersLive
<1> QED BY <1>1, Invariant, PTL

(* A handle that was made in a context the node can number, and was not    *)
(* moved, does not outlive it, however many contexts its owner enters.     *)
THEOREM ContextsStack == Spec => []ContextStack
<1>1. ASSUME IInv PROVE ContextStack
  <2> SUFFICES ASSUME NEW h \in Used, node[h].owner \in Open, node[h].madeIn < CTX_HALF
               PROVE  node[h].madeIn <= context[node[h].owner]
    BY DEF ContextStack
  <2>1. NodeOK(node, context, h) /\ node[h].owner # System
    BY <1>1 DEF IInv, Sound, Used, Open
  <2>2. node[h].madeIn \in Int /\ context[node[h].owner] \in Int /\ context[node[h].owner] >= 0
    BY <1>1, <2>1 DEF IInv, NodeOK, Node, Open
  <2> QED BY <2>1, <2>2 DEF NodeOK
<1> QED BY <1>1, Invariant, PTL

(* No step of one client deletes or changes a handle that another owns.    *)
THEOREM OthersAreKept == Spec => ForeignKept
<1>1. ASSUME IInv, NEW c \in Client, ClientStep(c),
             NEW h \in Used, node[h].owner \in Client \ {c}
      PROVE  h \in DOMAIN node' /\ node'[h] = node[h]
  BY <1>1, ClientFair DEF Fair, Spares, Used
<1>2. IInv /\ [Next]_vars =>
        [\A c \in Client :
           (\E h \in Used :
              /\ node[h].owner \in Client \ {c}
              /\ h \in DOMAIN node' => node'[h] # node[h])
             => ~ClientStep(c)]_vars
  BY <1>1
<1> QED BY <1>2, Invariant, PTL DEF Spec, ForeignKept
=============================================================================
