---------------------------- MODULE HandleNodes -----------------------------
(***************************************************************************)
(* The nodes of the handle tree (struct handlenode) and the pointer        *)
(* surgery that gcore/handle.c builds its red-black tree from. A tree is a *)
(* record of the whole heap of nodes:                                      *)
(*   root     the variable `htree'                                         *)
(*   kid      left and right children, parent, red  (HFLAG_RED)            *)
(*   id       the handle a node stands for                                 *)
(*   obj      the rest of the identity a node carries: object, owner, type *)
(*   heap     the addresses that are malloc'ed                             *)
(* Where the code has a block and its mirror image, one operator takes the *)
(* side as a parameter.                                                    *)
(***************************************************************************)
EXTENDS Integers

CONSTANTS
  Handle,  \* handle numbers
  NIL,     \* address of the constant sentinel
  NULL     \* the null pointer

ASSUME HandleNodesAssumption ==
  /\ Handle \subseteq Nat \ {0} /\ \E m \in Handle : \A h \in Handle : h <= m
  /\ NIL \notin Handle /\ NULL \notin Handle /\ NIL # NULL

(* An address is only ever compared with another, so any names will do: as *)
(* many as there are handles, and between two operations the node of a     *)
(* handle is named after it (Renamed).                                     *)
Addr == Handle

Side   == {"left", "right"}
Other(s) == IF s = "left" THEN "right" ELSE "left"
Cell   == Addr \cup {NIL}          \* what may be read; only Addr may be written
Link   == Cell \cup {NULL}

Tree ==
  [root   : Cell,
   kid    : [Side -> [Cell -> Cell]],
   parent : [Cell -> Link],
   red    : [Cell -> BOOLEAN],
   id     : [Cell -> Handle \cup {0}],
   obj    : [Cell -> Handle \cup {0}],
   heap   : SUBSET Addr]

EmptyTree ==
  [root   |-> NIL,
   kid    |-> [s \in Side |-> [n \in Cell |-> NIL]],
   parent |-> [n \in Cell |-> NIL],
   red    |-> [n \in Cell |-> FALSE],
   id     |-> [n \in Cell |-> 0],
   obj    |-> [n \in Cell |-> 0],
   heap   |-> {}]

-----------------------------------------------------------------------------
SetKid(t, s, x, y) == [t EXCEPT !.kid[s][x] = y]
SetParent(t, x, p) == [t EXCEPT !.parent[x] = p]
Paint(t, x, c)     == [t EXCEPT !.red[x] = c]

BlackRoot(t) == Paint(t, t.root, FALSE)

(* The sentinel is shared and constant: it has no parent to set.           *)
AdoptAlways(t, x, p) == SetParent(t, x, p)                  \* mutants of Adopt
AdoptNever(t, x, p)  == t
Adopt(t, x, p) == IF x = NIL THEN t ELSE SetParent(t, x, p)

(* The link that led to x, from its parent or from `htree', now leads to y. *)
(* `s' is the side the code compares x with; it is not x's on the other.    *)
Relink(t, s, x, y) ==
  LET p == t.parent[x]
  IN IF p = NULL THEN [t EXCEPT !.root = y]
     ELSE IF t.kid[s][p] = x THEN SetKid(t, s, p, y)
     ELSE SetKid(t, Other(s), p, y)

(* Where a loop ends that follows pointers from n: next[m] is where it goes *)
(* from m.                                                                  *)
LoopEnd(next, n) ==
  LET Go[m \in Addr] == IF next[m] = NIL THEN m ELSE Go[next[m]]
  IN Go[n]

(* htree_rotleft (s = "left") and htree_rotright: x sinks to side s of its  *)
(* child on the other side.                                                 *)
Rotate(t, s, x) ==
  LET y     == t.kid[Other(s)][x]
      inner == t.kid[s][y]
      t1 == SetKid(t, Other(s), x, inner)
      t2 == Adopt(t1, inner, x)
      t3 == Adopt(t2, y, t2.parent[x])
      t4 == Relink(t3, s, x, y)
      t5 == SetKid(t4, s, y, x)
  IN Adopt(t5, x, y)

-----------------------------------------------------------------------------
Renamed(t) ==
  LET Name(n) == IF n \in t.heap THEN t.id[n] ELSE n
      At(h) == IF \E n \in t.heap : t.id[n] = h
               THEN CHOOSE n \in t.heap : t.id[n] = h ELSE NIL
  IN [root   |-> Name(t.root),
      kid    |-> [s \in Side |-> [h \in Cell |-> Name(t.kid[s][At(h)])]],
      parent |-> [h \in Cell |-> Name(t.parent[At(h)])],
      red    |-> [h \in Cell |-> t.red[At(h)]],
      id     |-> [h \in Cell |-> t.id[At(h)]],
      obj    |-> [h \in Cell |-> t.obj[At(h)]],
      heap   |-> {Name(n) : n \in t.heap}]
=============================================================================
