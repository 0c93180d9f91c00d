--------------------------- MODULE DispatchProofs ---------------------------
(***************************************************************************)
(* What is dispatched, at both ends. In a program, events to its handlers: *)
(* for any number of them, any widgets and messages, and dispatches nested *)
(* to any depth. In the server, pointers to widgets: for any cursors,      *)
(* widgets, containers and scenes.                                         *)
(*                                                                         *)
(* The inductive invariant of the first says of every dispatch that what   *)
(* it has called lies before the node it will look at next, and what it    *)
(* has still to call does not; and of every synchronous message that is    *)
(* waited for that its handler is new to the dispatches around it. That of *)
(* the second says that each cursor of the list is counted by the widget   *)
(* it remembers, once, and that what may be hidden or freed is in the list.*)
(***************************************************************************)
EXTENDS Handlers, Pointer, SequenceTheorems, FiniteSetTheorems, WellFoundedInduction, TLAPS

-----------------------------------------------------------------------------
(* Induction, over sets of numbers.                                        *)
LEMMA Least ==
  ASSUME NEW T \in SUBSET Nat, T # {}
  PROVE  \E x \in T : \A y \in T : x <= y
<1> DEFINE R == OpToRel(<, Nat)
<1>1. IsWellFoundedOn(R, Nat)  BY NatLessThanWellFounded
<1>2. R = {ss \in Nat \X Nat : ss[1] < ss[2]}  BY DEF OpToRel
<1>3. \A x, y \in Nat : y < x => <<y, x>> \in R  BY <1>2
<1> HIDE DEF R
<1>4. PICK x \in T : \A y \in T : ~(<<y, x>> \in R)  BY <1>1, WFMin
<1>5. x \in Nat /\ T \subseteq Nat  OBVIOUS
<1>6. ASSUME NEW y \in T PROVE x <= y
  <2>1. <<y, x>> \notin R  BY <1>4
  <2>2. y < x => <<y, x>> \in R  BY <1>3, <1>5
  <2> QED BY <1>5, <2>1, <2>2
<1> QED BY <1>6

LEMMA UpTo ==
  ASSUME NEW n \in Nat, NEW T, 0 \in T, \A k \in 1..n : k - 1 \in T => k \in T
  PROVE  \A k \in 0..n : k \in T
<1> DEFINE U == {k \in 0..n : k \notin T}
<1>1. U \in SUBSET Nat  OBVIOUS
<1>2. U = {}
  <2> SUFFICES ASSUME U # {} PROVE FALSE  OBVIOUS
  <2> HIDE DEF U
  <2>1. PICK x \in U : \A y \in U : x <= y  BY <1>1, Least
  <2> USE DEF U
  <2>2. x \in 0..n /\ x \notin T  OBVIOUS
  <2>3. x # 0  BY <2>2
  <2>4. x \in 1..n /\ x - 1 \in 0..n  BY <2>2, <2>3
  <2>5. x - 1 \notin T  BY <2>2, <2>4
  <2>6. x - 1 \in U  BY <2>4, <2>5
  <2> HIDE DEF U
  <2>7. x <= x - 1  BY <2>1, <2>6
  <2> QED BY <2>2, <2>7
<1> QED BY <1>2

-----------------------------------------------------------------------------
LEMMA RemoveAtProps ==
  ASSUME NEW S, NEW r \in Seq(S), NEW i \in 1..Len(r)
  PROVE  /\ RemoveAt(r, i) \in Seq(S)
         /\ Len(RemoveAt(r, i)) = Len(r) - 1
         /\ \A j \in 1..Len(r) - 1 : RemoveAt(r, i)[j] = IF j < i THEN r[j] ELSE r[j + 1]
<1> DEFINE u == SubSeq(r, 1, i - 1)
           v == SubSeq(r, i + 1, Len(r))
<1>1. u \in Seq(S) /\ Len(u) = i - 1 /\ \A j \in 1..i - 1 : u[j] = r[j]  OBVIOUS
<1>2. v \in Seq(S) /\ Len(v) = Len(r) - i /\ \A j \in 1..Len(r) - i : v[j] = r[i + j]  OBVIOUS
<1>3. RemoveAt(r, i) = u \o v  BY DEF RemoveAt
<1> HIDE DEF u, v
<1>4. u \o v \in Seq(S) /\ Len(u \o v) = Len(r) - 1  BY <1>1, <1>2
<1>5. ASSUME NEW j \in 1..Len(r) - 1
      PROVE  (u \o v)[j] = IF j < i THEN r[j] ELSE r[j + 1]
  <2>1. CASE j < i
    <3>1. j \in 1..Len(u)  BY <1>1, <2>1
    <3>2. (u \o v)[j] = u[j]  BY <3>1, <1>1, <1>2
    <3> QED BY <3>1, <3>2, <1>1, <2>1
  <2>2. CASE ~(j < i)
    <3>1. j - (i - 1) \in 1..Len(r) - i  BY <2>2
    <3>2. (u \o v)[j] = v[j - (i - 1)]  BY <3>1, <1>1, <1>2
    <3>3. i + (j - (i - 1)) = j + 1  OBVIOUS
    <3>4. v[j - (i - 1)] = r[j + 1]  BY <3>1, <3>3, <1>2
    <3> QED BY <3>2, <3>4, <2>2
  <2> QED BY <2>1, <2>2
<1> QED BY <1>3, <1>4, <1>5

(* The loop of pgDelete: there is such a function.                         *)
LEMMA UnlinkType ==
  ASSUME NEW r \in Seq(Node), NEW k \in Nat \ {0}, NEW w
  PROVE  UnlinkAfter(k, r, w) \in Seq(Node)
<1>1. CASE k < Len(r) /\ key[r[k + 1]][1] = w
  <2>1. UnlinkAfter(k, r, w) = RemoveAt(r, k + 1)  BY <1>1 DEF UnlinkAfter
  <2>2. k + 1 \in 1..Len(r)  BY <1>1
  <2> QED BY <2>1, <2>2, RemoveAtProps
<1>2. CASE ~(k < Len(r) /\ key[r[k + 1]][1] = w)
  BY <1>2 DEF UnlinkAfter
<1> QED BY <1>1, <1>2

LEMMA Sweep ==
  ASSUME NEW n \in Nat, NEW w, NEW a \in Seq(Node)
  PROVE  \E f : f = [k \in 0..n |-> IF k = 0 THEN a ELSE UnlinkAfter(k, f[k - 1], w)]
<1> DEFINE Upon(f, m) ==
             /\ f \in [0..m -> Seq(Node)] /\ f[0] = a
             /\ \A k \in 1..m : f[k] = UnlinkAfter(k, f[k - 1], w)
           T == {m \in 0..n : \E f : Upon(f, m)}
<1>1. 0 \in T
  <2>1. Upon([k \in 0..0 |-> a], 0)  OBVIOUS
  <2> HIDE DEF Upon
  <2>2. \E f : Upon(f, 0)  BY <2>1
  <2> QED BY <2>2
<1>2. ASSUME NEW m \in 1..n, m - 1 \in T PROVE m \in T
  <2>1. PICK f : Upon(f, m - 1)  BY <1>2
  <2> DEFINE g == [k \in 0..m |-> IF k = m THEN UnlinkAfter(m, f[m - 1], w) ELSE f[k]]
  <2>2. f[m - 1] \in Seq(Node)  BY <2>1
  <2>3. UnlinkAfter(m, f[m - 1], w) \in Seq(Node)  BY <2>2, UnlinkType
  <2>4. \A k \in 0..m : k # m => k \in 0..m - 1  OBVIOUS
  <2>5. \A k \in 0..m : g[k] \in Seq(Node)  BY <2>1, <2>3, <2>4
  <2>6. g \in [0..m -> Seq(Node)]  BY <2>5
  <2>7. g[0] = a  BY <2>1
  <2>8. ASSUME NEW k \in 1..m PROVE g[k] = UnlinkAfter(k, g[k - 1], w)
    <3>1. g[k - 1] = f[k - 1]  OBVIOUS
    <3>2. CASE k = m  BY <3>1, <3>2
    <3>3. CASE k # m
      <4>1. k \in 1..m - 1 /\ g[k] = f[k]  BY <3>3
      <4> QED BY <2>1, <3>1, <4>1
    <3> QED BY <3>2, <3>3
  <2> HIDE DEF g
  <2>9. Upon(g, m)  BY <2>6, <2>7, <2>8
  <2> HIDE DEF Upon
  <2>10. \E e : Upon(e, m)  BY <2>9
  <2> QED BY <2>10
<1>3. n \in T
  <2> HIDE DEF T
  <2>1. \A k \in 0..n : k \in T  BY <1>1, <1>2, UpTo
  <2> QED BY <2>1
<1>4. PICK f : Upon(f, n)  BY <1>3
<1> DEFINE h == [k \in 0..n |-> IF k = 0 THEN a ELSE UnlinkAfter(k, f[k - 1], w)]
<1>5. \A k \in 0..n : f[k] = h[k]
  <2> TAKE k \in 0..n
  <2>1. CASE k = 0  BY <1>4, <2>1
  <2>2. CASE k # 0
    <3>1. k \in 1..n  BY <2>2
    <3>2. f[k] = UnlinkAfter(k, f[k - 1], w)  BY <1>4, <3>1
    <3> QED BY <3>2, <2>2
  <2> QED BY <2>1, <2>2
<1>6. f = h  BY <1>4, <1>5
<1> QED BY <1>6

-----------------------------------------------------------------------------
(* A list without some of its nodes.                                       *)
Part(r, l) ==
  /\ r \in Seq(Node) /\ Len(r) <= Len(l)
  /\ \A j \in 1..Len(r) : \E i \in 1..Len(l) : r[j] = l[i]
  /\ \A j, k \in 1..Len(r) : j < k =>
       \E i, m \in 1..Len(l) : i < m /\ r[j] = l[i] /\ r[k] = l[m]

(* Those of another widget than w are still there.                         *)
Keeps(r, l, w) ==
  \A i \in 1..Len(l) : key[l[i]][1] # w => \E j \in 1..Len(r) : r[j] = l[i]

Single(l, w) ==
  \A i, j \in 1..Len(l) : key[l[i]][1] = w /\ key[l[j]][1] = w => i = j

LEMMA PartTrans ==
  ASSUME NEW q, NEW r, NEW l, Part(q, r), Part(r, l), l \in Seq(Node)
  PROVE  Part(q, l)
<1>1. q \in Seq(Node) /\ r \in Seq(Node) /\ Len(q) <= Len(l)  BY DEF Part
<1>2. ASSUME NEW j \in 1..Len(q) PROVE \E i \in 1..Len(l) : q[j] = l[i]
  <2>1. PICK k \in 1..Len(r) : q[j] = r[k]  BY DEF Part
  <2> QED BY <2>1 DEF Part
<1>3. ASSUME NEW j \in 1..Len(q), NEW k \in 1..Len(q), j < k
      PROVE  \E i, m \in 1..Len(l) : i < m /\ q[j] = l[i] /\ q[k] = l[m]
  <2>1. PICK a, b \in 1..Len(r) : a < b /\ q[j] = r[a] /\ q[k] = r[b]  BY <1>3 DEF Part
  <2>2. PICK i, m \in 1..Len(l) : i < m /\ r[a] = l[i] /\ r[b] = l[m]  BY <2>1 DEF Part
  <2> QED BY <2>1, <2>2
<1> QED BY <1>1, <1>2, <1>3 DEF Part

LEMMA PartRefl ==
  ASSUME NEW l \in Seq(Node)
  PROVE  Part(l, l)
BY DEF Part

LEMMA PartRemove ==
  ASSUME NEW r \in Seq(Node), NEW i \in 1..Len(r)
  PROVE  /\ Part(RemoveAt(r, i), r)
         /\ Len(RemoveAt(r, i)) = Len(r) - 1
         /\ \A j \in 1..Len(r) : j # i => \E k \in 1..Len(r) - 1 : RemoveAt(r, i)[k] = r[j]
         /\ \A k \in 1..Len(r) - 1 : \E j \in 1..Len(r) : j # i /\ RemoveAt(r, i)[k] = r[j]
<1> DEFINE q == RemoveAt(r, i)
           at(j) == IF j < i THEN j ELSE j + 1
<1>1. q \in Seq(Node) /\ Len(q) = Len(r) - 1  BY RemoveAtProps
<1>2. \A j \in 1..Len(r) - 1 : q[j] = IF j < i THEN r[j] ELSE r[j + 1]  BY RemoveAtProps
<1> HIDE DEF q
<1>3. \A j \in 1..Len(r) - 1 : at(j) \in 1..Len(r) /\ at(j) # i /\ q[j] = r[at(j)]
  BY <1>2
<1>4. \A j, k \in 1..Len(r) - 1 : j < k => at(j) < at(k)  OBVIOUS
<1> HIDE DEF at
<1>5. Part(q, r)
  <2>1. \A j \in 1..Len(q) : \E m \in 1..Len(r) : q[j] = r[m]  BY <1>1, <1>3
  <2>2. ASSUME NEW j \in 1..Len(q), NEW k \in 1..Len(q), j < k
        PROVE  \E a, b \in 1..Len(r) : a < b /\ q[j] = r[a] /\ q[k] = r[b]
    <3>1. at(j) \in 1..Len(r) /\ at(k) \in 1..Len(r) /\ at(j) < at(k)
      BY <1>1, <1>3, <1>4, <2>2
    <3>2. q[j] = r[at(j)] /\ q[k] = r[at(k)]  BY <1>1, <1>3
    <3> QED BY <3>1, <3>2
  <2>3. Len(q) <= Len(r)  BY <1>1
  <2> QED BY <1>1, <2>1, <2>2, <2>3 DEF Part
<1>6. ASSUME NEW j \in 1..Len(r), j # i PROVE \E k \in 1..Len(r) - 1 : q[k] = r[j]
  <2>1. CASE j < i
    <3>1. j \in 1..Len(r) - 1 /\ q[j] = r[j]  BY <1>2, <2>1
    <3> QED BY <3>1
  <2>2. CASE ~(j < i)
    <3>1. j - 1 \in 1..Len(r) - 1 /\ ~(j - 1 < i) /\ (j - 1) + 1 = j  BY <1>6, <2>2
    <3>2. q[j - 1] = r[j]  BY <1>2, <3>1
    <3> QED BY <3>1, <3>2
  <2> QED BY <2>1, <2>2
<1>7. \A k \in 1..Len(r) - 1 : \E j \in 1..Len(r) : j # i /\ q[k] = r[j]  BY <1>3
<1>8. q = RemoveAt(r, i)  BY DEF q
<1> QED BY <1>1, <1>5, <1>6, <1>7, <1>8

LEMMA TailProps ==
  ASSUME NEW r \in Seq(Node), r # <<>>
  PROVE  1 \in 1..Len(r) /\ Tail(r) = RemoveAt(r, 1)
<1>1. 1 \in 1..Len(r)  OBVIOUS
<1>2. RemoveAt(r, 1) \in Seq(Node) /\ Len(RemoveAt(r, 1)) = Len(r) - 1
      /\ \A j \in 1..Len(r) - 1 : RemoveAt(r, 1)[j] = r[j + 1]
  <2>1. \A j \in 1..Len(r) - 1 : ~(j < 1)  OBVIOUS
  <2> QED BY <1>1, <2>1, RemoveAtProps
<1>3. Tail(r) \in Seq(Node) /\ Len(Tail(r)) = Len(r) - 1
      /\ \A j \in 1..Len(r) - 1 : Tail(r)[j] = r[j + 1]
  OBVIOUS
<1>4. Tail(r) = RemoveAt(r, 1)
  <2> DEFINE t == Tail(r)
             q == RemoveAt(r, 1)
  <2>1. \A j \in 1..Len(t) : t[j] = q[j]  BY <1>2, <1>3
  <2>2. t \in Seq(Node) /\ q \in Seq(Node) /\ Len(t) = Len(q)  BY <1>2, <1>3
  <2> HIDE DEF t, q
  <2>3. t = q  BY <2>1, <2>2
  <2> QED BY <2>3 DEF t, q
<1> QED BY <1>1, <1>4

-----------------------------------------------------------------------------
(* pgDelete takes handlers of the widget out of the list and no others;    *)
(* the only one of a widget it does take.                                  *)
Left(r, l, w) ==
  /\ Part(r, l) /\ Keeps(r, l, w)

LEMMA RemoveLeft ==
  ASSUME NEW l \in Seq(Node), NEW r \in Seq(Node), NEW w, NEW i \in 1..Len(r),
         Left(r, l, w), key[r[i]][1] = w
  PROVE  /\ Left(RemoveAt(r, i), l, w)
         /\ Single(l, w) => \A j \in 1..Len(RemoveAt(r, i)) : key[RemoveAt(r, i)[j]][1] # w
<1> DEFINE q == RemoveAt(r, i)
<1>1. Part(q, r) /\ Len(q) = Len(r) - 1  BY PartRemove
<1>2. \A j \in 1..Len(r) : j # i => \E k \in 1..Len(r) - 1 : q[k] = r[j]  BY PartRemove
<1>3. \A k \in 1..Len(r) - 1 : \E j \in 1..Len(r) : j # i /\ q[k] = r[j]  BY PartRemove
<1> HIDE DEF q
<1>4. Part(q, l)  BY <1>1, PartTrans DEF Left
<1>5. ASSUME NEW m \in 1..Len(l), key[l[m]][1] # w
      PROVE  \E k \in 1..Len(q) : q[k] = l[m]
  <2>1. PICK j \in 1..Len(r) : r[j] = l[m]  BY <1>5 DEF Left, Keeps
  <2>2. j # i  BY <1>5, <2>1
  <2>3. PICK k \in 1..Len(r) - 1 : q[k] = r[j]  BY <1>2, <2>2
  <2> QED BY <1>1, <2>1, <2>3
<1>6. ASSUME Single(l, w), NEW k \in 1..Len(q), key[q[k]][1] = w PROVE FALSE
  <2>1. PICK j \in 1..Len(r) : j # i /\ q[k] = r[j]  BY <1>1, <1>3
  <2>2. j < i \/ i < j  BY <2>1
  <2>3. \E a, b \in 1..Len(l) : a < b /\ {r[i], r[j]} = {l[a], l[b]}
    <3>1. CASE j < i
      <4>1. PICK a, b \in 1..Len(l) : a < b /\ r[j] = l[a] /\ r[i] = l[b]
        BY <3>1 DEF Left, Part
      <4> QED BY <4>1
    <3>2. CASE i < j
      <4>1. PICK a, b \in 1..Len(l) : a < b /\ r[i] = l[a] /\ r[j] = l[b]
        BY <3>2 DEF Left, Part
      <4> QED BY <4>1
    <3> QED BY <2>2, <3>1, <3>2
  <2>4. PICK a, b \in 1..Len(l) : a < b /\ {r[i], r[j]} = {l[a], l[b]}  BY <2>3
  <2>5. key[r[j]][1] = w  BY <1>6, <2>1
  <2>6. key[l[a]][1] = w /\ key[l[b]][1] = w
    <3>1. l[a] \in {r[i], r[j]} /\ l[b] \in {r[i], r[j]}  BY <2>4
    <3> QED BY <3>1, <2>5
  <2>7. a = b  BY <1>6, <2>6 DEF Single
  <2> QED BY <2>4, <2>7
<1>7. Left(q, l, w)  BY <1>4, <1>5 DEF Left, Keeps
<1>8. q = RemoveAt(r, i)  BY DEF q
<1> QED BY <1>6, <1>7, <1>8

LEMMA UnlinkedProps ==
  ASSUME NEW l \in Seq(Node), NEW w
  PROVE  /\ Left(Unlinked(l, w), l, w)
         /\ Single(l, w) => \A j \in 1..Len(Unlinked(l, w)) : key[Unlinked(l, w)[j]][1] # w
<1> DEFINE n == Len(l)
           first == IF l # <<>> /\ key[l[1]][1] = w THEN Tail(l) ELSE l
           Loop(f) == f = [k \in 0..n |-> IF k = 0 THEN first ELSE UnlinkAfter(k, f[k - 1], w)]
           f == CHOOSE f : Loop(f)
<1>1. Left(l, l, w)  BY DEF Left, Part, Keeps
<1>2. /\ Left(first, l, w)
      /\ Single(l, w) => \A j \in 1..Len(first) : key[first[j]][1] = w => j > 1
  <2>1. CASE l # <<>> /\ key[l[1]][1] = w
    <3>1. 1 \in 1..Len(l) /\ Tail(l) = RemoveAt(l, 1)  BY <2>1, TailProps
    <3>2. Left(RemoveAt(l, 1), l, w)
      BY <1>1, <2>1, <3>1, RemoveLeft
    <3>3. Single(l, w) => \A j \in 1..Len(RemoveAt(l, 1)) : key[RemoveAt(l, 1)[j]][1] # w
      BY <1>1, <2>1, <3>1, RemoveLeft
    <3>4. first = RemoveAt(l, 1)  BY <2>1, <3>1
    <3> HIDE DEF first
    <3> QED BY <3>2, <3>3, <3>4
  <2>2. CASE ~(l # <<>> /\ key[l[1]][1] = w)
    <3>1. first = l  BY <2>2
    <3>2. ASSUME NEW j \in 1..Len(l), key[l[j]][1] = w PROVE j > 1
      <4>1. l # <<>>  OBVIOUS
      <4>2. j # 1  BY <2>2, <3>2, <4>1
      <4> QED BY <4>2
    <3> HIDE DEF first
    <3> QED BY <1>1, <3>1, <3>2
  <2> QED BY <2>1, <2>2
<1>3. n \in Nat  OBVIOUS
<1> HIDE DEF first, n
<1>4. first \in Seq(Node)  BY <1>2 DEF Left, Part
<1>5. \E g : Loop(g)  BY <1>3, <1>4, Sweep
<1>6. Loop(f)
  <2> HIDE DEF Loop
  <2> QED BY <1>5
<1>7. Unlinked(l, w) = f[n]  BY DEF Unlinked, first, n
<1> HIDE DEF f
<1>8. f[0] = first /\ \A k \in 1..n : f[k] = UnlinkAfter(k, f[k - 1], w)
  <2>1. 0 \in 0..n /\ \A k \in 1..n : k \in 0..n /\ k # 0  BY <1>3
  <2> QED BY <1>6, <2>1
<1> DEFINE Good(k) ==
             /\ Left(f[k], l, w)
             /\ Single(l, w) => \A j \in 1..Len(f[k]) : key[f[k][j]][1] = w => j > k + 1
           T == {k \in 0..n : Good(k)}
<1>9. 0 \in T
  <2>1. f[0] = first /\ 0 + 1 = 1  BY <1>8
  <2>2. Good(0)  BY <1>2, <2>1
  <2> QED BY <1>3, <2>2
<1>10. ASSUME NEW k \in 1..n, k - 1 \in T PROVE k \in T
  <2> DEFINE r == f[k - 1]
  <2>1. f[k] = UnlinkAfter(k, r, w)  BY <1>8
  <2>2. Left(r, l, w) /\ (k - 1) + 1 = k  BY <1>10, <1>3
  <2>3. r \in Seq(Node)  BY <2>2 DEF Left, Part
  <2>4. Single(l, w) => \A j \in 1..Len(r) : key[r[j]][1] = w => j > k  BY <1>10, <2>2
  <2> HIDE DEF r
  <2>5. Good(k)
    <3>1. CASE k < Len(r) /\ key[r[k + 1]][1] = w
      <4>1. f[k] = RemoveAt(r, k + 1)  BY <2>1, <3>1 DEF UnlinkAfter
      <4>2. k + 1 \in 1..Len(r)  BY <1>3, <2>3, <3>1
      <4>3. Left(RemoveAt(r, k + 1), l, w)  BY <2>2, <2>3, <3>1, <4>2, RemoveLeft
      <4>4. Single(l, w) => \A j \in 1..Len(RemoveAt(r, k + 1)) : key[RemoveAt(r, k + 1)[j]][1] # w
        BY <2>2, <2>3, <3>1, <4>2, RemoveLeft
      <4> QED BY <4>1, <4>3, <4>4
    <3>2. CASE ~(k < Len(r) /\ key[r[k + 1]][1] = w)
      <4>1. f[k] = r  BY <2>1, <3>2 DEF UnlinkAfter
      <4>2. ASSUME Single(l, w), NEW j \in 1..Len(r), key[r[j]][1] = w PROVE j > k + 1
        <5>1. j > k  BY <2>4, <4>2
        <5>2. j # k + 1
          <6>1. j = k + 1 => k < Len(r)  BY <1>3, <2>3
          <6> QED BY <6>1, <3>2, <4>2
        <5> QED BY <1>3, <5>1, <5>2
      <4> QED BY <2>2, <4>1, <4>2
    <3> QED BY <3>1, <3>2
  <2> QED BY <1>3, <2>5
<1>11. n \in T
  <2> HIDE DEF T
  <2>1. \A k \in 0..n : k \in T  BY <1>3, <1>9, <1>10, UpTo
  <2> QED BY <1>3, <2>1
<1>12. Good(n)  BY <1>11
<1>13. Len(f[n]) <= n /\ f[n] \in Seq(Node)  BY <1>12 DEF Left, Part, n
<1>14. Single(l, w) => \A j \in 1..Len(f[n]) : key[f[n][j]][1] # w
  <2> SUFFICES ASSUME Single(l, w), NEW j \in 1..Len(f[n]), key[f[n][j]][1] = w PROVE FALSE
    OBVIOUS
  <2>1. j > n + 1  BY <1>12
  <2> QED BY <1>3, <1>13, <2>1
<1> QED BY <1>7, <1>12, <1>14

-----------------------------------------------------------------------------
(* The order of the nodes, which is what dispatches depend on.             *)
Distinct(l) == \A i, j \in 1..Len(l) : l[i] = l[j] => i = j
Precedes(l, a, b) == \E i, j \in 1..Len(l) : i < j /\ l[i] = a /\ l[j] = b

LEMMA InList ==
  ASSUME NEW l \in Seq(Node), NEW n
  PROVE  n \in ToSet(l) <=> \E i \in 1..Len(l) : l[i] = n
BY DEF ToSet

LEMMA PartOrder ==
  ASSUME NEW l \in Seq(Node), NEW r, Distinct(l), Part(r, l)
  PROVE  /\ r \in Seq(Node) /\ Distinct(r) /\ ToSet(r) \subseteq ToSet(l)
         /\ \A a, b \in ToSet(r) : Precedes(r, a, b) <=> Precedes(l, a, b)
<1>1. r \in Seq(Node)  BY DEF Part
<1>2. ToSet(r) \subseteq ToSet(l)
  <2> SUFFICES ASSUME NEW n \in ToSet(r) PROVE n \in ToSet(l)  OBVIOUS
  <2>1. PICK j \in 1..Len(r) : r[j] = n  BY <1>1, InList
  <2>2. PICK i \in 1..Len(l) : r[j] = l[i]  BY DEF Part
  <2> QED BY <2>1, <2>2, InList
<1>3. ASSUME NEW j \in 1..Len(r), NEW k \in 1..Len(r), j < k PROVE r[j] # r[k]
  <2>1. PICK i, m \in 1..Len(l) : i < m /\ r[j] = l[i] /\ r[k] = l[m]  BY <1>3 DEF Part
  <2>2. i # m  BY <2>1
  <2> QED BY <2>1, <2>2 DEF Distinct
<1>4. Distinct(r)
  <2> SUFFICES ASSUME NEW i \in 1..Len(r), NEW j \in 1..Len(r), r[i] = r[j], i # j PROVE FALSE
    BY DEF Distinct
  <2>1. i < j \/ j < i  OBVIOUS
  <2> QED BY <2>1, <1>3
<1>5. ASSUME NEW a, NEW b, Precedes(r, a, b) PROVE Precedes(l, a, b)
  <2>1. PICK j, k \in 1..Len(r) : j < k /\ r[j] = a /\ r[k] = b  BY <1>5 DEF Precedes
  <2>2. PICK i, m \in 1..Len(l) : i < m /\ r[j] = l[i] /\ r[k] = l[m]  BY <2>1 DEF Part
  <2> QED BY <2>1, <2>2 DEF Precedes
<1>6. ASSUME NEW a \in ToSet(r), NEW b \in ToSet(r), Precedes(l, a, b) PROVE Precedes(r, a, b)
  <2>1. PICK j \in 1..Len(r) : r[j] = a  BY <1>1, InList
  <2>2. PICK k \in 1..Len(r) : r[k] = b  BY <1>1, InList
  <2>3. PICK i, m \in 1..Len(l) : i < m /\ l[i] = a /\ l[m] = b  BY <1>6 DEF Precedes
  <2>4. CASE j < k  BY <2>1, <2>2, <2>4 DEF Precedes
  <2>5. CASE j = k
    <3>1. i = m  BY <2>1, <2>2, <2>3, <2>5 DEF Distinct
    <3> QED BY <2>3, <3>1
  <2>6. CASE k < j
    <3>0. Precedes(r, b, a)  BY <2>1, <2>2, <2>6 DEF Precedes
    <3>1. Precedes(l, b, a)  BY <3>0, <1>5
    <3>2. PICK x, y \in 1..Len(l) : x < y /\ l[x] = b /\ l[y] = a  BY <3>1 DEF Precedes
    <3>3. x = m /\ y = i  BY <2>3, <3>2 DEF Distinct
    <3> QED BY <2>3, <3>2, <3>3
  <2> QED BY <2>4, <2>5, <2>6
<1> QED BY <1>1, <1>2, <1>4, <1>5, <1>6

LEMMA Pushed ==
  ASSUME NEW S, NEW l \in Seq(S), NEW n \in S
  PROVE  /\ <<n>> \o l \in Seq(S) /\ Len(<<n>> \o l) = Len(l) + 1
         /\ (<<n>> \o l)[1] = n
         /\ \A i \in 1..Len(l) : (<<n>> \o l)[i + 1] = l[i]
         /\ \A j \in 2..Len(l) + 1 : j - 1 \in 1..Len(l) /\ (<<n>> \o l)[j] = l[j - 1]
<1> DEFINE u == <<n>>
<1>1. u \in Seq(S) /\ Len(u) = 1 /\ u[1] = n  OBVIOUS
<1> HIDE DEF u
<1>2. /\ u \o l \in Seq(S) /\ Len(u \o l) = Len(u) + Len(l)
      /\ \A i \in 1..Len(u) + Len(l) :
           (u \o l)[i] = IF i <= Len(u) THEN u[i] ELSE l[i - Len(u)]
  BY <1>1, ConcatProperties
<1>3. Len(l) \in Nat  OBVIOUS
<1>4. \A j \in 2..Len(l) + 1 : j - 1 \in 1..Len(l) /\ (u \o l)[j] = l[j - 1]
  BY <1>1, <1>2, <1>3
<1>5. (u \o l)[1] = n  BY <1>1, <1>2, <1>3
<1>6. ASSUME NEW i \in 1..Len(l) PROVE (u \o l)[i + 1] = l[i]
  <2>1. i + 1 \in 2..Len(l) + 1 /\ (i + 1) - 1 = i  OBVIOUS
  <2> QED BY <1>4, <2>1
<1> QED BY <1>1, <1>2, <1>3, <1>4, <1>5, <1>6 DEF u

LEMMA PushOrder ==
  ASSUME NEW l \in Seq(Node), Distinct(l), NEW n \in Node, n \notin ToSet(l)
  PROVE  /\ <<n>> \o l \in Seq(Node) /\ Distinct(<<n>> \o l)
         /\ ToSet(<<n>> \o l) = ToSet(l) \union {n}
         /\ \A a, b \in ToSet(l) : Precedes(<<n>> \o l, a, b) <=> Precedes(l, a, b)
<1> DEFINE r == <<n>> \o l
<1>1. /\ r \in Seq(Node) /\ Len(r) = Len(l) + 1 /\ r[1] = n
      /\ \A i \in 1..Len(l) : r[i + 1] = l[i]
      /\ \A j \in 2..Len(l) + 1 : j - 1 \in 1..Len(l) /\ r[j] = l[j - 1]
  BY Pushed
<1> HIDE DEF r
<1>2. \A j \in 1..Len(r) : j = 1 \/ j \in 2..Len(l) + 1  BY <1>1
<1>3. \A j \in 1..Len(l) : l[j] # n  BY InList
<1>4. ASSUME NEW i \in 1..Len(r), NEW j \in 1..Len(r), r[i] = r[j] PROVE i = j
  <2>1. CASE i = 1 /\ j = 1  BY <2>1
  <2>2. CASE i = 1 /\ j \in 2..Len(l) + 1  BY <1>1, <1>3, <1>4, <2>2
  <2>3. CASE j = 1 /\ i \in 2..Len(l) + 1  BY <1>1, <1>3, <1>4, <2>3
  <2>4. CASE i \in 2..Len(l) + 1 /\ j \in 2..Len(l) + 1
    <3>1. i - 1 = j - 1  BY <1>1, <1>4, <2>4 DEF Distinct
    <3> QED BY <3>1
  <2> QED BY <1>2, <2>1, <2>2, <2>3, <2>4
<1>5. ToSet(r) = ToSet(l) \union {n}
  <2>1. ASSUME NEW x \in ToSet(r) PROVE x \in ToSet(l) \union {n}
    <3>1. PICK j \in 1..Len(r) : r[j] = x  BY <1>1, InList
    <3>2. CASE j = 1  BY <1>1, <3>1, <3>2
    <3>3. CASE j \in 2..Len(l) + 1
      <4>1. j - 1 \in 1..Len(l) /\ l[j - 1] = x  BY <1>1, <3>1, <3>3
      <4> QED BY <4>1, InList
    <3> QED BY <1>2, <3>2, <3>3
  <2>2. n \in ToSet(r)
    <3>1. 1 \in 1..Len(r)  BY <1>1
    <3> QED BY <3>1, <1>1, InList
  <2>3. ASSUME NEW x \in ToSet(l) PROVE x \in ToSet(r)
    <3>1. PICK i \in 1..Len(l) : l[i] = x  BY InList
    <3>2. i + 1 \in 1..Len(r) /\ r[i + 1] = x  BY <1>1, <3>1
    <3> QED BY <1>1, <3>2, InList
  <2> QED BY <2>1, <2>2, <2>3
<1>6. ASSUME NEW a \in ToSet(l), NEW b \in ToSet(l), Precedes(r, a, b) PROVE Precedes(l, a, b)
  <2>1. PICK i, j \in 1..Len(r) : i < j /\ r[i] = a /\ r[j] = b  BY <1>6 DEF Precedes
  <2>2. i # 1 /\ j # 1  BY <1>1, <2>1
  <2>3. i - 1 \in 1..Len(l) /\ j - 1 \in 1..Len(l) /\ r[i] = l[i - 1] /\ r[j] = l[j - 1]
    BY <1>1, <1>2, <2>2
  <2>4. i - 1 < j - 1  BY <2>1
  <2> QED BY <2>1, <2>3, <2>4 DEF Precedes
<1>7. ASSUME NEW a, NEW b, Precedes(l, a, b) PROVE Precedes(r, a, b)
  <2>1. PICK i, j \in 1..Len(l) : i < j /\ l[i] = a /\ l[j] = b  BY <1>7 DEF Precedes
  <2>2. i + 1 \in 1..Len(r) /\ j + 1 \in 1..Len(r) /\ i + 1 < j + 1  BY <1>1, <2>1
  <2>3. r[i + 1] = a /\ r[j + 1] = b  BY <1>1, <2>1
  <2> QED BY <2>2, <2>3 DEF Precedes
<1>8. Distinct(r)  BY <1>4 DEF Distinct
<1> QED BY <1>1, <1>5, <1>6, <1>7, <1>8 DEF r

-----------------------------------------------------------------------------
(* The inductive invariant, of a stack, a list and the keys of its nodes.  *)
Pairs == (ClientWidget \union Source \union {PGBIND_ANY, NULL})
           \X (WidgetEvent \union OtherEvent \union {APPMSG, PGBIND_ANY})
Calling == [call : {"dispatch"}, evt : Event, at : Pairs \union {NULL},
            next : Node \union {NULL}, called : SUBSET Node, due : SUBSET Node]
Syncing == [call : {"sync"}, source : Source \union {NULL}, answered : BOOLEAN]
Typed(st, l, k) ==
  /\ st \in Seq(Calling \union Syncing)
  /\ l \in Seq(Node) /\ Distinct(l)
  /\ k \in [Node -> Pairs \union {Unbound}]
  /\ \A n \in ToSet(l) : k[n] \in Pairs

(* Behind the next node there is nothing that was called, and before it    *)
(* nothing that has to be.                                                 *)
Straight(f, l, k) ==
  /\ f.next \in ToSet(l) \union {NULL}
  /\ f.called \subseteq ToSet(l) /\ f.due \subseteq ToSet(l)
  /\ \A n \in f.due : Matches(k[n], f.evt)
  /\ \A n \in f.due \ f.called : f.next # NULL /\ ~Precedes(l, n, f.next)
  /\ \A n \in f.called : f.next # NULL => Precedes(l, n, f.next)
Ordered(st, l, k) ==
  \A i \in 1..Len(st) : st[i].call = "dispatch" => Straight(st[i], l, k)

(* syncmsg_handler calls nothing.                                          *)
Within(st) ==
  \A i \in 2..Len(st) : st[i].call = "dispatch" => st[i].at[1] \notin Source

(* A message's handler is the only one of its source, and is there no      *)
(* longer than the call that bound it.                                     *)
Waited(st, s) == \E i \in 1..Len(st) : st[i].call = "sync" /\ st[i].source = s
TopWaited(st) ==
  st # <<>> /\ st[1].call = "dispatch" /\ st[1].at # NULL /\ st[1].at[1] \in Source
    => Waited(st, st[1].at[1])
Held(st, l, k) == \A n \in ToSet(l) : k[n][1] \in Source => Waited(st, k[n][1])
Alone(l, k) ==
  \A n, m \in ToSet(l) : k[n][1] \in Source /\ k[n][1] = k[m][1] => n = m

(* It is new to the dispatches that were there before it.                  *)
Fresh(st, k) ==
  \A i, j \in 1..Len(st) :
    i < j /\ st[i].call = "sync" /\ st[i].source \in Source
    /\ st[j].call = "dispatch" /\ st[j].next # NULL
      => k[st[j].next][1] # st[i].source

Good(st, l, k) ==
  /\ Typed(st, l, k)
  /\ Ordered(st, l, k)
  /\ Within(st) /\ TopWaited(st) /\ Fresh(st, k)
  /\ Held(st, l, k) /\ Alone(l, k)

(* Stacks of the same calls at the same places.                            *)
Alike(st, st2) ==
  /\ st \in Seq(Calling \union Syncing) /\ st2 \in Seq(Calling \union Syncing)
  /\ Len(st2) = Len(st)
  /\ \A i \in 1..Len(st) :
       /\ st2[i].call = st[i].call
       /\ st[i].call = "sync" => st2[i].source = st[i].source
       /\ st[i].call = "dispatch" => st2[i].next = st[i].next /\ st2[i].at = st[i].at

LEMMA AlikeKeeps ==
  ASSUME NEW st, NEW st2, NEW k, NEW k2, Alike(st, st2),
         \A i \in 1..Len(st) : st[i].call = "dispatch" /\ st[i].next # NULL
                                 => k2[st[i].next] = k[st[i].next]
  PROVE  /\ \A s : Waited(st, s) <=> Waited(st2, s)
         /\ Within(st) => Within(st2)
         /\ TopWaited(st) => TopWaited(st2)
         /\ Fresh(st, k) => Fresh(st2, k2)
<1>1. ASSUME NEW s, Waited(st, s) PROVE Waited(st2, s)
  <2>1. PICK i \in 1..Len(st) : st[i].call = "sync" /\ st[i].source = s  BY <1>1 DEF Waited
  <2>2. i \in 1..Len(st2) /\ st2[i].call = "sync" /\ st2[i].source = s  BY <2>1 DEF Alike
  <2> QED BY <2>2 DEF Waited
<1>2. ASSUME NEW s, Waited(st2, s) PROVE Waited(st, s)
  <2>1. PICK i \in 1..Len(st2) : st2[i].call = "sync" /\ st2[i].source = s  BY <1>2 DEF Waited
  <2>2. i \in 1..Len(st) /\ st[i].call = "sync" /\ st[i].source = s  BY <2>1 DEF Alike
  <2> QED BY <2>2 DEF Waited
<1>3. ASSUME Within(st) PROVE Within(st2)
  <2> SUFFICES ASSUME NEW i \in 2..Len(st2), st2[i].call = "dispatch" PROVE st2[i].at[1] \notin Source
    BY DEF Within
  <2>1. Len(st) \in Nat /\ Len(st2) = Len(st)  BY DEF Alike
  <2>2. i \in 1..Len(st) /\ i \in 2..Len(st)  BY <2>1
  <2>3. st[i].call = "dispatch" /\ st2[i].at = st[i].at  BY <2>2 DEF Alike
  <2> QED BY <1>3, <2>2, <2>3 DEF Within
<1>4. ASSUME TopWaited(st) PROVE TopWaited(st2)
  <2> SUFFICES ASSUME st2 # <<>>, st2[1].call = "dispatch", st2[1].at # NULL, st2[1].at[1] \in Source
               PROVE  Waited(st2, st2[1].at[1])
    BY DEF TopWaited
  <2>1. Len(st2) = Len(st) /\ st \in Seq(Calling \union Syncing) /\ st2 \in Seq(Calling \union Syncing)
    BY DEF Alike
  <2>2. st # <<>> /\ 1 \in 1..Len(st)  BY <2>1
  <2>3. st[1].call = "dispatch" /\ st2[1].at = st[1].at  BY <2>2 DEF Alike
  <2>4. Waited(st, st[1].at[1])  BY <1>4, <2>2, <2>3 DEF TopWaited
  <2> QED BY <1>1, <2>3, <2>4
<1>5. ASSUME Fresh(st, k) PROVE Fresh(st2, k2)
  <2> SUFFICES ASSUME NEW i \in 1..Len(st2), NEW j \in 1..Len(st2), i < j, st2[i].call = "sync",
                      st2[i].source \in Source, st2[j].call = "dispatch", st2[j].next # NULL
               PROVE  k2[st2[j].next][1] # st2[i].source
    BY DEF Fresh
  <2>1. i \in 1..Len(st) /\ j \in 1..Len(st)  BY DEF Alike
  <2>2. st[i].call = "sync" /\ st2[i].source = st[i].source  BY <2>1 DEF Alike
  <2>3. st[j].call = "dispatch" /\ st2[j].next = st[j].next  BY <2>1 DEF Alike
  <2>4. k[st[j].next][1] # st[i].source  BY <1>5, <2>1, <2>2, <2>3 DEF Fresh
  <2> QED BY <2>1, <2>2, <2>3, <2>4
<1> QED BY <1>1, <1>2, <1>3, <1>4, <1>5

(* A call is put on the stack.                                             *)
LEMMA GoodPush ==
  ASSUME NEW st, NEW l, NEW k, Good(st, l, k),
         NEW f \in Calling \union Syncing,
         f.call = "dispatch" => f.at = NULL /\ Straight(f, l, k),
         f.call = "sync" /\ f.source \in Source => ~Waited(st, f.source),
         st = <<>> \/ st[1].call = "sync" \/ st[1].at[1] \notin Source
  PROVE  Good(<<f>> \o st, l, k)
<1> DEFINE st2 == <<f>> \o st
<1>0. st \in Seq(Calling \union Syncing)  BY DEF Good, Typed
<1>1. /\ st2 \in Seq(Calling \union Syncing) /\ Len(st2) = Len(st) + 1 /\ st2[1] = f
      /\ \A i \in 1..Len(st) : st2[i + 1] = st[i]
      /\ \A j \in 2..Len(st) + 1 : j - 1 \in 1..Len(st) /\ st2[j] = st[j - 1]
  BY <1>0, Pushed
<1> HIDE DEF st2
<1>2. Len(st) \in Nat /\ \A j \in 1..Len(st2) : j = 1 \/ j \in 2..Len(st) + 1  BY <1>0, <1>1
<1>3. Typed(st2, l, k)  BY <1>1 DEF Good, Typed
<1>4. Ordered(st2, l, k)
  <2> SUFFICES ASSUME NEW j \in 1..Len(st2), st2[j].call = "dispatch" PROVE Straight(st2[j], l, k)
    BY DEF Ordered
  <2>1. CASE j = 1  BY <1>1, <2>1
  <2>2. CASE j \in 2..Len(st) + 1  BY <1>1, <2>2 DEF Good, Ordered
  <2> QED BY <1>2, <2>1, <2>2
<1>5. Within(st2)
  <2> SUFFICES ASSUME NEW j \in 2..Len(st2), st2[j].call = "dispatch" PROVE st2[j].at[1] \notin Source
    BY DEF Within
  <2>1. j \in 2..Len(st) + 1 /\ j - 1 \in 1..Len(st) /\ st2[j] = st[j - 1]  BY <1>1
  <2>2. CASE j = 2
    <3>1. st # <<>> /\ st2[j] = st[1]  BY <2>1, <2>2
    <3> QED BY <3>1
  <2>3. CASE j # 2
    <3>1. j - 1 \in 2..Len(st)  BY <1>2, <2>1, <2>3
    <3> QED BY <3>1, <2>1 DEF Good, Within
  <2> QED BY <2>2, <2>3
<1>6. TopWaited(st2)  BY <1>1 DEF TopWaited
<1>7. \A s : Waited(st, s) => Waited(st2, s)
  <2> SUFFICES ASSUME NEW s, Waited(st, s) PROVE Waited(st2, s)  OBVIOUS
  <2>1. PICK i \in 1..Len(st) : st[i].call = "sync" /\ st[i].source = s  BY DEF Waited
  <2>2. i + 1 \in 1..Len(st2) /\ st2[i + 1] = st[i]  BY <1>1, <1>2
  <2> QED BY <2>1, <2>2 DEF Waited
<1>8. Held(st2, l, k)  BY <1>7 DEF Good, Held
<1>9. Fresh(st2, k)
  <2> SUFFICES ASSUME NEW i \in 1..Len(st2), NEW j \in 1..Len(st2), i < j, st2[i].call = "sync",
                      st2[i].source \in Source, st2[j].call = "dispatch", st2[j].next # NULL
               PROVE  k[st2[j].next][1] # st2[i].source
    BY DEF Fresh
  <2>1. j \in 2..Len(st) + 1  BY <1>2
  <2>2. j - 1 \in 1..Len(st) /\ st2[j] = st[j - 1]  BY <1>1, <2>1
  <2>3. CASE i = 1
    <3>1. ~Waited(st, f.source) /\ st2[i] = f /\ f.source \in Source  BY <1>1, <2>3
    <3>2. Straight(st[j - 1], l, k)  BY <2>2 DEF Good, Ordered
    <3>3. st2[j].next \in ToSet(l)  BY <2>2, <3>2 DEF Straight
    <3> QED BY <3>1, <3>3 DEF Good, Held
  <2>4. CASE i \in 2..Len(st) + 1
    <3>1. i - 1 \in 1..Len(st) /\ st2[i] = st[i - 1]  BY <1>1, <2>4
    <3>2. i - 1 < j - 1  OBVIOUS
    <3> QED BY <2>2, <3>1, <3>2 DEF Good, Fresh
  <2> QED BY <1>2, <2>3, <2>4
<1> QED BY <1>3, <1>4, <1>5, <1>6, <1>8, <1>9 DEF Good, st2

(* A call returns: of a message nothing is left in the list.               *)
LEMMA GoodPop ==
  ASSUME NEW st, NEW l, NEW k, Good(st, l, k), st # <<>>,
         st[1].call = "sync" /\ st[1].source \in Source
           => \A n \in ToSet(l) : k[n][1] # st[1].source
  PROVE  Good(Tail(st), l, k)
<1> DEFINE st2 == Tail(st)
<1>0. st \in Seq(Calling \union Syncing) /\ Len(st) \in Nat \ {0}  BY DEF Good, Typed
<1>1. /\ st2 \in Seq(Calling \union Syncing) /\ Len(st2) = Len(st) - 1
      /\ \A i \in 1..Len(st2) : i + 1 \in 2..Len(st) /\ st2[i] = st[i + 1]
  BY <1>0
<1> HIDE DEF st2
<1>2. 2..Len(st) \subseteq 1..Len(st)  BY <1>0
<1>3. Typed(st2, l, k)  BY <1>1 DEF Good, Typed
<1>4. Ordered(st2, l, k)
  <2> SUFFICES ASSUME NEW i \in 1..Len(st2), st2[i].call = "dispatch" PROVE Straight(st2[i], l, k)
    BY DEF Ordered
  <2>1. i + 1 \in 1..Len(st) /\ st2[i] = st[i + 1]  BY <1>1, <1>2
  <2> QED BY <2>1 DEF Good, Ordered
<1>5. ASSUME NEW i \in 1..Len(st2), st2[i].call = "dispatch" PROVE st2[i].at[1] \notin Source
  BY <1>1, <1>5 DEF Good, Within
<1>6. Within(st2)
  <2>1. 2..Len(st2) \subseteq 1..Len(st2)  BY <1>0, <1>1
  <2> QED BY <1>5, <2>1 DEF Within
<1>7. TopWaited(st2)
  <2>1. st2 # <<>> => 1 \in 1..Len(st2)  BY <1>0, <1>1
  <2> QED BY <1>5, <2>1 DEF TopWaited
<1>8. Fresh(st2, k)
  <2> SUFFICES ASSUME NEW i \in 1..Len(st2), NEW j \in 1..Len(st2), i < j, st2[i].call = "sync",
                      st2[i].source \in Source, st2[j].call = "dispatch", st2[j].next # NULL
               PROVE  k[st2[j].next][1] # st2[i].source
    BY DEF Fresh
  <2>1. i + 1 \in 1..Len(st) /\ st2[i] = st[i + 1]  BY <1>1, <1>2
  <2>2. j + 1 \in 1..Len(st) /\ st2[j] = st[j + 1]  BY <1>1, <1>2
  <2>3. i + 1 < j + 1  BY <1>0, <1>1
  <2> QED BY <2>1, <2>2, <2>3 DEF Good, Fresh
<1>9. Held(st2, l, k)
  <2> SUFFICES ASSUME NEW n \in ToSet(l), k[n][1] \in Source PROVE Waited(st2, k[n][1])
    BY DEF Held
  <2>1. PICK i \in 1..Len(st) : st[i].call = "sync" /\ st[i].source = k[n][1]
    BY DEF Good, Held, Waited
  <2>2. i # 1  BY <2>1
  <2>3. i - 1 \in 1..Len(st2) /\ (i - 1) + 1 = i  BY <1>0, <1>1, <2>2
  <2>4. st2[i - 1] = st[i]  BY <1>1, <2>3
  <2> QED BY <2>1, <2>3, <2>4 DEF Waited
<1> QED BY <1>3, <1>4, <1>6, <1>7, <1>8, <1>9 DEF Good, st2

(* A dispatch goes on.                                                     *)
LEMMA GoodTop ==
  ASSUME NEW st, NEW l, NEW k, Good(st, l, k), st # <<>>, st[1].call = "dispatch",
         NEW f \in Calling, Straight(f, l, k),
         f.at # NULL /\ f.at[1] \in Source => Waited(st, f.at[1])
  PROVE  Good([st EXCEPT ![1] = f], l, k)
<1> DEFINE st2 == [st EXCEPT ![1] = f]
<1>0. st \in Seq(Calling \union Syncing) /\ Len(st) \in Nat \ {0}  BY DEF Good, Typed
<1>1. /\ st2 \in Seq(Calling \union Syncing) /\ Len(st2) = Len(st) /\ st2[1] = f
      /\ \A i \in 2..Len(st) : st2[i] = st[i]
  BY <1>0
<1> HIDE DEF st2
<1>2. \A i \in 1..Len(st) : i = 1 \/ i \in 2..Len(st)  BY <1>0
<1>3. f.call = "dispatch"  BY DEF Calling
<1>4. Typed(st2, l, k)  BY <1>1 DEF Good, Typed
<1>5. Ordered(st2, l, k)
  <2> SUFFICES ASSUME NEW i \in 1..Len(st2), st2[i].call = "dispatch" PROVE Straight(st2[i], l, k)
    BY DEF Ordered
  <2>1. CASE i = 1  BY <1>1, <2>1
  <2>2. CASE i \in 2..Len(st)  BY <1>1, <2>2 DEF Good, Ordered
  <2> QED BY <1>1, <1>2, <2>1, <2>2
<1>6. Within(st2)  BY <1>1 DEF Good, Within
<1>7. \A s : Waited(st, s) => Waited(st2, s)
  <2> SUFFICES ASSUME NEW s, Waited(st, s) PROVE Waited(st2, s)  OBVIOUS
  <2>1. PICK i \in 1..Len(st) : st[i].call = "sync" /\ st[i].source = s  BY DEF Waited
  <2>2. i \in 2..Len(st)  BY <1>2, <2>1
  <2>3. i \in 1..Len(st2) /\ st2[i] = st[i]  BY <1>1, <2>2
  <2> QED BY <2>1, <2>3 DEF Waited
<1>8. TopWaited(st2)  BY <1>1, <1>7 DEF TopWaited
<1>9. Held(st2, l, k)  BY <1>7 DEF Good, Held
<1>10. Fresh(st2, k)
  <2> SUFFICES ASSUME NEW i \in 1..Len(st2), NEW j \in 1..Len(st2), i < j, st2[i].call = "sync",
                      st2[i].source \in Source, st2[j].call = "dispatch", st2[j].next # NULL
               PROVE  k[st2[j].next][1] # st2[i].source
    BY DEF Fresh
  <2>1. i \in 2..Len(st)
    <3>1. i # 1  BY <1>1, <1>3
    <3> QED BY <1>1, <1>2, <3>1
  <2>2. j \in 2..Len(st)  BY <1>0, <1>1, <2>1
  <2>3. st2[i] = st[i] /\ st2[j] = st[j] /\ i \in 1..Len(st) /\ j \in 1..Len(st)
    BY <1>1, <2>1, <2>2
  <2> QED BY <2>3 DEF Good, Fresh
<1> QED BY <1>4, <1>5, <1>6, <1>8, <1>9, <1>10 DEF Good, st2

(* Answers change nothing but what is answered.                            *)
LEMMA GoodAnswers ==
  ASSUME NEW st, NEW st2, NEW l, NEW k, Good(st, l, k), Alike(st, st2),
         \A i \in 1..Len(st) : st[i].call = "dispatch" => st2[i] = st[i]
  PROVE  Good(st2, l, k)
<1>1. /\ \A s : Waited(st, s) <=> Waited(st2, s)
      /\ Within(st2) /\ TopWaited(st2) /\ Fresh(st2, k)
  BY AlikeKeeps DEF Good
<1>2. Typed(st2, l, k)  BY DEF Good, Typed, Alike
<1>3. Ordered(st2, l, k)
  <2> SUFFICES ASSUME NEW i \in 1..Len(st2), st2[i].call = "dispatch" PROVE Straight(st2[i], l, k)
    BY DEF Ordered
  <2>1. i \in 1..Len(st) /\ st[i].call = "dispatch"  BY DEF Alike
  <2> QED BY <2>1 DEF Good, Ordered
<1>4. Held(st2, l, k)  BY <1>1 DEF Good, Held
<1> QED BY <1>1, <1>2, <1>3, <1>4 DEF Good

(* A handler is put before the others.                                     *)
LEMMA GoodInsert ==
  ASSUME NEW st, NEW l, NEW k, Good(st, l, k), NEW n \in Node, n \notin ToSet(l), NEW q \in Pairs,
         NULL \notin Node,
         q[1] \in Source => Waited(st, q[1]) /\ \A m \in ToSet(l) : k[m][1] # q[1]
  PROVE  Good(st, <<n>> \o l, [k EXCEPT ![n] = q])
<1> DEFINE l2 == <<n>> \o l
           k2 == [k EXCEPT ![n] = q]
<1>1. /\ l \in Seq(Node) /\ Distinct(l) /\ k \in [Node -> Pairs \union {Unbound}]
      /\ st \in Seq(Calling \union Syncing)
  BY DEF Good, Typed
<1>2. /\ l2 \in Seq(Node) /\ Distinct(l2)
      /\ ToSet(l2) = ToSet(l) \union {n}
      /\ \A a, b \in ToSet(l) : Precedes(l2, a, b) <=> Precedes(l, a, b)
  BY <1>1, PushOrder
<1>3. ToSet(l) \subseteq Node
  <2>1. \A x \in ToSet(l) : \E i \in 1..Len(l) : l[i] = x  BY <1>1, InList
  <2> QED BY <1>1, <2>1
<1>4. /\ k2 \in [Node -> Pairs \union {Unbound}] /\ k2[n] = q
      /\ \A m \in ToSet(l) : k2[m] = k[m]
  BY <1>1, <1>3
<1> HIDE DEF l2, k2
<1>5. Typed(st, l2, k2)  BY <1>1, <1>2, <1>4 DEF Good, Typed
<1>6. Ordered(st, l2, k2)
  <2> SUFFICES ASSUME NEW i \in 1..Len(st), st[i].call = "dispatch" PROVE Straight(st[i], l2, k2)
    BY DEF Ordered
  <2>1. Straight(st[i], l, k)  BY DEF Good, Ordered
  <2>2. /\ st[i].next \in ToSet(l) \union {NULL}
        /\ st[i].called \subseteq ToSet(l) /\ st[i].due \subseteq ToSet(l)
    BY <2>1 DEF Straight
  <2>3. \A m \in st[i].due : Matches(k2[m], st[i].evt)  BY <1>4, <2>1, <2>2 DEF Straight
  <2>4. ASSUME NEW m \in st[i].due \ st[i].called
        PROVE  st[i].next # NULL /\ ~Precedes(l2, m, st[i].next)
    <3>1. st[i].next # NULL /\ ~Precedes(l, m, st[i].next)  BY <2>1, <2>4 DEF Straight
    <3>2. st[i].next \in ToSet(l) /\ m \in ToSet(l)  BY <2>2, <3>1
    <3> QED BY <1>2, <3>1, <3>2
  <2>5. ASSUME NEW m \in st[i].called, st[i].next # NULL PROVE Precedes(l2, m, st[i].next)
    <3>1. Precedes(l, m, st[i].next)  BY <2>1, <2>5 DEF Straight
    <3>2. st[i].next \in ToSet(l) /\ m \in ToSet(l)  BY <2>2, <2>5
    <3> QED BY <1>2, <3>1, <3>2
  <2> QED BY <1>2, <2>2, <2>3, <2>4, <2>5 DEF Straight
<1>7. Fresh(st, k2)
  <2>1. ASSUME NEW i \in 1..Len(st), st[i].call = "dispatch", st[i].next # NULL
        PROVE  k2[st[i].next] = k[st[i].next]
    <3>1. Straight(st[i], l, k)  BY <2>1 DEF Good, Ordered
    <3> QED BY <1>4, <2>1, <3>1 DEF Straight
  <2>2. Alike(st, st)  BY <1>1 DEF Alike
  <2> QED BY <2>1, <2>2, AlikeKeeps DEF Good
<1>8. Held(st, l2, k2)
  <2> SUFFICES ASSUME NEW m \in ToSet(l2), k2[m][1] \in Source PROVE Waited(st, k2[m][1])
    BY DEF Held
  <2>1. CASE m = n  BY <1>4, <2>1
  <2>2. CASE m \in ToSet(l)  BY <1>4, <2>2 DEF Good, Held
  <2> QED BY <1>2, <2>1, <2>2
<1>9. Alone(l2, k2)
  <2> SUFFICES ASSUME NEW a \in ToSet(l2), NEW b \in ToSet(l2), k2[a][1] \in Source,
                      k2[a][1] = k2[b][1]
               PROVE  a = b
    BY DEF Alone
  <2>1. CASE a = n /\ b = n  BY <2>1
  <2>2. CASE a = n /\ b \in ToSet(l)  BY <1>4, <2>2
  <2>3. CASE a \in ToSet(l) /\ b = n  BY <1>4, <2>3
  <2>4. CASE a \in ToSet(l) /\ b \in ToSet(l)  BY <1>4, <2>4 DEF Good, Alone
  <2> QED BY <1>2, <2>1, <2>2, <2>3, <2>4
<1> QED BY <1>5, <1>6, <1>7, <1>8, <1>9 DEF Good, l2, k2

(* Handlers are taken away, none of them next.                             *)
LEMMA ForgetOne ==
  ASSUME NEW f \in Calling, NEW gone
  PROVE  /\ [f EXCEPT !.due = @ \ gone, !.called = @ \ gone] \in Calling
         /\ [f EXCEPT !.due = @ \ gone, !.called = @ \ gone].call = "dispatch"
         /\ [f EXCEPT !.due = @ \ gone, !.called = @ \ gone].evt = f.evt
         /\ [f EXCEPT !.due = @ \ gone, !.called = @ \ gone].at = f.at
         /\ [f EXCEPT !.due = @ \ gone, !.called = @ \ gone].next = f.next
         /\ [f EXCEPT !.due = @ \ gone, !.called = @ \ gone].due = f.due \ gone
         /\ [f EXCEPT !.due = @ \ gone, !.called = @ \ gone].called = f.called \ gone
BY DEF Calling

LEMMA ForgetAll ==
  ASSUME stack \in Seq(Calling \union Syncing), NEW gone
  PROVE  /\ Alike(stack, Forgotten(gone))
         /\ \A i \in 1..Len(stack) : stack[i].call = "dispatch" =>
              /\ Forgotten(gone)[i].evt = stack[i].evt
              /\ Forgotten(gone)[i].due = stack[i].due \ gone
              /\ Forgotten(gone)[i].called = stack[i].called \ gone
<1> DEFINE F(f) == IF f.call = "sync" THEN f
                   ELSE [f EXCEPT !.due = @ \ gone, !.called = @ \ gone]
<1>1. Forgotten(gone) = [i \in 1..Len(stack) |-> F(stack[i])]  BY DEF Forgotten
<1>2. \A f \in Syncing : F(f) = f /\ f.call = "sync"  BY DEF Syncing
<1>3. ASSUME NEW f \in Calling
      PROVE  /\ F(f) \in Calling /\ F(f).call = "dispatch" /\ f.call = "dispatch"
             /\ F(f).evt = f.evt /\ F(f).at = f.at /\ F(f).next = f.next
             /\ F(f).due = f.due \ gone /\ F(f).called = f.called \ gone
  <2>1. f.call = "dispatch"  BY DEF Calling
  <2> QED BY <2>1, ForgetOne
<1> HIDE DEF F
<1>4. \A i \in 1..Len(stack) : stack[i] \in Calling \/ stack[i] \in Syncing  OBVIOUS
<1>5. \A i \in 1..Len(stack) : F(stack[i]) \in Calling \union Syncing  BY <1>2, <1>3, <1>4
<1>6. Forgotten(gone) \in Seq(Calling \union Syncing) /\ Len(Forgotten(gone)) = Len(stack)
  BY <1>1, <1>5
<1>7. ASSUME NEW i \in 1..Len(stack)
      PROVE  LET f == stack[i]
                 g == Forgotten(gone)[i]
             IN  /\ g.call = f.call
                 /\ f.call = "sync" => g = f
                 /\ f.call = "dispatch" => /\ g.evt = f.evt /\ g.at = f.at /\ g.next = f.next
                                           /\ g.due = f.due \ gone /\ g.called = f.called \ gone
  <2>1. Forgotten(gone)[i] = F(stack[i])  BY <1>1
  <2>2. CASE stack[i] \in Syncing  BY <1>2, <2>1, <2>2
  <2>3. CASE stack[i] \in Calling  BY <1>3, <2>1, <2>3
  <2> QED BY <1>4, <2>2, <2>3
<1> QED BY <1>6, <1>7 DEF Alike

LEMMA GoodShrink ==
  ASSUME Good(stack, list, key), NEW l, Part(l, list), NULL \notin Node,
         NEW gone, gone = Bound \ ToSet(l), Spared(gone)
  PROVE  Good(Forgotten(gone), l, [n \in Node |-> IF n \in gone THEN Unbound ELSE key[n]])
<1> DEFINE st2 == Forgotten(gone)
           k2 == [n \in Node |-> IF n \in gone THEN Unbound ELSE key[n]]
<1>1. /\ list \in Seq(Node) /\ Distinct(list) /\ key \in [Node -> Pairs \union {Unbound}]
      /\ stack \in Seq(Calling \union Syncing)
      /\ \A n \in ToSet(list) : key[n] \in Pairs
  BY DEF Good, Typed
<1>2. /\ l \in Seq(Node) /\ Distinct(l) /\ ToSet(l) \subseteq ToSet(list)
      /\ \A a, b \in ToSet(l) : Precedes(l, a, b) <=> Precedes(list, a, b)
  BY <1>1, PartOrder
<1>3. ToSet(list) \subseteq Node
  <2>1. \A x \in ToSet(list) : \E i \in 1..Len(list) : list[i] = x  BY <1>1, InList
  <2> QED BY <1>1, <2>1
<1>4. ToSet(list) \ gone = ToSet(l) /\ ToSet(l) \intersect gone = {}  BY <1>2 DEF Bound
<1>5. k2 \in [Node -> Pairs \union {Unbound}] /\ \A n \in ToSet(l) : k2[n] = key[n]
  BY <1>1, <1>2, <1>3, <1>4
<1>6. /\ Alike(stack, st2)
      /\ \A i \in 1..Len(stack) : stack[i].call = "dispatch" =>
           /\ st2[i].evt = stack[i].evt
           /\ st2[i].due = stack[i].due \ gone
           /\ st2[i].called = stack[i].called \ gone
  BY <1>1, ForgetAll
<1> HIDE DEF st2, k2
<1>7. st2 \in Seq(Calling \union Syncing) /\ Len(st2) = Len(stack)
      /\ \A i \in 1..Len(stack) : st2[i].call = stack[i].call
  BY <1>6 DEF Alike
<1>8. ASSUME NEW i \in 1..Len(stack), stack[i].call = "dispatch"
      PROVE  stack[i].next \in ToSet(l) \union {NULL}
  <2>1. stack[i].next \in ToSet(list) \union {NULL}  BY <1>8 DEF Good, Ordered, Straight
  <2>2. stack[i].next \notin gone  BY <1>1, <1>8 DEF Spared
  <2> QED BY <1>4, <2>1, <2>2
<1>9. Typed(st2, l, k2)  BY <1>1, <1>2, <1>5, <1>7 DEF Typed
<1>10. Ordered(st2, l, k2)
  <2> SUFFICES ASSUME NEW i \in 1..Len(st2), st2[i].call = "dispatch" PROVE Straight(st2[i], l, k2)
    BY DEF Ordered
  <2>1. i \in 1..Len(stack) /\ stack[i].call = "dispatch"  BY <1>7
  <2>2. Straight(stack[i], list, key)  BY <2>1 DEF Good, Ordered
  <2>3. /\ st2[i].next = stack[i].next /\ st2[i].evt = stack[i].evt
        /\ st2[i].due = stack[i].due \ gone /\ st2[i].called = stack[i].called \ gone
    BY <1>6, <2>1 DEF Alike
  <2>4. st2[i].due \subseteq ToSet(l) /\ st2[i].called \subseteq ToSet(l)
    BY <1>4, <2>2, <2>3 DEF Straight
  <2>5. st2[i].next \in ToSet(l) \union {NULL}  BY <1>8, <2>1, <2>3
  <2>6. \A m \in st2[i].due : Matches(k2[m], st2[i].evt)
    BY <1>5, <2>2, <2>3, <2>4 DEF Straight
  <2>7. ASSUME NEW m \in st2[i].due \ st2[i].called
        PROVE  st2[i].next # NULL /\ ~Precedes(l, m, st2[i].next)
    <3>1. m \in stack[i].due \ stack[i].called  BY <2>3, <2>7
    <3>2. stack[i].next # NULL /\ ~Precedes(list, m, stack[i].next)  BY <2>2, <3>1 DEF Straight
    <3>3. stack[i].next \in ToSet(l) /\ m \in ToSet(l)  BY <1>8, <2>1, <2>4, <3>2
    <3> QED BY <1>2, <2>3, <3>2, <3>3
  <2>8. ASSUME NEW m \in st2[i].called, st2[i].next # NULL PROVE Precedes(l, m, st2[i].next)
    <3>1. Precedes(list, m, stack[i].next)  BY <2>2, <2>3, <2>8 DEF Straight
    <3>2. stack[i].next \in ToSet(l) /\ m \in ToSet(l)  BY <1>8, <2>1, <2>3, <2>4, <2>8
    <3> QED BY <1>2, <2>3, <3>1, <3>2
  <2> QED BY <2>4, <2>5, <2>6, <2>7, <2>8 DEF Straight
<1>11. ASSUME NEW i \in 1..Len(stack), stack[i].call = "dispatch", stack[i].next # NULL
       PROVE  k2[stack[i].next] = key[stack[i].next]
  BY <1>5, <1>8, <1>11
<1>12. /\ \A s : Waited(stack, s) <=> Waited(st2, s)
       /\ Within(st2) /\ TopWaited(st2) /\ Fresh(st2, k2)
  BY <1>6, <1>11, AlikeKeeps DEF Good
<1>13. Held(st2, l, k2)  BY <1>2, <1>5, <1>12 DEF Good, Held
<1>14. Alone(l, k2)  BY <1>2, <1>5 DEF Good, Alone
<1> QED BY <1>9, <1>10, <1>12, <1>13, <1>14 DEF Good, st2, k2

-----------------------------------------------------------------------------
(* The operations keep the invariant.                                      *)
Inv == Good(stack, list, key)

LEMMA InvFacts ==
  ASSUME Inv
  PROVE  /\ list \in Seq(Node) /\ Len(list) \in Nat /\ Distinct(list) /\ Bound \subseteq Node
         /\ Bound = ToSet(list) /\ \A n \in Bound : key[n] \in Pairs
         /\ key \in [Node -> Pairs \union {Unbound}]
         /\ stack \in Seq(Calling \union Syncing) /\ Len(stack) \in Nat
         /\ DOMAIN stack = 1..Len(stack) /\ DOMAIN list = 1..Len(list)
<1>1. list \in Seq(Node) /\ stack \in Seq(Calling \union Syncing)  BY DEF Inv, Good, Typed
<1>2. Bound \subseteq Node
  <2>1. \A x \in ToSet(list) : \E i \in 1..Len(list) : list[i] = x  BY <1>1, InList
  <2> QED BY <1>1, <2>1 DEF Bound
<1>3. Len(list) \in Nat /\ Len(stack) \in Nat /\ DOMAIN stack = 1..Len(stack)
      /\ DOMAIN list = 1..Len(list)
  BY <1>1
<1> QED BY <1>1, <1>2, <1>3 DEF Inv, Good, Typed, Bound

LEMMA AtProps ==
  ASSUME Inv, NEW n \in Bound
  PROVE  At(n) \in 1..Len(list) /\ list[At(n)] = n
<1>1. \E i \in 1..Len(list) : list[i] = n  BY InvFacts, InList
<1>2. \E i \in DOMAIN list : list[i] = n  BY <1>1, InvFacts
<1>3. At(n) \in DOMAIN list /\ list[At(n)] = n  BY <1>2 DEF At
<1> QED BY <1>3, InvFacts

(* Before a handler is called, and where pgEventPoll runs.                 *)
LEMMA ProgramTop ==
  ASSUME Inv, Program \/ Waiting
  PROVE  stack = <<>> \/ stack[1].call = "sync" \/ stack[1].at[1] \notin Source
BY DEF Program, Waiting, Handling, Top

LEMMA ShrinkKeeps ==
  ASSUME Inv, NEW l, Part(l, list), Shrink(l)
  PROVE  Inv'
<1>1. NULL \notin Node  BY HandlersAssumption DEF HandlersAssumption
<1>2. Spared(Bound \ ToSet(l)) /\ list' = l /\ Freed(Bound \ ToSet(l))
      /\ stack' = Forgotten(Bound \ ToSet(l))
  BY DEF Shrink
<1> DEFINE gone == Bound \ ToSet(l)
<1>3. key' = [n \in Node |-> IF n \in gone THEN Unbound ELSE key[n]]  BY <1>2 DEF Freed
<1>4. Spared(gone) /\ list' = l /\ stack' = Forgotten(gone) /\ gone = Bound \ ToSet(l)  BY <1>2
<1> HIDE DEF gone
<1>5. Good(Forgotten(gone), l, [n \in Node |-> IF n \in gone THEN Unbound ELSE key[n]])
  BY <1>1, <1>4, GoodShrink DEF Inv
<1> QED BY <1>3, <1>4, <1>5 DEF Inv

LEMMA BindKeeps ==
  ASSUME Inv, NEW k, pgBind(k)
  PROVE  Inv'
<1>1. stack' = stack /\ k \in Binding  BY DEF pgBind
<1>2. CASE UNCHANGED <<list, key>>  BY <1>1, <1>2 DEF Inv
<1>3. CASE \E n \in Node : Insert(n, k)
  <2>1. PICK n \in Node : Insert(n, k)  BY <1>3
  <2>2. n \notin ToSet(list) /\ list' = <<n>> \o list /\ key' = [key EXCEPT ![n] = k]
    BY <2>1 DEF Insert, Bound
  <2>3. k \in Pairs /\ k[1] \notin Source /\ NULL \notin Node
    <3>1. /\ k[1] \in ClientWidget \union {PGBIND_ANY}
          /\ k \in (ClientWidget \union {PGBIND_ANY}) \X (WidgetEvent \union OtherEvent \union {PGBIND_ANY})
      BY <1>1, HandlersAssumption
    <3>2. k[1] \notin Source  BY <3>1, HandlersAssumption
    <3>3. k \in Pairs  BY <3>1 DEF Pairs
    <3> QED BY <3>2, <3>3, HandlersAssumption
  <2>4. Good(stack, <<n>> \o list, [key EXCEPT ![n] = k])
    BY <2>2, <2>3, GoodInsert DEF Inv
  <2> QED BY <1>1, <2>2, <2>4 DEF Inv
<1>4. Bind(k)  BY DEF pgBind
<1> QED BY <1>2, <1>3, <1>4 DEF Bind

LEMMA UnbindKeeps ==
  ASSUME Inv, NEW k, pgUnbind(k)
  PROVE  Inv'
<1>1. PICK n \in Bound : Shrink(RemoveAt(list, At(n)))  BY DEF pgUnbind
<1>2. At(n) \in 1..Len(list) /\ list \in Seq(Node)  BY AtProps, InvFacts
<1>3. Part(RemoveAt(list, At(n)), list)  BY <1>2, PartRemove
<1> QED BY <1>1, <1>3, ShrinkKeeps

LEMMA DeleteKeeps ==
  ASSUME Inv, NEW w, pgDelete(w)
  PROVE  Inv'
<1>1. Shrink(Unlinked(list, w))  BY DEF pgDelete
<1>2. Part(Unlinked(list, w), list)  BY InvFacts, UnlinkedProps DEF Left
<1> QED BY <1>1, <1>2, ShrinkKeeps

LEMMA DispatchKeeps ==
  ASSUME Inv, NEW evt \in Event, pgDispatchEvent(evt)
  PROVE  Inv'
<1> DEFINE f == Dispatch(evt, list)
           next == IF list = <<>> THEN NULL ELSE list[1]
           due == {n \in ToSet(list) : Matches(key[n], evt)}
<1>1. stack' = <<f>> \o stack /\ list' = list /\ key' = key  BY DEF pgDispatchEvent
<1>2. /\ f.call = "dispatch" /\ f.evt = evt /\ f.at = NULL /\ f.next = next
      /\ f.called = {} /\ f.due = due
  BY DEF Dispatch
<1>3. next \in ToSet(list) \union {NULL}
  <2>1. CASE list = <<>>  BY <2>1
  <2>2. CASE list # <<>>
    <3>1. 1 \in 1..Len(list)  BY <2>2, InvFacts
    <3> QED BY <2>2, <3>1, InList, InvFacts
  <2> QED BY <2>1, <2>2
<1>4. f \in Calling
  <2>1. next \in Node \union {NULL} /\ due \in SUBSET Node  BY <1>3, InvFacts
  <2>2. f = [call |-> "dispatch", evt |-> evt, at |-> NULL, next |-> next,
             called |-> {}, due |-> due]
    BY DEF Dispatch
  <2> HIDE DEF f, next, due
  <2> QED BY <2>1, <2>2 DEF Calling
<1>5. ASSUME NEW n \in due PROVE next # NULL /\ ~Precedes(list, n, next)
  <2>1. PICK i \in 1..Len(list) : list[i] = n  BY InList, InvFacts
  <2>2. list # <<>> /\ next = list[1] /\ 1 \in 1..Len(list)  BY <2>1, InvFacts
  <2>3. next \in Node /\ NULL \notin Node
    BY <2>2, InvFacts, HandlersAssumption DEF HandlersAssumption
  <2>4. ASSUME Precedes(list, n, next) PROVE FALSE
    <3>1. PICK a, b \in 1..Len(list) : a < b /\ list[b] = list[1]  BY <2>2, <2>4 DEF Precedes
    <3>2. b = 1  BY <2>2, <3>1, InvFacts DEF Distinct
    <3> QED BY <3>1, <3>2
  <2> QED BY <2>3, <2>4
<1>6. \A n \in due : Matches(key[n], evt)  OBVIOUS
<1>7. due \subseteq ToSet(list)  OBVIOUS
<1> HIDE DEF f, next, due
<1>8. Straight(f, list, key)  BY <1>2, <1>3, <1>5, <1>6, <1>7 DEF Straight
<1>9. stack = <<>> \/ stack[1].call = "sync" \/ stack[1].at[1] \notin Source
  BY ProgramTop DEF pgDispatchEvent
<1>10. f.call # "sync"  BY <1>2
<1>11. Good(<<f>> \o stack, list, key)
  BY <1>2, <1>4, <1>8, <1>9, <1>10, GoodPush DEF Inv
<1> QED BY <1>1, <1>11 DEF Inv

(* With a label that no other call waits for, or with none; and with its   *)
(* handler, or no memory for one.                                          *)
LEMMA SyncKeeps ==
  ASSUME Inv, NEW s \in Source \union {NULL}, pgSyncAppMessage(s)
  PROVE  Inv'
<1> DEFINE q == <<s, APPMSG>>
           st == <<Sync(s)>> \o stack
<1>1. stack' = st /\ Bind(q) /\ (s # NULL => Waiters(s) = {})  BY DEF pgSyncAppMessage
<1>2. NULL \notin Node /\ NULL \notin Source
  BY HandlersAssumption DEF HandlersAssumption
<1>3. s \in Source => ~Waited(stack, s)  BY <1>1, <1>2, InvFacts DEF Waited, Waiters
<1>4. Sync(s) \in Syncing /\ Sync(s).call = "sync" /\ Sync(s).source = s  BY DEF Sync, Syncing
<1>5. stack = <<>> \/ stack[1].call = "sync" \/ stack[1].at[1] \notin Source
  BY ProgramTop DEF pgSyncAppMessage
<1>6. Good(st, list, key)
  <2>1. Sync(s).call # "dispatch"  BY <1>4
  <2> QED BY <1>3, <1>4, <1>5, <2>1, GoodPush DEF Inv
<1>7. CASE UNCHANGED <<list, key>>  BY <1>1, <1>6, <1>7 DEF Inv
<1>8. ASSUME NEW n \in Node, Insert(n, q)  PROVE Inv'
  <2>1. n \notin ToSet(list) /\ list' = <<n>> \o list /\ key' = [key EXCEPT ![n] = q]
    BY <1>8 DEF Insert, Bound
  <2>2. Waited(st, s)
    <3>1. st[1] = Sync(s) /\ 1 \in 1..Len(st)  BY <1>4, InvFacts, Pushed
    <3> HIDE DEF st
    <3> QED BY <1>4, <3>1 DEF Waited
  <2>3. q \in Pairs /\ q[1] = s  BY DEF Pairs
  <2>4. s \in Source => \A m \in ToSet(list) : key[m][1] # s
    BY <1>3 DEF Inv, Good, Held
  <2> HIDE DEF q, st
  <2>5. Good(st, <<n>> \o list, [key EXCEPT ![n] = q])
    BY <1>2, <1>6, <2>1, <2>2, <2>3, <2>4, GoodInsert
  <2> QED BY <1>1, <2>1, <2>5 DEF Inv
<1> QED BY <1>1, <1>7, <1>8 DEF Bind

(* The search ends where nothing is due any longer, or finds a handler     *)
(* that it has not called.                                                 *)
LEMMA SearchSteps ==
  ASSUME Inv, Search
  PROVE  \/ stack' = Tail(stack) /\ Top.due \subseteq Top.called
         \/ \E g \in Calling :
              /\ stack' = [stack EXCEPT ![1] = g] /\ Straight(g, list, key)
              /\ (g.at # NULL /\ g.at[1] \in Source => Waited(stack, g.at[1]))
              /\ g.called # Top.called
<1> DEFINE f == Top
           later == Later
           i == First
<1>1. /\ stack # <<>> /\ f.call = "dispatch" /\ f.at = NULL
      /\ stack' = IF later = {} THEN Tail(stack) ELSE [stack EXCEPT ![1] = Found(f, i)]
  BY DEF Search, Searching
<1>2. 1 \in 1..Len(stack)  BY <1>1, InvFacts
<1>3. f \in Calling
  <2>1. f \in Calling \union Syncing  BY <1>2, InvFacts DEF Top
  <2>2. f \notin Syncing  BY <1>1 DEF Syncing
  <2> QED BY <2>1, <2>2
<1>4. Straight(f, list, key)  BY <1>1, <1>2 DEF Inv, Good, Ordered, Top
<1>5. Top = f  OBVIOUS
<1>6. \A n \in Bound : At(n) \in 1..Len(list) /\ list[At(n)] = n  BY AtProps
<1>7. \A a \in 1..Len(list) : list[a] \in Bound /\ At(list[a]) = a
  <2> SUFFICES ASSUME NEW a \in 1..Len(list) PROVE list[a] \in Bound /\ At(list[a]) = a  OBVIOUS
  <2>1. list[a] \in Bound  BY InList, InvFacts
  <2> QED BY <2>1, <1>6, InvFacts DEF Distinct
<1>8. \A a \in later : /\ a \in 1..Len(list) /\ f.next # NULL /\ a >= At(f.next)
                       /\ Matches(key[list[a]], f.evt)
  BY InvFacts DEF Later
<1>9. \A a \in 1..Len(list) : f.next # NULL /\ a >= At(f.next) /\ Matches(key[list[a]], f.evt)
                                 => a \in later
  BY InvFacts DEF Later
(* What is due and has not been called is at or behind the next node.      *)
<1>10. ASSUME NEW n \in f.due \ f.called PROVE At(n) \in later
  <2>1. f.next # NULL /\ ~Precedes(list, n, f.next) /\ n \in Bound /\ Matches(key[n], f.evt)
    BY <1>4, InvFacts DEF Straight
  <2>2. f.next \in Bound  BY <1>4, <2>1, InvFacts DEF Straight
  <2>3. ~(At(n) < At(f.next))  BY <1>6, <2>1, <2>2 DEF Precedes
  <2>4. At(n) \in 1..Len(list) /\ At(f.next) \in 1..Len(list) /\ list[At(n)] = n
    BY <1>6, <2>1, <2>2
  <2>5. At(n) >= At(f.next)  BY <2>3, <2>4
  <2> HIDE DEF later, f
  <2> QED BY <1>9, <2>1, <2>4, <2>5
<1> HIDE DEF later
<1>11. CASE later = {}
  <2>1. stack' = Tail(stack)  BY <1>1, <1>11
  <2>2. f.due \subseteq f.called  BY <1>10, <1>11
  <2> QED BY <1>5, <2>1, <2>2
<1>12. CASE later # {}
  <2>1. i \in later /\ \A j \in later : i <= j
    <3>1. later \in SUBSET Nat  BY <1>8
    <3>2. \E x \in later : \A y \in later : x <= y  BY <1>12, <3>1, Least
    <3> QED BY <3>2 DEF First, later
  <2> HIDE DEF i
  <2> DEFINE n == list[i]
             next == Following(i)
             g == Found(f, i)
  <2>2. i \in 1..Len(list) /\ f.next # NULL /\ i >= At(f.next) /\ n \in Bound /\ At(n) = i
    BY <1>7, <1>8, <2>1
  <2>3. next = IF i = Len(list) THEN NULL ELSE list[i + 1]  BY DEF Following
  <2>4. i # Len(list) => i + 1 \in 1..Len(list)
    <3>1. Len(list) \in Nat  BY InvFacts
    <3> QED BY <2>2, <3>1
  <2>5. next \in Bound \union {NULL} /\ (next # NULL => i + 1 \in 1..Len(list) /\ next = list[i + 1])
    BY <1>7, <2>3, <2>4
  <2>6. f.next \in Bound /\ At(f.next) \in 1..Len(list) /\ list[At(f.next)] = f.next
    BY <1>4, <1>6, <2>2, InvFacts DEF Straight
  <2>7. key[n] \in Pairs /\ next \in Node \union {NULL} /\ n \in Node
    BY <2>2, <2>5, InvFacts
  <2>8. /\ g \in Calling
        /\ g.next = next /\ g.called = f.called \union {n} /\ g.due = f.due /\ g.evt = f.evt
        /\ g.at = key[n]
    <3> DEFINE a == key[n]
    <3>1. g = [f EXCEPT !.at = a, !.next = next, !.called = @ \union {n}]  BY DEF Found
    <3>2. a \in Pairs  BY <2>7
    <3> HIDE DEF n, next, f, a, g
    <3>3. /\ g \in Calling
          /\ g.next = next /\ g.called = f.called \union {n} /\ g.due = f.due /\ g.evt = f.evt
          /\ g.at = a
      BY <1>3, <2>7, <3>1, <3>2 DEF Calling
    <3> QED BY <3>3 DEF a
  <2>9. stack' = [stack EXCEPT ![1] = g]  BY <1>1, <1>12
  <2>10. n \notin f.called
    <3> SUFFICES ASSUME n \in f.called PROVE FALSE  OBVIOUS
    <3>1. PICK a, b \in 1..Len(list) : a < b /\ list[a] = n /\ list[b] = f.next
      BY <1>4, <2>2 DEF Straight, Precedes
    <3>2. a = i /\ b = At(f.next)  BY <1>7, <2>2, <3>1
    <3> QED BY <2>2, <2>6, <3>1, <3>2
  <2>11. ASSUME NEW m \in f.called \union {n}, next # NULL PROVE Precedes(list, m, next)
    <3>1. i < i + 1 /\ i + 1 \in 1..Len(list) /\ list[i + 1] = next  BY <2>2, <2>5, <2>11
    <3>2. CASE m = n  BY <2>2, <3>1, <3>2 DEF Precedes
    <3>3. CASE m \in f.called
      <4>1. PICK a, b \in 1..Len(list) : a < b /\ list[a] = m /\ list[b] = f.next
        BY <1>4, <2>2, <3>3 DEF Straight, Precedes
      <4>2. b = At(f.next)  BY <1>7, <4>1
      <4>3. a < i + 1  BY <2>2, <2>6, <4>1, <4>2
      <4> QED BY <3>1, <4>1, <4>3 DEF Precedes
    <3> QED BY <2>11, <3>2, <3>3
  <2>12. ASSUME NEW m \in f.due \ (f.called \union {n}) PROVE next # NULL /\ ~Precedes(list, m, next)
    <3>1. m \in Bound /\ At(m) \in later  BY <1>4, <1>10, InvFacts DEF Straight
    <3>2. At(m) \in 1..Len(list) /\ list[At(m)] = m  BY <1>6, <3>1
    <3>3. i <= At(m) /\ At(m) # i  BY <2>1, <3>1, <3>2, <2>12
    <3>4. i + 1 <= At(m) /\ i # Len(list)
      <4>1. Len(list) \in Nat /\ i \in 1..Len(list) /\ At(m) \in 1..Len(list)
        BY <2>2, <3>2, InvFacts
      <4> QED BY <3>3, <4>1
    <3>5. next = list[i + 1] /\ i + 1 \in 1..Len(list)  BY <2>3, <2>4, <3>4
    <3>6. next \in Node /\ NULL \notin Node
      BY <1>7, <3>5, InvFacts, HandlersAssumption DEF HandlersAssumption
    <3>7. ASSUME Precedes(list, m, next) PROVE FALSE
      <4>1. PICK a, b \in 1..Len(list) : a < b /\ list[a] = m /\ list[b] = next
        BY <3>7 DEF Precedes
      <4>2. a = At(m) /\ b = i + 1  BY <1>7, <3>2, <3>5, <4>1
      <4> QED BY <3>2, <3>4, <4>1, <4>2
    <3> QED BY <3>6, <3>7
  <2> HIDE DEF n, next, g
  <2>14. Straight(g, list, key)
    <3>1. next \in ToSet(list) \union {NULL}  BY <2>5, InvFacts
    <3>2. f.called \union {n} \subseteq ToSet(list) /\ f.due \subseteq ToSet(list)
      BY <1>4, <2>2, InvFacts DEF Straight
    <3>3. \A m \in f.due : Matches(key[m], f.evt)  BY <1>4 DEF Straight
    <3> HIDE DEF f
    <3> QED BY <2>11, <2>12, <2>8, <3>1, <3>2, <3>3 DEF Straight
  <2>15. g.at[1] \in Source => Waited(stack, g.at[1])
    BY <2>2, <2>8, InvFacts DEF Inv, Good, Held
  <2>16. g.called # f.called  BY <2>10, <2>8
  <2> QED BY <1>5, <2>8, <2>9, <2>14, <2>15, <2>16
<1> QED BY <1>11, <1>12

LEMMA TopCalls ==
  ASSUME Inv, stack # <<>>, Top.call = "dispatch"
  PROVE  1 \in 1..Len(stack) /\ Top = stack[1] /\ Top \in Calling
<1>1. 1 \in 1..Len(stack) /\ Top = stack[1]  BY InvFacts DEF Top
<1>2. Top \in Calling \union Syncing  BY <1>1, InvFacts
<1>3. Top \notin Syncing  BY DEF Syncing
<1> QED BY <1>1, <1>2, <1>3

LEMMA PopKeeps ==
  ASSUME Inv, stack # <<>>, Top.call = "dispatch", stack' = Tail(stack), UNCHANGED <<list, key>>
  PROVE  Inv'
<1>1. stack[1].call # "sync"  BY DEF Top
<1>2. Good(Tail(stack), list, key)  BY <1>1, GoodPop DEF Inv
<1> QED BY <1>2 DEF Inv

LEMMA SearchKeeps ==
  ASSUME Inv, Search
  PROVE  Inv'
<1>1. stack # <<>> /\ Top.call = "dispatch" /\ UNCHANGED <<list, key>>
  BY DEF Search, Searching
<1>2. CASE stack' = Tail(stack)  BY <1>1, <1>2, PopKeeps
<1>3. CASE \E g \in Calling :
             /\ stack' = [stack EXCEPT ![1] = g] /\ Straight(g, list, key)
             /\ (g.at # NULL /\ g.at[1] \in Source => Waited(stack, g.at[1]))
  <2>1. PICK g \in Calling :
             /\ stack' = [stack EXCEPT ![1] = g] /\ Straight(g, list, key)
             /\ (g.at # NULL /\ g.at[1] \in Source => Waited(stack, g.at[1]))
    BY <1>3
  <2>2. stack[1].call = "dispatch"  BY <1>1 DEF Top
  <2>3. Good([stack EXCEPT ![1] = g], list, key)  BY <1>1, <2>1, <2>2, GoodTop DEF Inv
  <2> QED BY <1>1, <2>1, <2>3 DEF Inv
<1> QED BY <1>2, <1>3, SearchSteps

LEMMA ReturnKeeps ==
  ASSUME Inv, NEW stop, Return(stop)
  PROVE  Inv'
<1>1. stack # <<>> /\ Top.call = "dispatch" /\ UNCHANGED <<list, key>>
  BY DEF Return, Handling
<1>2. CASE stop
  <2>1. stack' = Tail(stack)  BY <1>2 DEF Return
  <2> QED BY <1>1, <2>1, PopKeeps
<1>3. CASE ~stop
  <2> DEFINE g == [Top EXCEPT !.at = NULL]
  <2>1. 1 \in 1..Len(stack) /\ Top = stack[1] /\ Top \in Calling  BY <1>1, TopCalls
  <2>2. stack' = [stack EXCEPT ![1] = g]  BY <1>3, <2>1 DEF Return
  <2>3. /\ g \in Calling /\ g.at = NULL /\ g.evt = Top.evt /\ g.next = Top.next
        /\ g.called = Top.called /\ g.due = Top.due
    BY <2>1 DEF Calling
  <2> HIDE DEF g
  <2>4. Straight(Top, list, key)  BY <1>1, <2>1 DEF Inv, Good, Ordered
  <2>5. Straight(g, list, key)  BY <2>3, <2>4 DEF Straight
  <2>6. Good([stack EXCEPT ![1] = g], list, key)  BY <1>1, <2>1, <2>3, <2>5, GoodTop DEF Inv
  <2> QED BY <1>1, <2>2, <2>6 DEF Inv
<1> QED BY <1>2, <1>3

LEMMA StoredKeeps ==
  ASSUME Inv, NEW s, NEW b \in BOOLEAN
  PROVE  /\ Good(Stored(s, b), list, key) /\ Stored(s, b) \in Seq(Calling \union Syncing)
         /\ Len(Stored(s, b)) = Len(stack)
         /\ \A i \in 1..Len(stack) : stack[i].call = "dispatch" => Stored(s, b)[i] = stack[i]
<1> DEFINE F(i) == IF i \in Waiters(s) THEN [stack[i] EXCEPT !.answered = b] ELSE stack[i]
           st2 == [i \in DOMAIN stack |-> F(i)]
<1>1. Stored(s, b) = st2  BY DEF Stored
<1>3. stack \in Seq(Calling \union Syncing) /\ DOMAIN stack = 1..Len(stack) /\ Len(stack) \in Nat
  BY InvFacts
<1>4. ASSUME NEW i \in 1..Len(stack)
      PROVE  /\ F(i) \in Calling \union Syncing
             /\ F(i).call = stack[i].call
             /\ stack[i].call = "sync" => F(i).source = stack[i].source
             /\ stack[i].call = "dispatch" => F(i) = stack[i]
  <2>1. stack[i] \in Calling \union Syncing  BY <1>3
  <2>2. CASE i \in Waiters(s)
    <3>1. stack[i].call = "sync"  BY <2>2 DEF Waiters
    <3>2. stack[i] \in Syncing  BY <2>1, <3>1 DEF Calling
    <3>3. F(i) = [stack[i] EXCEPT !.answered = b]  BY <2>2
    <3> HIDE DEF F
    <3>4. F(i) \in Syncing /\ F(i).source = stack[i].source /\ F(i).call = stack[i].call
      BY <3>2, <3>3 DEF Syncing
    <3> QED BY <3>1, <3>4
  <2>3. CASE i \notin Waiters(s)
    <3>1. F(i) = stack[i]  BY <2>3
    <3> HIDE DEF F
    <3> QED BY <2>1, <3>1
  <2> QED BY <2>2, <2>3
<1> HIDE DEF F
<1>5. st2 \in Seq(Calling \union Syncing) /\ Len(st2) = Len(stack)
      /\ \A i \in 1..Len(stack) : st2[i] = F(i)
  BY <1>3, <1>4
<1> HIDE DEF st2
<1>6. Alike(stack, st2)  BY <1>3, <1>4, <1>5 DEF Alike
<1>7. Good(st2, list, key)  BY <1>4, <1>5, <1>6, GoodAnswers DEF Inv
<1> QED BY <1>1, <1>4, <1>5, <1>7

(* The dispatch of the message ends, or goes on for lack of memory.        *)
LEMMA AnswerKeeps ==
  ASSUME Inv, syncmsg_handler
  PROVE  Inv'
<1> DEFINE s == Top.at[1]
<1>1. stack # <<>> /\ Top.call = "dispatch" /\ UNCHANGED <<list, key>>
  BY DEF syncmsg_handler, Handling
<1>2. 1 \in 1..Len(stack) /\ Top = stack[1] /\ Top \in Calling /\ stack[1].call = "dispatch"
  BY <1>1, TopCalls
<1> HIDE DEF s
<1>3. CASE stack' = Tail(Stored(s, TRUE))
  <2> DEFINE st2 == Stored(s, TRUE)
  <2>1. /\ Good(st2, list, key) /\ st2 \in Seq(Calling \union Syncing) /\ Len(st2) = Len(stack)
        /\ \A i \in 1..Len(stack) : stack[i].call = "dispatch" => st2[i] = stack[i]
    BY StoredKeeps
  <2>2. stack' = Tail(st2)  BY <1>3
  <2> HIDE DEF st2
  <2>3. st2 # <<>> /\ st2[1].call # "sync"  BY <1>2, <2>1
  <2>4. Good(Tail(st2), list, key)  BY <2>1, <2>3, GoodPop
  <2> QED BY <1>1, <2>2, <2>4 DEF Inv
<1>4. CASE stack' = Tail(stack)  BY <1>1, <1>4, PopKeeps
<1>5. CASE stack' = [Stored(s, FALSE) EXCEPT ![1].at = NULL]
  <2> DEFINE st2 == Stored(s, FALSE)
             g == [Top EXCEPT !.at = NULL]
  <2>1. /\ Good(st2, list, key) /\ st2 \in Seq(Calling \union Syncing) /\ Len(st2) = Len(stack)
        /\ \A i \in 1..Len(stack) : stack[i].call = "dispatch" => st2[i] = stack[i]
    BY StoredKeeps
  <2>2. stack' = [st2 EXCEPT ![1].at = NULL]  BY <1>5
  <2>3. /\ g \in Calling /\ g.at = NULL /\ g.evt = Top.evt /\ g.next = Top.next
        /\ g.called = Top.called /\ g.due = Top.due
    BY <1>2 DEF Calling
  <2> HIDE DEF st2
  <2>4. st2 # <<>> /\ st2[1].call = "dispatch" /\ st2[1] = Top /\ 1 \in DOMAIN st2
    BY <1>2, <2>1
  <2>5. stack' = [st2 EXCEPT ![1] = g]  BY <2>2, <2>4
  <2> HIDE DEF g
  <2>6. Straight(Top, list, key)  BY <1>1, <1>2 DEF Inv, Good, Ordered
  <2>7. Straight(g, list, key)  BY <2>3, <2>6 DEF Straight
  <2>8. Good([st2 EXCEPT ![1] = g], list, key)  BY <2>1, <2>3, <2>4, <2>7, GoodTop
  <2> QED BY <1>1, <2>5, <2>8 DEF Inv
<1> QED BY <1>3, <1>4, <1>5 DEF syncmsg_handler, s

(* Without a label nothing was bound that has to go.                       *)
LEMMA UnlabelledKeeps ==
  ASSUME Inv, Answered, Top.source = NULL
  PROVE  Inv'
<1> DEFINE gone == Bound \ ToSet(list)
           st2 == Forgotten(gone)
           k2 == [n \in Node |-> IF n \in gone THEN Unbound ELSE key[n]]
<1>1. stack # <<>> /\ Top.call = "sync" /\ list' = list /\ key' = k2 /\ stack' = Tail(st2)
  BY DEF Answered, Freed
<1>2. 1 \in 1..Len(stack) /\ Top = stack[1]  BY <1>1, InvFacts DEF Top
<1>3. gone = {}  BY DEF Bound
<1>4. Spared(gone)  BY <1>3 DEF Spared
<1>5. Part(list, list) /\ NULL \notin Node /\ NULL \notin Source
  <2>1. Part(list, list)  BY InvFacts, PartRefl
  <2> QED BY <2>1, HandlersAssumption DEF HandlersAssumption
<1>6. gone = Bound \ ToSet(list)  OBVIOUS
<1> HIDE DEF gone
<1>7. Good(st2, list, k2)  BY <1>4, <1>5, <1>6, GoodShrink DEF Inv
<1>8. Alike(stack, st2)  BY InvFacts, ForgetAll
<1> HIDE DEF st2, k2
<1>9. st2 # <<>> /\ st2[1].source = NULL  BY <1>1, <1>2, <1>8 DEF Alike
<1>10. Good(Tail(st2), list, k2)  BY <1>5, <1>7, <1>9, GoodPop
<1> QED BY <1>1, <1>10 DEF Inv

(* The handler of the message was its only one, and it is gone; no other   *)
(* dispatch was about to look at it.                                       *)
LEMMA LabelledKeeps ==
  ASSUME Inv, Answered, Top.source # NULL
  PROVE  Inv'
<1> DEFINE s == Top.source
           l == Unlinked(list, s)
           gone == Bound \ ToSet(l)
           k2 == [n \in Node |-> IF n \in gone THEN Unbound ELSE key[n]]
           st2 == Forgotten(gone)
<1>1. stack # <<>> /\ Top.call = "sync" /\ list' = l /\ key' = k2 /\ stack' = Tail(st2)
  BY DEF Answered, Freed
<1>2. 1 \in 1..Len(stack) /\ Top = stack[1] /\ s \in Source
  <2>1. 1 \in 1..Len(stack) /\ Top = stack[1]  BY <1>1, InvFacts DEF Top
  <2>2. Top \in Calling \union Syncing  BY <2>1, InvFacts
  <2>3. Top \notin Calling  BY <1>1 DEF Calling
  <2> QED BY <2>1, <2>2, <2>3 DEF Syncing
<1> HIDE DEF s
<1>3. Single(list, s)
  <2> SUFFICES ASSUME NEW i \in 1..Len(list), NEW j \in 1..Len(list),
                      key[list[i]][1] = s, key[list[j]][1] = s
               PROVE  i = j
    BY DEF Single
  <2>1. list[i] \in ToSet(list) /\ list[j] \in ToSet(list)  BY InList, InvFacts
  <2>2. list[i] = list[j]  BY <1>2, <2>1 DEF Inv, Good, Alone
  <2> QED BY <2>2, InvFacts DEF Distinct
<1>4. Part(l, list) /\ Keeps(l, list, s) /\ \A j \in 1..Len(l) : key[l[j]][1] # s
  BY <1>3, InvFacts, UnlinkedProps DEF Left
<1> HIDE DEF l
<1>5. l \in Seq(Node)  BY <1>4 DEF Part
<1>6. \A n \in ToSet(l) : key[n][1] # s /\ n \in Node
  <2> SUFFICES ASSUME NEW n \in ToSet(l) PROVE key[n][1] # s /\ n \in Node  OBVIOUS
  <2>1. PICK j \in 1..Len(l) : l[j] = n  BY <1>5, InList
  <2> QED BY <1>4, <1>5, <2>1
<1>7. \A n \in Bound : key[n][1] # s => n \in ToSet(l)
  <2> SUFFICES ASSUME NEW n \in Bound, key[n][1] # s PROVE n \in ToSet(l)  OBVIOUS
  <2>1. PICK i \in 1..Len(list) : list[i] = n  BY InList, InvFacts
  <2>2. \E j \in 1..Len(l) : l[j] = n  BY <1>4, <2>1 DEF Keeps
  <2> QED BY <1>5, <2>2, InList
<1>8. NULL \notin Node  BY HandlersAssumption DEF HandlersAssumption
<1>9. Spared(gone)
  <2> SUFFICES ASSUME NEW i \in 1..Len(stack), stack[i].call = "dispatch", stack[i].next \in gone
               PROVE  FALSE
    BY InvFacts DEF Spared
  <2>1. stack[i].next \in Bound /\ stack[i].next \notin ToSet(l)  OBVIOUS
  <2>2. stack[i].next # NULL  BY <1>8, <2>1, InvFacts
  <2>3. i # 1  BY <1>1, <1>2
  <2>4. 1 < i  BY <2>3
  <2>5. key[stack[i].next][1] # s  BY <1>1, <1>2, <2>2, <2>4 DEF Inv, Good, Fresh, s
  <2> QED BY <1>7, <2>1, <2>5
<1>10. gone = Bound \ ToSet(l)  OBVIOUS
<1>11. \A n \in ToSet(l) : k2[n] = key[n]  BY <1>6
<1> HIDE DEF gone
<1>12. Good(st2, l, k2)  BY <1>4, <1>8, <1>9, <1>10, GoodShrink DEF Inv
<1>13. Alike(stack, st2)  BY InvFacts, ForgetAll
<1> HIDE DEF st2, k2
<1>14. st2 # <<>> /\ st2[1].source = s
  BY <1>1, <1>2, <1>13 DEF Alike, s
<1>15. Good(Tail(st2), l, k2)  BY <1>6, <1>11, <1>12, <1>14, GoodPop
<1> QED BY <1>1, <1>15 DEF Inv

LEMMA AnsweredKeeps ==
  ASSUME Inv, Answered
  PROVE  Inv'
BY LabelledKeeps, UnlabelledKeeps

-----------------------------------------------------------------------------
LEMMA Initially == Init => Inv
<1> SUFFICES ASSUME Init PROVE Inv  OBVIOUS
<1>1. /\ list = <<>> /\ stack = <<>> /\ Len(list) = 0 /\ Len(stack) = 0 /\ ToSet(list) = {}
      /\ list \in Seq(Node) /\ stack \in Seq(Calling \union Syncing)
      /\ key \in [Node -> Pairs \union {Unbound}]
  BY DEF Init, ToSet
<1>2. Typed(stack, list, key)  BY <1>1 DEF Typed, Distinct
<1>3. Ordered(stack, list, key) /\ Within(stack) /\ TopWaited(stack) /\ Fresh(stack, key)
  BY <1>1 DEF Ordered, Within, TopWaited, Fresh
<1>4. Held(stack, list, key) /\ Alone(list, key)  BY <1>1 DEF Held, Alone
<1> QED BY <1>2, <1>3, <1>4 DEF Inv, Good

LEMMA Inductive == Inv /\ [Next]_vars => Inv'
<1> SUFFICES ASSUME Inv, [Next]_vars PROVE Inv'  OBVIOUS
<1>1. ASSUME NEW k \in Binding, pgBind(k) \/ pgUnbind(k) PROVE Inv'
  BY <1>1, BindKeeps, UnbindKeeps
<1>2. ASSUME NEW w \in ClientWidget, pgDelete(w) PROVE Inv'  BY <1>2, DeleteKeeps
<1>3. ASSUME NEW evt \in Event, pgDispatchEvent(evt) PROVE Inv'  BY <1>3, DispatchKeeps
<1>4. ASSUME NEW s \in Source \union {NULL}, pgSyncAppMessage(s) PROVE Inv'  BY <1>4, SyncKeeps
<1>5. ASSUME NEW stop \in BOOLEAN, Return(stop) PROVE Inv'  BY <1>5, ReturnKeeps
<1>6. CASE Search  BY <1>6, SearchKeeps
<1>7. CASE syncmsg_handler  BY <1>7, AnswerKeeps
<1>8. CASE Answered  BY <1>8, AnsweredKeeps
<1>9. CASE UNCHANGED vars  BY <1>9 DEF vars, Inv
<1>10. CASE Next
  BY <1>1, <1>2, <1>3, <1>4, <1>5, <1>6, <1>7, <1>8, <1>10 DEF Next
<1> QED BY <1>9, <1>10

(* Dispatches are at nodes of the list, what they have called before these *)
(* and what is due behind; each handler of a message has its call.         *)
THEOREM Invariant == Spec => []Inv
<1> QED BY Initially, Inductive, PTL DEF Spec

(* The answer to a message always has a variable to go to, and no dispatch *)
(* goes on at a node that has been freed (pgSyncAppMessage, syncmsg_       *)
(* handler, pgDispatchEvent), however deep the calls are.                  *)
THEOREM AnswersWaitedFor == Spec => []AnswerHasWaiter
<1>1. Inv => AnswerHasWaiter
  <2> SUFFICES ASSUME Inv PROVE AnswerHasWaiter  OBVIOUS
  <2>1. ASSUME Handling, Top.at[1] \in Source PROVE Waiters(Top.at[1]) # {}
    <3>1. stack # <<>> /\ stack[1].call = "dispatch" /\ stack[1].at # NULL /\ Top = stack[1]
      BY <2>1 DEF Handling, Top
    <3>2. Waited(stack, Top.at[1])  BY <2>1, <3>1 DEF Inv, Good, TopWaited
    <3> QED BY <3>2, InvFacts DEF Waited, Waiters
  <2>2. Spared(Node \ Bound)
    <3> SUFFICES ASSUME NEW i \in 1..Len(stack), stack[i].call = "dispatch",
                        stack[i].next \in Node \ Bound
                 PROVE  FALSE
      BY InvFacts DEF Spared
    <3>1. stack[i].next \in Bound \union {NULL}  BY InvFacts DEF Inv, Good, Ordered, Straight
    <3>2. NULL \notin Node  BY HandlersAssumption DEF HandlersAssumption
    <3> QED BY <3>1, <3>2
  <2> QED BY <2>1, <2>2 DEF AnswerHasWaiter
<1> QED BY <1>1, Invariant, PTL

(* A handler that stays bound is called for an event, and not twice,       *)
(* whatever is bound and unbound and dispatched in between                 *)
(* (pgDispatchEvent).                                                      *)
THEOREM EachCalledOnce == Spec => EachOnce
<1> DEFINE Once == IF Len(stack') < Len(stack) THEN Top.due \subseteq Top.called
                   ELSE stack'[1].called # Top.called
<1>1. Inv => [Search => Once]_vars
  <2> SUFFICES ASSUME Inv, Search PROVE Once  OBVIOUS
  <2>1. stack # <<>> /\ 1 \in 1..Len(stack) /\ Len(stack) \in Nat
    BY InvFacts DEF Search, Searching
  <2>2. CASE stack' = Tail(stack) /\ Top.due \subseteq Top.called
    <3>1. Len(stack') = Len(stack) - 1  BY <2>1, <2>2, InvFacts
    <3>2. Len(stack') < Len(stack)  BY <2>1, <3>1
    <3> QED BY <2>2, <3>2
  <2>3. CASE \E g \in Calling : stack' = [stack EXCEPT ![1] = g] /\ g.called # Top.called
    <3>1. PICK g \in Calling : stack' = [stack EXCEPT ![1] = g] /\ g.called # Top.called
      BY <2>3
    <3>2. stack' \in Seq(Calling \union Syncing) /\ Len(stack') = Len(stack) /\ stack'[1] = g
      BY <2>1, <3>1, InvFacts
    <3>3. ~(Len(stack') < Len(stack))  BY <2>1, <3>2
    <3> QED BY <3>1, <3>2, <3>3
  <2> QED BY <2>2, <2>3, SearchSteps
<1> HIDE DEF Once
<1>2. Spec => [][Search => Once]_vars  BY <1>1, Invariant, PTL
<1> QED BY <1>2 DEF EachOnce, Once

-----------------------------------------------------------------------------
(* Pointers (module Pointer), from here on.                                *)
Place0 == Layer \X Point
Shape == {Bitmap[w] : w \in Widget \union {None}}
Buttons == SUBSET UNION Chord
Someone == Widget \union {None}

CursorType ==
  [place : Place, visible : BOOLEAN, bitmap : Shape, under : Someone, capture : Someone,
   capture_btn : Buttons, prev_buttons : Buttons]

UI ==
  [crsr : [Cursor -> CursorType], cursor_list : Seq(Cursor), numcursors : [Widget -> Nat],
   at : [Place0 -> Someone], pressed : [Cursor -> SUBSET Widget]]

Once(l) == \A i, j \in DOMAIN l : l[i] = l[j] => i = j
Over(s, U, w) == {c \in U : s.crsr[c].under = w}

(* The cursors of the list are U, and widgets count them and those that    *)
(* are forgotten (f).                                                      *)
Fine(s, U, f) ==
  /\ s \in UI /\ Once(s.cursor_list) /\ InUse(s) = U
  /\ \A w \in live : s.numcursors[w] = Cardinality(Over(s, U, w)) + f[w]
  /\ \A w \in Widget \ live : s.numcursors[w] = 0

(* What the operators on cursors read.                                     *)
Around(U, f) ==
  /\ live \subseteq Widget /\ top \in Layer
  /\ f \in [Widget -> Nat] /\ IsFiniteSet(U) /\ U \subseteq Cursor

-----------------------------------------------------------------------------
(* The list of cursors, with one taken out or put at the head.             *)
LEMMA RemoveFirstIs ==
  ASSUME NEW l \in Seq(Cursor), Once(l), NEW c, NEW r, r = RemoveFirst(l, c)
  PROVE  r \in Seq(Cursor) /\ Once(r) /\ ToSet(r) = ToSet(l) \ {c}
<1> DEFINE I == {i \in 1..Len(l) : l[i] = c}
           k == IF I # {} THEN Min(I) ELSE 0
<1>1. r = IF \E i \in 1..Len(l) : l[i] = c THEN RemoveAt(l, k) ELSE l
  BY DEF RemoveFirst, SelectInSeq
<1>2. CASE ~\E i \in 1..Len(l) : l[i] = c
  <2>1. r = l  BY <1>1, <1>2
  <2>2. c \notin ToSet(l)  BY <1>2 DEF ToSet
  <2> QED BY <2>1, <2>2
<1>3. CASE \E i \in 1..Len(l) : l[i] = c
  <2>1. PICK i \in 1..Len(l) : l[i] = c  BY <1>3
  <2>2. I = {i}  BY <2>1 DEF Once
  <2>3. Min(I) = i
    <3>1. Min(I) = CHOOSE x \in {i} : \A y \in {i} : x <= y  BY <2>2 DEF Min
    <3>2. i <= i  BY <2>1
    <3> QED BY <3>1, <3>2
  <2>4. r = RemoveAt(l, i)  BY <1>1, <1>3, <2>2, <2>3
  <2>5. /\ r \in Seq(Cursor) /\ Len(r) = Len(l) - 1
        /\ \A j \in 1..Len(l) - 1 : r[j] = IF j < i THEN l[j] ELSE l[j + 1]
    BY <2>1, <2>4, RemoveAtProps
  <2> DEFINE Old(j) == IF j < i THEN j ELSE j + 1
  <2>6. ASSUME NEW j \in DOMAIN r
        PROVE  Old(j) \in DOMAIN l /\ Old(j) # i /\ r[j] = l[Old(j)] /\ j \in Nat
    BY <2>1, <2>5
  <2>7. Once(r)
    <3> SUFFICES ASSUME NEW j1 \in DOMAIN r, NEW j2 \in DOMAIN r, r[j1] = r[j2] PROVE j1 = j2
      BY DEF Once
    <3>1. Old(j1) = Old(j2)  BY <2>6 DEF Once
    <3> QED BY <2>1, <2>6, <3>1
  <2>8. ASSUME NEW d \in ToSet(r) PROVE d \in ToSet(l) \ {c}
    <3>1. PICK j \in DOMAIN r : d = r[j]  BY DEF ToSet
    <3>2. Old(j) \in DOMAIN l /\ d = l[Old(j)] /\ Old(j) # i  BY <2>6, <3>1
    <3>3. d # c  BY <2>1, <3>2 DEF Once
    <3> QED BY <3>2, <3>3 DEF ToSet
  <2>9. ASSUME NEW d \in ToSet(l), d # c PROVE d \in ToSet(r)
    <3>1. PICK j \in 1..Len(l) : d = l[j]  BY DEF ToSet
    <3>2. j # i  BY <2>1, <2>9, <3>1
    <3>3. CASE j < i
      <4>1. j \in 1..Len(r) /\ r[j] = d  BY <2>1, <2>5, <3>1, <3>3
      <4> QED BY <4>1, <2>5 DEF ToSet
    <3>4. CASE ~(j < i)
      <4>1. j - 1 \in 1..Len(r) /\ r[j - 1] = d  BY <2>1, <2>5, <3>1, <3>2, <3>4
      <4> QED BY <4>1, <2>5 DEF ToSet
    <3> QED BY <3>3, <3>4
  <2> QED BY <2>5, <2>7, <2>8, <2>9
<1> QED BY <1>2, <1>3

LEMMA FrontIs ==
  ASSUME NEW l \in Seq(Cursor), Once(l), NEW c \in Cursor, c \notin ToSet(l),
         NEW r, r = <<c>> \o l
  PROVE  r \in Seq(Cursor) /\ Once(r) /\ ToSet(r) = ToSet(l) \union {c}
<1>1. /\ r \in Seq(Cursor) /\ Len(r) = Len(l) + 1 /\ r[1] = c
      /\ \A j \in 1..Len(l) : r[j + 1] = l[j]
  OBVIOUS
<1>2. ASSUME NEW j \in DOMAIN r PROVE j \in Nat /\ (j = 1 \/ (j - 1 \in DOMAIN l /\ r[j] = l[j - 1]))
  <2>1. j \in 1..Len(l) + 1  BY <1>1
  <2>2. j # 1 => j - 1 \in 1..Len(l) /\ r[(j - 1) + 1] = l[j - 1] /\ (j - 1) + 1 = j  BY <1>1, <2>1
  <2> QED BY <2>1, <2>2
<1>3. \A i \in DOMAIN l : l[i] # c  BY DEF ToSet
<1>4. Once(r)
  <2> SUFFICES ASSUME NEW j1 \in DOMAIN r, NEW j2 \in DOMAIN r, r[j1] = r[j2] PROVE j1 = j2
    BY DEF Once
  <2>1. CASE j1 = 1 /\ j2 = 1  BY <2>1
  <2>2. CASE j1 = 1 /\ j2 # 1  BY <1>1, <1>2, <1>3, <2>2
  <2>3. CASE j1 # 1 /\ j2 = 1  BY <1>1, <1>2, <1>3, <2>3
  <2>4. CASE j1 # 1 /\ j2 # 1
    <3>1. j1 - 1 = j2 - 1  BY <1>2, <2>4 DEF Once
    <3> QED BY <1>2, <3>1
  <2> QED BY <2>1, <2>2, <2>3, <2>4
<1>5. ASSUME NEW d \in ToSet(r) PROVE d \in ToSet(l) \union {c}
  <2>1. PICK j \in DOMAIN r : d = r[j]  BY DEF ToSet
  <2> QED BY <2>1, <1>1, <1>2 DEF ToSet
<1>6. c \in ToSet(r)
  <2>1. 1 \in DOMAIN r  BY <1>1
  <2> QED BY <2>1, <1>1 DEF ToSet
<1>7. ASSUME NEW d \in ToSet(l) PROVE d \in ToSet(r)
  <2>1. PICK j \in DOMAIN l : d = l[j]  BY DEF ToSet
  <2>2. j \in 1..Len(l)  OBVIOUS
  <2>3. j + 1 \in DOMAIN r /\ r[j + 1] = d  BY <2>1, <2>2, <1>1
  <2> QED BY <2>3 DEF ToSet
<1> QED BY <1>1, <1>4, <1>5, <1>6, <1>7

-----------------------------------------------------------------------------
(* The widget under one cursor changes, and the counts follow.             *)
LEMMA OverIs ==
  ASSUME NEW U, IsFiniteSet(U), NEW s, NEW w
  PROVE  IsFiniteSet(Over(s, U, w)) /\ Cardinality(Over(s, U, w)) \in Nat
<1>1. Over(s, U, w) \in SUBSET U  BY DEF Over
<1> QED BY <1>1, FS_Subset, FS_CardinalityType

LEMMA CountIs ==
  ASSUME NEW s \in UI, NEW w \in Widget, NEW num \in Nat,
         NEW r, r = widget_set_numcursors(s, w, num)
  PROVE  /\ r \in UI /\ r.crsr = s.crsr /\ r.cursor_list = s.cursor_list
         /\ \A v \in Widget : r.numcursors[v] = IF v = w THEN num ELSE s.numcursors[v]
<1> DEFINE n == [s.numcursors EXCEPT ![w] = num]
<1>1. s.numcursors \in [Widget -> Nat]  BY DEF UI
<1>2. n \in [Widget -> Nat] /\ \A v \in Widget : n[v] = IF v = w THEN num ELSE s.numcursors[v]
  BY <1>1
<1>3. (IF num < 0 THEN 0 ELSE num) = num  OBVIOUS
<1>4. r = [s EXCEPT !.numcursors = n]  BY <1>3 DEF widget_set_numcursors
<1> HIDE DEF n
<1>5. r \in UI /\ r.crsr = s.crsr /\ r.cursor_list = s.cursor_list /\ r.numcursors = n
  BY <1>2, <1>4 DEF UI
<1> QED BY <1>2, <1>5

LEMMA ChangeUnderKeeps ==
  ASSUME NEW U, NEW f, Around(U, f), NEW s, Fine(s, U, f), NEW c \in U, NEW t \in UI,
         t.cursor_list = s.cursor_list, t.numcursors = s.numcursors,
         \A d \in U : d # c => t.crsr[d].under = s.crsr[d].under
  PROVE  /\ Fine(cursor_change_under(t, c, s.crsr[c].under), U, f)
         /\ cursor_change_under(t, c, s.crsr[c].under).crsr = t.crsr
<1> DEFINE old == s.crsr[c].under
           new == t.crsr[c].under
           entered == IF Live(new) THEN widget_set_numcursors(t, new, t.numcursors[new] + 1) ELSE t
           r == cursor_change_under(t, c, old)
<1>1. /\ s \in UI /\ live \subseteq Widget /\ f \in [Widget -> Nat] /\ IsFiniteSet(U)
      /\ Once(s.cursor_list) /\ InUse(s) = U /\ U \subseteq Cursor
      /\ \A w \in live : s.numcursors[w] = Cardinality(Over(s, U, w)) + f[w]
      /\ \A w \in Widget \ live : s.numcursors[w] = 0
  BY DEF Around, Fine
<1>2. \A w \in Widget : t.numcursors[w] \in Nat /\ t.numcursors[w] = s.numcursors[w]
  BY DEF UI
<1>3. /\ entered \in UI /\ entered.crsr = t.crsr /\ entered.cursor_list = t.cursor_list
      /\ \A w \in Widget : entered.numcursors[w] =
           IF w = new /\ w \in live THEN s.numcursors[w] + 1 ELSE s.numcursors[w]
  <2>1. CASE Live(new)
    <3>1. new \in Widget /\ new \in live  BY <1>1, <2>1 DEF Live
    <3>2. t.numcursors[new] + 1 \in Nat  BY <1>2, <3>1
    <3>3. entered = widget_set_numcursors(t, new, t.numcursors[new] + 1)  BY <2>1
    <3> DEFINE n == t.numcursors[new] + 1
    <3> HIDE DEF entered, new, n
    <3>4. entered = widget_set_numcursors(t, new, n) /\ n \in Nat  BY <3>2, <3>3 DEF n
    <3>5. /\ entered \in UI /\ entered.crsr = t.crsr /\ entered.cursor_list = t.cursor_list
          /\ \A v \in Widget : entered.numcursors[v] = IF v = new THEN n ELSE t.numcursors[v]
      BY <3>1, <3>4, CountIs
    <3> QED BY <1>2, <3>1, <3>5 DEF n
  <2>2. CASE ~Live(new)
    <3>1. entered = t /\ new \notin live  BY <2>2 DEF Live
    <3> HIDE DEF entered, new
    <3> QED BY <1>2, <3>1
  <2> QED BY <2>1, <2>2
<1>4. ASSUME NEW w
      PROVE  Over(t, U, w) = IF w = new THEN Over(s, U, w) \union {c} ELSE Over(s, U, w) \ {c}
  BY DEF Over
<1>5. \A w : c \in Over(s, U, w) <=> w = old  BY DEF Over
<1>6. ASSUME NEW w
      PROVE  /\ Cardinality(Over(s, U, w)) \in Nat
             /\ Cardinality(Over(t, U, w)) = Cardinality(Over(s, U, w))
                  + (IF w = new THEN 1 ELSE 0) - (IF w = old THEN 1 ELSE 0)
  <2>1. IsFiniteSet(Over(s, U, w)) /\ Cardinality(Over(s, U, w)) \in Nat  BY <1>1, OverIs
  <2>2. CASE w = new
    <3>1. Cardinality(Over(t, U, w)) =
            IF c \in Over(s, U, w) THEN Cardinality(Over(s, U, w)) ELSE Cardinality(Over(s, U, w)) + 1
      BY <1>4, <2>1, <2>2, FS_AddElement
    <3> QED BY <1>5, <2>1, <2>2, <3>1
  <2>3. CASE w # new
    <3>1. Cardinality(Over(t, U, w)) =
            IF c \in Over(s, U, w) THEN Cardinality(Over(s, U, w)) - 1 ELSE Cardinality(Over(s, U, w))
      BY <1>4, <2>1, <2>3, FS_RemoveElement
    <3> QED BY <1>5, <2>1, <2>3, <3>1
  <2> QED BY <2>2, <2>3
<1>7. ASSUME old \in live, new # old PROVE s.numcursors[old] >= 1
  <2>1. IsFiniteSet(Over(s, U, old))  BY <1>1, OverIs
  <2>2. Cardinality(Over(s, U, old)) # 0  BY <1>5, <2>1, FS_EmptySet
  <2>3. Cardinality(Over(s, U, old)) \in Nat /\ f[old] \in Nat  BY <1>1, <1>6, <1>7
  <2> QED BY <1>1, <1>7, <2>2, <2>3
<1>8. /\ r \in UI /\ r.crsr = t.crsr /\ r.cursor_list = t.cursor_list
      /\ \A w \in Widget : r.numcursors[w] =
           IF w \in live THEN s.numcursors[w] + (IF w = new THEN 1 ELSE 0) - (IF w = old THEN 1 ELSE 0)
           ELSE s.numcursors[w]
  <2> HIDE DEF entered
  <2>1. CASE new = old
    <3>1. r = t  BY <2>1 DEF cursor_change_under
    <3> HIDE DEF r, new, old
    <3> QED BY <1>2, <2>1, <3>1
  <2>2. CASE new # old /\ ~Live(old)
    <3>1. r = entered  BY <2>2 DEF cursor_change_under, entered
    <3>2. old \notin live  BY <2>2 DEF Live
    <3> HIDE DEF r, new, old
    <3> QED BY <1>2, <1>3, <3>1, <3>2
  <2>3. CASE new # old /\ Live(old)
    <3>1. old \in live /\ old \in Widget  BY <1>1, <2>3 DEF Live
    <3>2. entered.numcursors[old] = s.numcursors[old]  BY <1>3, <2>3, <3>1
    <3>3. s.numcursors[old] - 1 \in Nat
      BY <1>2, <1>7, <2>3, <3>1
    <3>4. r = widget_set_numcursors(entered, old, s.numcursors[old] - 1)
      BY <2>3, <3>2 DEF cursor_change_under, entered
    <3> DEFINE n == s.numcursors[old] - 1
    <3> HIDE DEF r, new, old, n
    <3>5. r = widget_set_numcursors(entered, old, n) /\ n \in Nat  BY <3>3, <3>4 DEF n
    <3>6. /\ r \in UI /\ r.crsr = entered.crsr /\ r.cursor_list = entered.cursor_list
          /\ \A v \in Widget : r.numcursors[v] = IF v = old THEN n ELSE entered.numcursors[v]
      BY <1>3, <3>1, <3>5, CountIs
    <3> QED BY <1>2, <1>3, <2>3, <3>1, <3>6 DEF n
  <2> QED BY <2>1, <2>2, <2>3
<1> HIDE DEF r, new, old, entered
<1>9. ASSUME NEW w PROVE Over(r, U, w) = Over(t, U, w)  BY <1>8 DEF Over
<1>10. ASSUME NEW w \in live PROVE r.numcursors[w] = Cardinality(Over(r, U, w)) + f[w]
  <2>1. w \in Widget /\ f[w] \in Nat  BY <1>1
  <2>2. Cardinality(Over(s, U, w)) \in Nat  BY <1>6
  <2>3. s.numcursors[w] = Cardinality(Over(s, U, w)) + f[w]  BY <1>1
  <2>4. r.numcursors[w] = s.numcursors[w] + (IF w = new THEN 1 ELSE 0) - (IF w = old THEN 1 ELSE 0)
    BY <1>8, <2>1
  <2>5. Cardinality(Over(r, U, w)) = Cardinality(Over(s, U, w))
          + (IF w = new THEN 1 ELSE 0) - (IF w = old THEN 1 ELSE 0)
    BY <1>6, <1>9
  <2> QED BY <2>1, <2>2, <2>3, <2>4, <2>5
<1>11. \A w \in Widget \ live : r.numcursors[w] = 0  BY <1>1, <1>8
<1>12. Once(r.cursor_list) /\ InUse(r) = U  BY <1>1, <1>8 DEF InUse
<1> QED BY <1>8, <1>10, <1>11, <1>12 DEF Fine, r, old

-----------------------------------------------------------------------------
(* What changes a cursor, but not the widget under it.                     *)
SameUnder(s, t) ==
  /\ t \in UI /\ t.cursor_list = s.cursor_list /\ t.numcursors = s.numcursors
  /\ \A d \in Cursor : t.crsr[d].under = s.crsr[d].under

LEMMA SameUnderIsFine ==
  ASSUME NEW U, NEW f, NEW s, Fine(s, U, f), NEW t, SameUnder(s, t)
  PROVE  Fine(t, U, f)
<1>1. U \subseteq Cursor
  <2>1. s.cursor_list \in Seq(Cursor) /\ U = ToSet(s.cursor_list)  BY DEF Fine, InUse, UI
  <2> QED BY <2>1 DEF ToSet
<1>2. \A w : Over(t, U, w) = Over(s, U, w)  BY <1>1 DEF Over, SameUnder
<1> QED BY <1>2 DEF Fine, SameUnder, InUse

(* A cursor has a new record.                                              *)
WithRecord(s, c, k) == [s EXCEPT !.crsr = [@ EXCEPT ![c] = k]]

LEMMA RecordIs ==
  ASSUME NEW s \in UI, NEW c \in Cursor, NEW k \in CursorType,
         NEW t, t = WithRecord(s, c, k)
  PROVE  /\ t \in UI /\ t.cursor_list = s.cursor_list /\ t.numcursors = s.numcursors
         /\ t.at = s.at /\ t.pressed = s.pressed
         /\ \A d \in Cursor : t.crsr[d] = IF d = c THEN k ELSE s.crsr[d]
<1> DEFINE m == [s.crsr EXCEPT ![c] = k]
<1>1. s.crsr \in [Cursor -> CursorType]  BY DEF UI
<1>2. m \in [Cursor -> CursorType] /\ \A d \in Cursor : m[d] = IF d = c THEN k ELSE s.crsr[d]
  BY <1>1
<1>3. t = [s EXCEPT !.crsr = m]  BY DEF WithRecord
<1> HIDE DEF m
<1>4. /\ t \in UI /\ t.cursor_list = s.cursor_list /\ t.numcursors = s.numcursors
      /\ t.at = s.at /\ t.pressed = s.pressed /\ t.crsr = m
  BY <1>2, <1>3 DEF UI
<1> QED BY <1>2, <1>4

LEMMA SameUnderRecord ==
  ASSUME NEW s \in UI, NEW c \in Cursor, NEW k \in CursorType, k.under = s.crsr[c].under
  PROVE  SameUnder(s, WithRecord(s, c, k))
<1> DEFINE t == WithRecord(s, c, k)
<1>1. /\ t \in UI /\ t.cursor_list = s.cursor_list /\ t.numcursors = s.numcursors
      /\ \A d \in Cursor : t.crsr[d] = IF d = c THEN k ELSE s.crsr[d]
  BY RecordIs
<1> HIDE DEF t
<1>2. SameUnder(s, t)  BY <1>1 DEF SameUnder
<1> QED BY <1>2 DEF t

LEMMA CursorIs ==
  ASSUME NEW s \in UI, NEW c \in Cursor
  PROVE  /\ s.crsr[c] \in CursorType /\ s.crsr[c].place \in Place
         /\ s.crsr[c].under \in Someone /\ s.crsr[c].capture \in Someone
         /\ s.crsr[c].prev_buttons \in Buttons
<1>1. s.crsr[c] \in CursorType  BY DEF UI
<1> QED BY <1>1 DEF CursorType

LEMMA SetThemeIs ==
  ASSUME NEW s \in UI, NEW c \in Cursor, NEW b \in Shape, NEW t, t = cursor_set_theme(s, c, b)
  PROVE  SameUnder(s, t)
<1>1. CASE s.crsr[c].bitmap = b
  BY <1>1 DEF cursor_set_theme, SameUnder
<1>2. CASE s.crsr[c].bitmap # b
  <2> DEFINE k == [s.crsr[c] EXCEPT !.bitmap = b, !.visible = TRUE]
  <2>1. k \in CursorType /\ k.under = s.crsr[c].under  BY CursorIs DEF CursorType
  <2>2. t = WithRecord(s, c, k)  BY <1>2 DEF cursor_set_theme, WithRecord
  <2> HIDE DEF k
  <2> QED BY <2>1, <2>2, SameUnderRecord
<1> QED BY <1>1, <1>2

LEMMA PositionIs ==
  ASSUME NEW s \in UI, NEW c \in Cursor, top \in Layer
  PROVE  cursor_getposition(s, c) \in Place0 /\ s.at[cursor_getposition(s, c)] \in Someone
<1>1. s.crsr[c].place \in Place  BY CursorIs
<1>2. cursor_getposition(s, c) \in Place0
  BY <1>1 DEF cursor_getposition, Place, Place0, Layer
<1>3. s.at \in [Place0 -> Someone]  BY DEF UI
<1> QED BY <1>2, <1>3

LEMMA WidgetUnderIs ==
  ASSUME NEW s \in UI, NEW c \in Cursor, top \in Layer, NEW t, t = cursor_widgetunder(s, c)
  PROVE  /\ t \in UI /\ t.cursor_list = s.cursor_list /\ t.numcursors = s.numcursors
         /\ \A d \in Cursor : d # c => t.crsr[d].under = s.crsr[d].under
<1> DEFINE w == s.at[cursor_getposition(s, c)]
           k == [s.crsr[c] EXCEPT !.under = w]
           u == [s EXCEPT !.crsr[c].under = w]
<1>1. w \in Someone  BY PositionIs
<1>2. t = cursor_set_theme(u, c, Bitmap[w])  BY DEF cursor_widgetunder
<1>3. Bitmap[w] \in Shape  BY <1>1 DEF Shape, Someone
<1> HIDE DEF w
<1>4. k \in CursorType  BY <1>1, CursorIs DEF CursorType
<1>5. u = WithRecord(s, c, k)  BY DEF WithRecord
<1> HIDE DEF k, u
<1>6. /\ u \in UI /\ u.cursor_list = s.cursor_list /\ u.numcursors = s.numcursors
      /\ \A d \in Cursor : d # c => u.crsr[d] = s.crsr[d]
  BY <1>4, <1>5, RecordIs
<1>7. SameUnder(u, t)  BY <1>2, <1>3, <1>6, SetThemeIs
<1> QED BY <1>6, <1>7 DEF SameUnder

LEMMA HoverIs ==
  ASSUME NEW U, NEW f, Around(U, f), NEW s, Fine(s, U, f), NEW c \in U
  PROVE  Fine(Hover(s, c), U, f)
<1> DEFINE t == cursor_widgetunder(s, c)
<1>1. s \in UI /\ top \in Layer /\ U \subseteq Cursor /\ c \in Cursor  BY DEF Fine, Around
<1>2. /\ t \in UI /\ t.cursor_list = s.cursor_list /\ t.numcursors = s.numcursors
      /\ \A d \in Cursor : d # c => t.crsr[d].under = s.crsr[d].under
  BY <1>1, WidgetUnderIs
<1>3. Hover(s, c) = cursor_change_under(t, c, s.crsr[c].under)  BY DEF Hover
<1> HIDE DEF t
<1> QED BY <1>1, <1>2, <1>3, ChangeUnderKeeps

(* One cursor is moved, and may be a new one.                              *)
LEMMA MoveIs ==
  ASSUME NEW U, NEW f, NEW c \in Cursor, Around(U \union {c}, f), NEW s, Fine(s, U, f),
         NEW place \in Place, c \in U \/ s.crsr[c].under = None
  PROVE  Fine(cursor_move(s, c, place), U \union {c}, f)
<1> DEFINE V == U \union {c}
           k == [s.crsr[c] EXCEPT !.place = place]
           l == <<c>> \o RemoveFirst(s.cursor_list, c)
           t == [s EXCEPT !.crsr[c].place = place, !.cursor_list = l]
           u == WithRecord(s, c, k)
<1>1. s \in UI /\ Once(s.cursor_list) /\ ToSet(s.cursor_list) = U /\ s.cursor_list \in Seq(Cursor)
  BY DEF Fine, UI, InUse
<1>2. l \in Seq(Cursor) /\ Once(l) /\ ToSet(l) = V
  <2> DEFINE r == RemoveFirst(s.cursor_list, c)
  <2>1. r \in Seq(Cursor) /\ Once(r) /\ ToSet(r) = U \ {c}  BY <1>1, RemoveFirstIs
  <2> HIDE DEF r
  <2>2. c \notin ToSet(r)  BY <2>1
  <2>3. l = <<c>> \o r  BY DEF r
  <2> HIDE DEF l
  <2>4. l \in Seq(Cursor) /\ Once(l) /\ ToSet(l) = ToSet(r) \union {c}
    BY <2>1, <2>2, <2>3, FrontIs
  <2> QED BY <2>1, <2>4
<1>3. cursor_move(s, c, place) = Hover(t, c)  BY DEF cursor_move
<1>4. k \in CursorType /\ k.under = s.crsr[c].under  BY <1>1, CursorIs DEF CursorType
<1>5. t = [u EXCEPT !.cursor_list = l]  BY DEF WithRecord
<1> HIDE DEF l, k
<1>6. /\ u \in UI /\ u.numcursors = s.numcursors
      /\ \A d \in Cursor : u.crsr[d].under = s.crsr[d].under
  BY <1>1, <1>4, RecordIs
<1> HIDE DEF u, t
<1>7. /\ t \in UI /\ t.cursor_list = l /\ t.numcursors = s.numcursors
      /\ \A d \in Cursor : t.crsr[d].under = s.crsr[d].under
  BY <1>2, <1>5, <1>6 DEF UI
<1>8. ASSUME NEW w \in live PROVE Over(t, V, w) = Over(s, U, w)
  <2>1. w \in Widget /\ U \subseteq Cursor /\ w # None
    BY PointerAssumption DEF Around
  <2> QED BY <1>7, <2>1 DEF Over
<1>9. Fine(t, V, f)  BY <1>2, <1>7, <1>8 DEF Fine, InUse
<1> QED BY <1>3, <1>9, HoverIs

(* A cursor that is seen leaves its widget when it is hidden.              *)
LEMMA HideIs ==
  ASSUME NEW U, NEW f, Around(U, f), NEW s, Fine(s, U, f), NEW c \in U, NEW r, r = cursor_hide(s, c)
  PROVE  /\ Fine(r, U, f)
         /\ ~s.crsr[c].visible => r = s
         /\ s.crsr[c].visible => r.crsr[c].under = None
<1>1. CASE ~s.crsr[c].visible  BY <1>1 DEF cursor_hide
<1>2. CASE s.crsr[c].visible
  <2> DEFINE t == [s EXCEPT !.crsr[c].visible = FALSE, !.crsr[c].under = None,
                            !.crsr[c].capture = None, !.crsr[c].capture_btn = {}]
             k == [s.crsr[c] EXCEPT !.visible = FALSE, !.under = None,
                                    !.capture = None, !.capture_btn = {}]
  <2>1. s \in UI /\ U \subseteq Cursor /\ c \in Cursor  BY DEF Fine, Around
  <2>2. r = cursor_change_under(t, c, s.crsr[c].under)  BY <1>2 DEF cursor_hide
  <2>3. k \in CursorType /\ k.under = None  BY <2>1, CursorIs DEF CursorType, Someone, Buttons
  <2>4. t = WithRecord(s, c, k)  BY DEF WithRecord
  <2> HIDE DEF t, k
  <2>5. /\ t \in UI /\ t.cursor_list = s.cursor_list /\ t.numcursors = s.numcursors
        /\ \A d \in Cursor : t.crsr[d] = IF d = c THEN k ELSE s.crsr[d]
    BY <2>1, <2>3, <2>4, RecordIs
  <2>6. Fine(r, U, f)  BY <2>1, <2>2, <2>5, ChangeUnderKeeps
  <2>7. r.crsr = t.crsr  BY <2>1, <2>2, <2>5, ChangeUnderKeeps
  <2> QED BY <1>2, <2>1, <2>5, <2>6, <2>7, <2>3
<1> QED BY <1>1, <1>2

(* All of them look again, from the first of the list to the last.         *)
LEMMA AllHoverIs ==
  ASSUME NEW U, NEW f, Around(U, f), NEW s, Fine(s, U, f)
  PROVE  Fine(cursor_update_hover(s), U, f)
<1> DEFINE l == s.cursor_list
           n == Len(l)
           Is(h, k) == h = [i \in 0..k |-> IF i = 0 THEN s ELSE Hover(h[i - 1], l[i])]
           Go == CHOOSE h : Is(h, n)
           T == {k \in 0..n : \E h : Is(h, k)}
<1>1. l \in Seq(Cursor) /\ n \in Nat /\ ToSet(l) = U  BY DEF Fine, UI, InUse
<1>2. cursor_update_hover(s) = Go[n]  BY DEF cursor_update_hover
<1> HIDE DEF l, n
<1>3. 0 \in T
  <2> DEFINE h == [i \in 0..0 |-> s]
  <2>1. Is(h, 0)  OBVIOUS
  <2> HIDE DEF h, Is
  <2> QED BY <1>1, <2>1
<1>4. ASSUME NEW k \in 1..n, k - 1 \in T PROVE k \in T
  <2>1. PICK h : Is(h, k - 1)  BY <1>4
  <2> DEFINE g == [i \in 0..k |-> IF i = k THEN Hover(h[k - 1], l[k]) ELSE h[i]]
  <2>2. ASSUME NEW i \in 0..k PROVE g[i] = IF i = 0 THEN s ELSE Hover(g[i - 1], l[i])
    <3>1. k \in Nat /\ k >= 1 /\ i \in Nat  BY <1>1
    <3>2. CASE i = k
      <4>1. i - 1 \in 0..k /\ i - 1 # k /\ i # 0  BY <3>1, <3>2
      <4>2. g[i] = Hover(h[k - 1], l[k]) /\ g[i - 1] = h[k - 1]  BY <3>2, <4>1
      <4> HIDE DEF g
      <4> QED BY <3>2, <4>1, <4>2
    <3>3. CASE i # k /\ i # 0
      <4>1. i \in 0..k - 1 /\ i - 1 \in 0..k /\ i - 1 # k  BY <3>1, <3>3
      <4>2. g[i] = h[i] /\ g[i - 1] = h[i - 1]  BY <3>1, <3>3, <4>1
      <4>3. h[i] = Hover(h[i - 1], l[i])  BY <2>1, <3>3, <4>1
      <4> HIDE DEF g
      <4> QED BY <3>3, <4>2, <4>3
    <3>4. CASE i # k /\ i = 0
      <4>1. g[i] = h[i]  BY <3>4
      <4>2. h[i] = s  BY <2>1, <3>1, <3>4
      <4> QED BY <3>4, <4>1, <4>2
    <3> QED BY <3>2, <3>3, <3>4
  <2>3. g = [i \in 0..k |-> g[i]]  OBVIOUS
  <2> HIDE DEF g
  <2>4. Is(g, k)  BY <2>2, <2>3
  <2> HIDE DEF Is
  <2> QED BY <1>1, <2>4
<1>5. \A k \in 0..n : k \in T
  <2> HIDE DEF T
  <2> QED BY <1>1, <1>3, <1>4, UpTo
<1>6. Is(Go, n)
  <2> HIDE DEF Is
  <2>1. \E h : Is(h, n)  BY <1>1, <1>5
  <2> QED BY <2>1
<1> HIDE DEF Go, T
<1>7. Go[0] = s /\ \A k \in 1..n : Go[k] = Hover(Go[k - 1], l[k])
  <2>1. 0 \in 0..n /\ \A k \in 1..n : k \in 0..n /\ k # 0  BY <1>1
  <2>2. \A i \in 0..n : Go[i] = IF i = 0 THEN s ELSE Hover(Go[i - 1], l[i])  BY <1>6
  <2> QED BY <2>1, <2>2
<1> DEFINE G == {k \in 0..n : Fine(Go[k], U, f)}
<1>8. 0 \in G  BY <1>1, <1>7
<1>9. ASSUME NEW k \in 1..n, k - 1 \in G PROVE k \in G
  <2>1. k \in 0..n /\ l[k] \in U  BY <1>1 DEF n, ToSet
  <2>2. Fine(Go[k - 1], U, f)  BY <1>9
  <2>3. Fine(Hover(Go[k - 1], l[k]), U, f)  BY <2>1, <2>2, HoverIs
  <2> QED BY <1>7, <2>1, <2>3
<1>10. \A k \in 0..n : k \in G
  <2> HIDE DEF G
  <2> QED BY <1>1, <1>8, <1>9, UpTo
<1> QED BY <1>1, <1>2, <1>10

LEMMA UpdateIs ==
  ASSUME NEW U, NEW f, Around(U, f), NEW s, Fine(s, U, f), NEW drawing \in [Place0 -> Someone]
  PROVE  Fine(update(s, drawing), U, f)
<1> DEFINE here == {drawing[<<top, q>>] : q \in Point}
           m == [p \in DOMAIN s.at |-> IF p[1] = top THEN drawing[p]
                                       ELSE IF s.at[p] \in here THEN None ELSE s.at[p]]
           t == [s EXCEPT !.at = m]
<1>1. s \in UI /\ s.at \in [Place0 -> Someone]  BY DEF Fine, UI
<1>2. update(s, drawing) = cursor_update_hover(t)  BY DEF update
<1> HIDE DEF here
<1>3. m \in [Place0 -> Someone]  BY <1>1 DEF Someone
<1> HIDE DEF m
<1>4. SameUnder(s, t)  BY <1>1, <1>3 DEF SameUnder, UI
<1> HIDE DEF t
<1> QED BY <1>2, <1>4, SameUnderIsFine, AllHoverIs

-----------------------------------------------------------------------------
(* Triggers, and what is dispatched.                                       *)
LEMMA SendIs ==
  ASSUME NEW U, NEW f, Around(U, f), NEW s, Fine(s, U, f), NEW c \in U, NEW w, NEW trigger,
         NEW drawing \in [Place0 -> Someone]
  PROVE  Fine(send_trigger(s, c, w, trigger, drawing), U, f)
<1>1. CASE ~Live(w) \/ trigger \notin Accepts[w]  BY <1>1 DEF send_trigger
<1>2. CASE Live(w) /\ trigger \in Accepts[w]
  <2> DEFINE x == CASE trigger = "DOWN" -> s.pressed[c] \union {w}
                    [] trigger \in {"UP", "RELEASE"} -> s.pressed[c] \ {w}
                    [] OTHER -> s.pressed[c]
             m == [s.pressed EXCEPT ![c] = x]
             t == Told(s, c, w, trigger)
  <2>1. s \in UI /\ s.pressed \in [Cursor -> SUBSET Widget] /\ c \in Cursor  BY DEF Fine, UI, Around
  <2>2. w \in Widget  BY <1>2 DEF Live, Around
  <2>3. x \in SUBSET Widget
    <3>1. s.pressed[c] \in SUBSET Widget  BY <2>1
    <3> QED BY <2>2, <3>1
  <2>4. t = [s EXCEPT !.pressed = m]  BY DEF Told
  <2> HIDE DEF x
  <2>5. m \in [Cursor -> SUBSET Widget]  BY <2>1, <2>3
  <2> HIDE DEF m
  <2>6. SameUnder(s, t)  BY <2>1, <2>4, <2>5 DEF SameUnder, UI
  <2>7. send_trigger(s, c, w, trigger, drawing) = IF w \in Redraws THEN update(t, drawing) ELSE t
    BY <1>2 DEF send_trigger
  <2> HIDE DEF t
  <2> QED BY <2>6, <2>7, SameUnderIsFine, UpdateIs
<1> QED BY <1>1, <1>2

LEMMA ReleaseIs ==
  ASSUME NEW U, NEW f, Around(U, f), NEW s, Fine(s, U, f), NEW c \in U, NEW btn,
         NEW drawing \in [Place0 -> Someone]
  PROVE  Fine(Release(s, c, btn, drawing), U, f)
<1>1. CASE ~CaptureEnds(s, c, btn)  BY <1>1 DEF Release
<1>2. CASE CaptureEnds(s, c, btn)
  <2> DEFINE t == send_trigger(s, c, s.crsr[c].capture, "RELEASE", drawing)
             u == [t EXCEPT !.crsr[c].capture = None, !.crsr[c].capture_btn = {}]
             k == [t.crsr[c] EXCEPT !.capture = None, !.capture_btn = {}]
  <2>1. Fine(t, U, f)  BY SendIs
  <2>2. Release(s, c, btn, drawing) = u  BY <1>2 DEF Release
  <2> HIDE DEF t
  <2>3. t \in UI /\ c \in Cursor  BY <2>1 DEF Fine, Around
  <2>4. k \in CursorType /\ k.under = t.crsr[c].under
    BY <2>3, CursorIs DEF CursorType, Someone, Buttons
  <2>5. u = WithRecord(t, c, k)  BY DEF WithRecord
  <2> HIDE DEF u, k
  <2> QED BY <2>1, <2>2, <2>3, <2>4, <2>5, SameUnderRecord, SameUnderIsFine
<1> QED BY <1>1, <1>2

LEMMA CaptureIs ==
  ASSUME NEW U, NEW f, Around(U, f), NEW s, Fine(s, U, f), NEW c \in U, NEW btn \in Buttons
  PROVE  Fine(Capture(s, c, btn), U, f)
<1>1. CASE s.crsr[c].capture # None  BY <1>1 DEF Capture
<1>2. CASE s.crsr[c].capture = None
  <2> DEFINE k == [s.crsr[c] EXCEPT !.capture = s.crsr[c].under, !.capture_btn = btn]
  <2>1. s \in UI /\ c \in Cursor  BY DEF Fine, Around
  <2>2. k \in CursorType /\ k.under = s.crsr[c].under  BY <2>1, CursorIs DEF CursorType
  <2>3. Capture(s, c, btn) = WithRecord(s, c, k)  BY <1>2 DEF Capture, WithRecord
  <2> HIDE DEF k
  <2> QED BY <2>1, <2>2, <2>3, SameUnderRecord, SameUnderIsFine
<1> QED BY <1>1, <1>2

LEMMA DispatchedIs ==
  ASSUME NEW U, NEW f, Around(U, f), NEW s, Fine(s, U, f), NEW c \in U, NEW trigger, NEW btn,
         NEW chbtn \in Buttons, NEW drawing \in [Place0 -> Someone]
  PROVE  Fine(Dispatched(s, c, trigger, btn, chbtn, drawing), U, f)
<1> DEFINE under == s.crsr[c].under
           t == Release(s, c, btn, drawing)
           released == CaptureEnds(s, c, btn) /\ Live(s.crsr[c].capture)
                       /\ "RELEASE" \in Accepts[s.crsr[c].capture]
           u == IF ~Live(under) \/ released THEN t
                ELSE send_propagating_trigger(t, c, under, trigger, drawing)
           v == IF Live(under) /\ trigger = "DOWN" THEN Capture(u, c, chbtn) ELSE u
           z == IF trigger = "MOVE" /\ v.crsr[c].capture # None
                THEN send_trigger(v, c, v.crsr[c].capture, "DRAG", drawing) ELSE v
<1>1. Dispatched(s, c, trigger, btn, chbtn, drawing) = z  BY DEF Dispatched
<1>2. Fine(t, U, f)  BY ReleaseIs
<1> HIDE DEF under, t, released
<1>3. Fine(send_propagating_trigger(t, c, under, trigger, drawing), U, f)
  BY <1>2, SendIs DEF send_propagating_trigger
<1>4. Fine(u, U, f)  BY <1>2, <1>3
<1> HIDE DEF u
<1>5. Fine(v, U, f)  BY <1>4, CaptureIs
<1> HIDE DEF v
<1>6. Fine(send_trigger(v, c, v.crsr[c].capture, "DRAG", drawing), U, f)  BY <1>5, SendIs
<1> QED BY <1>1, <1>5, <1>6

LEMMA MovedIs ==
  ASSUME NEW U, NEW f, Around(U, f), NEW s, Fine(s, U, f), NEW c \in U, NEW place \in Place, NEW btn,
         NEW drawing \in [Place0 -> Someone]
  PROVE  Fine(Moved(s, c, place, btn, drawing), U, f)
<1> DEFINE t == cursor_move(s, c, place)
<1>1. c \in Cursor /\ U \union {c} = U  BY DEF Around
<1>2. Fine(t, U, f)  BY <1>1, MoveIs
<1>3. {} \in Buttons  BY DEF Buttons
<1> HIDE DEF t
<1>4. Fine(Dispatched(t, c, "MOVE", btn, {}, drawing), U, f)  BY <1>2, <1>3, DispatchedIs
<1> QED BY <1>4 DEF Moved, t

LEMMA StatusIs ==
  ASSUME NEW U, NEW f, Around(U, f), NEW s, Fine(s, U, f), NEW c \in U, NEW trigger,
         NEW point \in Point, NEW btn \in Buttons, NEW drawing \in [Place0 -> Someone]
  PROVE  Fine(Status(s, c, trigger, point, btn, drawing), U, f)
<1> DEFINE prev == s.crsr[c].prev_buttons
           happened == Happened(trigger, prev, btn)
           place == <<top, point>>
           there == IF happened = "MOVE" \/ point = s.crsr[c].place[2] THEN s
                    ELSE Moved(s, c, place, prev, drawing)
           t == [there EXCEPT !.crsr[c].prev_buttons = btn]
           k == [there.crsr[c] EXCEPT !.prev_buttons = btn]
<1>1. Status(s, c, trigger, point, btn, drawing) =
        IF happened = "MOVE" THEN Moved(t, c, place, btn, drawing)
        ELSE Dispatched(t, c, happened, btn, Changed(prev, btn), drawing)
  BY DEF Status
<1>2. c \in Cursor /\ s \in UI /\ prev \in Buttons  BY CursorIs DEF Fine, Around
<1>3. place \in Place  BY DEF Around, Place, Layer
<1>4. Changed(prev, btn) \in Buttons  BY <1>2 DEF Changed, Buttons
<1> HIDE DEF happened, place, prev
<1>5. Fine(there, U, f)  BY <1>3, MovedIs
<1> HIDE DEF there
<1>6. SameUnder(there, t)
  <2>1. there \in UI  BY <1>5 DEF Fine
  <2>2. k \in CursorType /\ k.under = there.crsr[c].under  BY <1>2, <2>1, CursorIs DEF CursorType
  <2>3. t = WithRecord(there, c, k)  BY DEF WithRecord
  <2> HIDE DEF t, k
  <2> QED BY <1>2, <2>1, <2>2, <2>3, SameUnderRecord
<1> HIDE DEF t
<1>7. Fine(t, U, f)  BY <1>5, <1>6, SameUnderIsFine
<1>8. Fine(Moved(t, c, place, btn, drawing), U, f)  BY <1>3, <1>7, MovedIs
<1>9. Fine(Dispatched(t, c, happened, btn, Changed(prev, btn), drawing), U, f)
  BY <1>4, <1>7, DispatchedIs
<1> QED BY <1>1, <1>8, <1>9

LEMMA WheelIs ==
  ASSUME NEW U, NEW f, Around(U, f), NEW s, Fine(s, U, f), NEW c \in U,
         NEW drawing \in [Place0 -> Someone]
  PROVE  Fine(Wheel(s, c, drawing), U, f)
<1> DEFINE prev == s.crsr[c].prev_buttons
           t == [s EXCEPT !.crsr[c].prev_buttons = {}]
           k == [s.crsr[c] EXCEPT !.prev_buttons = {}]
<1>1. c \in Cursor /\ s \in UI /\ prev \in Buttons /\ {} \in Buttons
  BY CursorIs DEF Fine, Around, Buttons
<1>2. Wheel(s, c, drawing) = Dispatched(t, c, "SCROLLWHEEL", {}, prev, drawing)  BY DEF Wheel
<1>3. SameUnder(s, t)
  <2>1. k \in CursorType /\ k.under = s.crsr[c].under  BY <1>1, CursorIs DEF CursorType
  <2>2. t = WithRecord(s, c, k)  BY DEF WithRecord
  <2> HIDE DEF t, k
  <2> QED BY <1>1, <2>1, <2>2, SameUnderRecord
<1> HIDE DEF t, prev
<1>4. Fine(t, U, f)  BY <1>3, SameUnderIsFine
<1> QED BY <1>1, <1>2, <1>4, DispatchedIs

-----------------------------------------------------------------------------
(* Cursors come and go.                                                    *)
LEMMA NewIs ==
  ASSUME NEW U, NEW f, NEW c \in Cursor, c \notin U, Around(U \union {c}, f),
         NEW s, Fine(s, U, f)
  PROVE  /\ Fine(cursor_new(s, c), U \union {c}, f)
         /\ Fine([cursor_new(s, c) EXCEPT !.crsr[c].visible = FALSE], U \union {c}, f)
<1> DEFINE point == IF s.cursor_list = <<>> THEN CHOOSE p \in Point : TRUE
                    ELSE s.crsr[Head(s.cursor_list)].place[2]
           place == <<top, point>>
           k == NewCursor(place)
           t == [s EXCEPT !.crsr[c] = k]
           u == cursor_move(t, c, place)
           r == cursor_new(s, c)
           k1 == [u.crsr[c] EXCEPT !.visible = TRUE]
           k2 == [r.crsr[c] EXCEPT !.visible = FALSE]
           h == [r EXCEPT !.crsr[c].visible = FALSE]
<1>1. /\ s \in UI /\ s.cursor_list \in Seq(Cursor) /\ top \in Layer
      /\ InUse(s) = U /\ U \subseteq Cursor
  BY DEF Fine, Around, UI
<1>2. point \in Point
  <2>1. CASE s.cursor_list = <<>>  BY <2>1, PointerAssumption
  <2>2. CASE s.cursor_list # <<>>
    <3>1. Head(s.cursor_list) \in Cursor  BY <1>1, <2>2
    <3>2. s.crsr[Head(s.cursor_list)].place \in Place  BY <1>1, <3>1, CursorIs
    <3> QED BY <2>2, <3>2 DEF Place
  <2> QED BY <2>1, <2>2
<1>3. r = [u EXCEPT !.crsr[c].visible = TRUE]  BY DEF cursor_new
<1> HIDE DEF point
<1>4. place \in Place  BY <1>1, <1>2 DEF Place
<1> HIDE DEF place
<1>5. k \in CursorType /\ k.under = None
  BY <1>4 DEF NewCursor, CursorType, Shape, Someone, Buttons
<1>6. t = WithRecord(s, c, k)  BY DEF WithRecord
<1> HIDE DEF k, t
<1>7. /\ t \in UI /\ t.cursor_list = s.cursor_list /\ t.numcursors = s.numcursors
      /\ \A d \in Cursor : t.crsr[d] = IF d = c THEN k ELSE s.crsr[d]
  BY <1>1, <1>5, <1>6, RecordIs
<1>8. Fine(t, U, f)
  <2>1. \A w : Over(t, U, w) = Over(s, U, w)  BY <1>1, <1>7 DEF Over
  <2> QED BY <1>7, <2>1 DEF Fine, InUse
<1>9. t.crsr[c].under = None  BY <1>5, <1>7
<1>10. Fine(u, U \union {c}, f)  BY <1>4, <1>8, <1>9, MoveIs
<1> HIDE DEF u, r
<1>11. u \in UI  BY <1>10 DEF Fine
<1>12. Fine(r, U \union {c}, f)
  <2>1. k1 \in CursorType /\ k1.under = u.crsr[c].under  BY <1>11, CursorIs DEF CursorType
  <2>2. r = WithRecord(u, c, k1)  BY <1>3 DEF WithRecord
  <2> HIDE DEF k1
  <2> QED BY <1>10, <1>11, <2>1, <2>2, SameUnderRecord, SameUnderIsFine
<1>13. r \in UI  BY <1>12 DEF Fine
<1>14. Fine(h, U \union {c}, f)
  <2>1. k2 \in CursorType /\ k2.under = r.crsr[c].under  BY <1>13, CursorIs DEF CursorType
  <2>2. h = WithRecord(r, c, k2)  BY DEF WithRecord
  <2> HIDE DEF k2, h
  <2> QED BY <1>12, <1>13, <2>1, <2>2, SameUnderRecord, SameUnderIsFine
<1> QED BY <1>12, <1>14 DEF r

(* A cursor that goes while it is hidden stays with the widget.            *)
LEMMA DeleteIs ==
  ASSUME NEW U, NEW f, Around(U, f), NEW s, Fine(s, U, f), NEW c \in U, NEW g,
         g = [w \in Widget |->
                IF ~s.crsr[c].visible /\ Live(w) /\ s.crsr[c].under = w THEN f[w] + 1 ELSE f[w]]
  PROVE  Fine(cursor_delete(s, c), U \ {c}, g) /\ Around(U \ {c}, g)
<1> DEFINE t == cursor_hide(s, c)
           l == RemoveFirst(t.cursor_list, c)
           m == [t.pressed EXCEPT ![c] = {}]
           r == cursor_delete(s, c)
           V == U \ {c}
<1>1. Fine(t, U, f) /\ (~s.crsr[c].visible => t = s) /\ (s.crsr[c].visible => t.crsr[c].under = None)
  BY HideIs
<1>2. r = [t EXCEPT !.cursor_list = l, !.pressed = m]  BY DEF cursor_delete
<1> HIDE DEF t
<1>3. /\ t \in UI /\ U \subseteq Cursor /\ c \in Cursor /\ IsFiniteSet(U) /\ live \subseteq Widget
      /\ f \in [Widget -> Nat] /\ top \in Layer
      /\ t.cursor_list \in Seq(Cursor) /\ Once(t.cursor_list) /\ ToSet(t.cursor_list) = U
  BY <1>1 DEF Fine, Around, UI, InUse
<1>4. l \in Seq(Cursor) /\ Once(l) /\ ToSet(l) = V  BY <1>3, RemoveFirstIs
<1> HIDE DEF l
<1>5. m \in [Cursor -> SUBSET Widget]
  <2>1. t.pressed \in [Cursor -> SUBSET Widget]  BY <1>3 DEF UI
  <2> QED BY <1>3, <2>1
<1> HIDE DEF m, r
<1>6. r \in UI /\ r.cursor_list = l /\ r.numcursors = t.numcursors /\ r.crsr = t.crsr
  BY <1>2, <1>3, <1>4, <1>5 DEF UI
<1>7. g \in [Widget -> Nat]  BY <1>3
<1>8. Around(V, g)  BY <1>3, <1>7, FS_Subset DEF Around
<1>9. ASSUME NEW w \in live PROVE r.numcursors[w] = Cardinality(Over(r, V, w)) + g[w]
  <2>1. w \in Widget /\ w # None /\ f[w] \in Nat  BY <1>3, PointerAssumption
  <2>2. IsFiniteSet(Over(t, U, w)) /\ Cardinality(Over(t, U, w)) \in Nat  BY <1>3, OverIs
  <2>3. Over(r, V, w) = Over(t, U, w) \ {c}  BY <1>6 DEF Over
  <2>4. c \in Over(t, U, w) <=> t.crsr[c].under = w  BY DEF Over
  <2>5. Cardinality(Over(r, V, w)) = IF t.crsr[c].under = w THEN Cardinality(Over(t, U, w)) - 1
                                     ELSE Cardinality(Over(t, U, w))
    BY <2>2, <2>3, <2>4, FS_RemoveElement
  <2>6. r.numcursors[w] = Cardinality(Over(t, U, w)) + f[w]  BY <1>1, <1>6 DEF Fine
  <2>7. g[w] = IF ~s.crsr[c].visible /\ s.crsr[c].under = w THEN f[w] + 1 ELSE f[w]
    BY <2>1 DEF Live
  <2>8. CASE ~s.crsr[c].visible
    <3>1. t = s  BY <1>1, <2>8
    <3> QED BY <2>1, <2>2, <2>5, <2>6, <2>7, <2>8, <3>1
  <2>9. CASE s.crsr[c].visible
    <3>1. t.crsr[c].under # w  BY <1>1, <2>1, <2>9
    <3> QED BY <2>1, <2>2, <2>5, <2>6, <2>7, <2>9, <3>1
  <2> QED BY <2>8, <2>9
<1>10. \A w \in Widget \ live : r.numcursors[w] = 0  BY <1>1, <1>6 DEF Fine
<1>11. Fine(r, V, g)  BY <1>4, <1>6, <1>9, <1>10 DEF Fine, InUse
<1> QED BY <1>8, <1>11 DEF r

-----------------------------------------------------------------------------
(* The inductive invariant. The counts are right for all that is in the    *)
(* list of cursors, and the handles, the cursors of hotspots and the one   *)
(* of touchscreens are in that list: so what frees or hides one of them    *)
(* finds a cursor that its widget counts.                                  *)
PInv ==
  /\ live \subseteq Widget /\ top \in Layer
  /\ forgotten \in [Widget -> Nat] /\ \A w \in Widget \ live : forgotten[w] = 0
  /\ IsFiniteSet(InUse(ui)) /\ handle \subseteq InUse(ui)
  /\ hotspot \in [Layer -> HotCursor \union {None}]
  /\ \A l \in Layer : hotspot[l] # None => hotspot[l] \in handle
  /\ hotspot[1] = hotspot[2] => hotspot[1] = None
  /\ unseen \in (Mouse \intersect handle) \union {None}
  /\ Fine(ui, InUse(ui), forgotten)

LEMMA InUseIs ==
  ASSUME NEW s \in UI
  PROVE  InUse(s) \subseteq Cursor
<1>1. s.cursor_list \in Seq(Cursor)  BY DEF UI
<1> QED BY <1>1 DEF InUse, ToSet

LEMMA InvAround ==
  ASSUME PInv
  PROVE  /\ Around(InUse(ui), forgotten)
         /\ \A c \in Cursor : Around(InUse(ui) \union {c}, forgotten)
<1>1. InUse(ui) \subseteq Cursor  BY InUseIs DEF PInv, Fine
<1>2. \A c : IsFiniteSet(InUse(ui) \union {c})  BY FS_AddElement DEF PInv
<1> QED BY <1>1, <1>2 DEF PInv, Around

LEMMA DrawingIs ==
  ASSUME NEW d \in Drawing
  PROVE  d \in [Place0 -> Someone]
<1>1. PICK scene \in Scene : d = Drawn(scene, live, 1..top)  BY DEF Drawing
<1>2. scene \in [Place0 -> Someone]  BY PointerAssumption DEF Place0, Layer, Someone
<1> QED BY <1>1, <1>2 DEF Drawn, Place0, Someone

LEMMA FinePrimed ==
  ASSUME live' = live, NEW U, Fine(ui', U, forgotten')
  PROVE  InUse(ui') = U /\ Fine(ui, InUse(ui), forgotten)'
<1>1. InUse(ui') = U  BY DEF Fine
<1>2. Fine(ui, InUse(ui), forgotten)'
  BY <1>1 DEF Fine
<1> QED BY <1>1, <1>2

(* Only what the cursors are over changes.                                 *)
LEMMA UiKeeps ==
  ASSUME PInv, UNCHANGED <<live, handle, hotspot, unseen, forgotten>>, top' \in Layer,
         Fine(ui', InUse(ui), forgotten)
  PROVE  PInv'
<1>1. InUse(ui') = InUse(ui) /\ Fine(ui, InUse(ui), forgotten)'  BY FinePrimed
<1> QED BY <1>1 DEF PInv

LEMMA PointKeeps ==
  ASSUME PInv, NEW c \in Cursor, NEW trigger, NEW point \in Point, NEW btn \in Chord,
         NEW d \in Drawing, Point_to(c, trigger, point, btn, d)
  PROVE  PInv'
<1>1. c \in InUse(ui)  BY DEF Point_to, Pointing, PInv
<1>2. btn \in Buttons  BY DEF Buttons
<1>3. Fine(Status(ui, c, trigger, point, btn, d), InUse(ui), forgotten)
  BY <1>1, <1>2, InvAround, DrawingIs, StatusIs DEF PInv
<1> QED BY <1>3, UiKeeps DEF Point_to, PInv

LEMMA ScrollKeeps ==
  ASSUME PInv, NEW c \in Cursor, NEW d \in Drawing, Scroll(c, d)
  PROVE  PInv'
<1>1. c \in InUse(ui)  BY DEF Scroll, Pointing, PInv
<1>2. Fine(Wheel(ui, c, d), InUse(ui), forgotten)
  BY <1>1, InvAround, DrawingIs, WheelIs DEF PInv
<1> QED BY <1>2, UiKeeps DEF Scroll, PInv

LEMMA TouchKeeps ==
  ASSUME PInv, NEW point \in Point, NEW btn \in Tap, NEW d \in Drawing, Touch(point, btn, d)
  PROVE  PInv'
<1>1. unseen \in InUse(ui)  BY DEF Touch, PInv
<1>2. btn \in Buttons  BY DEF Buttons, Tap
<1>3. Fine(Status(ui, unseen, "STATUS", point, btn, d), InUse(ui), forgotten)
  BY <1>1, <1>2, InvAround, DrawingIs, StatusIs DEF PInv
<1> QED BY <1>3, UiKeeps DEF Touch, PInv

LEMMA FirstTouchKeeps ==
  ASSUME PInv, NEW c \in Cursor, NEW point \in Point, NEW btn \in Tap, NEW d \in Drawing,
         FirstTouch(c, point, btn, d)
  PROVE  PInv'
<1> DEFINE V == InUse(ui) \union {c}
           s == [cursor_new(ui, c) EXCEPT !.crsr[c].visible = FALSE]
<1>1. c \in Mouse /\ c \notin InUse(ui)  BY DEF FirstTouch, Spare
<1>2. btn \in Buttons  BY DEF Buttons, Tap
<1>3. Around(V, forgotten)  BY InvAround
<1>4. Fine(s, V, forgotten)  BY <1>1, <1>3, NewIs DEF PInv
<1> HIDE DEF s
<1>5. Fine(Status(s, c, "STATUS", point, btn, d), V, forgotten)
  BY <1>2, <1>3, <1>4, DrawingIs, StatusIs
<1>6. Fine(ui', V, forgotten')  BY <1>5 DEF FirstTouch, s
<1>7. InUse(ui') = V /\ Fine(ui, InUse(ui), forgotten)'  BY <1>6, FinePrimed DEF FirstTouch
<1> QED BY <1>1, <1>3, <1>7 DEF PInv, FirstTouch, Around

LEMMA CursorKeeps ==
  ASSUME PInv, NEW c \in Cursor, mkcursor(c) \/ NoHandle(c)
  PROVE  PInv'
<1> DEFINE V == InUse(ui) \union {c}
<1>1. c \in Mouse /\ c \notin InUse(ui)  BY DEF mkcursor, NoHandle, Spare
<1>2. Around(V, forgotten)  BY InvAround
<1>3. Fine(cursor_new(ui, c), V, forgotten)  BY <1>1, <1>2, NewIs DEF PInv
<1>4. Fine(ui', V, forgotten') /\ live' = live  BY <1>3 DEF mkcursor, NoHandle
<1>5. InUse(ui') = V /\ Fine(ui, InUse(ui), forgotten)'  BY <1>4, FinePrimed
<1> QED BY <1>1, <1>2, <1>5 DEF PInv, mkcursor, NoHandle, Around

LEMMA FreeKeeps ==
  ASSUME PInv, NEW c \in Cursor, pointer_free(c)
  PROVE  PInv'
<1> DEFINE V == InUse(ui) \ {c}
           g == [w \in Widget |-> IF ~ui.crsr[c].visible /\ Live(w) /\ ui.crsr[c].under = w
                                  THEN forgotten[w] + 1 ELSE forgotten[w]]
<1>1. c \in Mouse /\ c \in handle /\ c # unseen /\ c \in InUse(ui) /\ c # None
  BY PointerAssumption DEF pointer_free, Pointing, PInv
<1>2. forgotten' = g  BY <1>1, SMTT(20) DEF pointer_free, LeftBehind
<1>3. Fine(cursor_delete(ui, c), V, g) /\ Around(V, g)
  <2>1. Fine(ui, InUse(ui), forgotten) /\ Around(InUse(ui), forgotten)  BY InvAround DEF PInv
  <2> QED BY <1>1, <2>1, DeleteIs
<1> HIDE DEF g, V
<1>4. Fine(ui', V, forgotten') /\ Around(V, forgotten')  BY <1>2, <1>3 DEF pointer_free
<1>5. InUse(ui') = V /\ Fine(ui, InUse(ui), forgotten)'  BY <1>4, FinePrimed DEF pointer_free
<1>6. \A w \in Widget \ live : forgotten'[w] = 0  BY <1>2 DEF Live, PInv, g
<1>7. \A l \in Layer : hotspot[l] # c  BY <1>1, PointerAssumption DEF PInv
<1> QED BY <1>1, <1>4, <1>5, <1>6, <1>7 DEF PInv, pointer_free, Around, V

LEMMA TraverseKeeps ==
  ASSUME PInv, NEW c \in Cursor, NEW point \in Hotspot, hotspot_traverse(c, point)
  PROVE  PInv'
<1> DEFINE V == InUse(ui) \union {c}
           s == IF c \in Spare(HotCursor) THEN cursor_new(ui, c) ELSE ui
           place == <<top, point>>
<1>1. place \in Place  BY PointerAssumption DEF PInv, Place, Layer
<1>2. Around(V, forgotten) /\ V \union {c} = V  BY InvAround
<1>3. CASE c = hotspot[top] /\ c # None /\ UNCHANGED <<handle, hotspot>>
  <2>1. c \in InUse(ui) /\ V = InUse(ui)  BY <1>3 DEF PInv
  <2>2. s = ui  BY <2>1 DEF Spare
  <2> HIDE DEF place
  <2>3. Fine(cursor_move(ui, c, place), V, forgotten)  BY <1>1, <1>2, <2>1, MoveIs DEF PInv
  <2>4. Fine(ui', InUse(ui), forgotten)  BY <2>1, <2>2, <2>3 DEF hotspot_traverse, place
  <2> QED BY <1>3, <2>4, UiKeeps DEF hotspot_traverse, PInv
<1>4. CASE /\ hotspot[top] = None /\ c \in Spare(HotCursor)
           /\ handle' = handle \union {c} /\ hotspot' = [hotspot EXCEPT ![top] = c]
  <2>1. c \notin InUse(ui) /\ c \in HotCursor /\ c \notin handle  BY <1>4 DEF Spare, PInv
  <2>2. s = cursor_new(ui, c)  BY <1>4
  <2> HIDE DEF place, s, V
  <2>3. Fine(s, V, forgotten)  BY <1>2, <2>1, <2>2, NewIs DEF PInv, V
  <2>4. c \in V  BY DEF V
  <2>5. Fine(cursor_move(s, c, place), V, forgotten)  BY <1>1, <1>2, <2>3, <2>4, MoveIs
  <2>6. Fine(ui', V, forgotten') /\ live' = live  BY <2>5 DEF hotspot_traverse, place, s
  <2>7. InUse(ui') = V /\ Fine(ui, InUse(ui), forgotten)'  BY <2>6, FinePrimed
  <2>8. /\ hotspot' \in [Layer -> HotCursor \union {None}]
        /\ \A l \in Layer : hotspot'[l] # None => hotspot'[l] \in handle'
        /\ hotspot'[1] = hotspot'[2] => hotspot'[1] = None
    <3>1. \A l \in Layer : hotspot'[l] = IF l = top THEN c ELSE hotspot[l]  BY <1>4 DEF PInv
    <3>2. \A l \in Layer : hotspot[l] # c
      <4>1. c # None  BY <2>1, PointerAssumption
      <4> QED BY <2>1, <4>1 DEF PInv
    <3>3. 1 \in Layer /\ 2 \in Layer /\ (top = 1 \/ top = 2)  BY DEF Layer, PInv
    <3>4. hotspot'[1] = hotspot'[2] => hotspot'[1] = None  BY <3>1, <3>2, <3>3
    <3>5. hotspot' \in [Layer -> HotCursor \union {None}]  BY <1>4, <2>1 DEF PInv
    <3>6. \A l \in Layer : hotspot'[l] # None => hotspot'[l] \in handle'
      BY <1>4, <3>1 DEF PInv
    <3> QED BY <3>4, <3>5, <3>6
  <2> QED BY <1>2, <1>4, <2>7, <2>8 DEF PInv, hotspot_traverse, Around, V
<1> QED BY <1>3, <1>4 DEF hotspot_traverse

LEMMA HideKeeps ==
  ASSUME PInv, hotspot_hide
  PROVE  PInv'
<1>1. hotspot[top] \in InUse(ui)  BY DEF hotspot_hide, PInv
<1>2. Fine(cursor_hide(ui, hotspot[top]), InUse(ui), forgotten)
  BY <1>1, InvAround, HideIs DEF PInv
<1> QED BY <1>2, UiKeeps DEF hotspot_hide, PInv

LEMMA UpdateKeeps ==
  ASSUME PInv, NEW d \in Drawing, Update(d) \/ dts_push(d)
  PROVE  PInv'
<1>1. Fine(update(ui, d), InUse(ui), forgotten)
  BY InvAround, DrawingIs, UpdateIs DEF PInv
<1>2. top' \in Layer  BY DEF Update, dts_push, PInv, Layer
<1> QED BY <1>1, <1>2, UiKeeps DEF Update, dts_push

(* Nothing knows the new widget, and it counts nothing.                    *)
LEMMA MakeKeeps ==
  ASSUME PInv, NEW w \in Widget, rqh_mkwidget(w)
  PROVE  PInv'
<1>1. /\ live' = live \union {w} /\ w \notin live
      /\ ui' = ui /\ UNCHANGED <<top, handle, hotspot, unseen, forgotten>>
      /\ \A c \in InUse(ui) : w # ui.crsr[c].under
  BY DEF rqh_mkwidget, Live
<1>2. InUse(ui') = InUse(ui)  BY <1>1
<1>3. ui.numcursors[w] = 0 /\ forgotten[w] = 0  BY <1>1 DEF PInv, Fine
<1>4. Over(ui, InUse(ui), w) = {}  BY <1>1 DEF Over
<1>5. Cardinality(Over(ui, InUse(ui), w)) = 0  BY <1>4, FS_EmptySet
<1>6. ASSUME NEW v \in live'
      PROVE  ui'.numcursors[v] = Cardinality(Over(ui', InUse(ui'), v)) + forgotten'[v]
  <2>1. CASE v = w  BY <1>1, <1>3, <1>5, <2>1
  <2>2. CASE v # w  BY <1>1, <2>2 DEF PInv, Fine
  <2> QED BY <2>1, <2>2
<1>7. Fine(ui, InUse(ui), forgotten)'  BY <1>1, <1>2, <1>6 DEF PInv, Fine
<1> QED BY <1>1, <1>2, <1>7 DEF PInv

LEMMA RemoveKeeps ==
  ASSUME PInv, NEW w \in Widget, widget_remove(w)
  PROVE  PInv'
<1> DEFINE a == [p \in DOMAIN ui.at |-> IF ui.at[p] = w THEN Container[w] ELSE ui.at[p]]
           n == [ui.numcursors EXCEPT ![w] = 0]
           m == [c \in Cursor |-> ui.pressed[c] \ {w}]
<1>1. /\ ui' = [ui EXCEPT !.at = a, !.numcursors = n, !.pressed = m]
      /\ live' = live \ {w} /\ forgotten' = [forgotten EXCEPT ![w] = 0]
      /\ UNCHANGED <<top, handle, hotspot, unseen>>
  BY DEF widget_remove
<1>2. /\ ui \in UI /\ ui.at \in [Place0 -> Someone] /\ ui.numcursors \in [Widget -> Nat]
      /\ ui.pressed \in [Cursor -> SUBSET Widget]
  BY DEF PInv, Fine, UI
<1>3. a \in [Place0 -> Someone]  BY <1>2, PointerAssumption DEF Someone
<1>4. n \in [Widget -> Nat] /\ \A v \in Widget : n[v] = IF v = w THEN 0 ELSE ui.numcursors[v]
  BY <1>2
<1>5. m \in [Cursor -> SUBSET Widget]  BY <1>2
<1> HIDE DEF a, n, m
<1>6. ui' \in UI /\ ui'.crsr = ui.crsr /\ ui'.cursor_list = ui.cursor_list /\ ui'.numcursors = n
  BY <1>1, <1>2, <1>3, <1>4, <1>5 DEF UI
<1>7. InUse(ui') = InUse(ui) /\ \A v : Over(ui', InUse(ui'), v) = Over(ui, InUse(ui), v)
  BY <1>6 DEF InUse, Over
<1>8. /\ forgotten' \in [Widget -> Nat]
      /\ \A v \in Widget : forgotten'[v] = IF v = w THEN 0 ELSE forgotten[v]
  BY <1>1 DEF PInv
<1>9. ASSUME NEW v \in live'
      PROVE  ui'.numcursors[v] = Cardinality(Over(ui', InUse(ui'), v)) + forgotten'[v]
  <2>1. v \in live /\ v # w /\ v \in Widget  BY <1>1 DEF PInv
  <2> QED BY <1>4, <1>6, <1>7, <1>8, <2>1 DEF PInv, Fine
<1>10. ASSUME NEW v \in Widget, v \notin live'
       PROVE  ui'.numcursors[v] = 0 /\ forgotten'[v] = 0
  <2>1. v = w \/ v \notin live  BY <1>1, <1>10
  <2> QED BY <1>4, <1>6, <1>8, <2>1 DEF PInv, Fine
<1>11. Fine(ui, InUse(ui), forgotten)'
  <2>1. Once(ui'.cursor_list)  BY <1>6 DEF PInv, Fine
  <2> QED BY <1>6, <1>9, <1>10, <2>1 DEF Fine
<1>12. live' \subseteq Widget  BY <1>1 DEF PInv
<1> QED BY <1>1, <1>7, <1>8, <1>10, <1>11, <1>12 DEF PInv

(* The hotspots of a popup have a cursor of their own, which goes with it. *)
LEMMA PopupKeeps ==
  ASSUME PInv, dts_pop
  PROVE  PInv'
<1> DEFINE h == hotspot[2]
           s == IF h = None THEN ui ELSE cursor_delete(ui, h)
           V == InUse(ui) \ {h}
           g == LeftBehind(h)
           a == Drawn(s.at, live, {1})
           k == [c \in Cursor |-> OffPopup(s.crsr[c])]
<1>1. /\ top' = 1 /\ ui' = [s EXCEPT !.at = a, !.crsr = k]
      /\ forgotten' = g /\ handle' = handle \ {h} /\ hotspot' = [hotspot EXCEPT ![2] = None]
      /\ UNCHANGED <<live, unseen>>
  BY DEF dts_pop
<1>2. /\ h \in HotCursor \union {None}
      /\ h # None => h \in InUse(ui) /\ h \in handle
      /\ InUse(ui) \subseteq Cursor /\ 1 \in Layer /\ 2 \in Layer
  <2>1. 1 \in Layer /\ 2 \in Layer  BY DEF Layer
  <2>2. InUse(ui) \subseteq Cursor  BY InUseIs DEF PInv, Fine
  <2>3. h \in HotCursor \union {None} /\ (h # None => h \in handle)  BY <2>1 DEF PInv
  <2> QED BY <2>1, <2>2, <2>3 DEF PInv
<1>3. Fine(s, V, g) /\ Around(V, g)
  <2>1. CASE h = None
    <3>1. s = ui /\ V = InUse(ui)
      <4>1. None \notin Cursor  BY PointerAssumption DEF Cursor
      <4> QED BY <1>2, <2>1, <4>1
    <3>2. g = forgotten  BY <2>1 DEF LeftBehind, PInv
    <3> QED BY <3>1, <3>2, InvAround DEF PInv
  <2>2. CASE h # None
    <3> DEFINE e == [w \in Widget |->
                       IF ~ui.crsr[h].visible /\ Live(w) /\ ui.crsr[h].under = w
                       THEN forgotten[w] + 1 ELSE forgotten[w]]
    <3>1. g = e  BY <2>2 DEF LeftBehind
    <3>2. s = cursor_delete(ui, h)  BY <2>2
    <3> HIDE DEF s, g, h, V
    <3>3. h \in InUse(ui) /\ Fine(ui, InUse(ui), forgotten) /\ Around(InUse(ui), forgotten)
      BY <1>2, <2>2, InvAround DEF PInv
    <3>4. \A x : x = e => Fine(cursor_delete(ui, h), InUse(ui) \ {h}, x) /\ Around(InUse(ui) \ {h}, x)
      BY <3>3, DeleteIs
    <3> HIDE DEF e
    <3>5. Fine(cursor_delete(ui, h), InUse(ui) \ {h}, e) /\ Around(InUse(ui) \ {h}, e)
      BY <3>4
    <3> QED BY <3>1, <3>2, <3>5 DEF V
  <2> QED BY <2>1, <2>2
<1> HIDE DEF s, g, h, V
<1>4. s \in UI /\ s.crsr \in [Cursor -> CursorType] /\ s.at \in [Place0 -> Someone]
  BY <1>3 DEF Fine, UI
<1>5. a \in [Place0 -> Someone]  BY <1>4 DEF Drawn, Place0, Someone
<1>6. ASSUME NEW c \in Cursor PROVE k[c] \in CursorType /\ k[c].under = s.crsr[c].under
  <2>1. s.crsr[c] \in CursorType /\ s.crsr[c].place \in Place  BY <1>4, CursorIs
  <2>2. s.crsr[c].place[2] \in Point  BY <2>1 DEF Place
  <2>3. <<0, s.crsr[c].place[2]>> \in Place  BY <2>2 DEF Place
  <2> DEFINE q == <<0, s.crsr[c].place[2]>>
             j == [s.crsr[c] EXCEPT !.place = q]
  <2>4. k[c] = IF s.crsr[c].place[1] = 2 THEN j ELSE s.crsr[c]  BY DEF OffPopup
  <2> HIDE DEF q, k
  <2>5. j \in CursorType /\ j.under = s.crsr[c].under  BY <2>1, <2>3 DEF CursorType, q
  <2> HIDE DEF j
  <2> QED BY <2>1, <2>4, <2>5
<1>7. k \in [Cursor -> CursorType]  BY <1>6
<1> HIDE DEF a, k
<1>8. SameUnder(s, ui')  BY <1>1, <1>4, <1>5, <1>6, <1>7 DEF SameUnder, UI
<1>9. Fine(ui', V, forgotten')  BY <1>1, <1>3, <1>8, SameUnderIsFine
<1>10. InUse(ui') = V /\ Fine(ui, InUse(ui), forgotten)'  BY <1>1, <1>9, FinePrimed
<1>11. \A w \in Widget \ live : forgotten'[w] = 0
  BY <1>1 DEF LeftBehind, Live, PInv, g
<1>12. /\ hotspot' \in [Layer -> HotCursor \union {None}]
       /\ \A l \in Layer : hotspot'[l] # None => hotspot'[l] \in handle'
       /\ hotspot'[1] = hotspot'[2] => hotspot'[1] = None
  <2>1. \A l \in Layer : hotspot'[l] = IF l = 2 THEN None ELSE hotspot[l]  BY <1>1 DEF PInv
  <2>2. hotspot' \in [Layer -> HotCursor \union {None}]  BY <1>1 DEF PInv
  <2>3. ASSUME NEW l \in Layer, hotspot'[l] # None PROVE hotspot'[l] \in handle'
    <3>1. l = 1 /\ hotspot'[l] = hotspot[1]  BY <2>1, <2>3 DEF Layer
    <3>2. hotspot[1] # h  BY <2>3, <3>1 DEF PInv, h
    <3>3. hotspot[1] \in handle  BY <2>3, <3>1 DEF PInv
    <3> QED BY <1>1, <3>1, <3>2, <3>3
  <2>4. hotspot'[1] = hotspot'[2] => hotspot'[1] = None  BY <1>2, <2>1
  <2> QED BY <2>2, <2>3, <2>4
<1>13. unseen' \in (Mouse \intersect handle') \union {None}
  <2>1. h \notin Mouse  BY <1>2, PointerAssumption
  <2> QED BY <1>1, <2>1 DEF PInv
<1>14. handle' \subseteq V  BY <1>1 DEF PInv, V
<1> QED BY <1>1, <1>2, <1>3, <1>10, <1>11, <1>12, <1>13, <1>14 DEF PInv, Around

-----------------------------------------------------------------------------
LEMMA PointerInitially == PointerInit => PInv
<1> SUFFICES ASSUME PointerInit PROVE PInv  OBVIOUS
<1> DEFINE k == NewCursor(<<1, CHOOSE p \in Point : TRUE>>)
<1>1. (CHOOSE p \in Point : TRUE) \in Point  BY PointerAssumption
<1>2. k \in CursorType
  BY <1>1 DEF NewCursor, CursorType, Place, Layer, Shape, Someone, Buttons
<1>3. ui = [crsr |-> [c \in Cursor |-> k], cursor_list |-> <<>>, numcursors |-> [w \in Widget |-> 0],
            at |-> [p \in Layer \X Point |-> None], pressed |-> [c \in Cursor |-> {}]]
  BY DEF PointerInit
<1> HIDE DEF k
<1>4. ui \in UI  BY <1>2, <1>3 DEF UI, Place0, Someone
<1>5. InUse(ui) = {} /\ Once(ui.cursor_list)  BY <1>3 DEF InUse, ToSet, Once
<1>6. IsFiniteSet(InUse(ui))  BY <1>5, FS_EmptySet
<1>7. Fine(ui, InUse(ui), forgotten)
  BY <1>3, <1>4, <1>5 DEF Fine, PointerInit
<1>8. 1 \in Layer /\ 2 \in Layer  BY DEF Layer
<1> QED BY <1>5, <1>6, <1>7, <1>8 DEF PInv, PointerInit

LEMMA PointerInductive == PInv /\ [PointerNext]_pointervars => PInv'
<1> SUFFICES ASSUME PInv, [PointerNext]_pointervars PROVE PInv'  OBVIOUS
<1>1. CASE UNCHANGED pointervars
  BY <1>1 DEF pointervars, PInv, Fine, InUse, Over
<1>2. ASSUME NEW c \in Cursor, NEW p \in Point, NEW btn \in Chord, NEW d \in Drawing,
             NEW trigger, Point_to(c, trigger, p, btn, d)
      PROVE  PInv'
  BY <1>2, PointKeeps
<1>3. ASSUME NEW p \in Point, NEW btn \in Tap, NEW d \in Drawing,
             Touch(p, btn, d) \/ \E c \in Cursor : FirstTouch(c, p, btn, d)
      PROVE  PInv'
  BY <1>3, TouchKeeps, FirstTouchKeeps
<1>4. ASSUME NEW c \in Cursor, NEW d \in Drawing, Scroll(c, d) PROVE PInv'
  BY <1>4, ScrollKeeps
<1>5. ASSUME NEW c \in Cursor, mkcursor(c) \/ NoHandle(c) \/ pointer_free(c) PROVE PInv'
  BY <1>5, CursorKeeps, FreeKeeps
<1>6. ASSUME NEW c \in Cursor, NEW p \in Hotspot, hotspot_traverse(c, p) PROVE PInv'
  BY <1>6, TraverseKeeps
<1>7. ASSUME NEW d \in Drawing, Update(d) \/ dts_push(d) PROVE PInv'
  BY <1>7, UpdateKeeps
<1>8. ASSUME NEW w \in Widget, rqh_mkwidget(w) \/ widget_remove(w) PROVE PInv'
  BY <1>8, MakeKeeps, RemoveKeeps
<1>9. CASE hotspot_hide  BY <1>9, HideKeeps
<1>10. CASE dts_pop  BY <1>10, PopupKeeps
<1> QED BY <1>1, <1>2, <1>3, <1>4, <1>5, <1>6, <1>7, <1>8, <1>9, <1>10 DEF PointerNext

LEMMA PointerInvariant == PointerSpec => []PInv
<1> QED BY PointerInitially, PointerInductive, PTL DEF PointerSpec

(* For any number of cursors, widgets and points, whatever the containers, *)
(* the triggers that widgets accept and the scenes, the count of a widget  *)
(* is that of the cursors over it, and of those that were freed while they *)
(* were hidden (cursor_change_under, cursor_hide, cursor_delete).          *)
THEOREM HoveredAlways == PointerSpec => []Hovered
<1>1. PInv => Hovered  BY DEF PInv, Fine, Hovered, Over
<1> QED BY <1>1, PointerInvariant, PTL
=============================================================================
