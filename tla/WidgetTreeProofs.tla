-------------------------- MODULE WidgetTreeProofs --------------------------
(***************************************************************************)
(* The widget tree, for any number of widgets, clients and scrollboxes,    *)
(* and wherever clients attach them: the where of a widget and what leads  *)
(* to its node agree at every step of every removal, and the nodes are     *)
(* those of the widgets that there are.                                    *)
(*                                                                         *)
(* Inv, the inductive invariant, is about pairs of a pointer and what it   *)
(* leads to. No path is followed, and so it holds of widgets that are      *)
(* inside themselves and of those in rings, which are reached from         *)
(* nowhere. What a pointer may lead to at all depends on where it is       *)
(* (Fits): a client's widgets and the parts of a scrollbox never mix.      *)
(*                                                                         *)
(* widget_attach is two changes, one after the other: the widget leaves    *)
(* its place (Loosened) and takes another (PutIn); a widget put next to    *)
(* itself is no special case of the second.                                *)
(***************************************************************************)
EXTENDS WidgetTree, SequenceTheorems, TLAPS

-----------------------------------------------------------------------------
(* Nodes and pointers are told apart by their widgets and names.           *)
LEMMA NodeFacts ==
  /\ \A w \in AnyWidget : In(w) \in Node /\ Out(w) \in Pointer /\ owner(In(w)) = w
  /\ \A s \in Scrollbox : Interior(s) \in Node /\ owner(Interior(s)) = s
  /\ \A v, w \in AnyWidget : In(v) = In(w) => v = w
  /\ \A v, w \in AnyWidget : Out(v) = Out(w) => v = w
  /\ \A w \in AnyWidget, s \in Scrollbox : In(w) # Interior(s)
  /\ \A n \in Node : n = HeadNode \/ (\E w \in AnyWidget : n = In(w))
                       \/ (\E s \in Scrollbox : n = Interior(s))
  /\ HeadNode \in Node /\ owner(HeadNode) = Screen /\ Top \in Pointer
  /\ \A w \in AnyWidget : In(w) # HeadNode
  /\ None \notin Node /\ None \notin Pointer /\ None \notin AnyWidget /\ Screen \notin AnyWidget
<1>1. Screen \notin AnyWidget /\ None \notin AnyWidget
  BY WidgetTreeAssumption DEF WidgetTreeAssumption
<1>2. None \notin Node /\ None \notin Pointer  BY NodeAssumption DEF NodeAssumption
<1>3. \A w \in AnyWidget : In(w) \in Node /\ owner(In(w)) = w /\ In(w) # HeadNode
  BY <1>1 DEF Node, In, owner, HeadNode
<1>4. \A s \in Scrollbox : Interior(s) \in Node /\ owner(Interior(s)) = s
  BY DEF Node, Interior, owner
<1>5. \A w \in AnyWidget : Out(w) \in Pointer  BY <1>3 DEF Out, Pointer
<1>6. HeadNode \in Node /\ owner(HeadNode) = Screen /\ Top \in Pointer
  BY DEF HeadNode, Node, owner, Top, Pointer
<1>7. \A v, w \in AnyWidget : (In(v) = In(w) => v = w) /\ (Out(v) = Out(w) => v = w)
  BY DEF In, Out
<1>8. \A w \in AnyWidget, s \in Scrollbox : In(w) # Interior(s)  BY DEF In, Interior
<1>9. \A n \in Node : n = HeadNode \/ (\E w \in AnyWidget : n = In(w))
                       \/ (\E s \in Scrollbox : n = Interior(s))
  BY DEF Node
<1> QED BY <1>1, <1>2, <1>3, <1>4, <1>5, <1>6, <1>7, <1>8, <1>9

LEMMA KindFacts ==
  /\ Widget \subseteq AnyWidget /\ Part \subseteq AnyWidget /\ Widget \intersect Part = {}
  /\ AnyWidget = Widget \union Part
  /\ Widget = Box \union Scrollbox \union Leaf /\ Root \subseteq Box
  /\ Box \intersect Scrollbox = {} /\ Leaf \intersect (Box \union Scrollbox) = {}
  /\ \A s \in Scrollbox, k \in {"scrollh", "scrollv", "box"} : <<s, k>> \in Part
  /\ \A x \in Part : \E s \in Scrollbox, k \in {"scrollh", "scrollv", "box"} : x = <<s, k>>
BY WidgetTreeAssumption, NodeAssumption
   DEF WidgetTreeAssumption, NodeAssumption, AnyWidget, Widget, Part

(* The widgets of clients that children go in. *)
Holder == Box \union Scrollbox

LEMMA SubFacts ==
  /\ \A v \in Leaf : Sub(v) = None
  /\ \A s \in Scrollbox : Sub(s) = <<Interior(s), "div">>
  /\ \A b \in Box : Sub(b) = <<In(b), "div">>
  /\ \A s \in Scrollbox : Sub(<<s, "box">>) = <<In(<<s, "box">>), "div">>
  /\ \A s \in Scrollbox : Sub(<<s, "scrollh">>) = None /\ Sub(<<s, "scrollv">>) = None
<1>1. ASSUME NEW s \in Scrollbox PROVE s \notin Box /\ s \notin Leaf /\ s \notin Part
  BY KindFacts
<1>2. ASSUME NEW b \in Box PROVE b \notin Scrollbox /\ b \notin Leaf /\ b \notin Part
  BY KindFacts
<1>3. ASSUME NEW v \in Leaf PROVE v \notin Scrollbox /\ v \notin Box /\ v \notin Part
  BY KindFacts
<1>4. ASSUME NEW s \in Scrollbox, NEW k \in {"scrollh", "scrollv", "box"}
      PROVE  /\ <<s, k>> \in Part /\ <<s, k>> \notin Scrollbox /\ <<s, k>> \notin Box
             /\ <<s, k>> \notin Leaf
  BY KindFacts
<1>5. ASSUME NEW s \in Scrollbox PROVE Sub(s) = <<Interior(s), "div">>  BY <1>1 DEF Sub
<1>6. ASSUME NEW b \in Box PROVE Sub(b) = <<In(b), "div">>  BY <1>2 DEF Sub
<1>7. ASSUME NEW v \in Leaf PROVE Sub(v) = None  BY <1>3 DEF Sub
<1>8. ASSUME NEW s \in Scrollbox, NEW k \in {"scrollh", "scrollv", "box"}
      PROVE  Sub(<<s, k>>) = IF k = "box" THEN <<In(<<s, k>>), "div">> ELSE None
  BY <1>4 DEF Sub
<1> QED BY <1>5, <1>6, <1>7, <1>8

-----------------------------------------------------------------------------
(* Links and wheres agree, of the widgets ws.                              *)
Typed(l, wh) ==
  l \in [Pointer -> Node \union {None}] /\ wh \in [AnyWidget -> Pointer \union {None}]

Agree(l, wh, ws) ==
  /\ \A w \in AnyWidget : wh[w] # None => l[wh[w]] = In(w)
  /\ \A w \in AnyWidget, p \in Pointer : l[p] = In(w) => wh[w] = p
  /\ \A p \in Pointer : l[p] # None =>
       /\ l[p] # HeadNode /\ owner(l[p]) \in ws
       /\ owner(p[1]) \in ws \union {Screen}

Linkage(l, wh, ws) ==
  Typed(l, wh) /\ ws \subseteq AnyWidget /\ Agree(l, wh, ws)

(* A widget leaves its place ...                                           *)
LooseLink(l, wh, w) ==
  [q \in Pointer |-> IF q = Out(w) THEN None ELSE IF q = wh[w] THEN l[Out(w)] ELSE l[q]]
LooseWhere(l, wh, w) ==
  [x \in AnyWidget |-> IF x = w THEN None ELSE IF l[Out(w)] = In(x) THEN wh[w] ELSE wh[x]]

LEMMA Loosened ==
  ASSUME NEW l, NEW wh, NEW ws, Linkage(l, wh, ws), NEW w \in AnyWidget
  PROVE  Linkage(LooseLink(l, wh, w), LooseWhere(l, wh, w), ws)
<1> DEFINE l2 == LooseLink(l, wh, w)
           wh2 == LooseWhere(l, wh, w)
<1>1. Typed(l, wh) /\ Agree(l, wh, ws) /\ ws \subseteq AnyWidget  BY DEF Linkage
<1>2. /\ Out(w) \in Pointer /\ None \notin Pointer /\ None \notin Node
      /\ \A x \in AnyWidget : In(x) \in Node /\ Out(x) \in Pointer
      /\ \A x, y \in AnyWidget : In(x) = In(y) => x = y
      /\ \A x, y \in AnyWidget : Out(x) = Out(y) => x = y
  BY NodeFacts
<1>3. \A q \in Pointer : l2[q] = IF q = Out(w) THEN None ELSE IF q = wh[w] THEN l[Out(w)] ELSE l[q]
  BY DEF LooseLink
<1>4. \A x \in AnyWidget :
        wh2[x] = IF x = w THEN None ELSE IF l[Out(w)] = In(x) THEN wh[w] ELSE wh[x]
  BY DEF LooseWhere
<1>5. Typed(l2, wh2)
  <2>1. \A q \in Pointer : l2[q] \in Node \union {None}  BY <1>1, <1>2, <1>3 DEF Typed
  <2>2. \A x \in AnyWidget : wh2[x] \in Pointer \union {None}  BY <1>1, <1>2, <1>4 DEF Typed
  <2> QED BY <2>1, <2>2 DEF Typed, LooseLink, LooseWhere
<1> HIDE DEF l2, wh2
<1>6. ASSUME NEW x \in AnyWidget, wh2[x] # None PROVE l2[wh2[x]] = In(x)
  <2>1. x # w  BY <1>4, <1>6
  <2>2. CASE l[Out(w)] = In(x)
    <3>1. wh2[x] = wh[w] /\ wh[w] \in Pointer /\ l[wh[w]] = In(w)
      BY <1>1, <1>4, <1>6, <2>1, <2>2 DEF Typed, Agree
    <3>2. wh[w] # Out(w)  BY <1>2, <2>1, <2>2, <3>1
    <3> QED BY <1>3, <2>2, <3>1, <3>2
  <2>3. CASE l[Out(w)] # In(x)
    <3>1. wh2[x] = wh[x] /\ wh[x] \in Pointer /\ l[wh[x]] = In(x)
      BY <1>1, <1>4, <1>6, <2>1, <2>3 DEF Typed, Agree
    <3>2. wh[x] # Out(w)  BY <2>3, <3>1
    <3>3. wh[x] # wh[w]
      <4>1. wh[w] = wh[x] => l[wh[x]] = In(w)  BY <1>1, <1>6, <3>1 DEF Agree
      <4> QED BY <1>2, <2>1, <3>1, <4>1
    <3> QED BY <1>3, <3>1, <3>2, <3>3
  <2> QED BY <2>2, <2>3
<1>7. ASSUME NEW x \in AnyWidget, NEW q \in Pointer, l2[q] = In(x) PROVE wh2[x] = q
  <2>1. q # Out(w)  BY <1>2, <1>3, <1>7
  <2>2. CASE q = wh[w]
    <3>1. l[Out(w)] = In(x)  BY <1>3, <1>7, <2>1, <2>2
    <3>2. x # w
      <4>1. l[Out(w)] = In(w) => wh[w] = Out(w)  BY <1>1, <1>2 DEF Agree
      <4> QED BY <2>1, <2>2, <3>1, <4>1
    <3> QED BY <1>4, <2>2, <3>1, <3>2
  <2>3. CASE q # wh[w]
    <3>1. l[q] = In(x)  BY <1>3, <1>7, <2>1, <2>3
    <3>2. wh[x] = q  BY <1>1, <3>1 DEF Agree
    <3>3. x # w /\ l[Out(w)] # In(x)
      <4>1. l[Out(w)] = In(x) => wh[x] = Out(w)  BY <1>1, <1>2 DEF Agree
      <4> QED BY <2>1, <2>3, <3>2, <4>1
    <3> QED BY <1>4, <3>2, <3>3
  <2> QED BY <2>2, <2>3
<1>8. ASSUME NEW q \in Pointer, l2[q] # None
      PROVE  l2[q] # HeadNode /\ owner(l2[q]) \in ws /\ owner(q[1]) \in ws \union {Screen}
  <2>1. q # Out(w)  BY <1>3, <1>8
  <2>2. CASE q = wh[w]
    <3>1. l2[q] = l[Out(w)]  BY <1>3, <2>1, <2>2
    <3>2. l2[q] # HeadNode /\ owner(l2[q]) \in ws  BY <1>1, <1>2, <1>8, <3>1 DEF Agree
    <3>3. l[q] = In(w)  BY <1>1, <1>2, <2>2 DEF Agree
    <3>4. owner(q[1]) \in ws \union {Screen}  BY <1>1, <1>2, <3>3 DEF Agree
    <3> QED BY <3>2, <3>4
  <2>3. CASE q # wh[w]
    <3>1. l2[q] = l[q]  BY <1>3, <2>1, <2>3
    <3> QED BY <1>1, <1>8, <3>1 DEF Agree
  <2> QED BY <2>2, <2>3
<1>9. Agree(l2, wh2, ws)  BY <1>6, <1>7, <1>8 DEF Agree
<1> QED BY <1>1, <1>5, <1>9 DEF Linkage, l2, wh2

(* ... and takes another.                                                  *)
PutLink(l, w, p) ==
  [q \in Pointer |-> IF q = p THEN In(w) ELSE IF q = Out(w) THEN l[p] ELSE l[q]]
PutWhere(l, wh, w, p) ==
  [x \in AnyWidget |-> IF x = w THEN p ELSE IF l[p] = In(x) THEN Out(w) ELSE wh[x]]

LEMMA PutIn ==
  ASSUME NEW l, NEW wh, NEW ws, Linkage(l, wh, ws), NEW w \in ws, NEW p \in Pointer,
         wh[w] = None, l[Out(w)] = None, owner(p[1]) \in ws \union {Screen}
  PROVE  Linkage(PutLink(l, w, p), PutWhere(l, wh, w, p), ws)
<1> DEFINE l2 == PutLink(l, w, p)
           wh2 == PutWhere(l, wh, w, p)
<1>1. Typed(l, wh) /\ Agree(l, wh, ws) /\ ws \subseteq AnyWidget /\ w \in AnyWidget
  BY DEF Linkage
<1>2. /\ Out(w) \in Pointer /\ None \notin Pointer /\ None \notin Node /\ None # In(w)
      /\ \A x \in AnyWidget : In(x) \in Node /\ Out(x) \in Pointer /\ owner(In(x)) = x
                              /\ In(x) # HeadNode
      /\ \A x, y \in AnyWidget : In(x) = In(y) => x = y
      /\ \A x, y \in AnyWidget : Out(x) = Out(y) => x = y
  BY <1>1, NodeFacts
<1>3. \A q \in Pointer : l2[q] = IF q = p THEN In(w) ELSE IF q = Out(w) THEN l[p] ELSE l[q]
  BY DEF PutLink
<1>4. \A x \in AnyWidget :
        wh2[x] = IF x = w THEN p ELSE IF l[p] = In(x) THEN Out(w) ELSE wh[x]
  BY DEF PutWhere
<1>5. Typed(l2, wh2)
  <2>1. \A q \in Pointer : l2[q] \in Node \union {None}  BY <1>1, <1>2, <1>3 DEF Typed
  <2>2. \A x \in AnyWidget : wh2[x] \in Pointer \union {None}  BY <1>1, <1>2, <1>4 DEF Typed
  <2> QED BY <2>1, <2>2 DEF Typed, PutLink, PutWhere
<1> HIDE DEF l2, wh2
<1>6. ASSUME NEW x \in AnyWidget, wh2[x] # None PROVE l2[wh2[x]] = In(x)
  <2>1. CASE x = w  BY <1>3, <1>4, <2>1
  <2>2. CASE x # w /\ l[p] = In(x)  BY <1>2, <1>3, <1>4, <2>2
  <2>3. CASE x # w /\ l[p] # In(x)
    <3>1. wh2[x] = wh[x] /\ wh[x] \in Pointer /\ l[wh[x]] = In(x)
      BY <1>1, <1>4, <1>6, <2>3 DEF Typed, Agree
    <3>2. wh[x] # p /\ wh[x] # Out(w)  BY <1>2, <2>3, <3>1
    <3> QED BY <1>3, <3>1, <3>2
  <2> QED BY <2>1, <2>2, <2>3
<1>7. ASSUME NEW x \in AnyWidget, NEW q \in Pointer, l2[q] = In(x) PROVE wh2[x] = q
  <2>1. CASE q = p  BY <1>1, <1>2, <1>3, <1>4, <1>7, <2>1
  <2>2. CASE q # p /\ q = Out(w)
    <3>1. l[p] = In(x)  BY <1>3, <1>7, <2>2
    <3>2. x # w
      <4>1. l[p] = In(w) => wh[w] = p  BY <1>1 DEF Agree
      <4> QED BY <1>2, <3>1, <4>1
    <3> QED BY <1>4, <2>2, <3>1, <3>2
  <2>3. CASE q # p /\ q # Out(w)
    <3>1. l[q] = In(x)  BY <1>3, <1>7, <2>3
    <3>2. wh[x] = q  BY <1>1, <3>1 DEF Agree
    <3>3. x # w  BY <1>2, <3>2
    <3>4. l[p] # In(x)
      <4>1. l[p] = In(x) => wh[x] = p  BY <1>1 DEF Agree
      <4> QED BY <2>3, <3>2, <4>1
    <3> QED BY <1>4, <3>2, <3>3, <3>4
  <2> QED BY <2>1, <2>2, <2>3
<1>8. ASSUME NEW q \in Pointer, l2[q] # None
      PROVE  l2[q] # HeadNode /\ owner(l2[q]) \in ws /\ owner(q[1]) \in ws \union {Screen}
  <2>1. CASE q = p  BY <1>1, <1>2, <1>3, <2>1
  <2>2. CASE q # p /\ q = Out(w)
    <3>1. l2[q] = l[p]  BY <1>3, <2>2
    <3>2. owner(q[1]) = w  BY <1>1, <1>2, <2>2 DEF Out
    <3> QED BY <1>1, <1>8, <3>1, <3>2 DEF Agree
  <2>3. CASE q # p /\ q # Out(w)
    <3>1. l2[q] = l[q]  BY <1>3, <2>3
    <3> QED BY <1>1, <1>8, <3>1 DEF Agree
  <2> QED BY <2>1, <2>2, <2>3
<1>9. Agree(l2, wh2, ws)  BY <1>6, <1>7, <1>8 DEF Agree
<1> QED BY <1>1, <1>5, <1>9 DEF Linkage, l2, wh2

-----------------------------------------------------------------------------
(* The record of the tree, and widget_attach in terms of it.               *)
IsTree(t) ==
  t = [link |-> t.link, where |-> t.where, shown |-> t.shown, container |-> t.container]

LEMMA SetContainer ==
  ASSUME NEW t, IsTree(t), NEW w, NEW onscreen, NEW cont
  PROVE  /\ IsTree(r_widget_setcontainer(t, w, onscreen, cont))
         /\ r_widget_setcontainer(t, w, onscreen, cont).link = t.link
         /\ r_widget_setcontainer(t, w, onscreen, cont).where = t.where
<1> DEFINE inside == {owner(n) : n \in Below(t.link, Sub(w))}
           sh == [x \in AnyWidget |-> IF x \in inside \union {w} THEN onscreen ELSE t.shown[x]]
           co == [x \in AnyWidget |->
                    IF x = w \/ (x \in inside /\ t.container[x] = t.container[w])
                    THEN cont ELSE t.container[x]]
           u == r_widget_setcontainer(t, w, onscreen, cont)
<1>1. u = [t EXCEPT !.shown = sh, !.container = co]  BY DEF r_widget_setcontainer
<1> HIDE DEF u, sh, co
<1>2. u = [link |-> t.link, where |-> t.where, shown |-> sh, container |-> co]
  BY <1>1 DEF IsTree
<1>3. IsTree(u) /\ u.link = t.link /\ u.where = t.where  BY <1>2 DEF IsTree
<1> QED BY <1>3 DEF u

LEMMA DetachedIs ==
  ASSUME NEW t, IsTree(t), NEW ws, Linkage(t.link, t.where, ws), NEW w \in AnyWidget
  PROVE  /\ IsTree(Detached(t, w))
         /\ Detached(t, w).link = LooseLink(t.link, t.where, w)
         /\ Detached(t, w).where \in [AnyWidget -> Pointer \union {None}]
         /\ \A x \in AnyWidget : x # w =>
              Detached(t, w).where[x] = LooseWhere(t.link, t.where, w)[x]
<1> DEFINE l == t.link
           wh == t.where
           a == wh[w]
           next == l[Out(w)]
           t1 == IF a = None THEN t ELSE [t EXCEPT !.link[a] = next]
           t2 == IF IsIn(next) THEN [t1 EXCEPT !.where[owner(next)] = a] ELSE t1
           u == Detached(t, w)
<1>1. u = [t2 EXCEPT !.link[Out(w)] = None]  BY DEF Detached
<1>2. /\ l \in [Pointer -> Node \union {None}] /\ wh \in [AnyWidget -> Pointer \union {None}]
      /\ a \in Pointer \union {None} /\ Out(w) \in Pointer /\ None \notin Pointer
      /\ next \in Node \union {None}
  BY NodeFacts DEF Linkage, Typed
<1>3. /\ IsIn(next) <=> \E x \in AnyWidget : next = In(x)
      /\ IsIn(next) => owner(next) \in AnyWidget /\ next = In(owner(next))
  <2>1. ASSUME IsIn(next) PROVE next = In(owner(next)) /\ next \in Node  BY <1>2, <2>1 DEF IsIn
  <2>2. ASSUME IsIn(next) PROVE owner(next) \in AnyWidget
    <3>1. next = In(owner(next)) /\ next \in Node /\ next # HeadNode
      BY <1>2, <2>1, <2>2 DEF Linkage, Agree, IsIn
    <3>2. CASE \E x \in AnyWidget : next = In(x)  BY <3>2, NodeFacts
    <3>3. CASE \E s \in Scrollbox : next = Interior(s)
      <4>1. \A s \in Scrollbox : owner(Interior(s)) = s /\ s \in AnyWidget  BY NodeFacts, KindFacts
      <4> QED BY <3>3, <4>1
    <3> QED BY <3>1, <3>2, <3>3, NodeFacts
  <2>3. ASSUME NEW x \in AnyWidget, next = In(x) PROVE IsIn(next)
    <3>1. owner(In(x)) = x /\ In(x) # None  BY NodeFacts
    <3> QED BY <2>3, <3>1 DEF IsIn
  <2> QED BY <2>1, <2>2, <2>3
<1> HIDE DEF a, next
<1>4. t1 = [link |-> IF a = None THEN l ELSE [l EXCEPT ![a] = next], where |-> wh,
            shown |-> t.shown, container |-> t.container]
  BY DEF IsTree
<1> DEFINE l1 == IF a = None THEN l ELSE [l EXCEPT ![a] = next]
           wh2 == IF IsIn(next) THEN [wh EXCEPT ![owner(next)] = a] ELSE wh
<1> HIDE DEF t1
<1>5. t2 = [link |-> l1, where |-> wh2, shown |-> t.shown, container |-> t.container]
  BY <1>4
<1> HIDE DEF t2, u
<1>6. u = [link |-> [l1 EXCEPT ![Out(w)] = None], where |-> wh2, shown |-> t.shown,
           container |-> t.container]
  BY <1>1, <1>5
<1>7. IsTree(u)  BY <1>6 DEF IsTree
<1>8. u.link = LooseLink(l, wh, w)
  <2>1. u.link = [l1 EXCEPT ![Out(w)] = None]  BY <1>6
  <2>2. l1 \in [Pointer -> Node \union {None}] /\ \A q \in Pointer : l1[q] = IF q = a THEN next ELSE l[q]
    BY <1>2
  <2> HIDE DEF l1
  <2>3. LooseLink(l, wh, w) = [q \in Pointer |-> IF q = Out(w) THEN None ELSE IF q = a THEN next ELSE l[q]]
    BY DEF LooseLink, a, next
  <2> QED BY <1>2, <2>1, <2>2, <2>3
<1>9. u.where = wh2  BY <1>6
<1>10. wh2 \in [AnyWidget -> Pointer \union {None}]
       /\ \A x \in AnyWidget : wh2[x] = IF next = In(x) THEN a ELSE wh[x]
  <2>1. CASE IsIn(next)
    <3>1. owner(next) \in AnyWidget /\ next = In(owner(next))  BY <1>3, <2>1
    <3>2. \A x \in AnyWidget : x = owner(next) <=> next = In(x)  BY <3>1, NodeFacts
    <3>3. wh2 = [wh EXCEPT ![owner(next)] = a]  BY <2>1
    <3> HIDE DEF wh2, wh
    <3> QED BY <1>2, <3>1, <3>2, <3>3
  <2>2. CASE ~IsIn(next)  BY <1>2, <1>3, <2>2
  <2> QED BY <2>1, <2>2
<1>11. \A x \in AnyWidget : x # w =>
          LooseWhere(l, wh, w)[x] = IF next = In(x) THEN a ELSE wh[x]
  BY DEF LooseWhere, a, next
<1> QED BY <1>7, <1>8, <1>9, <1>10, <1>11 DEF u

LEMMA DetachIs ==
  ASSUME NEW t, IsTree(t), NEW ws, Linkage(t.link, t.where, ws), NEW w \in AnyWidget,
         NEW onscreen, NEW cont
  PROVE  /\ IsTree(widget_attach(t, w, onscreen, None, cont))
         /\ widget_attach(t, w, onscreen, None, cont).link = LooseLink(t.link, t.where, w)
         /\ widget_attach(t, w, onscreen, None, cont).where = LooseWhere(t.link, t.where, w)
<1> DEFINE t1 == r_widget_setcontainer(t, w, onscreen, cont)
           t2 == Detached(t1, w)
           u == widget_attach(t, w, onscreen, None, cont)
<1>1. u = [t2 EXCEPT !.where[w] = None]  BY DEF widget_attach
<1>2. IsTree(t1) /\ t1.link = t.link /\ t1.where = t.where  BY SetContainer
<1> HIDE DEF t1
<1>3. /\ IsTree(t2) /\ t2.link = LooseLink(t.link, t.where, w)
      /\ t2.where \in [AnyWidget -> Pointer \union {None}]
      /\ \A x \in AnyWidget : x # w => t2.where[x] = LooseWhere(t.link, t.where, w)[x]
  BY <1>2, DetachedIs
<1> HIDE DEF t2, u
<1>4. u = [link |-> t2.link, where |-> [t2.where EXCEPT ![w] = None], shown |-> t2.shown,
           container |-> t2.container]
  BY <1>1, <1>3 DEF IsTree
<1>5. [t2.where EXCEPT ![w] = None] = LooseWhere(t.link, t.where, w)
  <2> DEFINE v == LooseWhere(t.link, t.where, w)
             e == [t2.where EXCEPT ![w] = None]
  <2>1. v[w] = None /\ v = [x \in AnyWidget |-> v[x]]  BY DEF LooseWhere
  <2>2. e = [x \in AnyWidget |-> IF x = w THEN None ELSE t2.where[x]]  BY <1>3
  <2>3. \A x \in AnyWidget : x # w => t2.where[x] = v[x]  BY <1>3
  <2> HIDE DEF v, e
  <2>4. \A x \in AnyWidget : e[x] = v[x]  BY <2>1, <2>2, <2>3
  <2>5. e = v  BY <2>1, <2>2, <2>4
  <2> QED BY <2>5 DEF v, e
<1>6. IsTree(u) /\ u.link = t2.link /\ u.where = [t2.where EXCEPT ![w] = None]
  BY <1>4 DEF IsTree
<1> QED BY <1>3, <1>5, <1>6 DEF u

LEMMA AttachIs ==
  ASSUME NEW t, IsTree(t), NEW ws, Linkage(t.link, t.where, ws), NEW w \in AnyWidget,
         NEW onscreen, NEW cont, NEW p \in Pointer,
         LooseLink(t.link, t.where, w)[p] = None
           \/ \E x \in AnyWidget : LooseLink(t.link, t.where, w)[p] = In(x)
  PROVE  /\ IsTree(widget_attach(t, w, onscreen, p, cont))
         /\ widget_attach(t, w, onscreen, p, cont).link
              = PutLink(LooseLink(t.link, t.where, w), w, p)
         /\ widget_attach(t, w, onscreen, p, cont).where
              = PutWhere(LooseLink(t.link, t.where, w), LooseWhere(t.link, t.where, w), w, p)
<1> DEFINE t1 == r_widget_setcontainer(t, w, onscreen, cont)
           t2 == Detached(t1, w)
           u == widget_attach(t, w, onscreen, p, cont)
           l == LooseLink(t.link, t.where, w)
           wh == LooseWhere(t.link, t.where, w)
           next == l[p]
           l3 == [t2.link EXCEPT ![Out(w)] = next, ![p] = In(w)]
           wh3 == [t2.where EXCEPT ![w] = p]
           wh4 == IF next = None THEN wh3 ELSE [wh3 EXCEPT ![owner(next)] = Out(w)]
<1>1. u = Attached(t2, w, p)
  <2>1. p # None  BY NodeFacts
  <2> QED BY <2>1 DEF widget_attach
<1>2. IsTree(t1) /\ t1.link = t.link /\ t1.where = t.where  BY SetContainer
<1> HIDE DEF t1
<1>3. /\ IsTree(t2) /\ t2.link = l
      /\ t2.where \in [AnyWidget -> Pointer \union {None}]
      /\ \A x \in AnyWidget : x # w => t2.where[x] = wh[x]
  BY <1>2, DetachedIs
<1>4. Linkage(l, wh, ws)  BY Loosened
<1>5. /\ l \in [Pointer -> Node \union {None}] /\ wh \in [AnyWidget -> Pointer \union {None}]
      /\ Out(w) \in Pointer
  BY <1>4, NodeFacts DEF Linkage, Typed
<1>6. next # None => owner(next) \in AnyWidget /\ next = In(owner(next))
  BY NodeFacts
<1> HIDE DEF t2, l, wh, u
<1>7. \/ next = None /\ u = [link |-> l3, where |-> wh3, shown |-> t2.shown, container |-> t2.container]
      \/ next # None /\ u = [link |-> l3, where |-> [wh3 EXCEPT ![owner(next)] = Out(w)],
                             shown |-> t2.shown, container |-> t2.container]
  <2> DEFINE t3 == [t2 EXCEPT !.link = [@ EXCEPT ![Out(w)] = t2.link[p], ![p] = In(w)], !.where[w] = p]
  <2>1. u = IF t3.link[Out(w)] = None THEN t3
            ELSE [t3 EXCEPT !.where[owner(t3.link[Out(w)])] = Out(w)]
    BY <1>1 DEF Attached
  <2>2. t3 = [link |-> l3, where |-> wh3, shown |-> t2.shown, container |-> t2.container]
    <3>1. t3 = [t2 EXCEPT !.link = l3, !.where = wh3]
      <4>1. t2.link[p] = next  BY <1>3
      <4> HIDE DEF next
      <4> QED BY <4>1
    <3> HIDE DEF l3, wh3, t3
    <3> QED BY <1>3, <3>1 DEF IsTree
  <2> HIDE DEF t3
  <2>3. t3.link[Out(w)] = next  BY <1>3, <1>5, <2>2
  <2> HIDE DEF next, l3, wh3
  <2> QED BY <2>1, <2>2, <2>3
<1>8. u.link = l3 /\ u.where = wh4 /\ IsTree(u)
  <2> HIDE DEF next, l3, wh3
  <2> QED BY <1>7 DEF IsTree
<1>9. l3 = PutLink(l, w, p)  BY <1>3, <1>5 DEF PutLink
<1>10. wh4 = PutWhere(l, wh, w, p)
  <2>1. wh3 \in [AnyWidget -> Pointer \union {None}]
        /\ \A x \in AnyWidget : wh3[x] = IF x = w THEN p ELSE wh[x]
    BY <1>3
  <2>2. next # In(w)
    <3>1. next = In(w) => wh[w] = p  BY <1>4 DEF Linkage, Agree
    <3>2. wh[w] = None /\ p # None  BY NodeFacts DEF wh, LooseWhere
    <3> QED BY <3>1, <3>2
  <2>3. \A x \in AnyWidget : next # None => (x = owner(next) <=> next = In(x))
    BY <1>6, NodeFacts
  <2>4. \A x \in AnyWidget : next = None => next # In(x)  BY NodeFacts
  <2> HIDE DEF wh3, next
  <2>5. wh4 \in [AnyWidget -> Pointer \union {None}]
        /\ \A x \in AnyWidget : wh4[x] = IF next = In(x) THEN Out(w) ELSE wh3[x]
    <3>1. CASE next = None  BY <2>1, <2>4, <3>1
    <3>2. CASE next # None  BY <1>5, <1>6, <2>1, <2>3, <3>2
    <3> QED BY <3>1, <3>2
  <2>6. PutWhere(l, wh, w, p) =
          [x \in AnyWidget |-> IF x = w THEN p ELSE IF next = In(x) THEN Out(w) ELSE wh[x]]
    BY DEF PutWhere, next
  <2> HIDE DEF wh4
  <2>7. \A x \in AnyWidget : wh4[x] = IF x = w THEN p ELSE IF next = In(x) THEN Out(w) ELSE wh[x]
    BY <2>1, <2>2, <2>5
  <2> QED BY <2>5, <2>6, <2>7
<1> QED BY <1>8, <1>9, <1>10 DEF u, l, wh

-----------------------------------------------------------------------------
(* What may hang where: the widgets of clients from the screen and from    *)
(* each other, the parts of a scrollbox and its interior from the div of   *)
(* the scrollbox and the nexts of its bars, and the interior in its box.   *)
Kind == {"scrollh", "scrollv", "box"}

ClientPlace == {Top} \union {Out(w) : w \in Widget} \union {Sub(w) : w \in Holder}
PartPlace(s) == {<<In(s), "div">>, Out(<<s, "scrollh">>), Out(<<s, "scrollv">>)}
BoxSub(s) == <<In(<<s, "box">>), "div">>

Fits(q, n) ==
  \/ q \in ClientPlace /\ \E w \in Widget : n = In(w)
  \/ \E s \in Scrollbox :
       \/ q \in PartPlace(s) /\ \E k \in Kind : n = In(<<s, k>>)
       \/ q \in PartPlace(s) \union {BoxSub(s)} /\ n = Interior(s)

Home(l) == \A q \in Pointer : l[q] # None => Fits(q, l[q])

LEMMA PartFacts ==
  ASSUME NEW s \in Scrollbox
  PROVE  /\ s \in Widget /\ s \in AnyWidget /\ s \notin Part /\ s \notin Box
         /\ \A k \in Kind : <<s, k>> \in Part /\ <<s, k>> \in AnyWidget /\ <<s, k>> \notin Widget
         /\ Interior(s) \in Node /\ In(s) \in Node
         /\ \A k \in Kind : In(<<s, k>>) \in Node
         /\ BoxSub(s) = Sub(<<s, "box">>)
BY KindFacts, NodeFacts, SubFacts DEF Kind, BoxSub

LEMMA PlaceTypes ==
  /\ ClientPlace \subseteq Pointer
  /\ \A s \in Scrollbox : PartPlace(s) \subseteq Pointer /\ BoxSub(s) \in Pointer
  /\ \A w \in Widget : Out(w) \in ClientPlace
  /\ \A w \in Holder : Sub(w) \in ClientPlace /\ Sub(w) # None /\ w \in Widget
<1>1. ASSUME NEW w \in Holder PROVE Sub(w) \in Pointer /\ w \in Widget
  <2>1. CASE w \in Box
    <3>1. In(w) \in Node /\ Sub(w) = <<In(w), "div">> /\ w \in Widget
      BY <2>1, NodeFacts, KindFacts, SubFacts
    <3> QED BY <3>1 DEF Pointer
  <2>2. CASE w \in Scrollbox
    <3>1. Interior(w) \in Node /\ Sub(w) = <<Interior(w), "div">> /\ w \in Widget
      BY <2>2, NodeFacts, KindFacts, SubFacts
    <3> QED BY <3>1 DEF Pointer
  <2> QED BY <2>1, <2>2 DEF Holder
<1>2. /\ Top \in Pointer /\ None \notin Pointer
      /\ \A w \in Widget : Out(w) \in Pointer
  BY NodeFacts, KindFacts
<1>3. ASSUME NEW s \in Scrollbox PROVE PartPlace(s) \subseteq Pointer /\ BoxSub(s) \in Pointer
  <2>1. /\ In(s) \in Node /\ In(<<s, "box">>) \in Node
        /\ Out(<<s, "scrollh">>) \in Pointer /\ Out(<<s, "scrollv">>) \in Pointer
    BY PartFacts, NodeFacts DEF Kind
  <2> QED BY <2>1 DEF PartPlace, BoxSub, Pointer
<1>4. ClientPlace \subseteq Pointer  BY <1>1, <1>2 DEF ClientPlace
<1>5. /\ \A w \in Widget : Out(w) \in ClientPlace
      /\ \A w \in Holder : Sub(w) \in ClientPlace /\ Sub(w) # None /\ w \in Widget
  BY <1>1, <1>2 DEF ClientPlace
<1> QED BY <1>3, <1>4, <1>5

(* The places of one kind are not those of another.                        *)
LEMMA PlacesApart ==
  ASSUME NEW s \in Scrollbox
  PROVE  /\ PartPlace(s) \intersect ClientPlace = {} /\ BoxSub(s) \notin ClientPlace
         /\ \A r \in Scrollbox :
              /\ BoxSub(s) \notin PartPlace(r)
              /\ BoxSub(s) = BoxSub(r) => r = s
              /\ r # s => PartPlace(s) \intersect PartPlace(r) = {}
<1> USE DEF Kind
<1>1. \A r \in Scrollbox : r # Screen /\ r \notin Part /\ r \notin Box
  BY KindFacts, NodeFacts
<1>2. ASSUME NEW r \in Scrollbox, NEW k \in Kind
      PROVE  <<r, k>> # Screen /\ <<r, k>> \notin Widget
  <2>1. <<r, k>> \in AnyWidget /\ <<r, k>> \notin Widget  BY PartFacts
  <2> QED BY <2>1, NodeFacts
<1>3. \A q \in ClientPlace :
        \/ q = <<<<Screen, "in">>, "next">>
        \/ \E w \in Widget : q = <<<<w, "in">>, "next">>
        \/ \E b \in Box : q = <<<<b, "in">>, "div">>
        \/ \E r \in Scrollbox : q = <<<<r, "interior">>, "div">>
  <2>1. \A w \in Holder : w \in Box \/ w \in Scrollbox  BY DEF Holder
  <2> QED BY <2>1, SubFacts DEF ClientPlace, Top, HeadNode, Out, In, Interior
<1>4. \A r \in Scrollbox : \A q \in PartPlace(r) :
        \/ q = <<<<r, "in">>, "div">>
        \/ q = <<<<<<r, "scrollh">>, "in">>, "next">>
        \/ q = <<<<<<r, "scrollv">>, "in">>, "next">>
  BY DEF PartPlace, In, Out
<1>5. \A r \in Scrollbox : BoxSub(r) = <<<<<<r, "box">>, "in">>, "div">>
  BY DEF BoxSub, In
<1>6. ASSUME NEW q \in PartPlace(s) PROVE q \notin ClientPlace
  BY <1>1, <1>2, <1>3, <1>4
<1>7. BoxSub(s) \notin ClientPlace
  <2>1. \A b \in Box : b \in Widget  BY KindFacts
  <2> QED BY <1>2, <1>3, <1>5, <2>1
<1>8. ASSUME NEW r \in Scrollbox PROVE BoxSub(s) \notin PartPlace(r)
  <2>1. <<s, "box">> # r
    <3>1. <<s, "box">> \notin Widget /\ r \in Widget  BY <1>2, KindFacts
    <3> QED BY <3>1
  <2> QED BY <1>4, <1>5, <2>1
<1>9. ASSUME NEW r \in Scrollbox, r # s PROVE PartPlace(s) \intersect PartPlace(r) = {}
  BY <1>4, <1>9
<1>10. \A r \in Scrollbox : BoxSub(s) = BoxSub(r) => r = s  BY <1>5
<1> QED BY <1>6, <1>7, <1>8, <1>9, <1>10

LEMMA FitsFacts ==
  ASSUME NEW q, NEW n, Fits(q, n)
  PROVE  /\ q \in Pointer
         /\ q \in ClientPlace => \E w \in Widget : n = In(w)
         /\ \A w \in Widget : n = In(w) => q \in ClientPlace
         /\ \A s \in Scrollbox :
              /\ \A k \in Kind : n = In(<<s, k>>) => q \in PartPlace(s)
              /\ n = Interior(s) => q \in PartPlace(s) \union {BoxSub(s)}
              /\ q \in PartPlace(s) => n = Interior(s) \/ \E k \in Kind : n = In(<<s, k>>)
              /\ q = BoxSub(s) => n = Interior(s)
<1>1. /\ \A v, w \in AnyWidget : In(v) = In(w) => v = w
      /\ \A w \in AnyWidget, s \in Scrollbox : In(w) # Interior(s)
      /\ \A w \in Widget : w \in AnyWidget
  BY NodeFacts, KindFacts
<1>2. \A r, s \in Scrollbox : Interior(r) = Interior(s) => r = s  BY DEF Interior
<1>3. CASE q \in ClientPlace /\ \E w \in Widget : n = In(w)
  <2>1. PICK w \in Widget : n = In(w)  BY <1>3
  <2>2. ASSUME NEW s \in Scrollbox
        PROVE  n # Interior(s) /\ q \notin PartPlace(s) /\ q # BoxSub(s)
    BY <1>1, <1>3, <2>1, PlacesApart
  <2>3. ASSUME NEW s \in Scrollbox, NEW k \in Kind PROVE n # In(<<s, k>>)
    <3>1. <<s, k>> \in AnyWidget /\ <<s, k>> \notin Widget  BY PartFacts
    <3> QED BY <1>1, <2>1, <3>1
  <2> QED BY <1>3, <2>2, <2>3, PlaceTypes
<1>4. ASSUME NEW r \in Scrollbox, q \in PartPlace(r), NEW j \in Kind, n = In(<<r, j>>)
      PROVE  /\ q \in Pointer /\ q \notin ClientPlace
             /\ \A w \in Widget : n # In(w)
             /\ \A s \in Scrollbox :
                  /\ \A k \in Kind : n = In(<<s, k>>) => q \in PartPlace(s)
                  /\ n # Interior(s) /\ q # BoxSub(s)
                  /\ q \in PartPlace(s) => \E k \in Kind : n = In(<<s, k>>)
  <2>1. <<r, j>> \in AnyWidget /\ <<r, j>> \notin Widget  BY PartFacts
  <2>2. q \notin ClientPlace /\ q \in Pointer  BY <1>4, PlacesApart, PlaceTypes
  <2>3. ASSUME NEW s \in Scrollbox, NEW k \in Kind, n = In(<<s, k>>) PROVE q \in PartPlace(s)
    <3>1. <<s, k>> = <<r, j>>
      <4>1. <<s, k>> \in AnyWidget  BY PartFacts
      <4> QED BY <1>1, <1>4, <2>1, <2>3, <4>1
    <3> QED BY <1>4, <3>1
  <2>4. ASSUME NEW s \in Scrollbox
        PROVE  /\ n # Interior(s) /\ q # BoxSub(s)
               /\ q \in PartPlace(s) => \E k \in Kind : n = In(<<s, k>>)
    BY <1>1, <1>4, <2>1, PlacesApart
  <2>5. \A w \in Widget : n # In(w)  BY <1>1, <1>4, <2>1
  <2> QED BY <2>2, <2>3, <2>4, <2>5
<1>5. ASSUME NEW r \in Scrollbox, q \in PartPlace(r) \union {BoxSub(r)}, n = Interior(r)
      PROVE  /\ q \in Pointer /\ q \notin ClientPlace
             /\ \A w \in AnyWidget : n # In(w)
             /\ \A s \in Scrollbox :
                  /\ n = Interior(s) => q \in PartPlace(s) \union {BoxSub(s)}
                  /\ q \in PartPlace(s) \union {BoxSub(s)} => n = Interior(s)
  <2>1. q \notin ClientPlace /\ q \in Pointer  BY <1>5, PlacesApart, PlaceTypes
  <2>2. ASSUME NEW s \in Scrollbox, q \in PartPlace(s) \union {BoxSub(s)} PROVE s = r
    BY <1>5, <2>2, PlacesApart
  <2> QED BY <1>1, <1>2, <1>5, <2>1, <2>2
<1>6. \A s \in Scrollbox, k \in Kind : <<s, k>> \in AnyWidget  BY PartFacts
<1>7. CASE \E r \in Scrollbox : q \in PartPlace(r) /\ \E j \in Kind : n = In(<<r, j>>)
  BY <1>4, <1>7
<1>8. CASE \E r \in Scrollbox : q \in PartPlace(r) \union {BoxSub(r)} /\ n = Interior(r)
  BY <1>1, <1>5, <1>6, <1>8
<1> QED BY <1>3, <1>7, <1>8 DEF Fits

(* Some pointers lead nowhere ever.                                        *)
LEMMA Empty ==
  ASSUME NEW s \in Scrollbox, NEW n
  PROVE  /\ ~Fits(Out(<<s, "box">>), n) /\ ~Fits(<<Interior(s), "next">>, n)
         /\ \A k \in {"scrollh", "scrollv"} : ~Fits(<<In(<<s, k>>), "div">>, n)
<1> USE DEF Kind
<1>1. \A r \in Scrollbox : r # Screen /\ r \notin Part /\ r \notin Box
  BY KindFacts, NodeFacts
<1>2. ASSUME NEW r \in Scrollbox, NEW k \in Kind
      PROVE  <<r, k>> # Screen /\ <<r, k>> \notin Widget /\ \A b \in Box : <<r, k>> # b
  <2>1. <<r, k>> \in AnyWidget /\ <<r, k>> \notin Widget  BY PartFacts
  <2> QED BY <2>1, NodeFacts, KindFacts
<1>3. \A q : Fits(q, n) =>
        \/ q = <<<<Screen, "in">>, "next">>
        \/ \E w \in Widget : q = <<<<w, "in">>, "next">>
        \/ \E b \in Box : q = <<<<b, "in">>, "div">>
        \/ \E r \in Scrollbox :
             \/ q = <<<<r, "interior">>, "div">>
             \/ q = <<<<r, "in">>, "div">>
             \/ q = <<<<<<r, "scrollh">>, "in">>, "next">>
             \/ q = <<<<<<r, "scrollv">>, "in">>, "next">>
             \/ q = <<<<<<r, "box">>, "in">>, "div">>
  <2>1. \A q \in ClientPlace :
        \/ q = <<<<Screen, "in">>, "next">>
        \/ \E w \in Widget : q = <<<<w, "in">>, "next">>
        \/ \E b \in Box : q = <<<<b, "in">>, "div">>
        \/ \E r \in Scrollbox : q = <<<<r, "interior">>, "div">>
    <3>1. \A w \in Holder : w \in Box \/ w \in Scrollbox  BY DEF Holder
    <3> QED BY <3>1, SubFacts DEF ClientPlace, Top, HeadNode, Out, In, Interior
  <2>2. \A r \in Scrollbox : \A q \in PartPlace(r) \union {BoxSub(r)} :
        \/ q = <<<<r, "in">>, "div">>
        \/ q = <<<<<<r, "scrollh">>, "in">>, "next">>
        \/ q = <<<<<<r, "scrollv">>, "in">>, "next">>
        \/ q = <<<<<<r, "box">>, "in">>, "div">>
    BY DEF PartPlace, BoxSub, In, Out
  <2> QED BY <2>1, <2>2 DEF Fits
<1>4. ~Fits(<<Interior(s), "next">>, n)
  <2>1. <<Interior(s), "next">> = <<<<s, "interior">>, "next">>  BY DEF Interior
  <2> QED BY <1>3, <2>1
<1>5. ~Fits(Out(<<s, "box">>), n)
  <2>1. Out(<<s, "box">>) = <<<<<<s, "box">>, "in">>, "next">>  BY DEF Out, In
  <2>2. <<s, "box">> # Screen /\ \A w \in Widget : <<s, "box">> # w  BY <1>2
  <2> QED BY <1>3, <2>1, <2>2
<1>6. ASSUME NEW k \in {"scrollh", "scrollv"} PROVE ~Fits(<<In(<<s, k>>), "div">>, n)
  <2>1. <<In(<<s, k>>), "div">> = <<<<<<s, k>>, "in">>, "div">>  BY DEF In
  <2>2. /\ <<s, k>> # Screen /\ \A b \in Box : <<s, k>> # b
        /\ <<s, k>> \notin Widget
    BY <1>2
  <2>3. \A r \in Scrollbox : <<s, k>> # r  BY <2>2, KindFacts
  <2> QED BY <1>3, <2>1, <2>2, <2>3
<1> QED BY <1>4, <1>5, <1>6

LEMMA LeafEmpty ==
  ASSUME NEW w \in Leaf, NEW n
  PROVE  ~Fits(<<In(w), "div">>, n)
<1>1. w \in Widget /\ w \in AnyWidget /\ w \notin Box /\ w \notin Scrollbox  BY KindFacts
<1>2. <<In(w), "div">> \notin ClientPlace
  <2>1. \A b \in Holder : b \in Box \/ b \in Scrollbox  BY DEF Holder
  <2> QED BY <1>1, <2>1, SubFacts DEF ClientPlace, Top, HeadNode, Out, In, Interior
<1>3. \A s \in Scrollbox : s # w /\ \A k \in Kind : <<s, k>> # w  BY <1>1, PartFacts
<1>4. \A s \in Scrollbox : <<In(w), "div">> \notin PartPlace(s) \union {BoxSub(s)}
  BY <1>3 DEF PartPlace, BoxSub, In, Out, Kind
<1> QED BY <1>2, <1>4 DEF Fits

-----------------------------------------------------------------------------
(* The tree of the widgets ws, of which those of away are being removed.   *)
(* The parts of a scrollbox do not outlive it, keep their places until     *)
(* they are removed, and its interior hangs somewhere as long as it lives. *)
PartsIn(ws) == \A s \in Scrollbox, k \in Kind : <<s, k>> \in ws => s \in ws
Hung(l, ws) == \A s \in Scrollbox : s \in ws => \E q \in Pointer : l[q] = Interior(s)
Seated(wh, ws, away) == \A x \in Part : x \in ws /\ x \notin away => wh[x] # None

Sound(l, wh, ws, away) ==
  Linkage(l, wh, ws) /\ Home(l) /\ PartsIn(ws) /\ Hung(l, ws) /\ Seated(wh, ws, away)

LEMMA LooseKeeps ==
  ASSUME NEW l, NEW wh, NEW ws, Linkage(l, wh, ws), NEW w \in AnyWidget
  PROVE  /\ LooseLink(l, wh, w)[Out(w)] = None /\ LooseWhere(l, wh, w)[w] = None
         /\ \A q \in Pointer : l[q] = None => LooseLink(l, wh, w)[q] = None
         /\ \A x \in AnyWidget : wh[x] = None => LooseWhere(l, wh, w)[x] = None
<1>1. /\ Out(w) \in Pointer /\ None \notin Pointer /\ None \notin Node
      /\ \A x \in AnyWidget : In(x) \in Node
  BY NodeFacts
<1>2. /\ \A x \in AnyWidget : wh[x] # None => l[wh[x]] = In(x)
      /\ \A x \in AnyWidget, p \in Pointer : l[p] = In(x) => wh[x] = p
  BY DEF Linkage, Agree
<1>3. /\ \A q \in Pointer : LooseLink(l, wh, w)[q]
           = IF q = Out(w) THEN None ELSE IF q = wh[w] THEN l[Out(w)] ELSE l[q]
      /\ \A x \in AnyWidget : LooseWhere(l, wh, w)[x]
           = IF x = w THEN None ELSE IF l[Out(w)] = In(x) THEN wh[w] ELSE wh[x]
  BY DEF LooseLink, LooseWhere
<1>4. ASSUME NEW q \in Pointer, l[q] = None PROVE LooseLink(l, wh, w)[q] = None
  <2>1. q # wh[w]
    <3>1. q = wh[w] => l[q] = In(w)  BY <1>1, <1>2
    <3> QED BY <1>1, <1>4, <3>1
  <2> QED BY <1>3, <1>4, <2>1
<1>5. ASSUME NEW x \in AnyWidget, wh[x] = None PROVE LooseWhere(l, wh, w)[x] = None
  <2>1. l[Out(w)] # In(x)
    <3>1. l[Out(w)] = In(x) => wh[x] = Out(w)  BY <1>1, <1>2
    <3> QED BY <1>1, <1>5, <3>1
  <2> QED BY <1>3, <1>5, <2>1
<1> QED BY <1>1, <1>3, <1>4, <1>5

LEMMA LooseSound ==
  ASSUME NEW l, NEW wh, NEW ws, NEW away, Sound(l, wh, ws, away),
         NEW w \in ws, w \in Part => wh[w] # None
  PROVE  Sound(LooseLink(l, wh, w), LooseWhere(l, wh, w), ws, away \union {w})
<1> DEFINE l2 == LooseLink(l, wh, w)
           wh2 == LooseWhere(l, wh, w)
<1>1. /\ Linkage(l, wh, ws) /\ Home(l) /\ PartsIn(ws) /\ Hung(l, ws) /\ Seated(wh, ws, away)
      /\ w \in AnyWidget
  BY DEF Sound, Linkage
<1>2. /\ \A x \in AnyWidget : wh[x] # None => l[wh[x]] = In(x)
      /\ \A x \in AnyWidget : wh[x] \in Pointer \union {None}
  BY <1>1 DEF Linkage, Agree, Typed
<1>3. /\ \A q \in Pointer : l2[q]
           = IF q = Out(w) THEN None ELSE IF q = wh[w] THEN l[Out(w)] ELSE l[q]
      /\ \A x \in AnyWidget : wh2[x]
           = IF x = w THEN None ELSE IF l[Out(w)] = In(x) THEN wh[w] ELSE wh[x]
  BY DEF LooseLink, LooseWhere
<1>4. /\ Out(w) \in Pointer /\ None \notin Pointer /\ None \notin Node
      /\ In(w) \in Node /\ In(w) # None
      /\ w \in Widget \/ w \in Part
  BY <1>1, NodeFacts, KindFacts
<1>5. Linkage(l2, wh2, ws)  BY <1>1, Loosened
<1> HIDE DEF l2, wh2
<1>6. l[Out(w)] # None => Fits(Out(w), l[Out(w)])  BY <1>1, <1>4 DEF Home
<1>7. wh[w] # None => wh[w] \in Pointer /\ l[wh[w]] = In(w) /\ Fits(wh[w], In(w))
  BY <1>1, <1>2, <1>4 DEF Home
<1>8. ASSUME w \in Widget, l[Out(w)] # None PROVE \E v \in Widget : l[Out(w)] = In(v)
  <2>1. Out(w) \in ClientPlace  BY <1>8, PlaceTypes
  <2> QED BY <1>6, <1>8, <2>1, FitsFacts
<1>9. ASSUME NEW n, n = l[Out(w)], n # None, wh[w] # None PROVE Fits(wh[w], n)
  <2>1. CASE w \in Widget
    <3>1. wh[w] \in ClientPlace  BY <1>7, <1>9, <2>1, FitsFacts
    <3>2. \E v \in Widget : n = In(v)  BY <1>8, <1>9, <2>1
    <3> QED BY <3>1, <3>2 DEF Fits
  <2>2. CASE w \in Part
    <3>1. PICK s \in Scrollbox, k \in Kind : w = <<s, k>>  BY <2>2, KindFacts DEF Kind
    <3>2. wh[w] \in PartPlace(s)  BY <1>7, <1>9, <3>1, FitsFacts
    <3>3. k # "box"  BY <1>6, <1>9, <3>1, Empty
    <3>4. Out(w) \in PartPlace(s)  BY <3>1, <3>3 DEF PartPlace, Kind
    <3>5. n = Interior(s) \/ \E j \in Kind : n = In(<<s, j>>)
      <4>1. Fits(Out(w), n)  BY <1>6, <1>9
      <4> QED BY <3>4, <4>1, FitsFacts
    <3> QED BY <3>2, <3>5 DEF Fits
  <2> QED BY <1>4, <2>1, <2>2
<1>10. Home(l2)
  <2> SUFFICES ASSUME NEW q \in Pointer, l2[q] # None PROVE Fits(q, l2[q])  BY DEF Home
  <2>1. q # Out(w)  BY <1>3
  <2>2. CASE q = wh[w]
    <3>1. l2[q] = l[Out(w)] /\ wh[w] # None  BY <1>3, <1>4, <2>1, <2>2
    <3> QED BY <1>9, <2>2, <3>1
  <2>3. CASE q # wh[w]
    <3>1. l2[q] = l[q]  BY <1>3, <2>1, <2>3
    <3> QED BY <1>1, <3>1 DEF Home
  <2> QED BY <2>2, <2>3
<1>11. Hung(l2, ws)
  <2> SUFFICES ASSUME NEW s \in Scrollbox, s \in ws PROVE \E q \in Pointer : l2[q] = Interior(s)
    BY DEF Hung
  <2>1. PICK q \in Pointer : l[q] = Interior(s)  BY <1>1 DEF Hung
  <2>2. In(w) # Interior(s) /\ Interior(s) # None  BY <1>1, NodeFacts
  <2>3. CASE q = Out(w)
    <3>1. w \notin Widget
      <4>1. w \in Widget => \E v \in Widget : Interior(s) = In(v)  BY <1>8, <2>1, <2>2, <2>3
      <4> QED BY <4>1, NodeFacts, KindFacts
    <3>2. wh[w] # None /\ wh[w] \in Pointer  BY <1>4, <1>7, <3>1
    <3>3. wh[w] # Out(w)  BY <1>7, <2>1, <2>2, <2>3, <3>2
    <3>4. l2[wh[w]] = Interior(s)  BY <1>3, <2>1, <2>3, <3>2, <3>3
    <3> QED BY <3>2, <3>4
  <2>4. CASE q # Out(w)
    <3>1. q # wh[w]
      <4>1. q = wh[w] => l[q] = In(w)  BY <1>4, <1>7
      <4> QED BY <2>1, <2>2, <4>1
    <3> QED BY <1>3, <2>1, <2>4, <3>1
  <2> QED BY <2>3, <2>4
<1>12. Seated(wh2, ws, away \union {w})
  <2> SUFFICES ASSUME NEW x \in Part, x \in ws, x \notin away, x # w PROVE wh2[x] # None
    BY DEF Seated
  <2>1. wh[x] # None /\ x \in AnyWidget  BY <1>1, KindFacts DEF Seated
  <2>2. CASE l[Out(w)] = In(x)
    <3>1. w \notin Widget
      <4>1. In(x) # None  BY <2>1, NodeFacts
      <4>2. w \in Widget => \E v \in Widget : In(x) = In(v)  BY <1>8, <2>2, <4>1
      <4> QED BY <2>1, <4>2, NodeFacts, KindFacts
    <3> QED BY <1>3, <1>4, <2>1, <2>2, <3>1
  <2>3. CASE l[Out(w)] # In(x)  BY <1>3, <2>1, <2>3
  <2> QED BY <2>2, <2>3
<1> QED BY <1>1, <1>5, <1>10, <1>11, <1>12 DEF Sound, l2, wh2

LEMMA PutSound ==
  ASSUME NEW l, NEW wh, NEW ws, NEW away, Sound(l, wh, ws, away),
         NEW w \in ws, w \in Widget, NEW p \in ClientPlace,
         wh[w] = None, l[Out(w)] = None, owner(p[1]) \in ws \union {Screen}
  PROVE  Sound(PutLink(l, w, p), PutWhere(l, wh, w, p), ws, away)
<1> DEFINE l2 == PutLink(l, w, p)
           wh2 == PutWhere(l, wh, w, p)
<1>1. /\ Linkage(l, wh, ws) /\ Home(l) /\ PartsIn(ws) /\ Hung(l, ws) /\ Seated(wh, ws, away)
      /\ p \in Pointer /\ Out(w) \in ClientPlace /\ Out(w) \in Pointer /\ w \in AnyWidget
  BY PlaceTypes, KindFacts DEF Sound
<1>2. Linkage(l2, wh2, ws)  BY <1>1, PutIn
<1>3. /\ \A q \in Pointer : l2[q] = IF q = p THEN In(w) ELSE IF q = Out(w) THEN l[p] ELSE l[q]
      /\ \A x \in AnyWidget : wh2[x] = IF x = w THEN p ELSE IF l[p] = In(x) THEN Out(w) ELSE wh[x]
  BY DEF PutLink, PutWhere
<1> HIDE DEF l2, wh2
<1>4. l[p] # None => Fits(p, l[p])  BY <1>1 DEF Home
<1>5. l[p] # None => \E v \in Widget : l[p] = In(v)  BY <1>4, FitsFacts
<1>6. Home(l2)
  <2> SUFFICES ASSUME NEW q \in Pointer, l2[q] # None PROVE Fits(q, l2[q])  BY DEF Home
  <2>1. CASE q = p
    <3>1. l2[q] = In(w)  BY <1>3, <2>1
    <3> QED BY <2>1, <3>1 DEF Fits
  <2>2. CASE q # p /\ q = Out(w)
    <3>1. l2[q] = l[p]  BY <1>3, <2>2
    <3>2. \E v \in Widget : l2[q] = In(v)  BY <1>5, <3>1
    <3> QED BY <1>1, <2>2, <3>2 DEF Fits
  <2>3. CASE q # p /\ q # Out(w)
    <3>1. l2[q] = l[q]  BY <1>3, <2>3
    <3> QED BY <1>1, <3>1 DEF Home
  <2> QED BY <2>1, <2>2, <2>3
<1>7. Hung(l2, ws)
  <2> SUFFICES ASSUME NEW s \in Scrollbox, s \in ws PROVE \E q \in Pointer : l2[q] = Interior(s)
    BY DEF Hung
  <2>1. PICK q \in Pointer : l[q] = Interior(s)  BY <1>1 DEF Hung
  <2>2. Interior(s) # None /\ \A v \in Widget : Interior(s) # In(v)  BY NodeFacts, KindFacts
  <2>3. q # p /\ q # Out(w)  BY <1>5, <2>1, <2>2
  <2> QED BY <1>3, <2>1, <2>3
<1>8. Seated(wh2, ws, away)
  <2> SUFFICES ASSUME NEW x \in Part, x \in ws, x \notin away PROVE wh2[x] # None
    BY DEF Seated
  <2>1. wh[x] # None /\ x \in AnyWidget  BY <1>1, KindFacts DEF Seated
  <2>2. p # None /\ Out(w) # None  BY <1>1, NodeFacts
  <2> QED BY <1>3, <2>1, <2>2
<1> QED BY <1>1, <1>2, <1>6, <1>7, <1>8 DEF Sound, l2, wh2

-----------------------------------------------------------------------------
(* The calls that handlers and removals make keep a tree sound.            *)
TreeSound(t, ws, away) == IsTree(t) /\ Sound(t.link, t.where, ws, away)

(* u is t without w in its place. *)
Without(t, u, w) ==
  /\ u.link = LooseLink(t.link, t.where, w)
  /\ u.link[Out(w)] = None /\ u.where[w] = None
  /\ \A q \in Pointer : t.link[q] = None => u.link[q] = None
  /\ \A x \in AnyWidget : t.where[x] = None => u.where[x] = None

LEMMA DetachTree ==
  ASSUME NEW t, NEW ws, NEW away, TreeSound(t, ws, away),
         NEW w \in ws, w \in Part => t.where[w] # None, NEW onscreen, NEW cont
  PROVE  /\ TreeSound(widget_attach(t, w, onscreen, None, cont), ws, away \union {w})
         /\ Without(t, widget_attach(t, w, onscreen, None, cont), w)
<1> DEFINE u == widget_attach(t, w, onscreen, None, cont)
<1>1. /\ IsTree(t) /\ Sound(t.link, t.where, ws, away) /\ Linkage(t.link, t.where, ws)
      /\ w \in AnyWidget
  BY DEF TreeSound, Sound, Linkage
<1>2. /\ IsTree(u) /\ u.link = LooseLink(t.link, t.where, w)
      /\ u.where = LooseWhere(t.link, t.where, w)
  BY <1>1, DetachIs
<1> HIDE DEF u
<1>3. Sound(u.link, u.where, ws, away \union {w})  BY <1>1, <1>2, LooseSound
<1>4. /\ u.link[Out(w)] = None /\ u.where[w] = None
      /\ \A q \in Pointer : t.link[q] = None => u.link[q] = None
      /\ \A x \in AnyWidget : t.where[x] = None => u.where[x] = None
  BY <1>1, <1>2, LooseKeeps
<1> QED BY <1>2, <1>3, <1>4 DEF u, TreeSound, Without

LEMMA NotAway ==
  ASSUME NEW t, NEW ws, NEW away, NEW w \in Widget, TreeSound(t, ws, away \union {w})
  PROVE  TreeSound(t, ws, away)
<1>1. w \notin Part  BY KindFacts
<1> QED BY <1>1 DEF TreeSound, Sound, Seated

LEMMA AttachTree ==
  ASSUME NEW t, NEW ws, NEW away, TreeSound(t, ws, away),
         NEW w \in ws, w \in Widget, NEW p \in ClientPlace,
         owner(p[1]) \in ws \union {Screen}, NEW onscreen, NEW cont
  PROVE  TreeSound(widget_attach(t, w, onscreen, p, cont), ws, away)
<1> DEFINE u == widget_attach(t, w, onscreen, p, cont)
           l == LooseLink(t.link, t.where, w)
           wh == LooseWhere(t.link, t.where, w)
<1>1. /\ IsTree(t) /\ Sound(t.link, t.where, ws, away) /\ Linkage(t.link, t.where, ws)
      /\ w \in AnyWidget /\ w \notin Part /\ p \in Pointer
  BY PlaceTypes, KindFacts DEF TreeSound, Sound, Linkage
<1>2. Sound(l, wh, ws, away \union {w})  BY <1>1, LooseSound
<1>3. Sound(l, wh, ws, away)  BY <1>1, <1>2 DEF Sound, Seated
<1>4. l[Out(w)] = None /\ wh[w] = None  BY <1>1, LooseKeeps
<1> HIDE DEF l, wh
<1>5. l[p] = None \/ \E x \in AnyWidget : l[p] = In(x)
  <2>1. l[p] # None => Fits(p, l[p])  BY <1>1, <1>3 DEF Sound, Home
  <2> QED BY <2>1, FitsFacts, KindFacts
<1>6. IsTree(u) /\ u.link = PutLink(l, w, p) /\ u.where = PutWhere(l, wh, w, p)
  BY <1>1, <1>5, AttachIs DEF l, wh
<1> HIDE DEF u
<1>7. Sound(u.link, u.where, ws, away)  BY <1>3, <1>4, <1>6, PutSound
<1> QED BY <1>6, <1>7 DEF u, TreeSound

LEMMA DeadNull ==
  ASSUME NEW l, NEW wh, NEW ws, Linkage(l, wh, ws)
  PROVE  /\ \A q \in Pointer : owner(q[1]) \notin ws \union {Screen} => l[q] = None
         /\ \A x \in AnyWidget : x \notin ws => wh[x] = None
         /\ \A x \in AnyWidget, q \in Pointer : wh[x] = None => l[q] # In(x)
<1>1. Agree(l, wh, ws) /\ Typed(l, wh)  BY DEF Linkage
<1>2. \A x \in AnyWidget : In(x) \in Node /\ In(x) # None /\ owner(In(x)) = x
  BY NodeFacts
<1>3. ASSUME NEW x \in AnyWidget, x \notin ws PROVE wh[x] = None
  <2> SUFFICES ASSUME wh[x] # None PROVE FALSE  OBVIOUS
  <2>1. l[wh[x]] = In(x) /\ wh[x] \in Pointer  BY <1>1, <1>3 DEF Agree, Typed
  <2> QED BY <1>1, <1>2, <1>3, <2>1 DEF Agree
<1>4. ASSUME NEW x \in AnyWidget, NEW q \in Pointer, wh[x] = None PROVE l[q] # In(x)
  <2>1. l[q] = In(x) => wh[x] = q  BY <1>1 DEF Agree
  <2> QED BY <1>4, <2>1, NodeFacts
<1>5. ASSUME NEW q \in Pointer, owner(q[1]) \notin ws \union {Screen} PROVE l[q] = None
  BY <1>1, <1>5 DEF Agree
<1> QED BY <1>3, <1>4, <1>5

LEMMA FreshIs ==
  ASSUME NEW t, IsTree(t), NEW w, NEW onscreen, NEW cont
  PROVE  /\ IsTree(Fresh(t, w, onscreen, cont))
         /\ Fresh(t, w, onscreen, cont).link = t.link
         /\ Fresh(t, w, onscreen, cont).where = t.where
<1> DEFINE u == Fresh(t, w, onscreen, cont)
           sh == [t.shown EXCEPT ![w] = onscreen]
           co == [t.container EXCEPT ![w] = cont]
<1>1. u = [t EXCEPT !.shown = sh, !.container = co]  BY DEF Fresh
<1> HIDE DEF u, sh, co
<1>2. u = [link |-> t.link, where |-> t.where, shown |-> sh, container |-> co]
  BY <1>1 DEF IsTree
<1> QED BY <1>2 DEF IsTree, u

(* A widget without a place takes an empty one.                            *)
Fillable(t, ws, w, p) ==
  /\ IsTree(t) /\ Linkage(t.link, t.where, ws)
  /\ w \in ws /\ t.where[w] = None /\ t.link[Out(w)] = None
  /\ p \in Pointer /\ t.link[p] = None /\ owner(p[1]) \in ws \union {Screen}

Filled(t, u, ws, w, p) ==
  /\ IsTree(u) /\ Linkage(u.link, u.where, ws)
  /\ \A q \in Pointer : u.link[q] = IF q = p THEN In(w) ELSE t.link[q]
  /\ \A x \in AnyWidget : u.where[x] = IF x = w THEN p ELSE t.where[x]

LEMMA FillIs ==
  ASSUME NEW t, NEW ws, NEW w, NEW p, Fillable(t, ws, w, p), NEW onscreen, NEW cont
  PROVE  Filled(t, widget_attach(t, w, onscreen, p, cont), ws, w, p)
<1> DEFINE u == widget_attach(t, w, onscreen, p, cont)
<1> USE DEF Fillable
<1> DEFINE l == LooseLink(t.link, t.where, w)
           wh == LooseWhere(t.link, t.where, w)
<1>1. /\ w \in AnyWidget /\ Out(w) \in Pointer /\ None \notin Pointer /\ None \notin Node
      /\ \A x \in AnyWidget : In(x) \in Node
      /\ t.link \in [Pointer -> Node \union {None}]
      /\ t.where \in [AnyWidget -> Pointer \union {None}]
  BY NodeFacts DEF Linkage, Typed
<1>2. l = t.link
  <2>1. \A q \in Pointer : l[q] = t.link[q]  BY <1>1 DEF LooseLink
  <2>2. l = [q \in Pointer |-> l[q]]  BY DEF LooseLink
  <2>3. t.link = [q \in Pointer |-> t.link[q]]  BY <1>1
  <2> HIDE DEF l
  <2> QED BY <2>1, <2>2, <2>3
<1>3. wh = t.where
  <2>1. \A x \in AnyWidget : wh[x] = t.where[x]  BY <1>1 DEF LooseWhere
  <2>2. wh = [x \in AnyWidget |-> wh[x]]  BY DEF LooseWhere
  <2>3. t.where = [x \in AnyWidget |-> t.where[x]]  BY <1>1
  <2> HIDE DEF wh
  <2> QED BY <2>1, <2>2, <2>3
<1> HIDE DEF l, wh
<1>4. IsTree(u) /\ u.link = PutLink(l, w, p) /\ u.where = PutWhere(l, wh, w, p)
  BY <1>1, <1>2, AttachIs DEF l, wh
<1> HIDE DEF u
<1>5. Linkage(u.link, u.where, ws)  BY <1>2, <1>3, <1>4, PutIn
<1>6. \A q \in Pointer : u.link[q] = IF q = p THEN In(w) ELSE t.link[q]
  BY <1>2, <1>4 DEF PutLink
<1>7. \A x \in AnyWidget : u.where[x] = IF x = w THEN p ELSE t.where[x]
  BY <1>1, <1>3, <1>2, <1>4 DEF PutWhere
<1> QED BY <1>4, <1>5, <1>6, <1>7 DEF Filled, u

(* Interiors may hang anywhere, as far as the widgets are concerned.       *)
LEMMA Relinked ==
  ASSUME NEW l, NEW wh, NEW ws, Linkage(l, wh, ws), NEW l2 \in [Pointer -> Node \union {None}],
         \A q \in Pointer :
           \/ l2[q] = l[q]
           \/ /\ \A x \in AnyWidget : l[q] # In(x)
              /\ \/ l2[q] = None
                 \/ /\ \E s \in Scrollbox : s \in ws /\ l2[q] = Interior(s)
                    /\ owner(q[1]) \in ws \union {Screen}
  PROVE  Linkage(l2, wh, ws)
<1>1. Agree(l, wh, ws) /\ Typed(l, wh) /\ ws \subseteq AnyWidget  BY DEF Linkage
<1>2. /\ None \notin Node /\ None \notin Pointer
      /\ \A x \in AnyWidget : In(x) \in Node
      /\ \A x \in AnyWidget, s \in Scrollbox : In(x) # Interior(s)
      /\ \A s \in Scrollbox : owner(Interior(s)) = s /\ Interior(s) # HeadNode
  <2>1. \A s \in Scrollbox : Interior(s) # HeadNode  BY DEF Interior, HeadNode
  <2> QED BY <2>1, NodeFacts
<1>3. ASSUME NEW x \in AnyWidget, wh[x] # None PROVE l2[wh[x]] = In(x)
  <2>1. l[wh[x]] = In(x) /\ wh[x] \in Pointer  BY <1>1, <1>3 DEF Agree, Typed
  <2> QED BY <2>1
<1>4. ASSUME NEW x \in AnyWidget, NEW q \in Pointer, l2[q] = In(x) PROVE wh[x] = q
  <2>1. l[q] = In(x)  BY <1>2, <1>4
  <2> QED BY <1>1, <2>1 DEF Agree
<1>5. ASSUME NEW q \in Pointer, l2[q] # None
      PROVE  l2[q] # HeadNode /\ owner(l2[q]) \in ws /\ owner(q[1]) \in ws \union {Screen}
  <2>1. CASE l2[q] = l[q]  BY <1>1, <1>5, <2>1 DEF Agree
  <2>2. CASE l2[q] # l[q]  BY <1>2, <1>5, <2>2
  <2> QED BY <2>1, <2>2
<1>6. Agree(l2, wh, ws)  BY <1>3, <1>4, <1>5 DEF Agree
<1> QED BY <1>1, <1>6 DEF Linkage, Typed

-----------------------------------------------------------------------------
(* widget_create, of a widget that is not there.                           *)
LEMMA MoreLive ==
  ASSUME NEW l, NEW wh, NEW ws, Linkage(l, wh, ws), NEW more \in SUBSET AnyWidget
  PROVE  Linkage(l, wh, ws \union more)
<1>1. Agree(l, wh, ws) /\ Typed(l, wh) /\ ws \subseteq AnyWidget  BY DEF Linkage
<1>2. Agree(l, wh, ws \union more)  BY <1>1 DEF Agree
<1> QED BY <1>1, <1>2 DEF Linkage

LEMMA PartsOf ==
  ASSUME NEW s \in Scrollbox
  PROVE  Parts(s) = {<<s, "scrollh">>, <<s, "scrollv">>, <<s, "box">>}
<1>1. ASSUME NEW x \in Parts(s) PROVE x \in {<<s, "scrollh">>, <<s, "scrollv">>, <<s, "box">>}
  <2>1. x \in Part /\ x[1] = s  BY DEF Parts
  <2>2. PICK r \in Scrollbox, k \in Kind : x = <<r, k>>  BY <2>1, KindFacts DEF Kind
  <2>3. r = s  BY <2>1, <2>2
  <2> QED BY <2>2, <2>3 DEF Kind
<1>2. \A k \in Kind : <<s, k>> \in Parts(s)  BY PartFacts DEF Parts
<1> QED BY <1>1, <1>2 DEF Kind

LEMMA NoParts ==
  ASSUME NEW b \in Box \union Leaf PROVE Parts(b) = {}
<1>1. ASSUME NEW x \in Part PROVE x[1] # b
  <2>1. PICK r \in Scrollbox, k \in Kind : x = <<r, k>>  BY KindFacts DEF Kind
  <2> QED BY <2>1, KindFacts
<1> QED BY <1>1 DEF Parts

Installable(t, ws, s) ==
  /\ IsTree(t) /\ Linkage(t.link, t.where, ws)
  /\ s \in ws /\ \A k \in Kind : <<s, k>> \in ws
  /\ \A q \in Pointer : owner(q[1]) \in {s} \union Parts(s) => t.link[q] = None
  /\ \A x \in {s} \union Parts(s) : t.where[x] = None

Installed(t, u, ws, s) ==
  /\ IsTree(u) /\ Linkage(u.link, u.where, ws)
  /\ \A q \in Pointer : u.link[q] =
       IF q = BoxSub(s) THEN Interior(s)
       ELSE IF q = Out(<<s, "scrollv">>) THEN In(<<s, "box">>)
       ELSE IF q = Out(<<s, "scrollh">>) THEN In(<<s, "scrollv">>)
       ELSE IF q = <<In(s), "div">> THEN In(<<s, "scrollh">>) ELSE t.link[q]
  /\ \A x \in Part : x \in Parts(s) => u.where[x] # None
  /\ \A x \in AnyWidget : x \notin Parts(s) => u.where[x] = t.where[x]

LEMMA InstallIs ==
  ASSUME NEW t, NEW ws, NEW s \in Scrollbox, Installable(t, ws, s), NEW onscreen, NEW cont
  PROVE  Installed(t, scrollbox_install(t, s, onscreen, cont), ws, s)
<1> USE DEF Kind, Installable
<1> DEFINE h == <<s, "scrollh">>
           v == <<s, "scrollv">>
           b == <<s, "box">>
           p == <<In(s), "div">>
           f1 == Fresh(t, h, onscreen, cont)
           t1 == widget_attach(f1, h, onscreen, p, s)
           f2 == Fresh(t1, v, onscreen, cont)
           t2 == widget_attach(f2, v, onscreen, Out(h), s)
           f3 == Fresh(t2, b, onscreen, cont)
           t3 == widget_attach(f3, b, onscreen, Out(v), s)
           u == scrollbox_install(t, s, onscreen, cont)
<1>1. /\ h \in AnyWidget /\ v \in AnyWidget /\ b \in AnyWidget /\ s \in AnyWidget
      /\ h \in ws /\ v \in ws /\ b \in ws
      /\ h \in Parts(s) /\ v \in Parts(s) /\ b \in Parts(s)
  BY PartFacts, PartsOf
<1>2. /\ p \in Pointer /\ Out(h) \in Pointer /\ Out(v) \in Pointer /\ Out(b) \in Pointer
      /\ BoxSub(s) \in Pointer
      /\ p \in PartPlace(s) /\ Out(h) \in PartPlace(s) /\ Out(v) \in PartPlace(s)
  BY <1>1, NodeFacts, PlaceTypes DEF PartPlace
<1>3. /\ h # v /\ h # b /\ v # b
      /\ p # Out(h) /\ p # Out(v) /\ p # Out(b)
      /\ Out(h) # Out(v) /\ Out(h) # Out(b) /\ Out(v) # Out(b)
      /\ BoxSub(s) # p /\ BoxSub(s) # Out(h) /\ BoxSub(s) # Out(v)
  <2>1. BoxSub(s) \notin PartPlace(s)  BY PlacesApart
  <2>2. h # v /\ h # b /\ v # b  OBVIOUS
  <2>3. p # Out(h) /\ p # Out(v) /\ p # Out(b)  BY DEF Out
  <2> HIDE DEF h, v, b, p
  <2> QED BY <1>1, <1>2, <2>1, <2>2, <2>3, NodeFacts
<1>4. /\ owner(p[1]) = s /\ owner(Out(h)[1]) = h /\ owner(Out(v)[1]) = v
      /\ owner(Out(b)[1]) = b /\ owner(BoxSub(s)[1]) = b
  BY DEF Out, BoxSub, In, owner
<1>5. /\ t.link[p] = None /\ t.link[Out(h)] = None /\ t.link[Out(v)] = None
      /\ t.link[Out(b)] = None /\ t.link[BoxSub(s)] = None
      /\ t.where[h] = None /\ t.where[v] = None /\ t.where[b] = None
  <2> HIDE DEF h, v, b, p
  <2> QED BY <1>1, <1>2, <1>4
<1>6. u = [t3 EXCEPT !.link[BoxSub(s)] = Interior(s)]
  BY SubFacts DEF scrollbox_install, BoxSub
<1>7. IsTree(f1) /\ f1.link = t.link /\ f1.where = t.where  BY FreshIs
<1> HIDE DEF h, v, b, p, f1
<1>8. /\ IsTree(t1) /\ Linkage(t1.link, t1.where, ws)
      /\ \A q \in Pointer : t1.link[q] = IF q = p THEN In(h) ELSE t.link[q]
      /\ \A x \in AnyWidget : t1.where[x] = IF x = h THEN p ELSE t.where[x]
  <2>1. f1.link[p] = None /\ f1.link[Out(h)] = None /\ f1.where[h] = None  BY <1>5, <1>7
  <2>2. IsTree(f1) /\ Linkage(f1.link, f1.where, ws)  BY <1>7
  <2>3. /\ h \in ws /\ p \in Pointer /\ p # Out(h)
        /\ owner(p[1]) \in ws \union {Screen}
    BY <1>1, <1>2, <1>3, <1>4
  <2>4. Fillable(f1, ws, h, p)  BY <2>1, <2>2, <2>3 DEF Fillable
  <2>5. Filled(f1, t1, ws, h, p)  BY <2>4, FillIs
  <2> HIDE DEF t1
  <2> QED BY <1>7, <2>5 DEF Filled
<1> HIDE DEF t1
<1>9. IsTree(f2) /\ f2.link = t1.link /\ f2.where = t1.where  BY <1>8, FreshIs
<1> HIDE DEF f2
<1>10. /\ IsTree(t2) /\ Linkage(t2.link, t2.where, ws)
       /\ \A q \in Pointer : t2.link[q] = IF q = Out(h) THEN In(v) ELSE t1.link[q]
       /\ \A x \in AnyWidget : t2.where[x] = IF x = v THEN Out(h) ELSE t1.where[x]
  <2>1. f2.link[Out(h)] = None /\ f2.link[Out(v)] = None /\ f2.where[v] = None
    BY <1>1, <1>2, <1>3, <1>5, <1>8, <1>9
  <2>2. IsTree(f2) /\ Linkage(f2.link, f2.where, ws)  BY <1>8, <1>9
  <2>3. /\ v \in ws /\ Out(h) \in Pointer /\ Out(h) # Out(v)
        /\ owner(Out(h)[1]) \in ws \union {Screen}
    BY <1>1, <1>2, <1>3, <1>4
  <2>4. Fillable(f2, ws, v, Out(h))  BY <2>1, <2>2, <2>3 DEF Fillable
  <2>5. Filled(f2, t2, ws, v, Out(h))  BY <2>4, FillIs
  <2> HIDE DEF t2
  <2> QED BY <1>9, <2>5 DEF Filled
<1> HIDE DEF t2
<1>11. IsTree(f3) /\ f3.link = t2.link /\ f3.where = t2.where  BY <1>10, FreshIs
<1> HIDE DEF f3
<1>12. /\ IsTree(t3) /\ Linkage(t3.link, t3.where, ws)
       /\ \A q \in Pointer : t3.link[q] = IF q = Out(v) THEN In(b) ELSE t2.link[q]
       /\ \A x \in AnyWidget : t3.where[x] = IF x = b THEN Out(v) ELSE t2.where[x]
  <2>1. f3.link[Out(v)] = None /\ f3.link[Out(b)] = None /\ f3.where[b] = None
    BY <1>1, <1>2, <1>3, <1>5, <1>8, <1>10, <1>11
  <2>2. IsTree(f3) /\ Linkage(f3.link, f3.where, ws)  BY <1>10, <1>11
  <2>3. /\ b \in ws /\ Out(v) \in Pointer /\ Out(v) # Out(b)
        /\ owner(Out(v)[1]) \in ws \union {Screen}
    BY <1>1, <1>2, <1>3, <1>4
  <2>4. Fillable(f3, ws, b, Out(v))  BY <2>1, <2>2, <2>3 DEF Fillable
  <2>5. Filled(f3, t3, ws, b, Out(v))  BY <2>4, FillIs
  <2> HIDE DEF t3
  <2> QED BY <1>11, <2>5 DEF Filled
<1> HIDE DEF t3, u
<1>13. /\ t3.link \in [Pointer -> Node \union {None}] /\ Interior(s) \in Node
       /\ \A x \in AnyWidget : t3.link[BoxSub(s)] # In(x)
  <2>1. t3.link[BoxSub(s)] = None  BY <1>2, <1>3, <1>5, <1>8, <1>10, <1>12
  <2> QED BY <1>12, <2>1, NodeFacts DEF Linkage, Typed
<1>14. u = [link |-> [t3.link EXCEPT ![BoxSub(s)] = Interior(s)], where |-> t3.where,
            shown |-> t3.shown, container |-> t3.container]
  BY <1>6, <1>12 DEF IsTree
<1>15. /\ IsTree(u) /\ u.where = t3.where /\ u.link \in [Pointer -> Node \union {None}]
       /\ \A q \in Pointer : u.link[q] = IF q = BoxSub(s) THEN Interior(s) ELSE t3.link[q]
  BY <1>13, <1>14 DEF IsTree
<1>16. Linkage(u.link, u.where, ws)
  <2>1. \A q \in Pointer : u.link[q] = t3.link[q] \/
            (/\ \A x \in AnyWidget : t3.link[q] # In(x)
             /\ \E r \in Scrollbox : r \in ws /\ u.link[q] = Interior(r)
             /\ owner(q[1]) \in ws \union {Screen})
    BY <1>1, <1>4, <1>13, <1>15
  <2> QED BY <1>12, <1>15, <2>1, Relinked
<1>17. \A q \in Pointer : u.link[q] =
          IF q = BoxSub(s) THEN Interior(s)
          ELSE IF q = Out(v) THEN In(b) ELSE IF q = Out(h) THEN In(v)
          ELSE IF q = p THEN In(h) ELSE t.link[q]
  BY <1>8, <1>10, <1>12, <1>15
<1>18. \A x \in AnyWidget : x \notin Parts(s) => u.where[x] = t.where[x]
  BY <1>1, <1>8, <1>10, <1>12, <1>15
<1>19. ASSUME NEW x \in Parts(s) PROVE u.where[x] # None
  <2>1. p # None /\ Out(h) # None /\ Out(v) # None  BY <1>2, NodeFacts
  <2>2. x = h \/ x = v \/ x = b  BY PartsOf DEF h, v, b
  <2> QED BY <1>1, <1>8, <1>10, <1>12, <1>15, <2>1, <2>2
<1> QED BY <1>15, <1>16, <1>17, <1>18, <1>19 DEF Installed, u, h, v, b, p

LEMMA CreatedTree ==
  ASSUME NEW t, NEW ws, TreeSound(t, ws, {}), NEW w \in Widget, w \notin ws,
         NEW onscreen, NEW cont
  PROVE  LET u == widget_create(t, w, onscreen, cont)
         IN  /\ TreeSound(u, ws \union {w} \union Parts(w), {})
             /\ u.where[w] = None /\ u.link[Out(w)] = None
<1> DEFINE u == widget_create(t, w, onscreen, cont)
           f == Fresh(t, w, onscreen, cont)
           ws2 == ws \union {w} \union Parts(w)
<1>1. /\ IsTree(t) /\ Linkage(t.link, t.where, ws) /\ Home(t.link) /\ PartsIn(ws)
      /\ Hung(t.link, ws) /\ Seated(t.where, ws, {})
  BY DEF TreeSound, Sound
<1>2. /\ w \in AnyWidget /\ Out(w) \in Pointer /\ owner(Out(w)[1]) = w /\ w # Screen
      /\ Parts(w) \subseteq Part /\ Parts(w) \subseteq AnyWidget
  BY KindFacts, NodeFacts DEF Parts, Out
<1>3. IsTree(f) /\ f.link = t.link /\ f.where = t.where  BY <1>1, FreshIs
<1>4. Linkage(t.link, t.where, ws2)
  <2>1. ws2 = ws \union ({w} \union Parts(w))  OBVIOUS
  <2>2. {w} \union Parts(w) \in SUBSET AnyWidget  BY <1>2
  <2> HIDE DEF ws2
  <2> QED BY <1>1, <2>1, <2>2, MoreLive
<1>5. t.where[w] = None /\ t.link[Out(w)] = None  BY <1>1, <1>2, DeadNull
<1> HIDE DEF f
<1>6. CASE w \in Box \union Leaf
  <2>1. u = f /\ ws2 = ws \union {w}  BY <1>6, NoParts, KindFacts DEF widget_create, f
  <2>2. w \notin Scrollbox /\ w \notin Part  BY <1>6, KindFacts
  <2>3. PartsIn(ws2)
    <3> SUFFICES ASSUME NEW s \in Scrollbox, NEW k \in Kind, <<s, k>> \in ws2 PROVE s \in ws2
      BY DEF PartsIn
    <3>1. <<s, k>> # w  BY PartFacts
    <3> QED BY <1>1, <2>1, <3>1 DEF PartsIn
  <2>4. Hung(t.link, ws2)  BY <1>1, <2>1, <2>2 DEF Hung
  <2>5. Seated(t.where, ws2, {})  BY <1>1, <2>1, <2>2 DEF Seated
  <2>6. Sound(t.link, t.where, ws2, {})  BY <1>1, <1>4, <2>3, <2>4, <2>5 DEF Sound
  <2> QED BY <1>3, <1>5, <2>1, <2>6 DEF TreeSound
<1>7. CASE w \in Scrollbox
  <2> USE <1>7
  <2>1. u = scrollbox_install(f, w, onscreen, cont)  BY DEF widget_create, f
  <2>2. /\ \A k \in Kind : <<w, k>> \in Parts(w) /\ <<w, k>> \in Part
        /\ \A x \in Parts(w) : \E k \in Kind : x = <<w, k>>
    BY PartsOf, PartFacts DEF Kind
  <2>3. ASSUME NEW x \in Parts(w) PROVE x \notin ws /\ x # Screen
    <3>1. PICK k \in Kind : x = <<w, k>>  BY <2>2
    <3> QED BY <1>1, <1>2, <3>1, NodeFacts DEF PartsIn
  <2>4. /\ \A q \in Pointer : owner(q[1]) \in {w} \union Parts(w) => f.link[q] = None
        /\ \A x \in {w} \union Parts(w) : f.where[x] = None
    BY <1>1, <1>2, <1>3, <2>3, DeadNull
  <2>5. IsTree(f) /\ Linkage(f.link, f.where, ws2) /\ w \in ws2 /\ \A k \in Kind : <<w, k>> \in ws2
    BY <1>3, <1>4, <2>2
  <2> HIDE DEF u, ws2
  <2>6. /\ IsTree(u) /\ Linkage(u.link, u.where, ws2)
        /\ \A q \in Pointer : u.link[q] =
             IF q = BoxSub(w) THEN Interior(w)
             ELSE IF q = Out(<<w, "scrollv">>) THEN In(<<w, "box">>)
             ELSE IF q = Out(<<w, "scrollh">>) THEN In(<<w, "scrollv">>)
             ELSE IF q = <<In(w), "div">> THEN In(<<w, "scrollh">>) ELSE f.link[q]
        /\ \A x \in Part : x \in Parts(w) => u.where[x] # None
        /\ \A x \in AnyWidget : x \notin Parts(w) => u.where[x] = f.where[x]
    <3>1. Installable(f, ws2, w)  BY <2>4, <2>5 DEF Installable
    <3>2. Installed(f, u, ws2, w)  BY <2>1, <3>1, InstallIs
    <3> QED BY <3>2 DEF Installed
  <2>7. /\ <<In(w), "div">> \in PartPlace(w) /\ Out(<<w, "scrollh">>) \in PartPlace(w)
        /\ Out(<<w, "scrollv">>) \in PartPlace(w) /\ BoxSub(w) \in Pointer
    BY PlaceTypes DEF PartPlace
  <2>8. Home(u.link)
    <3> SUFFICES ASSUME NEW q \in Pointer, u.link[q] # None PROVE Fits(q, u.link[q])
      BY DEF Home
    <3>1. CASE q = BoxSub(w)
      <4>1. u.link[q] = Interior(w)  BY <2>6, <3>1
      <4> QED BY <3>1, <4>1 DEF Fits
    <3>2. CASE q # BoxSub(w) /\ q \in PartPlace(w)
      <4>1. \E k \in Kind : u.link[q] = In(<<w, k>>)  BY <2>6, <3>2 DEF PartPlace, Kind
      <4> QED BY <3>2, <4>1 DEF Fits
    <3>3. CASE q # BoxSub(w) /\ q \notin PartPlace(w)
      <4>1. u.link[q] = f.link[q]  BY <2>6, <2>7, <3>3
      <4> QED BY <1>1, <1>3, <4>1 DEF Home
    <3> QED BY <3>1, <3>2, <3>3
  <2>9. PartsIn(ws2)
    <3> SUFFICES ASSUME NEW s \in Scrollbox, NEW k \in Kind, <<s, k>> \in ws2 PROVE s \in ws2
      BY DEF PartsIn
    <3>1. <<s, k>> # w  BY <1>7, PartFacts
    <3>2. CASE <<s, k>> \in ws  BY <1>1, <3>2 DEF PartsIn, ws2
    <3>3. CASE <<s, k>> \in Parts(w)
      <4>1. s = w  BY <3>3 DEF Parts
      <4> QED BY <2>5, <4>1
    <3> QED BY <3>1, <3>2, <3>3 DEF ws2
  <2>10. Hung(u.link, ws2)
    <3> SUFFICES ASSUME NEW s \in Scrollbox, s \in ws2
                 PROVE  \E q \in Pointer : u.link[q] = Interior(s)
      BY DEF Hung
    <3>1. CASE s = w  BY <2>6, <2>7, <3>1
    <3>2. CASE s # w
      <4>1. s \in ws
        <5>1. s \notin Part  BY PartFacts
        <5> QED BY <1>2, <3>2, <5>1 DEF ws2
      <4>2. PICK q \in Pointer : t.link[q] = Interior(s)  BY <1>1, <4>1 DEF Hung
      <4>3. q # BoxSub(w) /\ q \notin PartPlace(w)
        <5>1. Fits(q, Interior(s))
          <6>1. Interior(s) # None  BY NodeFacts
          <6> QED BY <1>1, <4>2, <6>1 DEF Home
        <5>2. q \in PartPlace(s) \union {BoxSub(s)}  BY <5>1, FitsFacts
        <5> QED BY <3>2, <5>2, PlacesApart
      <4>4. u.link[q] = Interior(s)  BY <1>3, <2>6, <2>7, <4>2, <4>3
      <4> QED BY <4>4
    <3> QED BY <3>1, <3>2
  <2>11. Seated(u.where, ws2, {})
    <3> SUFFICES ASSUME NEW x \in Part, x \in ws2 PROVE u.where[x] # None
      BY DEF Seated
    <3>1. x \in AnyWidget /\ x # w  BY KindFacts
    <3>2. CASE x \in Parts(w)  BY <2>6, <3>2
    <3>3. CASE x \notin Parts(w)
      <4>1. x \in ws  BY <3>1, <3>3 DEF ws2
      <4>2. t.where[x] # None  BY <1>1, <4>1 DEF Seated
      <4> QED BY <1>3, <2>6, <3>1, <3>3, <4>2
    <3> QED BY <3>2, <3>3
  <2>12. u.where[w] = None /\ u.link[Out(w)] = None
    <3>1. w \notin Parts(w)  BY <1>2, KindFacts
    <3>2. Out(w) \notin PartPlace(w) /\ Out(w) # BoxSub(w)
      <4>1. Out(w) \in ClientPlace  BY PlaceTypes
      <4> QED BY <4>1, PlacesApart
    <3> QED BY <1>2, <1>3, <1>5, <2>6, <2>7, <3>1, <3>2
  <2>13. Sound(u.link, u.where, ws2, {})  BY <2>6, <2>8, <2>9, <2>10, <2>11 DEF Sound
  <2> QED BY <2>6, <2>12, <2>13 DEF TreeSound, u, ws2
<1> QED BY <1>6, <1>7, KindFacts

-----------------------------------------------------------------------------
(* What hangs from an empty pointer, and from one to a node with nothing   *)
(* in it. The function that Below looks for exists: the least set with the *)
(* nodes given and all that they lead to.                                  *)
Leads(l, ns) == ns \union ({l[<<n, f>>] : n \in ns, f \in {"next", "div"}} \ {None})
Closed(l, ns) == Leads(l, ns) = ns
Least(l, ns) == {n \in Node : \A c \in SUBSET Node : ns \subseteq c /\ Closed(l, c) => n \in c}

LEMMA BelowFacts ==
  ASSUME NEW l \in [Pointer -> Node \union {None}], NEW p \in Pointer
  PROVE  /\ l[p] = None => Below(l, p) = {}
         /\ \A n \in Node : /\ l[p] = n
                            /\ l[<<n, "next">>] = None /\ l[<<n, "div">>] = None
                            => Below(l, p) = {n}
<1> DEFINE Is(R) == R = [ns \in SUBSET Node |->
                           IF Leads(l, ns) = ns THEN ns ELSE R[Leads(l, ns)]]
           Reach == CHOOSE R : Is(R)
<1>1. p # None  BY NodeFacts
<1>2. Below(l, p) = Reach[{l[p]} \ {None}]  BY <1>1 DEF Below, Leads
<1>3. \A ns \in SUBSET Node : Leads(l, ns) \in SUBSET Node
  <2>1. \A n \in Node, f \in {"next", "div"} : l[<<n, f>>] \in Node \union {None}
    BY DEF Pointer
  <2> SUFFICES ASSUME NEW ns \in SUBSET Node, NEW n \in Leads(l, ns) PROVE n \in Node
    OBVIOUS
  <2>2. CASE n \in ns  BY <2>2
  <2>3. CASE n \notin ns
    <3>1. n # None /\ \E m \in ns, f \in {"next", "div"} : n = l[<<m, f>>]  BY <2>3 DEF Leads
    <3> QED BY <2>1, <3>1
  <2> QED BY <2>2, <2>3
<1>4. Is([ns \in SUBSET Node |-> Least(l, ns)])
  <2>1. ASSUME NEW ns \in SUBSET Node
        PROVE  Least(l, ns) = IF Leads(l, ns) = ns THEN ns ELSE Least(l, Leads(l, ns))
    <3>1. CASE Leads(l, ns) = ns
      <4>1. Least(l, ns) \subseteq ns  BY <3>1 DEF Least, Closed
      <4>2. ns \subseteq Least(l, ns)  BY DEF Least
      <4> QED BY <3>1, <4>1, <4>2
    <3>2. CASE Leads(l, ns) # ns
      <4>1. ASSUME NEW c \in SUBSET Node, Closed(l, c), ns \subseteq c PROVE Leads(l, ns) \subseteq c
        <5>1. Leads(l, ns) \subseteq Leads(l, c)  BY <4>1 DEF Leads
        <5> QED BY <4>1, <5>1 DEF Closed
      <4>2. ns \subseteq Leads(l, ns)  BY DEF Leads
      <4>3. \A c \in SUBSET Node : Closed(l, c) => (ns \subseteq c <=> Leads(l, ns) \subseteq c)
        BY <4>1, <4>2
      <4>4. Least(l, ns) = Least(l, Leads(l, ns))  BY <4>3 DEF Least
      <4> QED BY <3>2, <4>4
    <3> QED BY <3>1, <3>2
  <2> DEFINE L == [ns \in SUBSET Node |-> Least(l, ns)]
  <2>2. \A ns \in SUBSET Node : L[ns] = Least(l, ns)  OBVIOUS
  <2>3. L = [ns \in SUBSET Node |-> L[ns]]  OBVIOUS
  <2> HIDE DEF L
  <2>4. \A ns \in SUBSET Node : L[ns] = IF Leads(l, ns) = ns THEN ns ELSE L[Leads(l, ns)]
    BY <1>3, <2>1, <2>2
  <2>5. Is(L)  BY <2>3, <2>4
  <2> QED BY <2>5 DEF L
<1>5. Is(Reach)  BY <1>4
<1> HIDE DEF Reach
<1>6. \A ns \in SUBSET Node : Leads(l, ns) = ns => Reach[ns] = ns  BY <1>5
<1>7. ASSUME l[p] = None PROVE Below(l, p) = {}
  <2>1. {l[p]} \ {None} = {} /\ Leads(l, {}) = {}  BY <1>7 DEF Leads
  <2> QED BY <1>2, <1>6, <2>1
<1>8. ASSUME NEW n \in Node, l[p] = n, l[<<n, "next">>] = None, l[<<n, "div">>] = None
      PROVE  Below(l, p) = {n}
  <2>1. n # None  BY NodeFacts
  <2>2. {l[p]} \ {None} = {n} /\ {n} \in SUBSET Node  BY <1>8, <2>1
  <2>3. Leads(l, {n}) = {n}  BY <1>8 DEF Leads
  <2> QED BY <1>2, <1>6, <2>2, <2>3
<1> QED BY <1>7, <1>8

-----------------------------------------------------------------------------
(* The invariant. There are two removals at most, the second that of a     *)
(* part of the scrollbox of the first. A widget under removal has neither  *)
(* a place nor a follower; a widget of a client has lost its children when *)
(* the loop is over; the place that a box had is empty until its interior  *)
(* goes there; and the parts that a scrollbox is past are gone.            *)
Nodes(ws) == {HeadNode} \union UNION {NodesOf(w) : w \in ws}

Pc == {"children", "splice", "scrollv", "scrollh", "box", "free"}

BoxFrame(f, s, l, ws) ==
  IF f.pc = "free" THEN l[BoxSub(s)] = None
  ELSE f.oldwhere \in PartPlace(s) /\ owner(f.oldwhere[1]) \in ws /\ l[f.oldwhere] = None

FrameOK(f, l, wh, ws) ==
  /\ f \in [w : AnyWidget, oldwhere : Pointer \union {None}, pc : Pc]
  /\ f.w \in ws /\ wh[f.w] = None /\ l[Out(f.w)] = None
  /\ f.w \in Holder /\ f.pc # "children" => l[Sub(f.w)] = None
  /\ f.pc \in Kind => f.w \in Scrollbox
  /\ \A s \in Scrollbox : f.w = <<s, "box">> => BoxFrame(f, s, l, ws)

Passed(pc, k) == pc = "free" \/ (pc = "box" /\ k # "box") \/ (pc = "scrollh" /\ k = "scrollv")

GonePast(f, ws, x) ==
  f.w \in Scrollbox => \A k \in Kind : Passed(f.pc, k) /\ <<f.w, k>> \in ws => <<f.w, k>> = x

One(f, away, l, wh, ws) == away = {f.w} /\ FrameOK(f, l, wh, ws) /\ GonePast(f, ws, None)

Two(f, g, away, l, wh, ws) ==
  /\ away = {f.w, g.w} /\ FrameOK(f, l, wh, ws) /\ FrameOK(g, l, wh, ws)
  /\ g.w \in Scrollbox /\ g.pc \in {"scrollh", "box", "free"}
  /\ f.w \in Parts(g.w) /\ GonePast(g, ws, f.w)

FramesOK(fs, away, l, wh, ws) ==
  \/ fs = <<>> /\ away = {}
  \/ \E f : fs = <<f>> /\ One(f, away, l, wh, ws)
  \/ \E f, g : fs = <<f, g>> /\ Two(f, g, away, l, wh, ws)

Inv ==
  /\ alloc = Nodes(live)
  /\ \E away : TreeSound(tree, live, away) /\ FramesOK(frames, away, link, where, live)

(* A frame stays right when places become empty.                           *)
LEMMA FrameKeeps ==
  ASSUME NEW f, NEW l, NEW wh, NEW ws, FrameOK(f, l, wh, ws), NEW l2, NEW wh2, NEW ws2,
         \A q \in Pointer : l[q] = None => l2[q] = None,
         \A x \in AnyWidget : wh[x] = None => wh2[x] = None,
         f.w \in ws2,
         \A s \in Scrollbox : f.w = <<s, "box">> => ws2 = ws
  PROVE  FrameOK(f, l2, wh2, ws2)
<1>1. f.w \in AnyWidget /\ Out(f.w) \in Pointer  BY NodeFacts DEF FrameOK
<1>2. wh2[f.w] = None /\ l2[Out(f.w)] = None  BY <1>1 DEF FrameOK
<1>3. f.w \in Holder /\ f.pc # "children" => l2[Sub(f.w)] = None
  BY PlaceTypes DEF FrameOK
<1>4. ASSUME NEW s \in Scrollbox, f.w = <<s, "box">> PROVE BoxFrame(f, s, l2, ws2)
  <2>1. BoxFrame(f, s, l, ws) /\ ws2 = ws  BY <1>4 DEF FrameOK
  <2>2. BoxSub(s) \in Pointer /\ PartPlace(s) \subseteq Pointer  BY PlaceTypes
  <2> QED BY <2>1, <2>2 DEF BoxFrame
<1> QED BY <1>2, <1>3, <1>4 DEF FrameOK

(* widget_remove begins.                                                   *)
LEMMA FrameNew ==
  ASSUME NEW t, NEW ws, NEW away, TreeSound(t, ws, away), NEW w \in ws,
         w \in Part => t.where[w] # None,
         NEW u, Without(t, u, w), NEW f, f = [w |-> w, oldwhere |-> t.where[w], pc |-> "children"]
  PROVE  FrameOK(f, u.link, u.where, ws)
<1>1. /\ Linkage(t.link, t.where, ws) /\ Home(t.link) /\ w \in AnyWidget
      /\ Typed(t.link, t.where) /\ Agree(t.link, t.where, ws)
  BY DEF TreeSound, Sound, Linkage
<1>2. f \in [w : AnyWidget, oldwhere : Pointer \union {None}, pc : Pc]
  BY <1>1 DEF Typed, Pc
<1>3. f.w = w /\ f.oldwhere = t.where[w] /\ f.pc = "children"  OBVIOUS
<1>4. u.where[w] = None /\ u.link[Out(w)] = None  BY DEF Without
<1>5. ASSUME NEW s \in Scrollbox, w = <<s, "box">> PROVE BoxFrame(f, s, u.link, ws)
  <2> DEFINE p == t.where[w]
  <2>1. w \in Part /\ p # None  BY <1>5, PartFacts DEF Kind
  <2>2. p \in Pointer /\ t.link[p] = In(w) /\ In(w) # None  BY <1>1, <2>1, NodeFacts DEF Typed, Agree
  <2>3. p \in PartPlace(s)
    <3>1. Fits(p, In(w))  BY <1>1, <2>2 DEF Home
    <3> QED BY <1>5, <3>1, FitsFacts DEF Kind
  <2>4. owner(p[1]) \in ws
    <3>1. owner(p[1]) \in ws \union {Screen}  BY <1>1, <2>2 DEF Agree
    <3>2. owner(p[1]) \in {s, <<s, "scrollh">>, <<s, "scrollv">>}
      BY <2>3 DEF PartPlace, Out, In, owner
    <3>3. Screen \notin {s, <<s, "scrollh">>, <<s, "scrollv">>}
      <4>1. /\ s \in AnyWidget /\ <<s, "scrollh">> \in AnyWidget
            /\ <<s, "scrollv">> \in AnyWidget
        BY PartFacts DEF Kind
      <4> QED BY <4>1, NodeFacts
    <3> QED BY <3>1, <3>2, <3>3
  <2>5. u.link[p] = None
    <3>1. t.link[Out(w)] = None
      <4>1. Out(w) \in Pointer  BY <1>1, NodeFacts
      <4> QED BY <1>1, <1>5, <4>1, Empty DEF Home
    <3>2. p # Out(w)
      <4>1. In(w) # None  BY <2>2
      <4> QED BY <2>2, <3>1, <4>1
    <3>3. u.link = LooseLink(t.link, t.where, w)  BY DEF Without
    <3> QED BY <2>2, <3>1, <3>2, <3>3 DEF LooseLink
  <2> QED BY <1>3, <2>3, <2>4, <2>5 DEF BoxFrame
<1> QED BY <1>2, <1>3, <1>4, <1>5 DEF FrameOK, Kind

-----------------------------------------------------------------------------
(* The handlers of requests and of app managers.                           *)
LEMMA Quiet ==
  ASSUME Inv, frames = <<>>
  PROVE  TreeSound(tree, live, {}) /\ alloc = Nodes(live)
<1>1. PICK away : TreeSound(tree, live, away) /\ FramesOK(frames, away, link, where, live)
  BY DEF Inv
<1>2. away = {}
  <2>1. \A f, g : <<f>> # <<>> /\ <<f, g>> # <<>>  OBVIOUS
  <2> QED BY <1>1, <2>1 DEF FramesOK
<1> QED BY <1>1, <1>2 DEF Inv

LEMMA QuietNext ==
  ASSUME TreeSound(tree', live', {}), alloc' = Nodes(live'), frames' = <<>>
  PROVE  Inv'
<1>1. FramesOK(frames', {}, link', where', live')  BY DEF FramesOK
<1> QED BY <1>1 DEF Inv

LEMMA CreatedNodes ==
  ASSUME NEW w, Created(w), alloc = Nodes(live)
  PROVE  alloc' = Nodes(live')
BY DEF Created, Nodes

LEMMA PlaceIs ==
  ASSUME TreeSound(tree, live, {}), NEW p \in live \intersect Widget, NEW rship \in Rship,
         Place(p, rship) # None
  PROVE  Place(p, rship) \in ClientPlace /\ owner(Place(p, rship)[1]) \in live \union {Screen}
<1>1. /\ Home(tree.link) /\ Typed(tree.link, tree.where) /\ Agree(tree.link, tree.where, live)
      /\ p \in AnyWidget
  BY KindFacts DEF TreeSound, Sound, Linkage
<1>2. CASE rship = "inside"
  <2>1. Place(p, rship) = Sub(p) /\ p \in Holder  BY <1>2, SubFacts, KindFacts DEF Place, Holder
  <2>2. owner(Sub(p)[1]) = p
    <3>1. CASE p \in Box  BY <3>1, SubFacts DEF In, owner
    <3>2. CASE p \in Scrollbox  BY <3>2, SubFacts DEF Interior, owner
    <3> QED BY <2>1, <3>1, <3>2 DEF Holder
  <2> QED BY <2>1, <2>2, PlaceTypes
<1>3. CASE rship = "after"
  <2>1. Place(p, rship) = Out(p)  BY <1>3 DEF Place
  <2>2. owner(Out(p)[1]) = p  BY DEF Out, In, owner
  <2> QED BY <2>1, <2>2, PlaceTypes
<1>4. CASE rship = "before"
  <2> DEFINE q == tree.where[p]
  <2>1. Place(p, rship) = q  BY <1>4 DEF Place, where
  <2>2. q \in Pointer /\ tree.link[q] = In(p) /\ In(p) # None
    BY <1>1, <2>1, NodeFacts DEF Typed, Agree
  <2>3. q \in ClientPlace
    <3>1. Fits(q, In(p))  BY <1>1, <2>2 DEF Home
    <3> QED BY <3>1, FitsFacts
  <2>4. owner(q[1]) \in live \union {Screen}  BY <1>1, <2>2 DEF Agree
  <2> QED BY <2>1, <2>3, <2>4
<1> QED BY <1>2, <1>3, <1>4 DEF Rship

LEMMA TakePlace ==
  ASSUME NEW t, NEW ws, TreeSound(t, ws, {}), NEW w \in ws, w \in Widget, NEW p,
         p # None => p \in ClientPlace /\ owner(p[1]) \in ws \union {Screen},
         NEW onscreen, NEW cont
  PROVE  TreeSound(widget_attach(t, w, onscreen, p, cont), ws, {})
<1>1. CASE p = None
  <2>1. w \notin Part  BY KindFacts
  <2>2. TreeSound(widget_attach(t, w, onscreen, None, cont), ws, {} \union {w})
    BY <2>1, DetachTree
  <2> QED BY <1>1, <2>2, NotAway
<1>2. CASE p # None  BY <1>2, AttachTree
<1> QED BY <1>1, <1>2

LEMMA Register ==
  ASSUME Inv, NEW w \in Widget, appmgr_register(w)
  PROVE  Inv'
<1> DEFINE made == widget_create(tree, w, TRUE, None)
           ws == live \union {w} \union Parts(w)
<1>1. /\ frames = <<>> /\ frames' = <<>> /\ w \notin live /\ live' = ws
      /\ tree' = widget_attach(made, w, TRUE, Top, None)
  BY DEF appmgr_register, Idle, Created
<1>2. TreeSound(tree, live, {}) /\ alloc = Nodes(live)  BY <1>1, Quiet
<1>3. TreeSound(made, ws, {})  BY <1>1, <1>2, CreatedTree
<1>4. Top \in ClientPlace /\ owner(Top[1]) = Screen
  BY DEF ClientPlace, Top, HeadNode, owner
<1> HIDE DEF made
<1>5. TreeSound(tree', live', {})  BY <1>1, <1>3, <1>4, TakePlace
<1>6. alloc' = Nodes(live')  BY <1>2, CreatedNodes DEF appmgr_register
<1> QED BY <1>1, <1>5, <1>6, QuietNext

LEMMA CreateWidget ==
  ASSUME Inv, NEW w \in Widget, rqh_createwidget(w)
  PROVE  Inv'
<1> DEFINE ws == live \union {w} \union Parts(w)
<1>1. /\ frames = <<>> /\ frames' = <<>> /\ w \notin live /\ live' = ws
      /\ tree' = widget_create(tree, w, FALSE, None)
  BY DEF rqh_createwidget, Idle, Created
<1>2. TreeSound(tree, live, {}) /\ alloc = Nodes(live)  BY <1>1, Quiet
<1>3. TreeSound(widget_create(tree, w, FALSE, None), ws, {})  BY <1>1, <1>2, CreatedTree
<1>4. alloc' = Nodes(live')  BY <1>2, CreatedNodes DEF rqh_createwidget
<1> QED BY <1>1, <1>3, <1>4, QuietNext

LEMMA MkWidget ==
  ASSUME Inv, NEW w \in Widget, NEW p \in Widget, NEW rship \in Rship, rqh_mkwidget(w, p, rship)
  PROVE  Inv'
<1> DEFINE at == Place(p, rship)
           cont == Container(p, rship)
           made == widget_create(tree, w, shown[p], cont)
           ws == live \union {w} \union Parts(w)
<1>1. /\ frames = <<>> /\ frames' = <<>> /\ w \notin live /\ live' = ws
      /\ p \in live \intersect Widget
      /\ tree' = widget_attach(made, w, shown[p], at, cont)
  BY DEF rqh_mkwidget, Idle, Created, Parent
<1>2. TreeSound(tree, live, {}) /\ alloc = Nodes(live)  BY <1>1, Quiet
<1>3. TreeSound(made, ws, {})  BY <1>1, <1>2, CreatedTree
<1>4. at # None => at \in ClientPlace /\ owner(at[1]) \in live \union {Screen}
  BY <1>1, <1>2, PlaceIs
<1> HIDE DEF made, at, cont
<1>5. TreeSound(widget_attach(made, w, shown[p], at, cont), ws, {})
  BY <1>3, <1>4, TakePlace
<1>6. alloc' = Nodes(live')  BY <1>2, CreatedNodes DEF rqh_mkwidget
<1> QED BY <1>1, <1>5, <1>6, QuietNext

LEMMA AttachWidget ==
  ASSUME Inv, NEW w \in Widget, NEW p \in Widget, NEW rship \in Rship,
         rqh_attachwidget(w, p, rship)
  PROVE  Inv'
<1> DEFINE at == Place(p, rship)
           cont == Container(p, rship)
<1>1. /\ frames = <<>> /\ frames' = <<>> /\ w \in live /\ live' = live /\ alloc' = alloc
      /\ p \in live \intersect Widget
      /\ tree' = widget_attach(tree, w, shown[p], at, cont)
  BY DEF rqh_attachwidget, Idle, Parent
<1>2. TreeSound(tree, live, {}) /\ alloc = Nodes(live)  BY <1>1, Quiet
<1>3. at # None => at \in ClientPlace /\ owner(at[1]) \in live \union {Screen}
  BY <1>1, <1>2, PlaceIs
<1> HIDE DEF at, cont
<1>4. TreeSound(widget_attach(tree, w, shown[p], at, cont), live, {})
  BY <1>1, <1>2, <1>3, TakePlace
<1> QED BY <1>1, <1>2, <1>4, QuietNext

LEMMA DetachWidget ==
  ASSUME Inv, NEW w \in Widget, rqh_detachwidget(w)
  PROVE  Inv'
<1>1. /\ frames = <<>> /\ frames' = <<>> /\ w \in live /\ live' = live /\ alloc' = alloc
      /\ tree' = widget_attach(tree, w, FALSE, None, None)
  BY DEF rqh_detachwidget, Idle, detach
<1>2. TreeSound(tree, live, {}) /\ alloc = Nodes(live)  BY <1>1, Quiet
<1>3. TreeSound(tree', live, {})  BY <1>1, <1>2, TakePlace
<1> QED BY <1>1, <1>2, <1>3, QuietNext

-----------------------------------------------------------------------------
(* The removals under way, as one of them goes on.                         *)
LEMMA Tuples ==
  ASSUME NEW f
  PROVE  /\ <<f>> # <<>> /\ <<f>>[1] = f /\ Tail(<<f>>) = <<>>
         /\ \A g : /\ <<f, g>> # <<>> /\ <<f, g>>[1] = f /\ Tail(<<f, g>>) = <<g>>
                   /\ <<f>> \o <<g>> = <<f, g>>
         /\ \A x : [<<f>> EXCEPT ![1].pc = x] = <<[f EXCEPT !.pc = x]>>
         /\ \A g, x : [<<f, g>> EXCEPT ![1].pc = x] = <<[f EXCEPT !.pc = x], g>>
<1>1. /\ <<f>> # <<>> /\ <<f>>[1] = f /\ Tail(<<f>>) = <<>>
      /\ \A g : <<f, g>> # <<>> /\ <<f, g>>[1] = f /\ Tail(<<f, g>>) = <<g>>
  OBVIOUS
<1>2. ASSUME NEW g PROVE <<f>> \o <<g>> = <<f, g>>
  <2> DEFINE a == <<f>>
             b == <<g>>
  <2>1. a \in Seq({f, g}) /\ b \in Seq({f, g}) /\ Len(a) = 1 /\ Len(b) = 1 /\ a[1] = f /\ b[1] = g
    OBVIOUS
  <2> HIDE DEF a, b
  <2>2. a \o b \in Seq({f, g}) /\ Len(a \o b) = 2 /\ (a \o b)[1] = f /\ (a \o b)[2] = g
    BY <2>1, ConcatProperties
  <2>3. <<f, g>> \in Seq({f, g}) /\ Len(<<f, g>>) = 2
    OBVIOUS
  <2>4. a \o b = <<f, g>>
    <3> DEFINE c == a \o b
               d == <<f, g>>
    <3>1. d[1] = f /\ d[2] = g  OBVIOUS
    <3> HIDE DEF c, d
    <3>2. \A i \in 1 .. Len(c) : c[i] = d[i]
      <4>1. \A i \in 1 .. 2 : i = 1 \/ i = 2  OBVIOUS
      <4> QED BY <2>2, <3>1, <4>1 DEF c
    <3>3. c \in Seq({f, g}) /\ d \in Seq({f, g}) /\ Len(c) = Len(d)  BY <2>2, <2>3 DEF c, d
    <3>4. c = d  BY <3>2, <3>3, SeqEqual
    <3> QED BY <3>4 DEF c, d
  <2> QED BY <2>4 DEF a, b
<1>3. ASSUME NEW x PROVE [<<f>> EXCEPT ![1].pc = x] = <<[f EXCEPT !.pc = x]>>
  <2> DEFINE h == [f EXCEPT !.pc = x]
  <2>1. [<<f>> EXCEPT ![1].pc = x] = [<<f>> EXCEPT ![1] = h]  OBVIOUS
  <2> HIDE DEF h
  <2>2. [<<f>> EXCEPT ![1] = h] = <<h>>  OBVIOUS
  <2> QED BY <2>1, <2>2 DEF h
<1>4. ASSUME NEW g, NEW x
      PROVE  [<<f, g>> EXCEPT ![1].pc = x] = <<[f EXCEPT !.pc = x], g>>
  <2> DEFINE h == [f EXCEPT !.pc = x]
  <2>1. [<<f, g>> EXCEPT ![1].pc = x] = [<<f, g>> EXCEPT ![1] = h]  OBVIOUS
  <2> HIDE DEF h
  <2>2. [<<f, g>> EXCEPT ![1] = h] = <<h, g>>  OBVIOUS
  <2> QED BY <2>1, <2>2 DEF h
<1> QED BY <1>1, <1>2, <1>3, <1>4

LEMMA FramePc ==
  ASSUME NEW f \in [w : AnyWidget, oldwhere : Pointer \union {None}, pc : Pc], NEW x \in Pc,
         NEW h, h = [f EXCEPT !.pc = x]
  PROVE  /\ h \in [w : AnyWidget, oldwhere : Pointer \union {None}, pc : Pc]
         /\ h.w = f.w /\ h.oldwhere = f.oldwhere /\ h.pc = x
OBVIOUS

(* What is empty for the client stays empty.                               *)
Emptier(l, wh, l2, wh2) ==
  /\ \A q \in ClientPlace : l[q] = None => l2[q] = None
  /\ \A x \in AnyWidget : wh[x] = None => wh2[x] = None

LEMMA Keeps ==
  ASSUME NEW g, NEW l, NEW wh, NEW ws, FrameOK(g, l, wh, ws), g.w \in Widget, NEW l2, NEW wh2, NEW ws2,
         Emptier(l, wh, l2, wh2), g.w \in ws2
  PROVE  FrameOK(g, l2, wh2, ws2)
<1>1. /\ g.w \in AnyWidget /\ Out(g.w) \in ClientPlace
      /\ g.w \in Holder => Sub(g.w) \in ClientPlace
  BY PlaceTypes, KindFacts
<1>2. wh2[g.w] = None /\ l2[Out(g.w)] = None  BY <1>1 DEF FrameOK, Emptier
<1>3. g.w \in Holder /\ g.pc # "children" => l2[Sub(g.w)] = None  BY <1>1 DEF FrameOK, Emptier
<1>4. \A s \in Scrollbox : g.w # <<s, "box">>  BY PartFacts DEF Kind
<1> QED BY <1>2, <1>3, <1>4 DEF FrameOK

LEMMA Onwards ==
  ASSUME NEW fs, NEW away, NEW l, NEW wh, NEW ws, FramesOK(fs, away, l, wh, ws), fs # <<>>,
         NEW x \in Pc, NEW h, h = [fs[1] EXCEPT !.pc = x],
         NEW l2, NEW wh2, Emptier(l, wh, l2, wh2), FrameOK(h, l2, wh2, ws), GonePast(h, ws, None)
  PROVE  FramesOK([fs EXCEPT ![1].pc = x], away, l2, wh2, ws)
<1>1. CASE \E f : fs = <<f>> /\ One(f, away, l, wh, ws)
  <2>1. PICK f : fs = <<f>> /\ One(f, away, l, wh, ws)  BY <1>1
  <2>2. fs[1] = f /\ [fs EXCEPT ![1].pc = x] = <<h>>  BY <2>1, Tuples
  <2>3. h.w = f.w  BY <2>1, <2>2, FramePc DEF One, FrameOK
  <2>4. One(h, away, l2, wh2, ws)  BY <2>1, <2>3 DEF One
  <2> QED BY <2>2, <2>4 DEF FramesOK
<1>2. CASE \E f, g : fs = <<f, g>> /\ Two(f, g, away, l, wh, ws)
  <2>1. PICK f, g : fs = <<f, g>> /\ Two(f, g, away, l, wh, ws)  BY <1>2
  <2>2. fs[1] = f /\ [fs EXCEPT ![1].pc = x] = <<h, g>>  BY <2>1, Tuples
  <2>3. h.w = f.w  BY <2>1, <2>2, FramePc DEF Two, FrameOK
  <2>4. FrameOK(g, l2, wh2, ws)
    <3>1. FrameOK(g, l, wh, ws) /\ g.w \in Widget /\ g.w \in ws  BY <2>1, KindFacts DEF Two, FrameOK
    <3> QED BY <3>1, Keeps
  <2>5. Two(h, g, away, l2, wh2, ws)  BY <2>1, <2>3, <2>4 DEF Two
  <2> QED BY <2>2, <2>5 DEF FramesOK
<1> QED BY <1>1, <1>2 DEF FramesOK

LEMMA Waiting ==
  ASSUME NEW fs, NEW away, NEW l, NEW wh, NEW ws, FramesOK(fs, away, l, wh, ws),
         NEW l2, NEW wh2, \A q \in Pointer : l[q] = None => l2[q] = None,
         \A y \in AnyWidget : wh[y] = None => wh2[y] = None
  PROVE  FramesOK(fs, away, l2, wh2, ws)
<1>1. ASSUME NEW f, FrameOK(f, l, wh, ws) PROVE FrameOK(f, l2, wh2, ws)
  <2>1. f.w \in ws  BY <1>1 DEF FrameOK
  <2> QED BY <1>1, <2>1, FrameKeeps
<1>2. CASE fs = <<>> /\ away = {}  BY <1>2 DEF FramesOK
<1>3. CASE \E f : fs = <<f>> /\ One(f, away, l, wh, ws)
  <2>1. PICK f : fs = <<f>> /\ One(f, away, l, wh, ws)  BY <1>3
  <2>2. One(f, away, l2, wh2, ws)  BY <1>1, <2>1 DEF One
  <2> QED BY <2>1, <2>2 DEF FramesOK
<1>4. CASE \E f, g : fs = <<f, g>> /\ Two(f, g, away, l, wh, ws)
  <2>1. PICK f, g : fs = <<f, g>> /\ Two(f, g, away, l, wh, ws)  BY <1>4
  <2>2. Two(f, g, away, l2, wh2, ws)  BY <1>1, <2>1 DEF Two
  <2> QED BY <2>1, <2>2 DEF FramesOK
<1> QED BY <1>2, <1>3, <1>4 DEF FramesOK

LEMMA TopFrame ==
  ASSUME NEW fs, NEW away, NEW l, NEW wh, NEW ws, FramesOK(fs, away, l, wh, ws), fs # <<>>
  PROVE  /\ FrameOK(fs[1], l, wh, ws) /\ fs[1].w \in away
         /\ fs[1].w \in Scrollbox => fs = <<fs[1]>> /\ One(fs[1], away, l, wh, ws)
<1>1. CASE \E f : fs = <<f>> /\ One(f, away, l, wh, ws)
  <2>1. PICK f : fs = <<f>> /\ One(f, away, l, wh, ws)  BY <1>1
  <2>2. fs[1] = f  BY <2>1, Tuples
  <2> QED BY <2>1, <2>2 DEF One
<1>2. CASE \E f, g : fs = <<f, g>> /\ Two(f, g, away, l, wh, ws)
  <2>1. PICK f, g : fs = <<f, g>> /\ Two(f, g, away, l, wh, ws)  BY <1>2
  <2>2. fs[1] = f  BY <2>1, Tuples
  <2>3. f.w \in Part  BY <2>1 DEF Two, Parts
  <2>4. f.w \notin Scrollbox  BY <2>3, KindFacts
  <2> QED BY <2>1, <2>2, <2>4 DEF Two
<1> QED BY <1>1, <1>2 DEF FramesOK

-----------------------------------------------------------------------------
(* The steps of a removal.                                                 *)
LEMMA Enter ==
  ASSUME Inv, frames = <<>>, NEW w \in live, Leave(w), frames' = <<Frame(w)>>,
         live' = live, alloc' = alloc
  PROVE  Inv'
<1>1. TreeSound(tree, live, {}) /\ alloc = Nodes(live)  BY Quiet
<1>2. w \in Part => tree.where[w] # None  BY <1>1 DEF TreeSound, Sound, Seated
<1>3. tree' = widget_attach(tree, w, FALSE, None, None)  BY DEF Leave, detach
<1>4. TreeSound(tree', live, {w}) /\ Without(tree, tree', w)
  <2>1. {} \union {w} = {w}  OBVIOUS
  <2> QED BY <1>1, <1>2, <1>3, <2>1, DetachTree
<1>5. FrameOK(Frame(w), tree'.link, tree'.where, live)
  <2>1. Frame(w) = [w |-> w, oldwhere |-> tree.where[w], pc |-> "children"]
    BY DEF Frame, where
  <2> QED BY <1>1, <1>2, <1>4, <2>1, FrameNew
<1>6. One(Frame(w), {w}, tree'.link, tree'.where, live)
  <2>1. Frame(w).w = w /\ Frame(w).pc = "children"  BY DEF Frame
  <2>2. GonePast(Frame(w), live, None)  BY <2>1 DEF GonePast, Passed
  <2> QED BY <1>5, <2>1, <2>2 DEF One
<1>7. FramesOK(frames', {w}, link', where', live')  BY <1>6 DEF FramesOK, link, where
<1> QED BY <1>1, <1>4, <1>7 DEF Inv

LEMMA FreeHandle ==
  ASSUME Inv, NEW w \in Widget, rqh_free(w)
  PROVE  Inv'
BY Enter DEF rqh_free, Idle

LEMMA Cleanup ==
  ASSUME Inv, handle_cleanup
  PROVE  Inv'
<1>1. live' = live /\ alloc' = alloc /\ frames = <<>>  BY DEF handle_cleanup
<1>2. CASE tree' = tree /\ frames' = frames  BY <1>1, <1>2 DEF Inv, link, where
<1>3. ASSUME NEW w \in live, Leave(w), frames' = <<Frame(w)>> PROVE Inv'
  BY <1>1, <1>3, Enter
<1> QED BY <1>2, <1>3 DEF handle_cleanup

LEMMA SubKinds ==
  ASSUME NEW w \in AnyWidget
  PROVE  \/ w \in Holder
         \/ \E s \in Scrollbox : w = <<s, "box">> /\ Sub(w) = BoxSub(s)
         \/ Sub(w) = None
<1>1. CASE w \in Widget  BY <1>1, SubFacts, KindFacts DEF Holder
<1>2. CASE w \in Part
  <2>1. PICK s \in Scrollbox, k \in Kind : w = <<s, k>>  BY <1>2, KindFacts DEF Kind
  <2> QED BY <2>1, SubFacts, PartFacts DEF Kind
<1> QED BY <1>1, <1>2, KindFacts

(* What widget_traverse finds in the sub of w.                             *)
LEMMA ChildIs ==
  ASSUME NEW ws, NEW away, TreeSound(tree, ws, away), NEW w \in AnyWidget
  PROVE  /\ FirstChild(w) # None => FirstChild(w) \in Widget \intersect ws
         /\ FirstChild(w) # None => where[FirstChild(w)] # None
         /\ FirstChild(w) = None /\ w \in Holder => link[Sub(w)] = None
<1> USE DEF link, where
<1>1. /\ Home(tree.link) /\ Typed(tree.link, tree.where) /\ Agree(tree.link, tree.where, ws)
  BY DEF TreeSound, Sound, Linkage
<1>2. ASSUME w \in Holder, link[Sub(w)] # None
      PROVE  FirstChild(w) \in Widget \intersect ws /\ where[FirstChild(w)] # None
  <2>1. Sub(w) \in ClientPlace /\ Sub(w) \in Pointer /\ Sub(w) # None
    BY <1>2, PlaceTypes
  <2>2. PICK v \in Widget : link[Sub(w)] = In(v)  BY <1>1, <1>2, <2>1, FitsFacts DEF Home
  <2>3. v \in AnyWidget /\ owner(In(v)) = v /\ In(v) # None  BY NodeFacts, KindFacts
  <2>4. FirstChild(w) = v  BY <2>1, <2>2, <2>3 DEF FirstChild, IsIn
  <2>5. v \in ws  BY <1>1, <1>2, <2>1, <2>2, <2>3 DEF Agree
  <2>6. where[v] # None
    <3>1. where[v] = Sub(w)  BY <1>1, <2>1, <2>2, <2>3 DEF Agree
    <3> QED BY <2>1, <3>1
  <2> QED BY <2>4, <2>5, <2>6
<1>3. ASSUME FirstChild(w) # None PROVE w \in Holder /\ link[Sub(w)] # None
  <2>1. Sub(w) # None /\ IsIn(link[Sub(w)])  BY <1>3 DEF FirstChild
  <2>2. link[Sub(w)] # None  BY <2>1 DEF IsIn
  <2>3. ASSUME NEW s \in Scrollbox, Sub(w) = BoxSub(s) PROVE FALSE
    <3>1. BoxSub(s) \in Pointer  BY PlaceTypes
    <3>2. link[BoxSub(s)] = Interior(s)  BY <1>1, <2>2, <2>3, <3>1, FitsFacts DEF Home
    <3>3. Interior(s) # In(owner(Interior(s)))  BY DEF Interior, In, owner
    <3> QED BY <2>1, <2>3, <3>2, <3>3 DEF IsIn
  <2> QED BY <2>1, <2>2, <2>3, SubKinds
<1>4. FirstChild(w) = None /\ w \in Holder => link[Sub(w)] = None
  <2>1. None \notin Widget  BY NodeFacts, KindFacts
  <2> QED BY <1>2, <2>1
<1> QED BY <1>2, <1>3, <1>4

LEMMA ChildrenStep ==
  ASSUME Inv, RemoveChildren
  PROVE  Inv'
<1> USE DEF link, where
<1>1. PICK away : TreeSound(tree, live, away) /\ FramesOK(frames, away, link, where, live)
  BY DEF Inv
<1> DEFINE f == frames[1]
           child == FirstChild(f.w)
<1>2. frames # <<>> /\ f.pc = "children" /\ live' = live /\ alloc' = alloc
  BY DEF RemoveChildren, At
<1>3. FrameOK(f, link, where, live) /\ f.w \in AnyWidget  BY <1>1, <1>2, TopFrame DEF FrameOK
<1> HIDE DEF f
<1>4. CASE child # None /\ Leave(child) /\ frames' = frames
  <2>1. child \in Widget /\ child \in live /\ child \notin Part
    BY <1>1, <1>3, <1>4, ChildIs, KindFacts
  <2> HIDE DEF child
  <2>2. tree' = widget_attach(tree, child, FALSE, None, None)  BY <1>4 DEF Leave, detach
  <2>3. TreeSound(tree', live, away \union {child}) /\ Without(tree, tree', child)
    BY <1>1, <2>1, <2>2, DetachTree
  <2>4. TreeSound(tree', live, away)  BY <2>1, <2>3, NotAway
  <2>5. FramesOK(frames, away, tree'.link, tree'.where, live)
    <3>1. /\ \A q \in Pointer : tree.link[q] = None => tree'.link[q] = None
          /\ \A x \in AnyWidget : tree.where[x] = None => tree'.where[x] = None
      BY <2>3 DEF Without
    <3> QED BY <1>1, <3>1, Waiting
  <2> QED BY <1>2, <1>4, <2>4, <2>5 DEF Inv
<1>5. CASE child = None /\ Continue("splice") /\ tree' = tree
  <2> DEFINE h == [f EXCEPT !.pc = "splice"]
  <2>1. /\ h \in [w : AnyWidget, oldwhere : Pointer \union {None}, pc : Pc]
        /\ h.w = f.w /\ h.oldwhere = f.oldwhere /\ h.pc = "splice"
    BY <1>3, FramePc DEF FrameOK, Pc
  <2>2. h = [frames[1] EXCEPT !.pc = "splice"]  BY DEF f
  <2>3. frames' = [frames EXCEPT ![1].pc = "splice"]  BY <1>5 DEF Continue
  <2> HIDE DEF h
  <2>4. FrameOK(h, link, where, live)
    <3>1. f.w \in Holder => link[Sub(f.w)] = None  BY <1>1, <1>3, <1>5, ChildIs
    <3>2. \A s \in Scrollbox : f.w = <<s, "box">> => BoxFrame(h, s, link, live)
      BY <1>2, <1>3, <2>1 DEF FrameOK, BoxFrame
    <3> QED BY <1>3, <2>1, <3>1, <3>2 DEF FrameOK, Kind
  <2>5. GonePast(h, live, None)  BY <2>1 DEF GonePast, Passed
  <2>6. FramesOK(frames', away, link, where, live)
    <3>1. "splice" \in Pc  BY DEF Pc
    <3>2. Emptier(link, where, link, where)  BY DEF Emptier
    <3> QED BY <1>1, <1>2, <2>2, <2>3, <2>4, <2>5, <3>1, <3>2, Onwards
  <2> QED BY <1>1, <1>2, <1>5, <2>6 DEF Inv
<1>6. child # None => where[child] # None  BY <1>1, <1>3, ChildIs
<1> QED BY <1>4, <1>5, <1>6 DEF RemoveChildren, f

(* The interior of a scrollbox goes where its box has been.                *)
Rehang(t, s, p) == [[t EXCEPT !.link[p] = Interior(s)] EXCEPT !.link[BoxSub(s)] = None]

Rehung(t, u, s, p) ==
  /\ u.where = t.where
  /\ \A q \in Pointer : u.link[q] = IF q = BoxSub(s) THEN None
                                    ELSE IF q = p THEN Interior(s) ELSE t.link[q]

LEMMA Spliced ==
  ASSUME NEW t, NEW ws, NEW away, TreeSound(t, ws, away), NEW s \in Scrollbox, s \in ws,
         NEW p \in PartPlace(s), t.link[p] = None, owner(p[1]) \in ws,
         t.link[BoxSub(s)] = Interior(s)
  PROVE  TreeSound(Rehang(t, s, p), ws, away) /\ Rehung(t, Rehang(t, s, p), s, p)
<1> DEFINE u == Rehang(t, s, p)
<1>1. /\ IsTree(t) /\ Linkage(t.link, t.where, ws) /\ Home(t.link) /\ PartsIn(ws)
      /\ Hung(t.link, ws) /\ Seated(t.where, ws, away)
      /\ t.link \in [Pointer -> Node \union {None}]
  BY DEF TreeSound, Sound, Linkage, Typed
<1>2. /\ BoxSub(s) \in Pointer /\ p \in Pointer /\ p # BoxSub(s) /\ Interior(s) \in Node
      /\ Interior(s) # None /\ None \notin Node
      /\ \A x \in AnyWidget : In(x) # Interior(s) /\ In(x) # None
  BY PlaceTypes, PlacesApart, NodeFacts
<1> DEFINE l1 == [t.link EXCEPT ![p] = Interior(s)]
           l2 == [l1 EXCEPT ![BoxSub(s)] = None]
           t1 == [t EXCEPT !.link[p] = Interior(s)]
<1>3. t1 = [link |-> l1, where |-> t.where, shown |-> t.shown, container |-> t.container]
  BY <1>1 DEF IsTree
<1> HIDE DEF t1, l1
<1>4. u = [link |-> l2, where |-> t.where, shown |-> t.shown, container |-> t.container]
  <2>1. u = [t1 EXCEPT !.link[BoxSub(s)] = None]  BY DEF t1, Rehang
  <2> QED BY <1>3, <2>1
<1>5. /\ l2 \in [Pointer -> Node \union {None}]
      /\ \A q \in Pointer : l2[q] = IF q = BoxSub(s) THEN None
                                    ELSE IF q = p THEN Interior(s) ELSE t.link[q]
  BY <1>1, <1>2 DEF l1
<1> HIDE DEF l2, u
<1>6. IsTree(u) /\ u.link = l2 /\ u.where = t.where  BY <1>4 DEF IsTree
<1>7. Linkage(l2, t.where, ws)
  <2>1. ASSUME NEW q \in Pointer
        PROVE  \/ l2[q] = t.link[q]
               \/ /\ \A x \in AnyWidget : t.link[q] # In(x)
                  /\ \/ l2[q] = None
                     \/ /\ \E r \in Scrollbox : r \in ws /\ l2[q] = Interior(r)
                        /\ owner(q[1]) \in ws \union {Screen}
    <3>1. CASE q = BoxSub(s)  BY <1>2, <1>5, <3>1
    <3>2. CASE q = p
      <4>1. l2[q] = Interior(s)  BY <1>2, <1>5, <3>2
      <4> QED BY <1>2, <3>2, <4>1
    <3>3. CASE q # BoxSub(s) /\ q # p  BY <1>5, <3>3
    <3> QED BY <3>1, <3>2, <3>3
  <2> QED BY <1>1, <1>5, <2>1, Relinked
<1>8. Home(l2)
  <2> SUFFICES ASSUME NEW q \in Pointer, l2[q] # None PROVE Fits(q, l2[q])  BY DEF Home
  <2>1. CASE q = p
    <3>1. l2[q] = Interior(s)  BY <1>2, <1>5, <2>1
    <3> QED BY <2>1, <3>1 DEF Fits
  <2>2. CASE q # p
    <3>1. l2[q] = t.link[q]  BY <1>5, <2>2
    <3> QED BY <1>1, <3>1 DEF Home
  <2> QED BY <2>1, <2>2
<1>9. Hung(l2, ws)
  <2> SUFFICES ASSUME NEW r \in Scrollbox, r \in ws PROVE \E q \in Pointer : l2[q] = Interior(r)
    BY DEF Hung
  <2>1. CASE r = s  BY <1>2, <1>5, <2>1
  <2>2. CASE r # s
    <3>1. PICK q \in Pointer : t.link[q] = Interior(r)  BY <1>1 DEF Hung
    <3>2. Interior(r) # Interior(s) /\ Interior(r) # None
      <4>1. Interior(r) # Interior(s)  BY <2>2 DEF Interior
      <4> QED BY <4>1, NodeFacts
    <3>3. q # BoxSub(s) /\ q # p  BY <3>1, <3>2
    <3> QED BY <1>5, <3>1, <3>3
  <2> QED BY <2>1, <2>2
<1>10. Sound(l2, t.where, ws, away)  BY <1>1, <1>7, <1>8, <1>9 DEF Sound
<1> QED BY <1>5, <1>6, <1>10 DEF TreeSound, Rehung, u

LEMMA SpliceStep ==
  ASSUME Inv, Splice
  PROVE  Inv'
<1> USE DEF link, where
<1>1. PICK away : TreeSound(tree, live, away) /\ FramesOK(frames, away, link, where, live)
  BY DEF Inv
<1> DEFINE f == frames[1]
           x == AfterSplice(f.w)
           h == [f EXCEPT !.pc = x]
           rest == IF Sub(f.w) = None THEN None ELSE link[Sub(f.w)]
           moved == IF f.oldwhere = None THEN tree ELSE [tree EXCEPT !.link[f.oldwhere] = rest]
<1>2. /\ frames # <<>> /\ f.pc = "splice" /\ live' = live /\ alloc' = alloc
      /\ tree' = IF rest = None THEN tree ELSE [moved EXCEPT !.link[Sub(f.w)] = None]
      /\ frames' = [frames EXCEPT ![1].pc = x]
  BY DEF Splice, At, Continue
<1>3. FrameOK(f, link, where, live) /\ f.w \in AnyWidget  BY <1>1, <1>2, TopFrame DEF FrameOK
<1>4. x \in Pc /\ (x = "free" \/ (x = "scrollv" /\ f.w \in Scrollbox))
      /\ (f.w \in Scrollbox => x = "scrollv")
  BY DEF AfterSplice, Pc
<1>5. h = [frames[1] EXCEPT !.pc = x]  OBVIOUS
<1> HIDE DEF f, x
<1>6. /\ h \in [w : AnyWidget, oldwhere : Pointer \union {None}, pc : Pc]
      /\ h.w = f.w /\ h.oldwhere = f.oldwhere /\ h.pc = x
  BY <1>3, <1>4, FramePc DEF FrameOK
<1> HIDE DEF h, moved
<1>7. GonePast(h, live, None)  BY <1>4, <1>6 DEF GonePast, Passed
<1>8. CASE rest = None
  <2>1. tree' = tree  BY <1>2, <1>8
  <2>2. FrameOK(h, link, where, live)
    <3>1. ASSUME NEW s \in Scrollbox, f.w = <<s, "box">> PROVE BoxFrame(h, s, link, live)
      <4>1. link[BoxSub(s)] = None
        <5>1. Sub(f.w) = BoxSub(s) /\ BoxSub(s) # None
          <6>1. BoxSub(s) \in Pointer  BY PlaceTypes
          <6> QED BY <3>1, <6>1, PartFacts, NodeFacts
        <5> QED BY <1>8, <5>1
      <4>2. h.pc = "free"  BY <1>4, <1>6, <3>1, PartFacts DEF Kind
      <4> QED BY <4>1, <4>2 DEF BoxFrame
    <3>2. f.w \in Holder => link[Sub(f.w)] = None  BY <1>2, <1>3 DEF FrameOK
    <3> QED BY <1>3, <1>4, <1>6, <3>1, <3>2 DEF FrameOK, Kind
  <2>3. FramesOK(frames', away, link, where, live)
    <3>1. Emptier(link, where, link, where)  BY DEF Emptier
    <3> QED BY <1>1, <1>2, <1>4, <1>5, <1>7, <2>2, <3>1, Onwards
  <2> QED BY <1>1, <1>2, <2>1, <2>3 DEF Inv
<1>9. CASE rest # None
  <2>1. Sub(f.w) # None /\ link[Sub(f.w)] # None /\ rest = link[Sub(f.w)]  BY <1>9
  <2>2. f.w \notin Holder  BY <1>2, <1>3, <2>1 DEF FrameOK
  <2>3. PICK s \in Scrollbox : f.w = <<s, "box">> /\ Sub(f.w) = BoxSub(s)
    BY <1>3, <2>1, <2>2, SubKinds
  <2> DEFINE p == f.oldwhere
  <2>4. p \in PartPlace(s) /\ owner(p[1]) \in live /\ link[p] = None
    <3>1. BoxFrame(f, s, link, live)  BY <1>3, <2>3 DEF FrameOK
    <3> QED BY <1>2, <3>1 DEF BoxFrame
  <2>5. p # None /\ BoxSub(s) \in Pointer /\ p \in Pointer /\ p # BoxSub(s)
        /\ p \notin ClientPlace /\ BoxSub(s) \notin ClientPlace
    BY <2>4, PlaceTypes, PlacesApart, NodeFacts
  <2>6. rest = Interior(s)
    <3>1. Home(tree.link)  BY <1>1 DEF TreeSound, Sound
    <3> QED BY <2>1, <2>3, <2>5, <3>1, FitsFacts DEF Home
  <2>7. s \in live
    <3>1. PartsIn(live) /\ f.w \in live  BY <1>1, <1>3 DEF TreeSound, Sound, FrameOK
    <3> QED BY <2>3, <3>1 DEF PartsIn, Kind
  <2>8. tree' = Rehang(tree, s, p)
    <3>1. moved = [tree EXCEPT !.link[p] = Interior(s)]
      <4>1. moved = [tree EXCEPT !.link[p] = rest]  BY <2>5 DEF moved
      <4> HIDE DEF rest, p
      <4> QED BY <2>6, <4>1
    <3>2. tree' = [moved EXCEPT !.link[Sub(f.w)] = None]  BY <1>2, <1>9
    <3> HIDE DEF p
    <3> QED BY <2>3, <3>1, <3>2 DEF Rehang
  <2>9. tree.link[BoxSub(s)] = Interior(s)  BY <2>1, <2>3, <2>6
  <2> HIDE DEF p, rest
  <2>10. TreeSound(tree', live, away) /\ Rehung(tree, tree', s, p)
    BY <1>1, <2>4, <2>7, <2>8, <2>9, Spliced
  <2>11. FrameOK(h, tree'.link, tree'.where, live)
    <3>1. tree'.link[Out(f.w)] = None
      <4>1. Home(tree'.link) /\ Out(f.w) \in Pointer
        BY <1>3, <2>10, NodeFacts DEF TreeSound, Sound
      <4> QED BY <2>3, <4>1, Empty DEF Home
    <3>2. h.pc = "free"
      <4>1. f.w \notin Scrollbox  BY <2>3, PartFacts DEF Kind
      <4> QED BY <1>4, <1>6, <4>1
    <3>3. ASSUME NEW r \in Scrollbox, f.w = <<r, "box">> PROVE BoxFrame(h, r, tree'.link, live)
      <4>1. r = s  BY <2>3, <3>3
      <4> QED BY <2>5, <2>10, <3>2, <4>1 DEF BoxFrame, Rehung
    <3> QED BY <1>3, <1>6, <2>2, <2>10, <3>1, <3>2, <3>3 DEF FrameOK, Kind, Rehung
  <2>12. FramesOK(frames', away, tree'.link, tree'.where, live)
    <3>1. Emptier(tree.link, tree.where, tree'.link, tree'.where)
      BY <2>5, <2>10, PlaceTypes DEF Rehung, Emptier
    <3> QED BY <1>1, <1>2, <1>4, <1>5, <1>7, <2>11, <3>1, Onwards
  <2> QED BY <1>1, <1>2, <2>10, <2>12 DEF Inv
<1> QED BY <1>8, <1>9

LEMMA PartStep ==
  ASSUME Inv, RemovePart
  PROVE  Inv'
<1> USE DEF link, where
<1>1. PICK away : TreeSound(tree, live, away) /\ FramesOK(frames, away, link, where, live)
  BY DEF Inv
<1>2. PICK k \in Kind :
        /\ At(k) /\ live' = live /\ alloc' = alloc
        /\ IF <<frames[1].w, k>> \in live
           THEN /\ frames' = <<Frame(<<frames[1].w, k>>)>> \o [frames EXCEPT ![1].pc = AfterPart[k]]
                /\ Leave(<<frames[1].w, k>>)
           ELSE frames' = [frames EXCEPT ![1].pc = AfterPart[k]] /\ tree' = tree
  <2>1. DOMAIN AfterPart = Kind  BY DEF AfterPart, Kind
  <2> QED BY <2>1 DEF RemovePart
<1> DEFINE f == frames[1]
           part == <<f.w, k>>
           x == AfterPart[k]
           h == [f EXCEPT !.pc = x]
<1>3. frames # <<>> /\ f.pc = k  BY <1>2 DEF At
<1>4. FrameOK(f, link, where, live) /\ f.w \in Scrollbox
  BY <1>1, <1>2, <1>3, TopFrame DEF FrameOK
<1>5. frames = <<f>> /\ One(f, away, link, where, live)
  BY <1>1, <1>3, <1>4, TopFrame
<1>6. x \in {"scrollh", "box", "free"} /\ x \in Pc
      /\ \A j \in Kind : Passed(x, j) => j = k \/ Passed(k, j)
  <2>1. CASE k = "scrollv"
    <3>1. x = "scrollh"  BY <2>1 DEF AfterPart
    <3> QED BY <2>1, <3>1 DEF Passed, Pc
  <2>2. CASE k = "scrollh"
    <3>1. x = "box"  BY <2>2 DEF AfterPart
    <3> QED BY <2>2, <3>1 DEF Passed, Pc, Kind
  <2>3. CASE k = "box"
    <3>1. x = "free"  BY <2>3 DEF AfterPart
    <3> QED BY <2>3, <3>1 DEF Passed, Pc, Kind
  <2> QED BY <1>2, <2>1, <2>2, <2>3 DEF Kind
<1>7. [frames EXCEPT ![1].pc = x] = <<h>>
  <2> HIDE DEF x
  <2>1. [<<f>> EXCEPT ![1].pc = x] = <<h>>  BY Tuples
  <2> HIDE DEF f, h
  <2> QED BY <1>5, <2>1
<1> HIDE DEF f, x
<1>8. /\ h \in [w : AnyWidget, oldwhere : Pointer \union {None}, pc : Pc]
      /\ h.w = f.w /\ h.oldwhere = f.oldwhere /\ h.pc = x
  BY <1>4, <1>6, FramePc DEF FrameOK
<1> HIDE DEF h
<1>9. FrameOK(h, link, where, live)
  <2>1. f.w \in Holder /\ \A s \in Scrollbox : f.w # <<s, "box">>
    BY <1>4, PartFacts DEF Kind, Holder
  <2>2. link[Sub(f.w)] = None
    <3>1. k # "children"  BY DEF Kind
    <3> QED BY <1>3, <1>4, <2>1, <3>1 DEF FrameOK
  <2> QED BY <1>4, <1>8, <2>1, <2>2 DEF FrameOK
<1>10. \A j \in Kind : Passed(x, j) /\ <<f.w, j>> \in live => <<f.w, j>> = part
  <2>1. \A j \in Kind : <<f.w, j>> # None
    <3>1. \A j \in Kind : <<f.w, j>> \in AnyWidget  BY <1>4, PartFacts
    <3> QED BY <3>1, NodeFacts
  <2>2. \A j \in Kind : Passed(k, j) => <<f.w, j>> \notin live
    BY <1>3, <1>4, <1>5, <2>1 DEF One, GonePast
  <2> QED BY <1>6, <2>2
<1>11. CASE part \notin live
  <2>1. frames' = <<h>> /\ tree' = tree  BY <1>2, <1>7, <1>11 DEF f, x
  <2>2. GonePast(h, live, None)  BY <1>8, <1>10, <1>11 DEF GonePast
  <2>3. One(h, away, link, where, live)  BY <1>5, <1>8, <1>9, <2>2 DEF One
  <2>4. FramesOK(frames', away, link, where, live)  BY <2>1, <2>3 DEF FramesOK
  <2> QED BY <1>1, <1>2, <2>1, <2>4 DEF Inv
<1>12. CASE part \in live
  <2>1. frames' = <<Frame(part)>> \o <<h>> /\ Leave(part)
    BY <1>2, <1>7, <1>12 DEF f, x
  <2>2. frames' = <<Frame(part), h>>  BY <2>1, Tuples
  <2>3. /\ part \in Part /\ part \in Parts(f.w) /\ part # f.w
    BY <1>2, <1>4, PartFacts, PartsOf DEF Kind
  <2> DEFINE v == part
  <2> HIDE DEF part, v
  <2>4. tree.where[part] # None
    <3>1. away = {f.w}  BY <1>5 DEF One
    <3> QED BY <1>1, <1>12, <2>3, <3>1 DEF TreeSound, Sound, Seated
  <2>5. tree' = widget_attach(tree, part, FALSE, None, None)  BY <2>1 DEF Leave, detach
  <2>6. TreeSound(tree', live, away \union {part}) /\ Without(tree, tree', part)
    BY <1>1, <1>12, <2>4, <2>5, DetachTree
  <2>7. FrameOK(Frame(part), tree'.link, tree'.where, live)
    <3>1. Frame(part) = [w |-> part, oldwhere |-> tree.where[part], pc |-> "children"]
      BY DEF Frame
    <3> QED BY <1>1, <1>12, <2>4, <2>6, <3>1, FrameNew
  <2>8. FrameOK(h, tree'.link, tree'.where, live)
    <3>1. Emptier(tree.link, tree.where, tree'.link, tree'.where)
      BY <2>6, PlaceTypes DEF Without, Emptier
    <3>2. h.w \in Widget /\ h.w \in live  BY <1>4, <1>8, PartFacts DEF FrameOK
    <3> QED BY <1>9, <3>1, <3>2, Keeps
  <2>9. GonePast(h, live, part)  BY <1>8, <1>10 DEF GonePast
  <2>10. Two(Frame(part), h, away \union {part}, tree'.link, tree'.where, live)
    <3>1. Frame(part).w = part  BY DEF Frame
    <3>2. away \union {part} = {part, h.w}  BY <1>5, <1>8 DEF One
    <3> QED BY <1>4, <1>6, <1>8, <2>3, <2>7, <2>8, <2>9, <3>1, <3>2 DEF Two
  <2>11. FramesOK(frames', away \union {part}, tree'.link, tree'.where, live)
    BY <2>2, <2>10 DEF FramesOK
  <2> QED BY <1>2, <2>6, <2>11 DEF Inv
<1> QED BY <1>11, <1>12

(* r_divnode_free frees the nodes of the widget and no others.             *)
Freed(l, w) == {In(w)} \union Below(l, Out(w)) \union Below(l, <<In(w), "div">>)

LEMMA FreedIs ==
  ASSUME NEW t, NEW ws, NEW away, TreeSound(t, ws, away), NEW w \in ws,
         t.link[Out(w)] = None, w \in Holder => t.link[Sub(w)] = None,
         \A s \in Scrollbox : w = <<s, "box">> => t.link[BoxSub(s)] = None,
         w \in Scrollbox => \A k \in Kind : <<w, k>> \notin ws
  PROVE  /\ Freed(t.link, w) = NodesOf(w)
         /\ \A q \in Pointer : q[1] \in NodesOf(w) /\ t.link[q] # None
              => w \in Scrollbox /\ t.link[q] = Interior(w)
<1>1. /\ Home(t.link) /\ t.link \in [Pointer -> Node \union {None}] /\ w \in AnyWidget
      /\ Agree(t.link, t.where, ws) /\ Hung(t.link, ws)
  BY DEF TreeSound, Sound, Linkage, Typed
<1> DEFINE d == <<In(w), "div">>
<1>2. In(w) \in Node /\ Out(w) \in Pointer /\ d \in Pointer /\ Out(w) = <<In(w), "next">>
  BY <1>1, NodeFacts DEF Pointer, Out
<1>3. Below(t.link, Out(w)) = {}  BY <1>1, <1>2, BelowFacts
<1>4. \A q \in Pointer : q[1] = In(w) => q = Out(w) \/ q = d
  BY <1>2 DEF Pointer
<1>5. CASE w \notin Scrollbox
  <2>1. t.link[d] = None
    <3>1. CASE w \in Box
      <4>1. Sub(w) = d /\ w \in Holder  BY <3>1, SubFacts DEF Holder
      <4> QED BY <4>1
    <3>2. CASE w \in Part
      <4>1. PICK s \in Scrollbox, k \in Kind : w = <<s, k>>  BY <3>2, KindFacts DEF Kind
      <4>2. CASE k = "box"
        <5>1. d = BoxSub(s)  BY <4>1, <4>2 DEF BoxSub
        <5> QED BY <4>1, <4>2, <5>1
      <4>3. CASE k \in {"scrollh", "scrollv"}
        <5>1. ~Fits(d, t.link[d])  BY <4>1, <4>3, Empty
        <5> HIDE DEF d
        <5> QED BY <1>1, <1>2, <5>1 DEF Home
      <4> QED BY <4>1, <4>2, <4>3 DEF Kind
    <3>3. CASE w \in Leaf
      <4>1. ~Fits(d, t.link[d])  BY <3>3, LeafEmpty
      <4> HIDE DEF d
      <4> QED BY <1>1, <1>2, <4>1 DEF Home
    <3> QED BY <1>1, <1>5, <3>1, <3>2, <3>3, KindFacts
  <2> HIDE DEF d
  <2>2. Below(t.link, d) = {}  BY <1>1, <1>2, <2>1, BelowFacts
  <2>3. NodesOf(w) = {In(w)}  BY <1>5 DEF NodesOf
  <2>4. Freed(t.link, w) = NodesOf(w)  BY <1>3, <2>2, <2>3 DEF Freed, d
  <2>5. \A q \in Pointer : q[1] \in NodesOf(w) => t.link[q] = None
    BY <1>4, <2>1, <2>3
  <2> QED BY <2>4, <2>5
<1>6. CASE w \in Scrollbox
  <2> USE <1>6
  <2> DEFINE n == Interior(w)
             m == <<n, "next">>
             e == <<n, "div">>
  <2>1. n \in Node /\ m \in Pointer /\ e \in Pointer /\ n # None
    BY NodeFacts DEF Pointer
  <2>2. t.link[m] = None
    <3>1. ~Fits(m, t.link[m])  BY Empty
    <3> HIDE DEF m
    <3> QED BY <1>1, <2>1, <3>1 DEF Home
  <2>3. t.link[e] = None
    <3>1. Sub(w) = e /\ w \in Holder  BY SubFacts DEF Holder
    <3> QED BY <3>1
  <2>4. t.link[d] = n
    <3>1. PICK q \in Pointer : t.link[q] = n  BY <1>1 DEF Hung
    <3>2. q \in PartPlace(w) \union {BoxSub(w)}
      <4>1. Fits(q, Interior(w))  BY <1>1, <2>1, <3>1 DEF Home
      <4> QED BY <4>1, FitsFacts
    <3>3. owner(q[1]) \in ws \union {Screen}  BY <1>1, <2>1, <3>1 DEF Agree
    <3>4. \A k \in Kind : <<w, k>> \notin ws \union {Screen}
      <4>1. \A k \in Kind : <<w, k>> \in AnyWidget  BY PartFacts
      <4> QED BY <4>1, NodeFacts
    <3>5. q = d
      <4>1. q = d \/ \E k \in Kind : owner(q[1]) = <<w, k>>
        BY <3>2 DEF PartPlace, BoxSub, Out, In, owner, Kind
      <4> QED BY <3>3, <3>4, <4>1
    <3> QED BY <3>1, <3>5
  <2>5. \A q \in Pointer : q[1] = n => q = m \/ q = e
    <3> HIDE DEF n
    <3> QED BY DEF Pointer
  <2> HIDE DEF d, n
  <2>6. Below(t.link, d) = {n}  BY <1>1, <1>2, <2>1, <2>2, <2>3, <2>4, BelowFacts
  <2>7. NodesOf(w) = {In(w), n}  BY DEF NodesOf, n
  <2>8. Freed(t.link, w) = NodesOf(w)  BY <1>3, <2>6, <2>7 DEF Freed, d
  <2>9. ASSUME NEW q \in Pointer, q[1] \in NodesOf(w), t.link[q] # None
        PROVE  t.link[q] = n
    <3> HIDE DEF m, e
    <3> QED BY <1>4, <2>2, <2>3, <2>4, <2>5, <2>7, <2>9
  <2> QED BY <2>8, <2>9 DEF n
<1> QED BY <1>5, <1>6

Prune(t, w, freed) ==
  [t EXCEPT !.link = [p \in Pointer |-> IF p[1] \in freed THEN None ELSE @[p]],
            !.where[w] = None, !.shown[w] = FALSE, !.container[w] = None]

LEMMA OwnNodes ==
  /\ \A w \in AnyWidget, n \in Node : owner(n) = w <=> n \in NodesOf(w)
  /\ \A w \in AnyWidget : NodesOf(w) \subseteq Node
<1>1. \A w \in AnyWidget : In(w) \in Node /\ owner(In(w)) = w /\ w # Screen
  BY NodeFacts
<1>2. \A s \in Scrollbox : Interior(s) \in Node /\ owner(Interior(s)) = s  BY NodeFacts
<1>3. \A n \in Node : \/ owner(n) = Screen
                      \/ \E w \in AnyWidget : n = In(w)
                      \/ \E s \in Scrollbox : n = Interior(s)
  BY NodeFacts
<1>4. \A w \in AnyWidget : NodesOf(w) = IF w \in Scrollbox THEN {In(w), Interior(w)} ELSE {In(w)}
  BY DEF NodesOf
<1>5. ASSUME NEW w \in AnyWidget, NEW n \in Node, owner(n) = w PROVE n \in NodesOf(w)
  BY <1>1, <1>2, <1>3, <1>4, <1>5
<1> QED BY <1>1, <1>2, <1>4, <1>5

LEMMA Pruned ==
  ASSUME NEW t, NEW ws, NEW away, TreeSound(t, ws, away), NEW w \in ws, t.where[w] = None,
         \A q \in Pointer : q[1] \in NodesOf(w) /\ t.link[q] # None
           => w \in Scrollbox /\ t.link[q] = Interior(w),
         w \in Scrollbox => \A k \in Kind : <<w, k>> \notin ws,
         NEW u, u = Prune(t, w, NodesOf(w))
  PROVE  TreeSound(u, ws \ {w}, away \ {w}) /\ Emptier(t.link, t.where, u.link, u.where)
<1>1. /\ IsTree(t) /\ Linkage(t.link, t.where, ws) /\ Home(t.link) /\ PartsIn(ws)
      /\ Hung(t.link, ws) /\ Seated(t.where, ws, away) /\ Agree(t.link, t.where, ws)
      /\ t.link \in [Pointer -> Node \union {None}]
      /\ t.where \in [AnyWidget -> Pointer \union {None}] /\ w \in AnyWidget /\ ws \subseteq AnyWidget
  BY DEF TreeSound, Sound, Linkage, Typed
<1> DEFINE l == [p \in Pointer |-> IF p[1] \in NodesOf(w) THEN None ELSE t.link[p]]
           wh == [t.where EXCEPT ![w] = None]
           sh == [t.shown EXCEPT ![w] = FALSE]
           co == [t.container EXCEPT ![w] = None]
<1>2. u = [t EXCEPT !.link = l, !.where = wh, !.shown = sh, !.container = co]
  BY DEF Prune
<1>3. wh = t.where  BY <1>1
<1>4. /\ l \in [Pointer -> Node \union {None}]
      /\ \A q \in Pointer : l[q] = IF q[1] \in NodesOf(w) THEN None ELSE t.link[q]
  BY <1>1
<1> HIDE DEF l, wh, sh, co
<1>5. u = [link |-> l, where |-> wh, shown |-> sh, container |-> co]
  BY <1>1, <1>2 DEF IsTree
<1>6. IsTree(u) /\ u.link = l /\ u.where = t.where  BY <1>3, <1>5 DEF IsTree
<1>7. \A q \in Pointer : q[1] \in Node  BY DEF Pointer
<1>8. ASSUME NEW q \in Pointer, l[q] # None
      PROVE  /\ l[q] = t.link[q] /\ q[1] \notin NodesOf(w) /\ t.link[q] \in Node
             /\ l[q] # HeadNode /\ owner(l[q]) \in ws /\ owner(q[1]) \in ws \union {Screen}
             /\ owner(q[1]) # w /\ owner(l[q]) # w
  <2>1. /\ l[q] = t.link[q] /\ q[1] \notin NodesOf(w) /\ t.link[q] \in Node
    BY <1>1, <1>4, <1>8
  <2>2. /\ l[q] # HeadNode /\ owner(l[q]) \in ws /\ owner(q[1]) \in ws \union {Screen}
    BY <1>1, <1>8, <2>1 DEF Agree
  <2>3. owner(q[1]) # w  BY <1>1, <1>7, <2>1, OwnNodes
  <2>4. l[q] # In(w)  BY <1>1, <2>1, DeadNull
  <2>5. ASSUME w \in Scrollbox, l[q] = Interior(w) PROVE FALSE
    <3>1. Fits(q, Interior(w))  BY <1>1, <1>8, <2>1, <2>5 DEF Home
    <3>2. q \in PartPlace(w) \union {BoxSub(w)}  BY <2>5, <3>1, FitsFacts
    <3>3. owner(q[1]) = w \/ \E k \in Kind : owner(q[1]) = <<w, k>>
      BY <3>2 DEF PartPlace, BoxSub, Out, In, owner, Kind
    <3>4. \A k \in Kind : <<w, k>> \in AnyWidget  BY <2>5, PartFacts
    <3>5. \A k \in Kind : <<w, k>> \notin ws \union {Screen}  BY <2>5, <3>4, NodeFacts
    <3> QED BY <2>2, <2>3, <3>3, <3>5
  <2>6. owner(l[q]) # w
    <3>1. owner(l[q]) = w => l[q] \in NodesOf(w)  BY <1>1, <2>1, OwnNodes
    <3> QED BY <2>4, <2>5, <3>1 DEF NodesOf
  <2> QED BY <2>1, <2>2, <2>3, <2>6
<1>9. Agree(l, t.where, ws \ {w})
  <2>1. ASSUME NEW x \in AnyWidget, t.where[x] # None PROVE l[t.where[x]] = In(x)
    <3>1. t.where[x] \in Pointer /\ t.link[t.where[x]] = In(x) /\ In(x) # None
      BY <1>1, <2>1, NodeFacts DEF Agree
    <3>2. t.where[x][1] \notin NodesOf(w)
      <4>1. \A s \in Scrollbox : In(x) # Interior(s)  BY NodeFacts
      <4> QED BY <3>1, <4>1
    <3> QED BY <1>4, <3>1, <3>2
  <2>2. ASSUME NEW x \in AnyWidget, NEW q \in Pointer, l[q] = In(x) PROVE t.where[x] = q
    <3>1. In(x) # None  BY NodeFacts
    <3>2. t.link[q] = In(x)  BY <1>8, <2>2, <3>1
    <3> QED BY <1>1, <3>2 DEF Agree
  <2> QED BY <1>8, <2>1, <2>2 DEF Agree
<1>10. Linkage(l, t.where, ws \ {w})  BY <1>1, <1>4, <1>9 DEF Linkage, Typed
<1>11. Home(l)  BY <1>1, <1>8 DEF Home
<1>12. PartsIn(ws \ {w})
  <2> SUFFICES ASSUME NEW s \in Scrollbox, NEW k \in Kind, <<s, k>> \in ws \ {w}
               PROVE  s \in ws \ {w}
    BY DEF PartsIn
  <2>1. s \in ws  BY <1>1 DEF PartsIn
  <2> QED BY <2>1
<1>13. Hung(l, ws \ {w})
  <2> SUFFICES ASSUME NEW s \in Scrollbox, s \in ws \ {w}
               PROVE  \E q \in Pointer : l[q] = Interior(s)
    BY DEF Hung
  <2>1. PICK q \in Pointer : t.link[q] = Interior(s)  BY <1>1 DEF Hung
  <2>2. Interior(s) # None /\ Interior(s) # Interior(w)
    <3>1. Interior(s) # Interior(w)  BY DEF Interior
    <3> QED BY <3>1, NodeFacts
  <2>3. q[1] \notin NodesOf(w)  BY <2>1, <2>2
  <2> QED BY <1>4, <2>1, <2>3
<1>14. Seated(t.where, ws \ {w}, away \ {w})  BY <1>1 DEF Seated
<1>15. Sound(l, t.where, ws \ {w}, away \ {w})
  BY <1>10, <1>11, <1>12, <1>13, <1>14 DEF Sound
<1>16. \A q \in Pointer : t.link[q] = None => l[q] = None  BY <1>4
<1> QED BY <1>6, <1>15, <1>16, PlaceTypes DEF TreeSound, Emptier

LEMMA FreeStep ==
  ASSUME Inv, Free
  PROVE  Inv'
<1> USE DEF link, where
<1>1. PICK away : TreeSound(tree, live, away) /\ FramesOK(frames, away, link, where, live)
  BY DEF Inv
<1> DEFINE f == frames[1]
           w == f.w
<1>2. /\ frames # <<>> /\ f.pc = "free" /\ live' = live \ {w}
      /\ alloc' = alloc \ Freed(tree.link, w)
      /\ tree' = Prune(tree, w, Freed(tree.link, w))
      /\ frames' = Tail(frames)
  BY DEF Free, At, Freed, Prune
<1>3. /\ FrameOK(f, link, where, live)
      /\ w \in Scrollbox => One(f, away, link, where, live)
  BY <1>1, <1>2, TopFrame
<1> HIDE DEF f
<1>4. w \in live /\ w \in AnyWidget /\ tree.where[w] = None /\ tree.link[Out(w)] = None
  BY <1>3 DEF FrameOK
<1>5. w \in Holder => tree.link[Sub(w)] = None  BY <1>2, <1>3 DEF FrameOK
<1>6. \A s \in Scrollbox : w = <<s, "box">> => tree.link[BoxSub(s)] = None
  BY <1>2, <1>3 DEF FrameOK, BoxFrame
<1>7. w \in Scrollbox => \A k \in Kind : <<w, k>> \notin live
  <2> SUFFICES ASSUME w \in Scrollbox, NEW k \in Kind, <<w, k>> \in live PROVE FALSE
    OBVIOUS
  <2>1. <<w, k>> = None  BY <1>2, <1>3 DEF One, GonePast, Passed
  <2>2. <<w, k>> \in AnyWidget  BY PartFacts
  <2> QED BY <2>1, <2>2, NodeFacts
<1> HIDE DEF w
<1>8. /\ Freed(tree.link, w) = NodesOf(w)
      /\ \A q \in Pointer : q[1] \in NodesOf(w) /\ tree.link[q] # None
           => w \in Scrollbox /\ tree.link[q] = Interior(w)
  BY <1>1, <1>4, <1>5, <1>6, <1>7, FreedIs
<1>9. /\ TreeSound(tree', live', away \ {w})
      /\ Emptier(tree.link, tree.where, tree'.link, tree'.where)
  <2>1. tree' = Prune(tree, w, NodesOf(w))  BY <1>2, <1>8
  <2>2. /\ TreeSound(tree', live \ {w}, away \ {w})
        /\ Emptier(tree.link, tree.where, tree'.link, tree'.where)
    BY <1>1, <1>4, <1>7, <1>8, <2>1, Pruned
  <2> QED BY <1>2, <2>2
<1>10. alloc' = Nodes(live')
  <2>1. alloc = Nodes(live)  BY DEF Inv
  <2>2. live \subseteq AnyWidget  BY <1>1 DEF TreeSound, Sound, Linkage
  <2>3. HeadNode \notin NodesOf(w)
    <3>1. HeadNode \in Node /\ owner(HeadNode) # w  BY <1>4, NodeFacts
    <3> QED BY <1>4, <3>1, OwnNodes
  <2>4. ASSUME NEW x \in live, x # w PROVE NodesOf(x) \intersect NodesOf(w) = {}
    BY <1>4, <2>2, <2>4, OwnNodes
  <2> QED BY <1>2, <1>8, <2>1, <2>3, <2>4 DEF Nodes
<1>11. FramesOK(frames', away \ {w}, tree'.link, tree'.where, live')
  <2>1. CASE \E h : frames = <<h>> /\ One(h, away, link, where, live)
    <3>1. PICK h : frames = <<h>> /\ One(h, away, link, where, live)  BY <2>1
    <3>2. frames[1] = h /\ Tail(frames) = <<>>  BY <3>1, Tuples
    <3>3. away \ {w} = {}  BY <3>1, <3>2 DEF One, w, f
    <3> QED BY <1>2, <3>2, <3>3 DEF FramesOK
  <2>2. CASE \E h, g : frames = <<h, g>> /\ Two(h, g, away, link, where, live)
    <3>1. PICK h, g : frames = <<h, g>> /\ Two(h, g, away, link, where, live)  BY <2>2
    <3>2. frames[1] = h /\ Tail(frames) = <<g>>  BY <3>1, Tuples
    <3>3. h.w = w  BY <3>2 DEF w, f
    <3>4. g.w # w /\ g.w \in Widget /\ g.w \in live
      BY <3>1, <3>3, KindFacts DEF Two, FrameOK, Parts
    <3>5. away \ {w} = {g.w}  BY <3>1, <3>3, <3>4 DEF Two
    <3>6. FrameOK(g, tree'.link, tree'.where, live')
      <4>1. Emptier(tree.link, tree.where, tree'.link, tree'.where)
        BY <1>9
      <4>2. FrameOK(g, tree.link, tree.where, live)  BY <3>1 DEF Two
      <4>3. g.w \in live'  BY <1>2, <3>4
      <4> QED BY <3>4, <4>1, <4>2, <4>3, Keeps
    <3>7. GonePast(g, live', None)  BY <1>2, <3>1, <3>3 DEF Two, GonePast
    <3>8. One(g, away \ {w}, tree'.link, tree'.where, live')  BY <3>5, <3>6, <3>7 DEF One
    <3> QED BY <1>2, <3>2, <3>8 DEF FramesOK
  <2> QED BY <1>1, <1>2, <2>1, <2>2 DEF FramesOK
<1> QED BY <1>9, <1>10, <1>11 DEF Inv

-----------------------------------------------------------------------------
(* Nothing is there, at the beginning and when the server starts again.    *)
LEMMA Nothing ==
  ASSUME NEW t, t = NoTree
  PROVE  TreeSound(t, {}, {}) /\ {HeadNode} = Nodes({})
<1> DEFINE l == [p \in Pointer |-> None]
           wh == [x \in AnyWidget |-> None]
<1>1. t.link = l /\ t.where = wh /\ IsTree(t)  BY DEF NoTree, IsTree
<1>2. /\ l \in [Pointer -> Node \union {None}] /\ \A q \in Pointer : l[q] = None
      /\ wh \in [AnyWidget -> Pointer \union {None}] /\ \A x \in AnyWidget : wh[x] = None
  OBVIOUS
<1> HIDE DEF l, wh
<1>3. \A x \in AnyWidget : In(x) # None  BY NodeFacts
<1>4. Agree(l, wh, {})  BY <1>2, <1>3 DEF Agree
<1>5. Linkage(l, wh, {})  BY <1>2, <1>4 DEF Linkage, Typed
<1>6. Sound(l, wh, {}, {})  BY <1>2, <1>5 DEF Sound, Home, PartsIn, Hung, Seated
<1> QED BY <1>1, <1>6 DEF TreeSound, Nodes

LEMMA InitInv ==
  ASSUME Init
  PROVE  Inv
<1>1. TreeSound(tree, live, {}) /\ alloc = Nodes(live)  BY Nothing DEF Init
<1>2. FramesOK(frames, {}, link, where, live)  BY DEF Init, FramesOK
<1> QED BY <1>1, <1>2 DEF Inv

LEMMA OverflowStep ==
  ASSUME NEW w, Overflow(w)
  PROVE  Inv'
<1>1. live' = {} /\ alloc' = {HeadNode} /\ tree' = NoTree /\ frames' = <<>>
  BY DEF Overflow
<1>2. TreeSound(tree', live', {}) /\ alloc' = Nodes(live')
  <2>1. TreeSound(tree', {}, {}) /\ {HeadNode} = Nodes({})  BY <1>1, Nothing
  <2> QED BY <1>1, <2>1
<1> QED BY <1>1, <1>2, QuietNext

LEMMA StepInv ==
  ASSUME Inv, [Next]_vars
  PROVE  Inv'
<1>1. CASE UNCHANGED vars  BY <1>1 DEF vars, Inv, link, where
<1>2. ASSUME NEW c \in Client, closefd(c) PROVE Inv'
  BY <1>2 DEF closefd, Inv, link, where
<1>3. CASE \E w \in Widget :
             appmgr_register(w) \/ rqh_createwidget(w) \/ rqh_detachwidget(w) \/ rqh_free(w)
  BY <1>3, Register, CreateWidget, DetachWidget, FreeHandle
<1>4. CASE \E w, p \in Widget, rship \in Rship :
             rqh_mkwidget(w, p, rship) \/ rqh_attachwidget(w, p, rship)
  BY <1>4, MkWidget, AttachWidget
<1>5. CASE handle_cleanup  BY <1>5, Cleanup
<1>6. CASE widget_remove
  BY <1>6, ChildrenStep, SpliceStep, PartStep, FreeStep DEF widget_remove
<1>7. CASE \E w \in AnyWidget : Overflow(w)  BY <1>7, OverflowStep
<1> QED BY <1>1, <1>2, <1>3, <1>4, <1>5, <1>6, <1>7 DEF Next

(* What the pointers, the nodes and the removals under way are like at     *)
(* every step of every handler and removal, whatever clients attach where  *)
(* (widget.c).                                                             *)
THEOREM Invariant == Spec => []Inv
<1>1. Init => Inv  BY InitInv
<1>2. Inv /\ [Next]_vars => Inv'  BY StepInv
<1> QED BY <1>1, <1>2, PTL DEF Spec

(* The where of a widget leads to it and nothing else does, whatever the   *)
(* order in which widgets come, move and go, into each other, round in     *)
(* rings or out of everything (widget_attach).                             *)
THEOREM LinkedAlways == Spec => []Linked
<1>1. Inv => Linked
  <2> SUFFICES ASSUME Inv, NEW w \in live PROVE {p \in Pointer : link[p] = In(w)} = {where[w]} \ {None}
    BY DEF Linked
  <2> USE DEF link, where
  <2>1. /\ Agree(tree.link, tree.where, live) /\ Typed(tree.link, tree.where) /\ w \in AnyWidget
    BY DEF Inv, TreeSound, Sound, Linkage
  <2>2. None \notin Pointer  BY NodeFacts
  <2>3. \A p \in Pointer : link[p] = In(w) => where[w] = p  BY <2>1 DEF Agree
  <2>4. where[w] # None => where[w] \in Pointer /\ link[where[w]] = In(w)
    BY <2>1 DEF Agree, Typed
  <2> QED BY <2>2, <2>3, <2>4
<1> QED BY <1>1, Invariant, PTL

(* The nodes are those of the widgets there are: what a removal frees with *)
(* the node of the widget is the widget's own (r_divnode_free), and the    *)
(* interior of a scrollbox, that hangs in its box, goes with the scrollbox.*)
THEOREM NodesOfLiveAlways == Spec => []NodesOfLive
<1>1. Inv => NodesOfLive  BY DEF Inv, NodesOfLive, Nodes
<1> QED BY <1>1, Invariant, PTL
=============================================================================
