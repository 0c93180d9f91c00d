----------------------------- MODULE WidgetTree -----------------------------
(***************************************************************************)
(* The widgets on the screen (widget.c): how a client creates them, puts   *)
(* them in each other and next to each other, and removes them.            *)
(*                                                                         *)
(* What ties them together is pointers between divnodes, the rectangles    *)
(* of the layout. A node has two of them, "div" for what is inside it and  *)
(* "next" for what follows. A widget enters the tree with one node, its    *)
(* in; it has an out, where the next widget goes, and most have a sub,     *)
(* where the first child goes (a canvas, a textbox and a scrollbar have    *)
(* none: Leaf). The widget remembers in where the pointer that leads to    *)
(* its in.                                                                 *)
(*                                                                         *)
(* A scrollbox is made of three widgets of its own, two scrollbars and a   *)
(* box, and of a node, the interior, that it hangs in the box although the *)
(* box does not own it. A client that disconnects leaves its widgets to be *)
(* removed in the order the handle tree has them, the parts of a scrollbox *)
(* before it or after.                                                     *)
(*                                                                         *)
(* The server is one thread. The removal of a widget is several steps here *)
(* because it is a loop and removes other widgets on its way.              *)
(***************************************************************************)
EXTENDS Integers, FiniteSets, Sequences, SequencesExt

CONSTANTS
  Client,
  Box, Scrollbox, Leaf,  \* what clients call a widget; removed, it may come again
  Root,             \* the boxes that app managers make, one for an application
  Owner,            \* the client of each
  Public,           \* the boxes that take the widgets of other clients
  Screen, None

Widget == Box \union Scrollbox \union Leaf
Part == Scrollbox \X {"scrollh", "scrollv", "box"}
AnyWidget == Widget \union Part

ASSUME WidgetTreeAssumption ==
  /\ Root \subseteq Box /\ Public \subseteq Widget
  /\ Box \intersect Scrollbox = {} /\ Leaf \intersect (Box \union Scrollbox) = {}
  /\ IsFiniteSet(Widget)
  /\ Owner \in [Widget -> Client]
  /\ Screen \notin AnyWidget /\ None \notin AnyWidget

VARIABLES
  live,     \* the widgets there are
  alloc,    \* the nodes
  tree,     \* link: what each pointer of each node leads to; where, dt (is it
            \* that of the screen?) and container of each widget
  frames,   \* the removals under way, the innermost first
  closing   \* the client whose widgets handle_cleanup removes

vars == <<live, alloc, tree, frames, closing>>

link == tree.link
where == tree.where
shown == tree.shown
container == tree.container

-----------------------------------------------------------------------------
(* Nodes and the pointers in them.                                         *)
In(w) == <<w, "in">>
Interior(s) == <<s, "interior">>
HeadNode == <<Screen, "in">>
Node == {HeadNode} \union {In(w) : w \in AnyWidget} \union {Interior(s) : s \in Scrollbox}
Pointer == Node \X {"next", "div"}

ASSUME NodeAssumption == Widget \intersect Part = {} /\ None \notin Node \union Pointer

NodesOf(w) == {In(w)} \union (IF w \in Scrollbox THEN {Interior(w)} ELSE {})
owner(n) == n[1]

Top == <<HeadNode, "next">>
Out(w) == <<In(w), "next">>
Sub(w) ==
  CASE w \in Scrollbox -> <<Interior(w), "div">>
    [] w \in Box       -> <<In(w), "div">>
    [] w \in Leaf      -> None
    [] w \in Part      -> IF w[2] = "box" THEN <<In(w), "div">> ELSE None

client(w) == IF w \in Part THEN Owner[w[1]] ELSE Owner[w]

(* What can be reached from pointer p. *)
Below(l, p) ==
  LET Reach[ns \in SUBSET Node] ==
        LET more == ns \union ({l[<<n, f>>] : n \in ns, f \in {"next", "div"}} \ {None})
        IN IF more = ns THEN ns ELSE Reach[more]
  IN IF p = None THEN {} ELSE Reach[{l[p]} \ {None}]

IsIn(n) == n # None /\ n = In(owner(n))

(* Nothing looks whether a widget is attached inside itself, or inside one *)
(* of those inside it.                                                     *)
InItself(w) == In(w) \in Below(link, Sub(w))

-----------------------------------------------------------------------------
(* widget_attach, as a function of the tree: w leaves its place and, if p  *)
(* is a pointer, takes that one.                                           *)
OnlyItself(t, w, onscreen, cont) ==               \* mutant of r_widget_setcontainer
  [t EXCEPT !.shown[w] = onscreen, !.container[w] = cont]
r_widget_setcontainer(t, w, onscreen, cont) ==
  LET inside == {owner(n) : n \in Below(t.link, Sub(w))}
  IN [t EXCEPT
        !.shown = [x \in AnyWidget |-> IF x \in inside \union {w} THEN onscreen ELSE @[x]],
        !.container = [x \in AnyWidget |->
            IF x = w \/ (x \in inside /\ @[x] = @[w]) THEN cont ELSE @[x]]]

ForgetFollower(t, w) ==                           \* mutant of Detached
  IF t.where[w] = None THEN [t EXCEPT !.link[Out(w)] = None]
  ELSE [t EXCEPT !.link[t.where[w]] = t.link[Out(w)], !.link[Out(w)] = None]
Detached(t, w) ==
  LET next == t.link[Out(w)]
      t1 == IF t.where[w] = None THEN t ELSE [t EXCEPT !.link[t.where[w]] = next]
      t2 == IF IsIn(next) THEN [t1 EXCEPT !.where[owner(next)] = t.where[w]] ELSE t1
  IN [t2 EXCEPT !.link[Out(w)] = None]

LoseNext(t, w, p) == [t EXCEPT !.link[p] = In(w), !.where[w] = p]  \* mutant of Attached
Attached(t, w, p) ==
  LET next == t.link[p]
      t1 == [t EXCEPT !.link = [@ EXCEPT ![Out(w)] = next, ![p] = In(w)], !.where[w] = p]
  IN IF t1.link[Out(w)] = None THEN t1
     ELSE [t1 EXCEPT !.where[owner(t1.link[Out(w)])] = Out(w)]

widget_attach(t, w, onscreen, p, cont) ==
  LET away == Detached(r_widget_setcontainer(t, w, onscreen, cont), w)
  IN IF p = None THEN [away EXCEPT !.where[w] = None] ELSE Attached(away, w, p)

detach(t, w) == widget_attach(t, w, FALSE, None, None)

-----------------------------------------------------------------------------
(* widget_create with the install function of the widget. *)
Fresh(t, w, onscreen, cont) ==
  [t EXCEPT !.shown[w] = onscreen, !.container[w] = cont]

scrollbox_install(t, s, onscreen, cont) ==
  LET part(x, k, p) ==
        widget_attach(Fresh(x, <<s, k>>, onscreen, cont), <<s, k>>, onscreen, p, s)
      t1 == part(t, "scrollh", <<In(s), "div">>)
      t2 == part(t1, "scrollv", Out(<<s, "scrollh">>))
      t3 == part(t2, "box", Out(<<s, "scrollv">>))
  IN [t3 EXCEPT !.link[Sub(<<s, "box">>)] = Interior(s)]

widget_create(t, w, onscreen, cont) ==
  LET t1 == Fresh(t, w, onscreen, cont)
  IN IF w \in Scrollbox THEN scrollbox_install(t1, w, onscreen, cont) ELSE t1

Parts(w) == {p \in Part : p[1] = w}

Created(w) ==
  /\ w \notin live
  /\ live' = live \union {w} \union Parts(w)
  /\ alloc' = alloc \union UNION {NodesOf(x) : x \in {w} \union Parts(w)}

(* Where widget_derive puts a widget, and in whose container.              *)
BeforeIsAfter(p, rship) == IF rship = "inside" THEN Sub(p) ELSE Out(p)  \* mutant of Place
Place(p, rship) ==
  CASE rship = "inside" -> Sub(p)
    [] rship = "after"  -> Out(p)
    [] rship = "before" -> where[p]

Container(p, rship) == IF rship = "inside" THEN p ELSE container[p]

(* The parent that the request handlers take from client c.                *)
Parent(c, p, rship) ==
  /\ p \in live \intersect Widget
  /\ Owner[p] = c \/ (rship = "inside" /\ p \in Public)
  /\ p \in Root => rship = "inside"

Idle == frames = <<>> /\ closing = None

appmgr_register(w) ==
  /\ Idle /\ w \in Root /\ Created(w)
  /\ tree' = widget_attach(widget_create(tree, w, TRUE, None), w, TRUE, Top, None)
  /\ UNCHANGED <<frames, closing>>

rqh_createwidget(w) ==
  /\ Idle /\ w \in Widget \ Root /\ Created(w)
  /\ tree' = widget_create(tree, w, FALSE, None)
  /\ UNCHANGED <<frames, closing>>

rqh_mkwidget(w, p, rship) ==
  /\ Idle /\ w \in Widget \ Root /\ Parent(Owner[w], p, rship) /\ Created(w)
  /\ LET at == Place(p, rship)
         made == widget_create(tree, w, shown[p], Container(p, rship))
     IN tree' = widget_attach(made, w, shown[p], at, Container(p, rship))
  /\ UNCHANGED <<frames, closing>>

rqh_attachwidget(w, p, rship) ==
  /\ Idle /\ w \in live \intersect Widget /\ ~InItself(w)
  /\ Parent(Owner[w], p, rship)
  /\ tree' = widget_attach(tree, w, shown[p], Place(p, rship), Container(p, rship))
  /\ UNCHANGED <<live, alloc, frames, closing>>

rqh_detachwidget(w) ==   \* rqh_attachwidget, parent 0
  /\ Idle /\ w \in live \intersect Widget /\ ~InItself(w)
  /\ tree' = detach(tree, w)
  /\ UNCHANGED <<live, alloc, frames, closing>>

-----------------------------------------------------------------------------
(* widget_remove. It is called for the handle of a widget, freed by its    *)
(* client, at the end of its client, or by the scrollbox it is a part of.  *)
Frame(w) == [w |-> w, oldwhere |-> where[w], pc |-> "children"]

Leave(w) == ~InItself(w) /\ tree' = detach(tree, w)

rqh_free(w) ==
  /\ Idle /\ w \in live \intersect Widget
  /\ frames' = <<Frame(w)>> /\ Leave(w)
  /\ UNCHANGED <<live, alloc, closing>>

closefd(c) ==
  /\ Idle /\ closing' = c
  /\ UNCHANGED <<live, alloc, tree, frames>>

handle_cleanup ==
  /\ frames = <<>> /\ closing # None
  /\ LET mine == {w \in live : client(w) = closing}
     IN \/ /\ mine = {} /\ closing' = None
           /\ UNCHANGED <<tree, frames>>
        \/ \E w \in mine : frames' = <<Frame(w)>> /\ Leave(w) /\ UNCHANGED closing
  /\ UNCHANGED <<live, alloc>>

At(pc) == frames # <<>> /\ frames[1].pc = pc
Continue(pc) == frames' = [frames EXCEPT ![1].pc = pc]

(* widget_traverse, towards the children and the next widget. None is the  *)
(* null pointer.                                                           *)
FirstChild(w) ==
  IF Sub(w) # None /\ IsIn(link[Sub(w)]) THEN owner(link[Sub(w)]) ELSE None
Forward(w) == IF IsIn(link[Out(w)]) THEN owner(link[Out(w)]) ELSE None

RemoveChildren ==
  /\ At("children")
  /\ LET child == FirstChild(frames[1].w)
     IN IF child # None /\ where[child] # None
        THEN Leave(child) /\ UNCHANGED frames
        ELSE Continue("splice") /\ UNCHANGED tree
  /\ UNCHANGED <<live, alloc, closing>>

(* What is still in the sub of the widget belongs to another one and goes  *)
(* to the place the widget had. (The out is empty since widget_attach, and *)
(* what the code would do if it were not is left out.)                     *)
AfterSplice(w) == IF w \in Scrollbox THEN "scrollv" ELSE "free"
DropInside ==                                     \* mutant of Splice
  /\ At("splice") /\ Continue(AfterSplice(frames[1].w))
  /\ UNCHANGED <<live, alloc, tree, closing>>
Splice ==
  /\ At("splice")
  /\ LET w == frames[1].w
         rest == IF Sub(w) = None THEN None ELSE link[Sub(w)]
         moved == IF frames[1].oldwhere = None THEN tree
                  ELSE [tree EXCEPT !.link[frames[1].oldwhere] = rest]
     IN /\ tree' = IF rest = None THEN tree ELSE [moved EXCEPT !.link[Sub(w)] = None]
        /\ Continue(AfterSplice(w))
  /\ UNCHANGED <<live, alloc, closing>>

(* scrollbox_remove frees the handles of the parts that are left. *)
AfterPart == [scrollv |-> "scrollh", scrollh |-> "box", box |-> "free"]
RemovePart ==
  \E k \in DOMAIN AfterPart :
    /\ At(k)
    /\ LET part == <<frames[1].w, k>>
           rest == [frames EXCEPT ![1].pc = AfterPart[k]]
       IN IF part \in live THEN frames' = <<Frame(part)>> \o rest /\ Leave(part)
          ELSE frames' = rest /\ UNCHANGED tree
    /\ UNCHANGED <<live, alloc, closing>>

(* r_divnode_free of the in, with all that hangs from it. *)
Free ==
  /\ At("free")
  /\ LET w == frames[1].w
         freed == {In(w)} \union Below(link, Out(w)) \union Below(link, <<In(w), "div">>)
     IN /\ live' = live \ {w}
        /\ alloc' = alloc \ freed
        /\ tree' = [tree EXCEPT !.link = [p \in Pointer |-> IF p[1] \in freed THEN None ELSE @[p]],
                                !.where[w] = None, !.shown[w] = FALSE, !.container[w] = None]
  /\ frames' = Tail(frames) /\ UNCHANGED closing

widget_remove == RemoveChildren \/ Splice \/ RemovePart \/ Free

-----------------------------------------------------------------------------
NoTree ==
  [link |-> [p \in Pointer |-> None], where |-> [w \in AnyWidget |-> None],
   shown |-> [w \in AnyWidget |-> FALSE], container |-> [w \in AnyWidget |-> None]]

Init ==
  /\ live = {} /\ alloc = {HeadNode} /\ tree = NoTree
  /\ frames = <<>> /\ closing = None

(* A widget that is inside itself is attached, detached or removed:        *)
(* r_widget_setcontainer calls itself until the stack is full. The server  *)
(* is gone, and starts again.                                              *)
Overflow(w) ==
  /\ w \in live /\ InItself(w) /\ frames = <<>>
  /\ closing = None => w \in Widget
  /\ closing # None => closing = client(w)
  /\ live' = {} /\ alloc' = {HeadNode} /\ tree' = NoTree
  /\ frames' = <<>> /\ closing' = None

Rship == {"inside", "after", "before"}

Next ==
  \/ \E w \in Widget :
       appmgr_register(w) \/ rqh_createwidget(w) \/ rqh_detachwidget(w) \/ rqh_free(w)
  \/ \E w, p \in Widget, rship \in Rship :
       rqh_mkwidget(w, p, rship) \/ rqh_attachwidget(w, p, rship)
  \/ \E c \in Client : closefd(c)
  \/ handle_cleanup
  \/ widget_remove
  \/ \E w \in AnyWidget : Overflow(w)

Spec == Init /\ [][Next]_vars
-----------------------------------------------------------------------------
(* Where and the pointers agree, at every step of every removal: the where *)
(* of a widget leads to it, and nothing else does (widget_attach sets the  *)
(* two separately, and mends the where of the widget that follows).        *)
Linked ==
  \A w \in live :
    {p \in Pointer : link[p] = In(w)} = {where[w]} \ {None}

(* There are the nodes of the widgets there are and no others, whatever    *)
(* the order of the removals: none is lost, and none is freed because it   *)
(* hung from the in of a widget that went (widget_remove, r_divnode_free). *)
NodesOfLive ==
  alloc = {HeadNode} \union UNION {NodesOf(w) : w \in live}

(* What a widget copies of its place (widget_derive): the container, that  *)
(* its properties and events are passed on to, and the divtree, that its   *)
(* changes are drawn in; it is the screen's for the widgets of lit. When a *)
(* scrollbox has lost its box, and is about to go, that is in no container *)
(* and not shown any more. The parts of scrollboxes keep the divtree they  *)
(* were made with (widget_attach, line 140).                               *)
Whole(v) == v \in Scrollbox => where[<<v, "box">>] # None
RightContainer(w) ==
  /\ where[w] = None => container[w] \in Leaf \union {None}
  /\ where[w] = Top => container[w] = None
  /\ \A v \in live \intersect Widget : where[w] # None =>
       /\ where[w] = Out(v) => container[w] = container[v]
       /\ where[w] = Sub(v) => container[w] = IF Whole(v) THEN v ELSE None
RightDivtree(w, lit) ==
  /\ where[w] = Top => w \in lit
  /\ \A v \in live \intersect Widget : where[w] # None =>
       /\ where[w] = Out(v) => (w \in lit <=> v \in lit)
       /\ where[w] = Sub(v) => (w \in lit <=> v \in lit /\ Whole(v))
  /\ shown[w] <=> w \in lit /\ Whole(w)
Copies ==
  /\ \A x \in live \intersect Part : where[x] # None => container[x] = x[1]
  /\ \A w \in live \intersect Widget : RightContainer(w)
  /\ \E lit \in SUBSET (live \intersect Widget) :
       \A w \in live \intersect Widget : RightDivtree(w, lit)

(* Widgets that follow each other round, and are reached from nowhere.     *)
Ring(S) == S # {} /\ \A w \in S : \E v \in S : where[w] = Out(v)
NoRing == \A S \in SUBSET (live \intersect Widget) : ~Ring(S)

(* No move of a widget, nor one of those around it, and no step of a       *)
(* removal makes a right copy wrong (r_widget_setcontainer). A widget that *)
(* is attached before the one that follows it makes a ring, and from there *)
(* it is different: those in it keep a container that they are not in, and *)
(* when that is moved they are taken for those inside.                     *)
CopiesKept == [][Copies /\ NoRing => Copies']_vars

(* widget_traverse, backwards: the node that leads to w is looked for from *)
(* the container, or else from the head of the divtree.                    *)
FromScreen(w) ==                                  \* mutant of Backward
  LET found == {p \in Pointer : link[p] = In(w) /\ p[1] \in {HeadNode} \union Below(link, Top)}
  IN IF \E p \in found : p[2] = "next" /\ owner(p[1]) # Screen
     THEN owner((CHOOSE p \in found : TRUE)[1]) ELSE None
Backward(w) ==
  LET from == IF container[w] # None THEN In(container[w]) ELSE HeadNode
      searched == {from} \union Below(link, <<from, "div">>) \union Below(link, <<from, "next">>)
      found == {p \in Pointer : link[p] = In(w) /\ p[1] \in searched}
  IN IF (container[w] = None /\ ~shown[w]) \/ found = {} THEN None
     ELSE LET p == CHOOSE p \in found : TRUE
          IN IF p[2] = "div" \/ owner(p[1]) = Screen THEN None ELSE owner(p[1])

(* Who walks from a widget to the next one can walk back, if the widgets   *)
(* are on the screen, or in one that is not inside itself, and the copies  *)
(* are right. (A widget inside a leaf is in no row of the container it     *)
(* records, and what is attached after it cannot be left backwards.)       *)
ThereAndBack ==
  Idle /\ Copies => \A w \in live :
    LET next == Forward(w)
        around == {HeadNode} \union {In(v) : v \in live}
        Inner(n) == IF n = HeadNode THEN Below(link, Top) ELSE Below(link, <<n, "div">>)
    IN next # None /\ (\E n \in around : n \notin Inner(n) /\ In(next) \in Inner(n))
         => Backward(next) = w

(* The tree is a forest: widgets in rows, the children of a widget or of   *)
(* the screen, or what follows a widget that is in no row. The parts of    *)
(* scrollboxes are not seen.                                               *)
Row(p) ==
  LET From[q \in Pointer, k \in 0..Cardinality(Widget)] ==
        IF k = 0 \/ link[q] = None THEN <<>>
        ELSE <<owner(link[q])>> \o From[<<link[q], "next">>, k - 1]
  IN From[p, Cardinality(Widget)]

Rows ==
  [kids |-> [x \in Widget \union {Screen} |->
               IF x = Screen THEN Row(Top)
               ELSE IF x \in live \ Leaf THEN Row(Sub(x)) ELSE <<>>],
   trail |-> [w \in Widget |-> IF where[w] = None THEN Row(Out(w)) ELSE <<>>]]

Forest == INSTANCE WidgetForest WITH present <- live \intersect Widget, rows <- Rows

(* Every step makes, moves or loosens one widget, or does not touch the    *)
(* forest; a removal first loosens the children, one by one. Widgets in a  *)
(* ring are loose.                                                         *)
Implements == Forest!Spec

(* A client gets its widget, new or old, where it has asked for it         *)
(* (client_c.h): in the parent, if that is a container, before all in it,  *)
(* or after the parent, or before it. What is next to a widget in a ring,  *)
(* or next to itself, is nowhere.                                          *)
Put(w, p, rship) == rqh_mkwidget(w, p, rship) \/ rqh_attachwidget(w, p, rship)

InRing(p) == \E S \in SUBSET (live \intersect Widget) : p \in S /\ Ring(S)

Places ==
  [][\A w, p \in Widget :
       /\ Put(w, p, "inside") /\ p \notin Leaf => Forest!Inside(w, p)
       /\ Put(w, p, "after") /\ p # w /\ ~InRing(p) => Forest!After(w, p)
       /\ Put(w, p, "before") /\ p # w /\ where[p] # Out(w) => Forest!Before(w, p)]_vars

(* "PG_DERIVE_BEFORE: Before the parent widget in the stacking order", says *)
(* client_c.h, of any parent. A widget put before the one that follows it  *)
(* is linked to itself instead, and gone from the screen.                  *)
BeforeParent ==
  [][\A w, p \in Widget :
       p # w /\ In(p) \in Below(link, Top) /\ Put(w, p, "before") => Forest!Before(w, p)]_vars
=============================================================================
