------------------------------ MODULE Pointer -------------------------------
(***************************************************************************)
(* Pointing devices: cursors and the widgets under them (cursor.c), the    *)
(* filters that make of what a driver reports the triggers of widgets      *)
(* (if_pntr_normalize.c, if_pntr_dispatch.c), and what else moves, hides   *)
(* or frees a cursor: navigation by hotspots, inactivity, popups, clients. *)
(*                                                                         *)
(* What is drawn is a map from the points of the screen to the widgets     *)
(* that react there, one for the root and one for a popup that covers it.  *)
(* A cursor remembers the handle of the widget it was last found over, and *)
(* widgets count the cursors over them; neither looks again when the       *)
(* drawing changes, until the whole display is updated. The handler of a   *)
(* trigger may do that, in the middle of a dispatch.                       *)
(*                                                                         *)
(* A handler of the code is an operator on a record of all that it         *)
(* changes. Handles are not reused, and what needs memory succeeds except  *)
(* for the handle of a new cursor.                                         *)
(***************************************************************************)
EXTENDS Integers, FiniteSets, SequencesExt

CONSTANTS
  Widget, Point, None,
  Chord,      \* sets of buttons that are down at a time
  Mouse,      \* cursors for drivers, clients and touchscreens
  HotCursor,  \* cursors for the navigation by hotspots
  Hotspot,    \* points where the cursor of hotspots may go
  Container,  \* of a widget
  Accepts,    \* trigger_mask, of each widget
  Redraws,    \* widgets whose triggers may update(NULL) (panelbars, text)
  Bitmap,     \* the cursor of a widget's theme
  Scene,      \* what clients would have drawn, if its widgets are there
  MaxForgotten

ASSUME PointerAssumption ==
  /\ None \notin Widget \union Mouse \union HotCursor /\ Mouse \intersect HotCursor = {}
  /\ Container \in [Widget -> Widget \union {None}]
  /\ Hotspot \subseteq Point /\ Point # {}
  /\ DOMAIN Accepts = Widget /\ Redraws \subseteq Widget
  /\ DOMAIN Bitmap = Widget \union {None}
  /\ Scene \subseteq [{1, 2} \X Point -> Widget \union {None}]
  /\ MaxForgotten \in Nat

VARIABLES
  live,      \* widgets there are
  top,       \* the divtree on top: 1 is the root's, 2 that of a popup
  ui,        \* cursors, their list and counts, and what is drawn
  handle,    \* cursors that have a handle
  hotspot,   \* the hotspot_cursor of each divtree
  unseen,    \* cursor_global_invisible
  forgotten  \* history: cursors that went without leaving their widget

pointervars == <<live, top, ui, handle, hotspot, unseen, forgotten>>

Cursor == Mouse \union HotCursor
Layer == {1, 2}
Place == (Layer \union {0}) \X Point   \* 0: the divtree has been freed

(* What is drawn of a scene: widgets that are there, in divtrees that are. *)
Drawn(scene, ws, layers) ==
  [p \in Layer \X Point |-> IF p[1] \in layers /\ scene[p] \in ws THEN scene[p] ELSE None]

NewCursor(place) ==
  [place |-> place, visible |-> FALSE, bitmap |-> Bitmap[None], under |-> None,
   capture |-> None, capture_btn |-> {}, prev_buttons |-> {}]

InUse(s) == ToSet(s.cursor_list)
Live(w) == w \in live                  \* rdhandle finds the widget

-----------------------------------------------------------------------------
(* cursor.c                                                                *)

(* A cursor whose divtree has gone is on the one on top.                   *)
cursor_getposition(s, c) ==
  LET p == s.crsr[c].place IN <<IF p[1] = 0 THEN top ELSE p[1], p[2]>>

cursor_set_theme(s, c, bitmap) ==
  IF s.crsr[c].bitmap = bitmap THEN s
  ELSE [s EXCEPT !.crsr[c].bitmap = bitmap, !.crsr[c].visible = TRUE]

cursor_widgetunder(s, c) ==
  LET w == s.at[cursor_getposition(s, c)]
  IN cursor_set_theme([s EXCEPT !.crsr[c].under = w], c, Bitmap[w])

(* Sends LEAVE with the last cursor and ENTER with the first.              *)
widget_set_numcursors(s, w, num) ==
  [s EXCEPT !.numcursors[w] = IF num < 0 THEN 0 ELSE num]

EntersOnly(s, c, old) ==                     \* mutant of cursor_change_under
  LET new == s.crsr[c].under
  IN IF Live(new) /\ new # old THEN widget_set_numcursors(s, new, s.numcursors[new] + 1) ELSE s
cursor_change_under(s, c, old) ==
  LET new == s.crsr[c].under
      entered == IF Live(new) THEN widget_set_numcursors(s, new, s.numcursors[new] + 1) ELSE s
  IN IF new = old THEN s
     ELSE IF Live(old) THEN widget_set_numcursors(entered, old, entered.numcursors[old] - 1)
     ELSE entered

Hover(s, c) == cursor_change_under(cursor_widgetunder(s, c), c, s.crsr[c].under)

cursor_move(s, c, place) ==
  Hover([s EXCEPT !.crsr[c].place = place,
                  !.cursor_list = <<c>> \o RemoveFirst(@, c)], c)

cursor_hide(s, c) ==
  IF ~s.crsr[c].visible THEN s
  ELSE cursor_change_under(
         [s EXCEPT !.crsr[c].visible = FALSE, !.crsr[c].under = None,
                   !.crsr[c].capture = None, !.crsr[c].capture_btn = {}], c, s.crsr[c].under)

(* From the first cursor of the list to the last. *)
cursor_update_hover(s) ==
  LET l == s.cursor_list
      Hovering[i \in 0..Len(l)] == IF i = 0 THEN s ELSE Hover(Hovering[i - 1], l[i])
  IN Hovering[Len(l)]

(* update(NULL, show): the divtree on top is laid out and drawn anew. What *)
(* clients have moved there has left the other divtree.                    *)
update(s, drawing) ==
  LET here == {drawing[<<top, q>>] : q \in Point}
  IN cursor_update_hover(
       [s EXCEPT !.at = [p \in DOMAIN @ |-> IF p[1] = top THEN drawing[p]
                                            ELSE IF @[p] \in here THEN None ELSE @[p]]])

(* A cursor begins where the default one is, and appears.                  *)
cursor_new(s, c) ==
  LET point == IF s.cursor_list = <<>> THEN CHOOSE p \in Point : TRUE
               ELSE s.crsr[Head(s.cursor_list)].place[2]
  IN [cursor_move([s EXCEPT !.crsr[c] = NewCursor(<<top, point>>)], c, <<top, point>>)
        EXCEPT !.crsr[c].visible = TRUE]

cursor_delete(s, c) ==
  [cursor_hide(s, c) EXCEPT !.cursor_list = RemoveFirst(@, c), !.pressed[c] = {}]

-----------------------------------------------------------------------------
(* Triggers (input_util.c). History: pressed[c] has the widgets that were  *)
(* told of a button of c that goes down, and not yet of one that goes up.  *)
Told(s, c, w, trigger) ==
  [s EXCEPT !.pressed[c] = CASE trigger = "DOWN" -> @ \union {w}
                             [] trigger \in {"UP", "RELEASE"} -> @ \ {w}
                             [] OTHER -> @]

send_trigger(s, c, w, trigger, drawing) ==
  IF ~Live(w) \/ trigger \notin Accepts[w] THEN s
  ELSE IF w \in Redraws THEN update(Told(s, c, w, trigger), drawing)
  ELSE Told(s, c, w, trigger)

Receiver(w, trigger) ==
  LET From[v \in Widget \union {None}] ==
        IF ~Live(v) \/ trigger \in Accepts[v] THEN v ELSE From[Container[v]]
  IN From[w]

send_propagating_trigger(s, c, w, trigger, drawing) ==
  send_trigger(s, c, Receiver(w, trigger), trigger, drawing)

-----------------------------------------------------------------------------
(* infilter_pntr_dispatch_handler                                          *)

(* The button of the capture is up and the pointer is elsewhere.           *)
CaptureEnds(s, c, btn) ==
  /\ btn \intersect s.crsr[c].capture_btn = {}
  /\ s.crsr[c].capture \notin {None, s.crsr[c].under}

Release(s, c, btn, drawing) ==
  IF ~CaptureEnds(s, c, btn) THEN s
  ELSE [send_trigger(s, c, s.crsr[c].capture, "RELEASE", drawing)
          EXCEPT !.crsr[c].capture = None, !.crsr[c].capture_btn = {}]

Snatched(s, c, chbtn) ==                                 \* mutant of Capture
  [s EXCEPT !.crsr[c].capture = s.crsr[c].under, !.crsr[c].capture_btn = chbtn]
(* A click captures, unless something is captured still. The widget is the *)
(* one that is under the cursor after the trigger.                         *)
Capture(s, c, chbtn) ==
  IF s.crsr[c].capture # None THEN s
  ELSE [s EXCEPT !.crsr[c].capture = s.crsr[c].under, !.crsr[c].capture_btn = chbtn]

Dispatched(s, c, trigger, btn, chbtn, drawing) ==
  LET under == s.crsr[c].under
      t == Release(s, c, btn, drawing)
      released == CaptureEnds(s, c, btn) /\ Live(s.crsr[c].capture)
                  /\ "RELEASE" \in Accepts[s.crsr[c].capture]
      u == IF ~Live(under) \/ released THEN t
           ELSE send_propagating_trigger(t, c, under, trigger, drawing)
      v == IF Live(under) /\ trigger = "DOWN" THEN Capture(u, c, chbtn) ELSE u
  IN IF trigger = "MOVE" /\ v.crsr[c].capture # None
     THEN send_trigger(v, c, v.crsr[c].capture, "DRAG", drawing) ELSE v

Moved(s, c, place, btn, drawing) ==
  IF place = cursor_getposition(s, c) THEN s
  ELSE Dispatched(cursor_move(s, c, place), c, "MOVE", btn, {}, drawing)

(* infilter_pntr_normalize_handler. Some drivers say what has happened, a  *)
(* DOWN, UP or MOVE, others only the state of the device.                  *)
Changed(old, new) == (old \ new) \union (new \ old)

Happened(trigger, prev, btn) ==
  CASE trigger # "STATUS" -> trigger
    [] trigger = "STATUS" /\ btn \ prev # {} -> "DOWN"
    [] trigger = "STATUS" /\ btn \subseteq prev -> IF btn = prev THEN "MOVE" ELSE "UP"

Status(s, c, trigger, point, btn, drawing) ==
  LET prev == s.crsr[c].prev_buttons
      happened == Happened(trigger, prev, btn)
      place == <<top, point>>
      there == IF happened = "MOVE" \/ point = s.crsr[c].place[2] THEN s
               ELSE Moved(s, c, place, prev, drawing)
      t == [there EXCEPT !.crsr[c].prev_buttons = btn]
  IN IF happened = "MOVE" THEN Moved(t, c, place, btn, drawing)
     ELSE Dispatched(t, c, happened, btn, Changed(prev, btn), drawing)

(* Drivers send the turns of a wheel with no button (sdlinput, ps2mouse).  *)
Wheel(s, c, drawing) ==
  Dispatched([s EXCEPT !.crsr[c].prev_buttons = {}], c, "SCROLLWHEEL", {},
             s.crsr[c].prev_buttons, drawing)

-----------------------------------------------------------------------------
(* What the server does.                                                   *)

Drawing == {Drawn(scene, live, 1..top) : scene \in Scene}

Pointing == (handle \intersect Mouse) \ {unseen}
Spare(kind) == kind \ InUse(ui)

(* A driver or a client has moved its cursor or pressed a button. A DOWN   *)
(* or an UP is what STATUS would make of its buttons, and so is a MOVE     *)
(* unless a turn of the wheel has hidden that some are down.               *)
Point_to(c, trigger, point, btn, drawing) ==
  /\ c \in Pointing
  /\ trigger = "MOVE" => ui.crsr[c].prev_buttons \in SUBSET btn \ {btn}
  /\ ui' = Status(ui, c, trigger, point, btn, drawing)
  /\ UNCHANGED <<live, top, handle, hotspot, unseen, forgotten>>

Scroll(c, drawing) ==
  /\ c \in Pointing
  /\ ui' = Wheel(ui, c, drawing)
  /\ UNCHANGED <<live, top, handle, hotspot, unseen, forgotten>>

(* Touchscreens have one button and no cursor: they share one unseen.      *)
Tap == {btn \in Chord : Cardinality(btn) <= 1}

Touch(point, btn, drawing) ==
  /\ unseen # None
  /\ ui' = Status(ui, unseen, "STATUS", point, btn, drawing)
  /\ UNCHANGED <<live, top, handle, hotspot, unseen, forgotten>>

FirstTouch(c, point, btn, drawing) ==
  /\ unseen = None /\ c \in Spare(Mouse)
  /\ unseen' = c /\ handle' = handle \union {c}
  /\ ui' = Status([cursor_new(ui, c) EXCEPT !.crsr[c].visible = FALSE], c, "STATUS", point, btn, drawing)
  /\ UNCHANGED <<live, top, hotspot, forgotten>>

(* A driver starts, or a client makes a cursor (rqh_mkcursor).             *)
mkcursor(c) ==
  /\ c \in Spare(Mouse)
  /\ ui' = cursor_new(ui, c) /\ handle' = handle \union {c}
  /\ UNCHANGED <<live, top, hotspot, unseen, forgotten>>

(* mkhandle has no memory: the cursor stays in the list.                   *)
NoHandle(c) ==
  /\ c \in Spare(Mouse)
  /\ ui' = cursor_new(ui, c)
  /\ UNCHANGED <<live, top, handle, hotspot, unseen, forgotten>>

(* History: a cursor that is hidden does not leave its widget.             *)
LeftBehind(c) ==
  [w \in Widget |->
     IF c # None /\ ~ui.crsr[c].visible /\ Live(w) /\ ui.crsr[c].under = w
     THEN forgotten[w] + 1 ELSE forgotten[w]]
Remembered == FoldFunction(+, 0, forgotten') <= MaxForgotten

pointer_free(c) ==
  /\ c \in Pointing
  /\ ui' = cursor_delete(ui, c) /\ handle' = handle \ {c}
  /\ forgotten' = LeftBehind(c) /\ Remembered
  /\ UNCHANGED <<live, top, hotspot, unseen>>

(* The keys that go from hotspot to hotspot, and request_focus.            *)
hotspot_traverse(c, point) ==
  /\ \/ c = hotspot[top] /\ c # None /\ UNCHANGED <<handle, hotspot>>
     \/ /\ hotspot[top] = None /\ c \in Spare(HotCursor)
        /\ handle' = handle \union {c} /\ hotspot' = [hotspot EXCEPT ![top] = c]
  /\ ui' = cursor_move(IF c \in Spare(HotCursor) THEN cursor_new(ui, c) ELSE ui, c, <<top, point>>)
  /\ UNCHANGED <<live, top, unseen, forgotten>>

(* Nobody has touched the keyboard or the pointer for a while.             *)
hotspot_hide ==
  /\ hotspot[top] # None
  /\ ui' = cursor_hide(ui, hotspot[top])
  /\ UNCHANGED <<live, top, handle, hotspot, unseen, forgotten>>

(* A client has changed its widgets, and rqh_update draws them.            *)
Update(drawing) ==
  /\ ui' = update(ui, drawing)
  /\ UNCHANGED <<live, top, handle, hotspot, unseen, forgotten>>

(* Handles are new (2^30 of them): no cursor knows the widget.             *)
rqh_mkwidget(w) ==
  /\ ~Live(w) /\ Container[w] \in live \union {None}
  /\ \A c \in InUse(ui) : w \notin {ui.crsr[c].under, ui.crsr[c].capture}
  /\ live' = live \union {w}
  /\ UNCHANGED <<top, ui, handle, hotspot, unseen, forgotten>>

(* Its parts go first. Where it was, there is its container.               *)
widget_remove(w) ==
  /\ Live(w) /\ \A v \in live : Container[v] # w
  /\ live' = live \ {w}
  /\ ui' = [ui EXCEPT !.at = [p \in DOMAIN @ |-> IF @[p] = w THEN Container[w] ELSE @[p]],
                      !.numcursors[w] = 0,
                      !.pressed = [c \in Cursor |-> @[c] \ {w}]]
  /\ forgotten' = [forgotten EXCEPT ![w] = 0]
  /\ UNCHANGED <<top, handle, hotspot, unseen>>

(* popup_install updates what the popup will cover. hotspot_hide is called *)
(* when the new divtree is on top, which has no hotspot_cursor yet.        *)
dts_push(drawing) ==
  /\ top = 1
  /\ top' = 2
  /\ ui' = update(ui, drawing)
  /\ UNCHANGED <<live, handle, hotspot, unseen, forgotten>>

(* popup_remove, dts_pop, divtree_free: the hotspot_cursor goes as well.   *)
OffPopup(cursor) ==
  IF cursor.place[1] = 2 THEN [cursor EXCEPT !.place = <<0, cursor.place[2]>>] ELSE cursor

dts_pop ==
  LET h == hotspot[2]
      s == IF h = None THEN ui ELSE cursor_delete(ui, h)
  IN /\ top = 2
     /\ top' = 1
     /\ ui' = [s EXCEPT
                 !.at = Drawn(@, live, {1}),
                 !.crsr = [c \in Cursor |-> OffPopup(s.crsr[c])]]
     /\ forgotten' = LeftBehind(h) /\ Remembered
     /\ handle' = handle \ {h} /\ hotspot' = [hotspot EXCEPT ![2] = None]
     /\ UNCHANGED <<live, unseen>>

-----------------------------------------------------------------------------
PointerInit ==
  /\ live = {} /\ top = 1
  /\ ui = [crsr |-> [c \in Cursor |-> NewCursor(<<1, CHOOSE p \in Point : TRUE>>)],
           cursor_list |-> <<>>, numcursors |-> [w \in Widget |-> 0],
           at |-> [p \in Layer \X Point |-> None], pressed |-> [c \in Cursor |-> {}]]
  /\ handle = {} /\ hotspot = [l \in Layer |-> None] /\ unseen = None
  /\ forgotten = [w \in Widget |-> 0]

PointerNext ==
  \/ \E c \in Cursor, p \in Point, btn \in Chord, d \in Drawing,
        trigger \in {"STATUS", "MOVE"} : Point_to(c, trigger, p, btn, d)
  \/ \E p \in Point, btn \in Tap, d \in Drawing :
       Touch(p, btn, d) \/ \E c \in Cursor : FirstTouch(c, p, btn, d)
  \/ \E c \in Cursor, d \in Drawing : Scroll(c, d)
  \/ \E c \in Cursor : mkcursor(c) \/ NoHandle(c) \/ pointer_free(c)
  \/ \E c \in Cursor, p \in Hotspot : hotspot_traverse(c, p)
  \/ \E d \in Drawing : Update(d) \/ dts_push(d)
  \/ \E w \in Widget : rqh_mkwidget(w) \/ widget_remove(w)
  \/ hotspot_hide \/ dts_pop

PointerSpec == PointerInit /\ [][PointerNext]_pointervars
-----------------------------------------------------------------------------
(* The counts of widgets and what cursors remember agree, across moves,    *)
(* updates within a dispatch, popups and removals of either: a widget is   *)
(* lit as long as a cursor is over it, and no longer, except for cursors   *)
(* that were freed while they were hidden (cursor_hide, cursor_delete).    *)
Hovered ==
  \A w \in live :
    ui.numcursors[w] =
      Cardinality({c \in InUse(ui) : ui.crsr[c].under = w}) + forgotten[w]

(* Whoever has captured a cursor and was told of its button keeps it until *)
(* it is told that the button is up: no second press, change of what is    *)
(* drawn, or other button takes it away (infilter_pntr_dispatch_handler).  *)
Kept ==
  [][\A c \in Cursor, w \in live :
       /\ ui.crsr[c].capture = w /\ ui'.crsr[c].capture # w
       /\ w \in live' /\ c \in ToSet(ui'.cursor_list) /\ w \in ui.pressed[c]
       => w \notin ui'.pressed[c]]_pointervars
=============================================================================
