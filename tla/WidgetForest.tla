---------------------------- MODULE WidgetForest ----------------------------
(***************************************************************************)
(* What the widget tree promises to clients: widgets in rows. A row is     *)
(* what is in a widget or on the screen, from the first to the last. A     *)
(* widget that is in no row is loose, and may have a row that trails it.   *)
(* (A widget may be in itself.)                                            *)
(***************************************************************************)
EXTENDS Integers, Sequences, SequencesExt

CONSTANTS Widget, Screen

VARIABLES present, rows

vars == <<present, rows>>

Names == {<<"kids", x>> : x \in Widget \union {Screen}} \union {<<"trail", w>> : w \in Widget}
row(r, k) == r[k[1]][k[2]]
Has(r, w) == {k \in Names : \E i \in DOMAIN row(r, k) : row(r, k)[i] = w}

(* Without w in its row; what trails it now trails the first of that. *)
Without(r, w) ==
  IF Has(r, w) # {} THEN [k \in DOMAIN r |-> [x \in DOMAIN r[k] |-> Remove(r[k][x], w)]]
  ELSE IF r.trail[w] = <<>> THEN r
  ELSE [r EXCEPT !.trail[w] = <<>>, !.trail[Head(r.trail[w])] = Tail(r.trail[w])]

With(r, w, k, i) == [r EXCEPT ![k[1]][k[2]] = InsertAt(@, i, w)]

(* w next to p: after it for d = 1, before it for d = 0. *)
Beside(r, w, p, d) ==
  IF Has(r, p) # {}
  THEN LET k == CHOOSE k \in Has(r, p) : TRUE
       IN With(r, w, k, d + CHOOSE i \in DOMAIN row(r, k) : row(r, k)[i] = p)
  ELSE IF d = 1 THEN With(r, w, <<"trail", p>>, 1) ELSE r

-----------------------------------------------------------------------------
Init ==
  /\ present = {}
  /\ rows = [kids |-> [x \in Widget \union {Screen} |-> <<>>],
             trail |-> [w \in Widget |-> <<>>]]

(* The server comes to its end, and starts again.                          *)
Restart ==
  /\ present' = {}
  /\ rows' = [kids |-> [x \in Widget \union {Screen} |-> <<>>],
              trail |-> [w \in Widget |-> <<>>]]

(* w appears, or moves if it has been there. *)
To(w, r) == present' = present \union {w} /\ rows' = r

Loosen(w) == To(w, Without(rows, w))
OnScreen(w) == To(w, With(Without(rows, w), w, <<"kids", Screen>>, 1))
Inside(w, p) == p \in present /\ To(w, With(Without(rows, w), w, <<"kids", p>>, 1))
After(w, p) == p # w /\ p \in present /\ To(w, Beside(Without(rows, w), w, p, 1))
Before(w, p) ==
  p # w /\ p \in present /\ To(w, Beside(Without(rows, w), w, p, 0))

Vanish(w) ==
  /\ w \in present /\ Has(rows, w) = {} /\ rows.kids[w] = <<>> /\ rows.trail[w] = <<>>
  /\ present' = present \ {w} /\ UNCHANGED rows

Next ==
  \/ Restart
  \/ \E w \in Widget : Loosen(w) \/ OnScreen(w) \/ Vanish(w)
  \/ \E w, p \in Widget : Inside(w, p) \/ After(w, p) \/ Before(w, p)

Spec == Init /\ [][Next]_vars
=============================================================================
