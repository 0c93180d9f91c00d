----------------------------- MODULE HandleMap ------------------------------
(***************************************************************************)
(* What the handle tree promises its callers: a map from the handle        *)
(* numbers in use to their objects, changed one handle at a time.          *)
(***************************************************************************)
EXTENDS Integers

CONSTANTS Handle, ObjectOf    \* the object each handle is made for

VARIABLE map

MapInit == map = [h \in {} |-> 0]

Add(h) ==
  /\ h \notin DOMAIN map
  /\ map' = [k \in DOMAIN map \cup {h} |-> IF k = h THEN ObjectOf[h] ELSE map[k]]

Drop(h) ==
  /\ h \in DOMAIN map
  /\ map' = [k \in DOMAIN map \ {h} |-> map[k]]

MapNext == \E h \in Handle : Add(h) \/ Drop(h)

MapSpec == MapInit /\ [][MapNext]_map
=============================================================================
