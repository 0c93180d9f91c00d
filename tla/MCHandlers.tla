----------------------------- MODULE MCHandlers -----------------------------
(* A widget with handlers for one event and for any, a handler for any     *)
(* widget, an event that is no widget's, and two messages.                 *)
EXTENDS Handlers, TLC
CONSTANTS w, s1, s2, activate, theme, n1, n2, n3, n4
Bindings == {<<w, activate>>, <<w, PGBIND_ANY>>, <<PGBIND_ANY, activate>>}
Symmetry == Permutations(Node) \union Permutations(Source)
=============================================================================
