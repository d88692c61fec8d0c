------------------------------ MODULE MCForest ------------------------------
(* Small instances of Forest for TLC. *)
EXTENDS Forest, TLC

CONSTANTS a, b, g, n, x, r1, r2

Of(i, name, p) == [id |-> i, name |-> name, body |-> x, parent |-> p]

(* One id under two names, one name under three ids (one of them generated), *)
(* a name that is an id, a child and a goal that is its own parent.          *)
Submitted == {Of(a, a, None), Of(a, n, None), Of(b, n, a), Of(None, a, None),
              Of(b, n, b)}

Symmetry == Permutations(Requests)
=============================================================================
