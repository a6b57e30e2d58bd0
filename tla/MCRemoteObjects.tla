--------------------------- MODULE MCRemoteObjects ---------------------------
(* Instances of RemoteObjects for model checking.                          *)
EXTENDS RemoteObjects, TLC

CONSTANTS a, b, o1, o2

TwoContexts == {a, b}
TwoObjects == {o1, o2}
OneContext == {a}

(* Contexts are interchangeable, and so are objects.  Used with invariants *)
(* and action properties only.                                             *)
Symmetry == Permutations({a, b}) \cup Permutations({o1, o2})
==============================================================================
