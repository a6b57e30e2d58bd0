-------------------------- MODULE MCDirectConnection --------------------------
(* Instances of DirectConnection for model checking.                       *)
EXTENDS DirectConnection, TLC

CONSTANTS a, b

TwoRenderers == {a, b}

(* Connections and calls each way; a renderer may try to connect to itself.  *)
Everyone == {p \in Renderers \X Renderers : p[1] # p[2]}
ItselfToo == Renderers \X Renderers

Symmetry == Permutations({a, b})
==============================================================================
