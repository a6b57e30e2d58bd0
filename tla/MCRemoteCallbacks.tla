-------------------------- MODULE MCRemoteCallbacks --------------------------
(* Instances of RemoteCallbacks for model checking.                        *)
EXTENDS RemoteCallbacks, TLC

CONSTANTS f, g

TwoFunctions == {f, g}

(* The functions of a page are interchangeable; used with invariants only. *)
FunctionSymmetry == Permutations({f, g})
==============================================================================
