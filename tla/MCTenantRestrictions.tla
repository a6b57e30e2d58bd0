------------------------- MODULE MCTenantRestrictions -------------------------
(* Instances of TenantRestrictions for model checking.                     *)
EXTENDS TenantRestrictions

CONSTANTS p, q, long, x, y

ThreePayloads == {p, q, long}
OneTooLong == {long}
TwoHosts == {x, y}
==============================================================================
