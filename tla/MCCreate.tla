--------------------------- MODULE MCCreate ----------------------------------
(* The instances of DisbursementCreate that TLC explores.                   *)
EXTENDS DisbursementCreate, TLC

CONSTANTS r1, r2, r3

Perms == Permutations({r1, r2, r3})
=============================================================================
