--------------------------- MODULE MCReview ----------------------------------
(* The instance of DisbursementReview that TLC explores.                    *)
EXTENDS DisbursementReview, TLC

CONSTANTS r1, r2, r3

Perms == Permutations({r1, r2, r3})
=============================================================================
