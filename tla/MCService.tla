----------------------------- MODULE MCService ------------------------------
(* Two creations and a review of one of the disbursements they make.        *)
EXTENDS DisbursementService
CONSTANTS c1, c2, r1
MCCreates == {c1, c2}
MCReviews == {r1}
MCRequests == MCCreates \cup MCReviews
=============================================================================
