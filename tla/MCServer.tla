------------------------------ MODULE MCServer ------------------------------
(* Two requests of at most one statement each, and one fault.             *)
EXTENDS ServerLifecycle
CONSTANTS r1, r2
MCRequests == {r1, r2}
=============================================================================
