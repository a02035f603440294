--------------------------- MODULE MCSessions --------------------------------
(* The instances of AuthSessions that TLC explores.                         *)
EXTENDS AuthSessions, TLC

CONSTANTS r1, r2, r3, r4, alice, bob

Perms == Permutations({r1, r2, r3, r4}) \cup Permutations({alice, bob})
=============================================================================
