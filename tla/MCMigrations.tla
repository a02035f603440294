---------------------------- MODULE MCMigrations ----------------------------
(* The instance of Migrations for TLC. *)
EXTENDS Migrations, TLC

Perms == Permutations(Runs)
=============================================================================
