---------------------------- MODULE MCMigrate ----------------------------
(* Small instances of Migrate for TLC. *)
EXTENDS Migrate, TLC

\* No definition tells the two places apart.
AnyPlace == Permutations(Places)
=============================================================================
