----------------------------- MODULE MCGateway -----------------------------
(* Small instances of Gateway for TLC. *)
EXTENDS Gateway, TLC

\* Requests and keys are told apart by the state they are in only.
RequestSymmetry == Permutations(Requests)
=============================================================================
