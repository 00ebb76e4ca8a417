---------------------------- MODULE MCAuditLog ----------------------------
(* Small instances of AuditLog for TLC. *)
EXTENDS AuditLog, TLC

MCLive == MaxTime + 1

\* Handlers are told apart by the records they append only.
HandlerSymmetry == Permutations(Handlers)
=============================================================================
