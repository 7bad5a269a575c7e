----------------------------- MODULE MCAuditLog -----------------------------
(* Instances of AuditLog for TLC. *)
EXTENDS AuditLog, TLC

CONSTANTS l1, r1, r2, q1

Symmetry == Permutations({r1, r2})
=============================================================================
