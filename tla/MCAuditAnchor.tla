---------------------------- MODULE MCAuditAnchor ----------------------------
(* Model-checking instances of AuditAnchor. *)
EXTENDS AuditAnchor, TLC

\* Processes are interchangeable: no definition tells them apart.
ProcSymmetry == Permutations(Proc)
=============================================================================
