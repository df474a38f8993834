-------------------------- MODULE MCFileMutationLock --------------------------
(* Model-checking instances of FileMutationLock. *)
EXTENDS FileMutationLock, TLC

CONSTANT H

\* Every process of the supported layout runs on one lock hostname.
OneHost == [p \in Proc |-> H]

\* Processes are interchangeable there: no definition tells them apart.
ProcSymmetry == Permutations(Proc)
=============================================================================
