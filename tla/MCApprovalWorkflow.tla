------------------------- MODULE MCApprovalWorkflow -------------------------
(* Instances of ApprovalWorkflow for TLC. *)
EXTENDS ApprovalWorkflow, TLC

OneQuery == {1}

(* Instances of the server are alike, and so are reviewers of one role. *)
Alike == Permutations(Instance) \cup Permutations(Approver)
=============================================================================
