--------------------------- MODULE MCReviewQueue ---------------------------
(* The review queue of one query, on either storage: on Postgres two instances  *)
(* decide, reassign and justify it; on SQLite two processes decide, escalate,   *)
(* notify trackers, sync with them and purge it.  The constants of the module   *)
(* are the bounds of both.                                                      *)
EXTENDS ApprovalWorkflow, TLC

VARIABLE storage

OnPostgres == INSTANCE ApprovalWorkflow WITH
    Postgres <- TRUE, Arrivals <- {"pending_justification"},
    Ops <- {"decide", "assign", "justify"},
    MaxTickets <- 0, MaxRefs <- 0, LastState <- 0, MaxFaults <- 0

OnSqlite == INSTANCE ApprovalWorkflow WITH
    Postgres <- FALSE, Arrivals <- {"pending"}, Approver <- {}, Verdicts <- {"approved"},
    Ops <- {"decide", "purge", "notify", "sync", "escalate"}

(* Instances of the server are alike, and so are reviewers of one role. *)
Alike == Permutations(Instance) \cup Permutations(Approver)

QueueInit == Init /\ storage \in {"postgres", "sqlite"}

QueueNext ==
    \/ storage = "postgres" /\ UNCHANGED storage /\ OnPostgres!Next
    \/ storage = "sqlite" /\ UNCHANGED storage /\ OnSqlite!Next

QueueSpec == QueueInit /\ [][QueueNext]_<<storage, vars>>
=============================================================================
