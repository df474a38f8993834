---------------------------- MODULE MCAttestation ----------------------------
(* What the checkpoint attests, in the two environments that may take something *)
(* away: Postgres, where a publication stops between its renames, and SQLite,   *)
(* where committed rows are lost.  Each is an instance of AuditAnchor over the  *)
(* same variables; a behaviour belongs to the one its initial state names.      *)
EXTENDS AuditAnchor, TLC

VARIABLE storage

OnSqlite == INSTANCE AuditAnchor WITH
    Postgres <- FALSE, TailLoss <- TRUE, TornPublication <- FALSE

AttestationInit == Init /\ storage \in {"postgres", "sqlite"}

AttestationNext ==
    /\ UNCHANGED storage
    /\ \/ storage = "postgres" /\ Next
       \/ storage = "sqlite" /\ OnSqlite!Next

(* The fairness of AuditAnchor, in either environment. *)
AttestationSpec ==
    /\ AttestationInit /\ [][AttestationNext]_<<storage, vars>>
    /\ \A p \in Proc :
          /\ WF_vars(storage = "postgres" /\ Continue(p))
          /\ WF_vars(storage = "sqlite" /\ OnSqlite!Continue(p))
          /\ SF_vars(/\ storage = "postgres" /\ Verify(p, "advance")
                     /\ scheduled[p] /\ ~scheduled'[p])
          /\ SF_vars(/\ storage = "sqlite" /\ OnSqlite!Verify(p, "advance")
                     /\ scheduled[p] /\ ~scheduled'[p])
=============================================================================
