----------------------------- MODULE AuditLedger -----------------------------
(***************************************************************************)
(* What the audit log promises, without sidecars, locks or processes: an   *)
(* append-only sequence of rows that is attested as a whole.  Rows may be  *)
(* lost by storage, but from then on nothing is appended to or attested of *)
(* what is left.                                                           *)
(***************************************************************************)
EXTENDS Naturals, Sequences

VARIABLES
    ledger,    \* every row ever committed, in order
    intact,    \* none of them is missing
    attested   \* how many of them the published checkpoint attests

vars == <<ledger, intact, attested>>

Init == ledger = <<>> /\ intact = TRUE /\ attested = 0

\* A batch of rows is committed.
Commit ==
    /\ intact /\ intact'
    /\ Len(ledger') > Len(ledger)
    /\ SubSeq(ledger', 1, Len(ledger)) = ledger
    /\ UNCHANGED attested

\* The whole of an intact ledger is attested.
Attest ==
    /\ intact
    /\ attested' = Len(ledger)
    /\ UNCHANGED <<ledger, intact>>

\* Rows disappear.
Lose ==
    /\ intact' = FALSE
    /\ UNCHANGED <<ledger, attested>>

Next == Commit \/ Attest \/ Lose

Spec == Init /\ [][Next]_vars
=============================================================================
