----------------------------- MODULE MCRetention -----------------------------
(* Retention and deadlines on Postgres, where two instances may wait for each   *)
(* other's rows: the hourly purge of two queries beside decisions and trackers, *)
(* and one query whose SLA or retention passes while timers, reviewers and      *)
(* failures go on, or while newer queries fill the escalation pass's list.      *)
(* Each is an instance of ApprovalWorkflow over the same variables; a behaviour *)
(* belongs to the one its initial state names.                                  *)
EXTENDS ApprovalWorkflow, TLC

VARIABLE subject

TwoRows == INSTANCE ApprovalWorkflow WITH
    Verdicts <- {"approved"}, Ops <- {"decide", "purge"}, MaxFaults <- 0

(* What is said of the first query; the second never arrives beside it. *)
Deadlines == INSTANCE ApprovalWorkflow WITH Query <- {1}

(* With ListLimit = 1 the second query takes the first one's place in the list. *)
Listing == INSTANCE ApprovalWorkflow WITH
    Verdicts <- {"approved"}, Ops <- {"decide", "escalate"}

RetentionInit == Init /\ subject \in {"rows", "deadlines", "listing"}

RetentionNext ==
    /\ UNCHANGED subject
    /\ \/ subject = "rows" /\ TwoRows!Next
       \/ subject = "deadlines" /\ Next /\ rows'[2] = None
       \/ subject = "listing" /\ Listing!Next

(* The timers are the deadlines' business; handlers run in both. *)
RetentionSpec ==
    /\ RetentionInit /\ [][RetentionNext]_<<subject, vars>>
    /\ HandlersRun
    /\ \A i \in Instance :
          /\ SF_vars(subject = "deadlines" /\ PurgeTick(i))
          /\ SF_vars(subject # "rows" /\ \E q \in Query : EscalationTick(i, q))

-----------------------------------------------------------------------------

(* What ApprovalWorkflow says of deadlines, where timers run: an item whose  *)
(* SLA passed is escalated, leaves the queue or is not listed any more, and  *)
(* sealed fields whose retention ended are purged (escalateDueApprovals,     *)
(* runRetentionPurge).                                                       *)
DeadlinesAreMet ==
    /\ subject = "deadlines" => Deadlines!OverdueEscalated /\ Deadlines!ExpiredPurged
    /\ subject = "listing" => Listing!OverdueEscalated
=============================================================================
