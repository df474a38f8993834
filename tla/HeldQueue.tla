------------------------------ MODULE HeldQueue ------------------------------
(* What the review queue promises: an item is owned, may change its owner    *)
(* while somebody waits for it, and is decided once, in one step, by a user  *)
(* its owner fields entitle at that moment, or by the sensor that was asked  *)
(* for a justification.                                                      *)
CONSTANTS Query, Admin, Approver, None, Arrivals

VARIABLE queue    \* of each query: what the console shows of its decision

Waiting == {"pending", "pending_justification"}
Owned == Waiting \cup {"blocked_by_user", "destination_blocked"}

Entitled(u, item) ==
    \/ u \in Admin
    \/ u \in Approver /\ item.role = "approver" /\ item.owner \in {None, u}

Init == queue = [q \in Query |-> None]

Arrive(q) ==
    /\ queue[q] = None
    /\ \E s \in Arrivals, r \in {"approver", "security_admin", None} :
         queue' = [queue EXCEPT ![q] = [status |-> s, role |-> r, owner |-> None, by |-> None]]

Reassign(q) ==
    /\ queue[q] # None /\ queue[q].status \in Owned
    /\ \E r \in {"approver", "security_admin", None}, o \in Admin \cup Approver \cup {None} :
         queue' = [queue EXCEPT ![q].role = r, ![q].owner = o]

Decide(q, u, verdict) ==
    /\ queue[q] # None /\ queue[q].status \in Waiting /\ Entitled(u, queue[q])
    /\ queue' = [queue EXCEPT ![q].status = verdict, ![q].by = u]

Justify(q, outcome) ==
    /\ queue[q] # None /\ queue[q].status = "pending_justification"
    /\ queue' = [queue EXCEPT ![q].status = outcome, ![q].by = "sensor"]

Next ==
    \E q \in Query :
        \/ Arrive(q)
        \/ Reassign(q)
        \/ \E u \in Admin \cup Approver, v \in {"approved", "denied"} : Decide(q, u, v)
        \/ \E o \in {"justified", "blocked_by_user"} : Justify(q, o)

Spec == Init /\ [][Next]_queue
=============================================================================
