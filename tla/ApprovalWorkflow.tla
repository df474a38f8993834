-------------------------- MODULE ApprovalWorkflow --------------------------
(* The life of a held query in the control plane: it arrives withheld, is    *)
(* routed to an owner, reassigned, escalated when its SLA passes, approved,  *)
(* denied or justified exactly once, announced to an issue tracker, synced   *)
(* with it, and stripped of its sealed prompt when its retention ends.       *)
(*                                                                           *)
(* Several server instances share the database.  An instance is one Node     *)
(* event loop whose storage calls are synchronous: it runs one handler at a  *)
(* time (work[i]), from its first read to its COMMIT, while calls to issue   *)
(* trackers (calls) are awaited beside it.  A handler reads the row, then    *)
(* opens a transaction that takes the row's advisory lock, reads the row     *)
(* again and compares it (Lock), updates it (Write), and appends its audit   *)
(* entry under the shared append lock and commits (Commit).  The retention   *)
(* purge is one transaction over many rows and takes no advisory row lock.   *)
EXTENDS Integers, FiniteSets, Sequences

CONSTANTS
    Instance,     \* server instances that share the database
    Query,        \* the queries, numbered in the order they were created
    Admin,        \* users with the role security_admin
    Approver,     \* users with the role approver
    None,         \* an empty field, and the row of a query that did not arrive
    Arrivals,     \* the statuses a query arrives with in this instance of the model
    Verdicts,     \* the verdicts reviewers give in it
    Sealing,      \* whether an arriving query may, or may not, have sealed data to keep
    Ops,          \* the operations that are asked for in it
    Postgres,     \* TRUE: row locks, READ COMMITTED; FALSE: SQLite, one writer
    MaxTickets,   \* bound on the issues that are created in trackers
    MaxRefs,      \* MAX_TICKET_REFS
    ListLimit,    \* how many rows, the newest of any status, the escalation pass lists
    LastState,    \* an issue goes through the states 0 (open) .. LastState (done)
    MaxFaults     \* bound on crashes and on transactions that fail

User == Admin \cup Approver
Held == {"pending", "pending_justification"}
Routable == Held \cup {"blocked_by_user", "destination_blocked"}
RetentionFinal == {"approved", "denied", "redacted"}
Status == Routable \cup RetentionFinal \cup {"justified"}
Role == {"security_admin", "approver", None}
Ticket == 1 .. MaxTickets
Refs == UNION {[S -> 0 .. LastState] : S \in SUBSET Ticket}
NoRefs == [t \in {} |-> 0]
NoWork == [op |-> "none"]

ASSUME WorkflowAssumption ==
    /\ Query \subseteq Nat /\ IsFiniteSet(Query)
    /\ Admin \cap Approver = {} /\ None \notin User
    /\ Verdicts \subseteq {"approved", "denied"}
    /\ Arrivals \subseteq Held \cup {"destination_blocked", "redacted"}
    /\ Sealing \subseteq BOOLEAN /\ Postgres \in BOOLEAN
    /\ MaxTickets \in Nat /\ MaxRefs \in Nat /\ LastState \in Nat /\ MaxFaults \in Nat
    /\ ListLimit \in Nat \ {0}

(* sealed: the record still holds _rawPrompt or _tokenVault.  token: it has  *)
(* a _releaseTokenHash.  purged: it shows retentionPurgedAt.                  *)
Row == [status : Status, role : Role, owner : User \cup {None},
        by : User \cup {"sensor", None}, token : BOOLEAN, sealed : BOOLEAN,
        escalated : BOOLEAN, purged : BOOLEAN, refs : Refs]

VARIABLES
    rows,      \* the committed record of each query
    audit,     \* what the audit log says of it: the content its last entry binds
               \* and whether it has a RETENTION_PURGED entry
    work,      \* the handler each instance is in
    dirty,     \* the rows its open transaction has updated
    calls,     \* tracker calls that are awaited
    tickets,   \* the state of each issue in its tracker
    overdue,   \* queries whose slaDueAt has passed
    expired,   \* queries whose retention window, from decidedAt or createdAt, has passed
    faults     \* crashes and failed transactions so far

vars == <<rows, audit, work, dirty, calls, tickets, overdue, expired, faults>>

Arrived(q) == rows[q] # None
NothingDirty == [q \in {} |-> None]
Unread == [content |-> None, purged |-> FALSE]

Init ==
    /\ rows = [q \in Query |-> None]
    /\ audit = [q \in Query |-> Unread]
    /\ work = [i \in Instance |-> NoWork]
    /\ dirty = [i \in Instance |-> NothingDirty]
    /\ calls = {}
    /\ tickets = <<>>
    /\ overdue = {}
    /\ expired = {}
    /\ faults = 0
-----------------------------------------------------------------------------
(* Who may decide, and what a transaction compares and writes.               *)

(* roles.canDecideQuery. *)
CanDecide(u, row) ==
    \/ u \in Admin
    \/ u \in Approver /\ row.role = "approver" /\ row.owner \in {None, u}

\* Mutant: decisions compare the status and the token only.
DecisionState_NoOwner(row) ==
    [status |-> row.status, role |-> None, owner |-> None, token |-> row.token]

(* The fields of decisionExpectedState. *)
DecisionState(row) ==
    [status |-> row.status, role |-> row.role, owner |-> row.owner, token |-> row.token]

\* Mutant: an item that an administrator holds already is not escalated.
Due_ApproversOnly(q, row) ==
    q \in overdue /\ ~row.escalated /\ row.status \in Routable /\ row.role = "approver"

Due(q, row) == q \in overdue /\ ~row.escalated /\ row.status \in Routable

Unsynced(row) == {t \in DOMAIN row.refs : row.refs[t] < LastState}

(* Does the row, read again under its lock, still admit what was asked? *)
Expected(job, row) ==
    \/ job.op \in {"decide", "assign"} /\ DecisionState(row) = job.seen
    \/ job.op = "justify" /\ row.status = "pending_justification" /\ row.token
    \/ job.op = "escalate" /\ Due(job.query, row)
    \/ job.op = "sync" /\ row.refs = job.seen
    \/ job.op = "notify"

\* Mutant: a delivery replaces the references that were there.
WithRef_Replaced(refs, t) == IF t = 0 THEN refs ELSE [u \in {t} |-> 0]

(* ticketRefsFromDelivery: new references come last, and only as many as fit. *)
WithRef(refs, t) ==
    IF t = 0 \/ Cardinality(DOMAIN refs) >= MaxRefs THEN refs
    ELSE [u \in DOMAIN refs \cup {t} |-> IF u = t THEN 0 ELSE refs[u]]

Decided(row, job) == [row EXCEPT !.status = job.verdict, !.by = job.by]

Justified(row, job) ==
    [row EXCEPT !.status = job.outcome, !.by = "sensor", !.sealed = FALSE, !.token = FALSE]

Escalated(row) == [row EXCEPT !.role = "security_admin", !.escalated = TRUE]

Patched(job, row) ==
    CASE job.op = "decide" -> Decided(row, job)
      [] job.op = "assign" -> [row EXCEPT !.role = job.role, !.owner = job.owner]
      [] job.op = "justify" -> Justified(row, job)
      [] job.op = "escalate" -> Escalated(row)
      [] job.op = "notify" -> [row EXCEPT !.refs = WithRef(row.refs, job.ticket)]
      [] job.op = "sync" -> [row EXCEPT !.refs = job.refs]

Purged(row) == [row EXCEPT !.sealed = FALSE, !.purged = TRUE]

\* Mutant: whatever is old enough is purged, decided or not.
Purgeable_AnyStatus(q) == Arrived(q) /\ q \in expired /\ rows[q].sealed

\* Mutant: denied queries are not selected.
Purgeable_DeniedKept(q) ==
    Arrived(q) /\ q \in expired /\ rows[q].status \in {"approved", "redacted"} /\ rows[q].sealed

(* The rows purgeRetainedSensitiveData selects and strips. *)
Purgeable(q) ==
    Arrived(q) /\ q \in expired /\ rows[q].status \in RetentionFinal /\ rows[q].sealed
-----------------------------------------------------------------------------
(* Locks.  Each is held to the end of the transaction that took it.          *)

InTransaction(i) ==
    \/ work[i].op = "purge"
    \/ work[i].op # "none" /\ work[i].phase # "asked"

\* Mutant: BEGIN is deferred and does not wait for the writer.
WriterFree_Deferred(i) == TRUE

(* SQLite has one writer; BEGIN IMMEDIATE waits for it. *)
WriterFree(i) == Postgres \/ \A j \in Instance \ {i} : ~InTransaction(j)

\* Mutant: no advisory row lock.
RowLocked_Never(j, q) == FALSE

RowLocked(j, q) ==
    work[j].op \notin {"none", "purge"} /\ work[j].query = q /\ InTransaction(j)

AppendLocked(j) == work[j].op = "purge" /\ work[j].append

(* The row an instance updates next: the purge goes by age. *)
NextRow(i) ==
    IF work[i].op = "purge"
    THEN {q \in DOMAIN work[i].todo : \A r \in DOMAIN work[i].todo : q <= r}
    ELSE {work[i].query}

WantsUpdate(i) ==
    \/ work[i].op = "purge" /\ work[i].phase = "selected" /\ DOMAIN work[i].todo # {}
    \/ work[i].op \notin {"none", "purge"} /\ work[i].phase = "locked"

(* j holds what i waits for: the advisory lock of the row, the row's tuple   *)
(* lock, or the audit append lock.                                           *)
WaitsFor(i, j) ==
    /\ i # j
    /\ \/ /\ work[i].op \notin {"none", "purge"} /\ work[i].phase = "asked"
          /\ RowLocked(j, work[i].query)
       \/ WantsUpdate(i) /\ NextRow(i) \cap DOMAIN dirty[j] # {}
       \/ work[i].op # "none" /\ work[i].phase = "written" /\ AppendLocked(j)

Free(i) == \A j \in Instance : ~WaitsFor(i, j)
Idle(i) == work[i] = NoWork
-----------------------------------------------------------------------------
(* Requests: each reads the row and checks it before it opens a transaction. *)

Ask(i, job) ==
    /\ job.op \in Ops
    /\ Idle(i)
    /\ work' = [work EXCEPT ![i] = job]
    /\ UNCHANGED <<rows, audit, dirty, calls, tickets, overdue, expired, faults>>

AskDecision(i, q, u, verdict) ==
    /\ Arrived(q) /\ CanDecide(u, rows[q]) /\ rows[q].status \in Held
    /\ Ask(i, [op |-> "decide", query |-> q, seen |-> DecisionState(rows[q]), by |-> u,
               verdict |-> verdict, phase |-> "asked"])

AskAssign(i, q, role, owner) ==
    /\ Arrived(q) /\ rows[q].status \in Routable
    /\ Ask(i, [op |-> "assign", query |-> q, seen |-> DecisionState(rows[q]),
               role |-> role, owner |-> owner, phase |-> "asked"])

(* The sensor that holds the release token answers a justification prompt. *)
AskJustify(i, q, outcome) ==
    /\ Arrived(q) /\ rows[q].status = "pending_justification" /\ rows[q].token
    /\ Ask(i, [op |-> "justify", query |-> q, outcome |-> outcome, phase |-> "asked"])

(* listQueries with a limit and no filter: the newest rows, decided ones too. *)
Listed(q) == Arrived(q) /\ Cardinality({r \in Query : r > q /\ Arrived(r)}) < ListLimit

(* escalateDueApprovals, for one of the rows it listed. *)
EscalationTick(i, q) ==
    /\ Listed(q) /\ Due(q, rows[q])
    /\ Ask(i, [op |-> "escalate", query |-> q, phase |-> "asked"])

(* purgeRetainedSensitiveData: BEGIN and the SELECT. *)
PurgeTick(i) ==
    LET found == {q \in Query : Purgeable(q)} IN
    /\ found # {} /\ WriterFree(i)
    /\ Ask(i, [op |-> "purge", todo |-> [q \in found |-> rows[q]],
               append |-> FALSE, phase |-> "selected"])
-----------------------------------------------------------------------------
(* A query arrives: its row and its first audit entry in one transaction.    *)
(* Whatever waits for a reviewer is announced to the trackers.               *)

Announce(i, q, status, cause) ==
    IF "notify" \in Ops /\ status \in Routable
    THEN {[op |-> "notify", at |-> i, query |-> q, cause |-> cause, step |-> "sending"]}
    ELSE {}

Ingest(i, q, status, role, raw) ==
    /\ Idle(i) /\ ~Arrived(q)
    /\ \A r \in Query : r < q => Arrived(r)
    /\ status \in Arrivals /\ WriterFree(i)
    /\ \A j \in Instance \ {i} : ~AppendLocked(j)
    /\ LET row == [status |-> status, by |-> None, owner |-> None,
                   role |-> IF status \in Routable THEN role ELSE None,
                   token |-> status \in Held \/ (status = "redacted" /\ raw),
                   sealed |-> raw /\ status # "destination_blocked",
                   escalated |-> FALSE, purged |-> FALSE, refs |-> NoRefs]
       IN /\ rows' = [rows EXCEPT ![q] = row]
          /\ audit' = [audit EXCEPT ![q] = [content |-> row, purged |-> FALSE]]
    /\ calls' = calls \cup Announce(i, q, status, "routed")
    /\ UNCHANGED <<work, dirty, tickets, overdue, expired, faults>>
-----------------------------------------------------------------------------
(* The transaction of one row: transitionQueryWithAudit, mutateQueryWithAudit. *)

Done(i) ==
    /\ work' = [work EXCEPT ![i] = NoWork]
    /\ dirty' = [dirty EXCEPT ![i] = NothingDirty]

(* BEGIN, the advisory lock and the second reading; a row that changed, or   *)
(* admits nothing any more, ends the transaction as a conflict.              *)
Lock(i) ==
    /\ work[i].op \notin {"none", "purge"} /\ work[i].phase = "asked"
    /\ Free(i) /\ WriterFree(i)
    /\ LET job == work[i]
           row == rows[job.query]
       IN IF Expected(job, row)
          THEN /\ work' = [work EXCEPT ![i] = [op |-> job.op, query |-> job.query,
                                               write |-> Patched(job, row),
                                               phase |-> "locked"]]
               /\ UNCHANGED dirty
          ELSE Done(i)
    /\ UNCHANGED <<rows, audit, calls, tickets, overdue, expired, faults>>

(* The UPDATE of the whole record. *)
Write(i) ==
    /\ work[i].op \notin {"none", "purge"} /\ work[i].phase = "locked" /\ Free(i)
    /\ dirty' = [dirty EXCEPT ![i] = [q \in {work[i].query} |-> work[i].write]]
    /\ work' = [work EXCEPT ![i].phase = "written"]
    /\ UNCHANGED <<rows, audit, calls, tickets, overdue, expired, faults>>

(* The content the audit entry of a transaction binds: the row as the        *)
(* transaction sees it.                                                      *)
BoundContent(i, q) == dirty[i][q]

Cause(op) == IF op = "escalate" THEN "escalated" ELSE "self_blocked"

\* Mutant: a ticket sync commits without an audit entry.
Commit_SyncUnaudited(i) ==
    /\ work[i].op \notin {"none", "purge"} /\ work[i].phase = "written" /\ Free(i)
    /\ LET q == work[i].query IN
       /\ rows' = [rows EXCEPT ![q] = dirty[i][q]]
       /\ audit' = [audit EXCEPT ![q].content = IF work[i].op = "sync" THEN @ ELSE dirty[i][q]]
    /\ Done(i)
    /\ UNCHANGED <<calls, tickets, overdue, expired, faults>>

(* appendAuditRecord under the append lock, and COMMIT; an escalation and a  *)
(* cancelled justification are announced.  Retention counts from a decision. *)
Commit(i) ==
    /\ work[i].op \notin {"none", "purge"} /\ work[i].phase = "written" /\ Free(i)
    /\ LET q == work[i].query IN
       /\ rows' = [rows EXCEPT ![q] = dirty[i][q]]
       /\ audit' = [audit EXCEPT ![q].content = BoundContent(i, q)]
       /\ calls' = IF work[i].op \in {"escalate", "justify"}
                   THEN calls \cup Announce(i, q, dirty[i][q].status, Cause(work[i].op))
                   ELSE calls
    /\ expired' = IF work[i].op \in {"decide", "justify"} THEN expired \ {work[i].query} ELSE expired
    /\ Done(i)
    /\ UNCHANGED <<tickets, overdue, faults>>
-----------------------------------------------------------------------------
(* The purge, row after row: UPDATE with what the SELECT read, then the      *)
(* audit entry, whose append lock the transaction keeps.                     *)

PurgeUpdate(i) ==
    /\ work[i].op = "purge" /\ WantsUpdate(i) /\ Free(i)
    /\ \E q \in NextRow(i) :
         LET row == Purged(work[i].todo[q]) IN
         /\ dirty' = [dirty EXCEPT ![i] =
                        [r \in DOMAIN dirty[i] \cup {q} |-> IF r = q THEN row ELSE dirty[i][r]]]
         /\ work' = [work EXCEPT
                       ![i].todo = [r \in DOMAIN work[i].todo \ {q} |-> work[i].todo[r]],
                       ![i].phase = IF work[i].append THEN "selected" ELSE "written"]
    /\ UNCHANGED <<rows, audit, calls, tickets, overdue, expired, faults>>

PurgeAppend(i) ==
    /\ work[i].op = "purge" /\ work[i].phase = "written" /\ Free(i)
    /\ work' = [work EXCEPT ![i].append = TRUE, ![i].phase = "selected"]
    /\ UNCHANGED <<rows, audit, dirty, calls, tickets, overdue, expired, faults>>

PurgeCommit(i) ==
    /\ work[i].op = "purge" /\ work[i].phase = "selected" /\ DOMAIN work[i].todo = {}
    /\ rows' = [q \in Query |-> IF q \in DOMAIN dirty[i] THEN dirty[i][q] ELSE rows[q]]
    /\ audit' = [q \in Query |-> IF q \in DOMAIN dirty[i]
                                 THEN [content |-> BoundContent(i, q), purged |-> TRUE]
                                 ELSE audit[q]]
    /\ Done(i)
    /\ UNCHANGED <<calls, tickets, overdue, expired, faults>>
-----------------------------------------------------------------------------
(* Trackers.                                                                 *)

(* emitApprovalNotification creates an issue; the answer may be lost, or the *)
(* call may fail without creating one.                                       *)
Deliver(call, created, answered) ==
    /\ call.op = "notify" /\ call.step = "sending"
    /\ created => Len(tickets) < MaxTickets
    /\ answered => created
    /\ tickets' = IF created THEN Append(tickets, 0) ELSE tickets
    /\ calls' = (calls \ {call}) \cup
                {[op |-> "notify", at |-> call.at, query |-> call.query, cause |-> call.cause,
                  step |-> "answered", ticket |-> IF answered THEN Len(tickets) + 1 ELSE 0]}
    /\ UNCHANGED <<rows, audit, work, dirty, overdue, expired, faults>>

(* syncTicketStatuses lists a row with open references ... *)
SyncList(i, q) ==
    /\ Idle(i)
    /\ Arrived(q) /\ Unsynced(rows[q]) # {}
    /\ \A c \in calls : ~(c.op = "sync" /\ c.at = i)
    /\ calls' = calls \cup {[op |-> "sync", at |-> i, query |-> q, step |-> "sending",
                             seen |-> rows[q].refs]}
    /\ UNCHANGED <<rows, audit, work, dirty, tickets, overdue, expired, faults>>

(* ... fetches the states of those issues, some of which may not answer, and *)
(* goes on only when one of them changed.                                    *)
SyncFetch(call, answered) ==
    /\ call.op = "sync" /\ call.step = "sending"
    /\ answered \subseteq {t \in DOMAIN call.seen : call.seen[t] < LastState}
    /\ LET refs == [t \in DOMAIN call.seen |->
                      IF t \in answered THEN tickets[t] ELSE call.seen[t]]
       IN calls' = (calls \ {call}) \cup
                   IF refs = call.seen THEN {}
                   ELSE {[op |-> "sync", at |-> call.at, query |-> call.query,
                          step |-> "answered", seen |-> call.seen, refs |-> refs]}
    /\ UNCHANGED <<rows, audit, work, dirty, tickets, overdue, expired, faults>>

(* The code after the await: a transaction from the fresh row. *)
Continue(call) ==
    /\ call.step = "answered" /\ Idle(call.at)
    /\ calls' = calls \ {call}
    /\ work' = [work EXCEPT ![call.at] =
          IF call.op = "notify"
          THEN [op |-> "notify", query |-> call.query, ticket |-> call.ticket,
                phase |-> "asked"]
          ELSE [op |-> "sync", query |-> call.query, seen |-> call.seen,
                refs |-> call.refs, phase |-> "asked"]]
    /\ UNCHANGED <<rows, audit, dirty, tickets, overdue, expired, faults>>

IssueMoves(t) ==
    /\ t \in DOMAIN tickets /\ tickets[t] < LastState
    /\ tickets' = [tickets EXCEPT ![t] = @ + 1]
    /\ UNCHANGED <<rows, audit, work, dirty, calls, overdue, expired, faults>>
-----------------------------------------------------------------------------
(* Time, failures.                                                           *)

SlaElapses(q) ==
    /\ "escalate" \in Ops /\ Arrived(q) /\ q \notin overdue /\ rows[q].status \in Routable
    /\ overdue' = overdue \cup {q}
    /\ UNCHANGED <<rows, audit, work, dirty, calls, tickets, expired, faults>>

RetentionElapses(q) ==
    /\ "purge" \in Ops /\ Arrived(q) /\ q \notin expired
    /\ expired' = expired \cup {q}
    /\ UNCHANGED <<rows, audit, work, dirty, calls, tickets, overdue, faults>>

\* Mutant: the wait for the append lock has no deadline.
TimeOut_Never(i) == FALSE /\ Done(i) /\ UNCHANGED <<rows, audit, calls, tickets, overdue, expired, faults>>

(* A statement or the wait for the append lock times out when those waited   *)
(* for wait themselves: ROLLBACK, and the handler reports the error.         *)
TimeOut(i) ==
    /\ \E j \in Instance : WaitsFor(i, j) /\ ~Free(j)
    /\ Done(i)
    /\ UNCHANGED <<rows, audit, calls, tickets, overdue, expired, faults>>

(* Step-up refused, storage error, audit gate closed: nothing is committed. *)
Fail(i) ==
    /\ faults < MaxFaults /\ ~Idle(i)
    /\ faults' = faults + 1
    /\ Done(i)
    /\ UNCHANGED <<rows, audit, calls, tickets, overdue, expired>>

Crash(i) ==
    /\ faults < MaxFaults
    /\ faults' = faults + 1
    /\ calls' = {c \in calls : c.at # i}
    /\ Done(i)
    /\ UNCHANGED <<rows, audit, tickets, overdue, expired>>
-----------------------------------------------------------------------------
Step(i) == Lock(i) \/ Write(i) \/ Commit(i) \/ PurgeUpdate(i) \/ PurgeAppend(i) \/ PurgeCommit(i)

(* The requests that Ops admits. *)
AssignableRoles == IF "assign" \in Ops THEN Role ELSE {}

Outcomes == IF "justify" \in Ops THEN {"justified", "blocked_by_user"} ELSE {}

Syncing == IF "sync" \in Ops THEN Instance ELSE {}

Next ==
    \/ \E i \in Instance, q \in Query :
         \/ \E u \in User, v \in Verdicts : AskDecision(i, q, u, v)
         \/ \E r \in AssignableRoles, o \in User \cup {None} : AskAssign(i, q, r, o)
         \/ \E o \in Outcomes : AskJustify(i, q, o)
         \/ \E s \in Arrivals, r \in {"approver", "security_admin"}, raw \in Sealing :
              Ingest(i, q, s, r, raw)
         \/ EscalationTick(i, q)
    \/ \E i \in Syncing, q \in Query : SyncList(i, q)
    \/ \E i \in Instance : PurgeTick(i) \/ Step(i) \/ TimeOut(i) \/ Fail(i) \/ Crash(i)
    \/ \E c \in calls :
         \/ \E created, answered \in BOOLEAN : Deliver(c, created, answered)
         \/ \E S \in SUBSET Ticket : SyncFetch(c, S)
         \/ Continue(c)
    \/ \E t \in Ticket : IssueMoves(t)
    \/ \E q \in Query : SlaElapses(q) \/ RetentionElapses(q)

SafetySpec == Init /\ [][Next]_vars

(* The event loop runs every handler to its end; Postgres queues those that  *)
(* wait for a row, and the append lock is polled every 25 ms and given up by *)
(* an hourly purge, so a wait that could end again and again does end.       *)
HandlersRun == \A i \in Instance : SF_vars(Step(i)) /\ WF_vars(TimeOut(i))

(* Timers come up between handlers however many requests arrive. *)
TimersRun ==
    /\ \A i \in Instance : SF_vars(PurgeTick(i))
    /\ \A i \in Instance, q \in Query : SF_vars(EscalationTick(i, q))

HandlerSpec == SafetySpec /\ HandlersRun
Spec == HandlerSpec /\ TimersRun
-----------------------------------------------------------------------------
(* Properties.                                                               *)

RowMap == UNION {[S -> Row] : S \in SUBSET Query}
DecisionFields == [status : Status, role : Role, owner : User \cup {None}, token : BOOLEAN]

Asked ==
    [op : {"decide"}, query : Query, seen : DecisionFields, by : User,
     verdict : {"approved", "denied"}, phase : {"asked"}]
    \cup [op : {"assign"}, query : Query, seen : DecisionFields, role : Role,
          owner : User \cup {None}, phase : {"asked"}]
    \cup [op : {"justify"}, query : Query, outcome : {"justified", "blocked_by_user"},
          phase : {"asked"}]
    \cup [op : {"escalate"}, query : Query, phase : {"asked"}]
    \cup [op : {"notify"}, query : Query, ticket : 0 .. MaxTickets, phase : {"asked"}]
    \cup [op : {"sync"}, query : Query, seen : Refs, refs : Refs, phase : {"asked"}]

Writing == [op : {"decide", "assign", "justify", "escalate", "notify", "sync"},
            query : Query, write : Row, phase : {"locked", "written"}]
Purging == [op : {"purge"}, todo : RowMap, append : BOOLEAN, phase : {"selected", "written"}]

(* Every variable keeps its shape; a row that was updated is in a            *)
(* transaction past its UPDATE, and only there.                              *)
TypeOK ==
    /\ rows \in [Query -> Row \cup {None}]
    /\ audit \in [Query -> [content : Row \cup {None}, purged : BOOLEAN]]
    /\ work \in [Instance -> {NoWork} \cup Asked \cup Writing \cup Purging]
    /\ dirty \in [Instance -> RowMap]
    /\ \A i \in Instance :
         work[i].op \notin {"none", "purge"} =>
             DOMAIN dirty[i] = IF work[i].phase = "written" THEN {work[i].query} ELSE {}
    /\ \A c \in calls : c.at \in Instance /\ c.query \in Query
    /\ tickets \in Seq(0 .. LastState) /\ Len(tickets) <= MaxTickets
    /\ overdue \subseteq Query /\ expired \subseteq Query
    /\ faults \in 0 .. MaxFaults

(* Whoever approved or denied a query was entitled to it by the assignment   *)
(* the record shows, although the assignment was checked before the          *)
(* transaction and other instances reassign and escalate meanwhile           *)
(* (requireDecisionAccess, decisionExpectedState).                           *)
DeciderOwns ==
    \A q \in Query :
        Arrived(q) /\ rows[q].status \in {"approved", "denied"} => CanDecide(rows[q].by, rows[q])

(* The last audit entry that names a query binds the content the query has:  *)
(* without this verifyAuditChain reports tampering (`evidence`).  Writers    *)
(* update before they hold the append lock, so the order of their rows and   *)
(* the order of their entries must agree.                                    *)
EvidenceCurrent == \A q \in Query : audit[q].content = rows[q]

(* A query that waits for its reviewer keeps the sealed prompt he may        *)
(* reveal: only a decision makes it disposable (rawToStore,                  *)
(* RETENTION_FINAL_STATUSES).                                                *)
HeldKeepsRaw ==
    [][\A q \in Query :
          Arrived(q) /\ rows[q].sealed /\ ~rows'[q].sealed =>
              rows[q].status \in RetentionFinal \/ rows'[q].status \notin Held]_vars

(* An issue a record refers to stays in it, and its state there never goes   *)
(* back, whatever answers arrive late (syncTicketStatuses,                   *)
(* emitAndPersistApprovalNotification).                                      *)
RefsAdvance ==
    [][\A q \in Query : Arrived(q) =>
          \A t \in DOMAIN rows[q].refs :
              t \in DOMAIN rows'[q].refs /\ rows[q].refs[t] <= rows'[q].refs[t]]_vars

(* A record whose purge is in the audit log shows it, and holds no sealed    *)
(* field any more (purgeRetainedSensitiveData).                              *)
PurgeSticks ==
    \A q \in Query : audit[q].purged => rows[q].purged /\ ~rows[q].sealed

Attended(q) == Arrived(q) /\ (rows[q].escalated \/ rows[q].status \notin Routable)

(* An item whose SLA passed is escalated or leaves the queue, unless so many *)
(* newer ones arrive first that the pass does not list it any more           *)
(* (escalateDueApprovals).                                                   *)
OverdueEscalated ==
    \A q \in Query : q \in overdue ~> Attended(q) \/ ~Listed(q)

(* What the documents say of the pass: overdue routed items are escalated,   *)
(* however many newer ones there are (DEPLOYMENT.md, APPROVAL_ROUTING.md).   *)
(* It does not hold for one that ListLimit newer ones hide from the pass.    *)
EveryOverdueEscalated ==
    \A q \in Query : q \in overdue ~> Attended(q)

(* The sealed fields of a decided or redacted query whose retention ended    *)
(* are purged, whatever writers bring them back (runRetentionPurge).         *)
ExpiredPurged ==
    \A q \in Query :
        q \in expired /\ Arrived(q) /\ rows[q].status \in {"approved", "denied", "redacted"}
            ~> Arrived(q) /\ ~rows[q].sealed

(* No transaction waits for ever for rows and locks of others.               *)
TransactionsEnd ==
    \A i \in Instance : work[i] # NoWork ~> work[i] = NoWork
-----------------------------------------------------------------------------
(* To its users the queue is one in which every decision is taken at once,   *)
(* by someone the assignment entitles, and only while the item is held.      *)

Shown(row) ==
    IF row = None THEN None
    ELSE [status |-> row.status, role |-> row.role, owner |-> row.owner, by |-> row.by]

InQueue == [q \in Query |-> Shown(rows[q])]

Queue == INSTANCE HeldQueue WITH queue <- InQueue

ImplementsHeldQueue == Queue!Spec
=============================================================================
