----------------------- MODULE ApprovalWorkflowProofs -----------------------
(* The review queue is what HeldQueue promises, for any number of instances, *)
(* queries and reviewers, on SQLite and on Postgres: every transaction is a  *)
(* legal step of the queue, although it was checked before it began and the  *)
(* purge takes no row lock.                                                  *)
EXTENDS ApprovalWorkflow, TLAPS

(* A record, whatever its ticket references are. *)
IsRow(r) ==
    r \in [status : Status, role : Role, owner : User \cup {None},
           by : User \cup {"sensor", None}, token : BOOLEAN, sealed : BOOLEAN,
           escalated : BOOLEAN, purged : BOOLEAN, refs : {r.refs}]

RowOps == {"decide", "assign", "justify", "escalate", "notify", "sync"}

(* What an instance may be in.  A request carries what its checks saw. *)
IsDecision(j) ==
    /\ j \in [op : {"decide"}, query : Query, seen : DecisionFields, by : User,
              verdict : {"approved", "denied"}, phase : {"asked"}]
    /\ CanDecide(j.by, j.seen) /\ j.seen.status \in Held

IsAssign(j) ==
    /\ j \in [op : {"assign"}, query : Query, seen : DecisionFields, role : Role,
              owner : User \cup {None}, phase : {"asked"}]
    /\ j.seen.status \in Routable

IsJustify(j) ==
    j \in [op : {"justify"}, query : Query, outcome : {"justified", "blocked_by_user"},
           phase : {"asked"}]

IsEscalate(j) == j \in [op : {"escalate"}, query : Query, phase : {"asked"}]

IsNotify(j) ==
    /\ j.op = "notify" /\ j.phase = "asked"
    /\ j \in [op : {"notify"}, query : Query, ticket : {j.ticket}, phase : {"asked"}]

IsSync(j) ==
    /\ j.op = "sync" /\ j.phase = "asked"
    /\ j \in [op : {"sync"}, query : Query, seen : {j.seen}, refs : {j.refs}, phase : {"asked"}]

IsAsked(j) ==
    IsDecision(j) \/ IsAssign(j) \/ IsJustify(j) \/ IsEscalate(j) \/ IsNotify(j) \/ IsSync(j)

IsWriting(j) ==
    /\ j.op \in RowOps /\ j.phase # "asked"
    /\ j \in [op : RowOps, query : Query, write : {j.write}, phase : {"locked", "written"}]
    /\ IsRow(j.write)

IsRowMap(f) ==
    /\ DOMAIN f \subseteq Query
    /\ f = [q \in DOMAIN f |-> f[q]]
    /\ \A q \in DOMAIN f : IsRow(f[q])

IsPurging(j) ==
    /\ j.op = "purge"
    /\ j \in [op : {"purge"}, todo : {j.todo}, append : BOOLEAN, phase : {"selected", "written"}]
    /\ IsRowMap(j.todo)

(* The steps of the queue, on records. *)
Legal(a, b) ==
    \/ Shown(b) = Shown(a)
    \/ a.status \in Routable /\ b.status = a.status /\ b.by = a.by
    \/ /\ a.status \in Held /\ b.status \in {"approved", "denied"}
       /\ b.by \in User /\ CanDecide(b.by, a) /\ b.role = a.role /\ b.owner = a.owner
    \/ /\ a.status = "pending_justification" /\ b.status \in {"justified", "blocked_by_user"}
       /\ b.by = "sensor" /\ b.role = a.role /\ b.owner = a.owner

(* The purge changes nothing the queue shows: its rows are final, and their  *)
(* decision is still the one its SELECT read.                                *)
Settled(a, row) == a # None /\ a.status \in RetentionFinal /\ Shown(row) = Shown(a)

(* What a handler in state j, with the updates d, may still do is legal from *)
(* the rows rs, and it has updated nothing else.                             *)
Fit(rs, j, d) ==
    \/ j = NoWork /\ d = NothingDirty
    \/ IsAsked(j) /\ rs[j.query] # None /\ d = NothingDirty
    \/ /\ IsWriting(j) /\ rs[j.query] # None /\ Legal(rs[j.query], j.write)
       /\ d = IF j.phase = "written" THEN [q \in {j.query} |-> j.write] ELSE NothingDirty
    \/ /\ IsPurging(j) /\ IsRowMap(d)
       /\ \A q \in DOMAIN j.todo : Settled(rs[q], j.todo[q])
       /\ \A q \in DOMAIN d : Settled(rs[q], d[q])

RowsShaped ==
    /\ rows = [q \in Query |-> rows[q]]
    /\ \A q \in Query : rows[q] # None => IsRow(rows[q])

HandlersFit ==
    /\ work = [i \in Instance |-> work[i]]
    /\ dirty = [i \in Instance |-> dirty[i]]
    /\ \A i \in Instance : Fit(rows, work[i], dirty[i])

CallsReferred == \A c \in calls : c.at \in Instance /\ c.query \in Query /\ Arrived(c.query)

(* One transaction at a time holds the advisory lock of a row. *)
Exclusive ==
    \A i, j \in Instance :
        IsWriting(work[i]) /\ IsWriting(work[j]) /\ work[i].query = work[j].query => i = j

FlowInv == RowsShaped /\ HandlersFit /\ CallsReferred /\ Exclusive

(* What the queue shows of a record. *)
Item(r) == [status |-> r.status, role |-> r.role, owner |-> r.owner, by |-> r.by]

(* The empty field None is a value of its own. *)
NoneIsNoRow == \A r : IsRow(r) => r # None /\ Item(r) # None
-----------------------------------------------------------------------------
(* What a handler is in shows in its op and its phase. *)
LEMMA Kinds ==
    ASSUME NEW j
    PROVE  /\ IsAsked(j) => j.op \in RowOps /\ j.phase = "asked" /\ j.query \in Query
           /\ IsWriting(j) => j.op \in RowOps /\ j.phase \in {"locked", "written"} /\ j.query \in Query
           /\ IsPurging(j) => j.op = "purge" /\ j.phase \in {"selected", "written"}
           /\ j = NoWork => j.op = "none"
BY DEF IsAsked, IsDecision, IsAssign, IsJustify, IsEscalate, IsNotify, IsSync, IsWriting,
       IsPurging, NoWork, RowOps

(* Equal in the queue means equal in each of its fields. *)
LEMMA ShownFields ==
    ASSUME NEW a, NEW b, a # None, b # None, Shown(a) = Shown(b)
    PROVE  a.status = b.status /\ a.role = b.role /\ a.owner = b.owner /\ a.by = b.by
<1>1. [status |-> a.status, role |-> a.role, owner |-> a.owner, by |-> a.by]
      = [status |-> b.status, role |-> b.role, owner |-> b.owner, by |-> b.by]
      BY DEF Shown
<1>. QED BY <1>1

(* A row in its retention statuses admits no step of the queue. *)
LEMMA FinalStays ==
    ASSUME NEW a, NEW b, a.status \in RetentionFinal, Legal(a, b)
    PROVE  Shown(b) = Shown(a)
BY DEF Legal, RetentionFinal, Routable, Held

(* Rows that other handlers change as the queue does keep a handler fit. *)
LEMMA FitStays ==
    ASSUME NEW rs, NEW new, NEW j, NEW d, Fit(rs, j, d),
           \A q \in Query : rs[q] # None =>
               /\ new[q] # None
               /\ \/ Shown(new[q]) = Shown(rs[q])
                  \/ rs[q].status \notin RetentionFinal /\ ~(IsWriting(j) /\ j.query = q)
    PROVE  Fit(new, j, d)
<1>1. CASE j = NoWork /\ d = NothingDirty
      BY <1>1 DEF Fit
<1>2. CASE IsAsked(j) /\ rs[j.query] # None /\ d = NothingDirty
      BY <1>2, Kinds DEF Fit
<1>3. CASE /\ IsWriting(j) /\ rs[j.query] # None /\ Legal(rs[j.query], j.write)
           /\ d = IF j.phase = "written" THEN [q \in {j.query} |-> j.write] ELSE NothingDirty
  <2>1. j.query \in Query /\ new[j.query] # None /\ Shown(new[j.query]) = Shown(rs[j.query])
        BY <1>3, Kinds
  <2>2. /\ new[j.query].status = rs[j.query].status /\ new[j.query].role = rs[j.query].role
        /\ new[j.query].owner = rs[j.query].owner /\ new[j.query].by = rs[j.query].by
        BY <1>3, <2>1, ShownFields
  <2>3. Legal(new[j.query], j.write)
        BY <1>3, <2>1, <2>2 DEF Legal, CanDecide
  <2>. QED BY <1>3, <2>1, <2>3 DEF Fit
<1>4. CASE /\ IsPurging(j) /\ IsRowMap(d)
           /\ \A q \in DOMAIN j.todo : Settled(rs[q], j.todo[q])
           /\ \A q \in DOMAIN d : Settled(rs[q], d[q])
  <2>1. ASSUME NEW q \in Query, NEW row, Settled(rs[q], row)
        PROVE  Settled(new[q], row)
    <3>1. new[q] # None /\ Shown(new[q]) = Shown(rs[q])
          BY <2>1 DEF Settled
    <3>2. new[q].status = rs[q].status
          BY <2>1, <3>1, ShownFields DEF Settled
    <3>. QED BY <2>1, <3>1, <3>2 DEF Settled
  <2>2. DOMAIN j.todo \subseteq Query /\ DOMAIN d \subseteq Query
        BY <1>4 DEF IsPurging, IsRowMap
  <2>. QED BY <1>4, <2>1, <2>2 DEF Fit
<1>. QED BY <1>1, <1>2, <1>3, <1>4 DEF Fit

(* A step of one instance keeps the others fit. *)
LEMMA OneHandler ==
    ASSUME FlowInv, NEW i \in Instance,
           work' = [j \in Instance |-> work'[j]], dirty' = [j \in Instance |-> dirty'[j]],
           \A j \in Instance \ {i} : work'[j] = work[j] /\ dirty'[j] = dirty[j],
           Fit(rows', work'[i], dirty'[i]),
           IsWriting(work'[i]) => \A j \in Instance \ {i} :
               ~(IsWriting(work[j]) /\ work[j].query = work'[i].query),
           \A q \in Query : rows[q] # None =>
               /\ rows'[q] # None
               /\ \/ Shown(rows'[q]) = Shown(rows[q])
                  \/ /\ rows[q].status \notin RetentionFinal
                     /\ \A j \in Instance \ {i} : ~(IsWriting(work[j]) /\ work[j].query = q)
    PROVE  HandlersFit' /\ Exclusive'
<1>1. ASSUME NEW j \in Instance PROVE Fit(rows', work'[j], dirty'[j])
  <2>1. CASE j = i
        BY <2>1
  <2>2. CASE j # i
    <3>1. Fit(rows, work[j], dirty[j]) /\ work'[j] = work[j] /\ dirty'[j] = dirty[j]
          BY <2>2 DEF FlowInv, HandlersFit
    <3>2. \A q \in Query : rows[q] # None =>
              /\ rows'[q] # None
              /\ \/ Shown(rows'[q]) = Shown(rows[q])
                 \/ rows[q].status \notin RetentionFinal /\ ~(IsWriting(work[j]) /\ work[j].query = q)
          BY <2>2
    <3>3. Fit(rows', work[j], dirty[j])
          BY <3>1, <3>2, FitStays
    <3>. QED BY <3>1, <3>3
  <2>. QED BY <2>1, <2>2
<1>2. HandlersFit'
      BY <1>1 DEF HandlersFit
<1>3. Exclusive'
  <2>1. SUFFICES ASSUME NEW j \in Instance, NEW k \in Instance,
                        IsWriting(work'[j]), IsWriting(work'[k]), work'[j].query = work'[k].query
                 PROVE  j = k
        BY DEF Exclusive
  <2>2. CASE j = i \/ k = i
        BY <2>1, <2>2
  <2>3. CASE j # i /\ k # i
        BY <2>1, <2>3 DEF FlowInv, Exclusive
  <2>. QED BY <2>2, <2>3
<1>. QED BY <1>2, <1>3

(* The same for the steps that commit nothing. *)
LEMMA OneHandlerQuiet ==
    ASSUME FlowInv, NEW i \in Instance, rows' = rows,
           work' = [j \in Instance |-> work'[j]], dirty' = [j \in Instance |-> dirty'[j]],
           \A j \in Instance \ {i} : work'[j] = work[j] /\ dirty'[j] = dirty[j],
           Fit(rows, work'[i], dirty'[i]),
           IsWriting(work'[i]) => \A j \in Instance \ {i} :
               ~(IsWriting(work[j]) /\ work[j].query = work'[i].query)
    PROVE  RowsShaped' /\ HandlersFit' /\ Exclusive'
<1>1. RowsShaped'
      BY DEF FlowInv, RowsShaped
<1>2. HandlersFit' /\ Exclusive'
      BY OneHandler
<1>. QED BY <1>1, <1>2

(* A handler that asks, gives up or ends without a commit. *)
LEMMA Ends ==
    ASSUME FlowInv, NEW i \in Instance, Done(i), rows' = rows
    PROVE  RowsShaped' /\ HandlersFit' /\ Exclusive'
<1>1. /\ work' = [j \in Instance |-> work'[j]] /\ dirty' = [j \in Instance |-> dirty'[j]]
      /\ \A j \in Instance \ {i} : work'[j] = work[j] /\ dirty'[j] = dirty[j]
      /\ work'[i] = NoWork /\ dirty'[i] = NothingDirty
      BY DEF FlowInv, HandlersFit, Done
<1>2. Fit(rows, work'[i], dirty'[i]) /\ ~IsWriting(work'[i])
      BY <1>1, Kinds DEF Fit, RowOps
<1>. QED BY <1>1, <1>2, OneHandlerQuiet

LEMMA Asks ==
    ASSUME FlowInv, NEW i \in Instance, NEW job, Ask(i, job), IsAsked(job), Arrived(job.query)
    PROVE  RowsShaped' /\ HandlersFit' /\ Exclusive'
<1>1. /\ work' = [j \in Instance |-> work'[j]] /\ dirty' = [j \in Instance |-> dirty'[j]]
      /\ \A j \in Instance \ {i} : work'[j] = work[j] /\ dirty'[j] = dirty[j]
      /\ work'[i] = job /\ dirty'[i] = dirty[i]
      /\ work[i] = NoWork /\ rows' = rows
      BY DEF FlowInv, HandlersFit, Ask, Idle
<1>2. dirty[i] = NothingDirty
  <2>1. Fit(rows, NoWork, dirty[i])
        BY <1>1 DEF FlowInv, HandlersFit
  <2>. QED BY <2>1, Kinds DEF Fit, RowOps
<1>3. Fit(rows, work'[i], dirty'[i]) /\ ~IsWriting(work'[i])
      BY <1>1, <1>2, Kinds DEF Fit, Arrived
<1>. QED BY <1>1, <1>3, OneHandlerQuiet
-----------------------------------------------------------------------------
(* Requests carry what their checks saw. *)

LEMMA SeenFields ==
    ASSUME NEW row, IsRow(row)
    PROVE  DecisionState(row) \in DecisionFields
BY DEF IsRow, DecisionState, DecisionFields

LEMMA RequestsFit ==
    ASSUME FlowInv, NEW i \in Instance, NEW q \in Query,
           \/ \E u \in User, v \in Verdicts : AskDecision(i, q, u, v)
           \/ \E r \in Role, o \in User \cup {None} : AskAssign(i, q, r, o)
           \/ \E o \in {"justified", "blocked_by_user"} : AskJustify(i, q, o)
           \/ EscalationTick(i, q)
    PROVE  RowsShaped' /\ HandlersFit' /\ Exclusive'
<1>1. Arrived(q) => IsRow(rows[q])
      BY DEF FlowInv, RowsShaped, Arrived
<1>2. ASSUME NEW u \in User, NEW v \in Verdicts, AskDecision(i, q, u, v)
      PROVE  RowsShaped' /\ HandlersFit' /\ Exclusive'
  <2>. DEFINE job == [op |-> "decide", query |-> q, seen |-> DecisionState(rows[q]), by |-> u,
                      verdict |-> v, phase |-> "asked"]
  <2>1. Arrived(q) /\ CanDecide(u, rows[q]) /\ rows[q].status \in Held /\ Ask(i, job)
        BY <1>2 DEF AskDecision
  <2>2. DecisionState(rows[q]) \in DecisionFields
        BY <1>1, <2>1, SeenFields
  <2>3. CanDecide(u, DecisionState(rows[q])) /\ DecisionState(rows[q]).status \in Held
        BY <2>1 DEF DecisionState, CanDecide
  <2>4. v \in {"approved", "denied"}
        BY WorkflowAssumption
  <2>5. IsAsked(job)
        BY <2>2, <2>3, <2>4 DEF IsAsked, IsDecision
  <2>6. job.query = q
        OBVIOUS
  <2>. HIDE DEF job
  <2>. QED BY <2>1, <2>5, <2>6, Asks
<1>3. ASSUME NEW r \in Role, NEW o \in User \cup {None}, AskAssign(i, q, r, o)
      PROVE  RowsShaped' /\ HandlersFit' /\ Exclusive'
  <2>. DEFINE job == [op |-> "assign", query |-> q, seen |-> DecisionState(rows[q]),
                      role |-> r, owner |-> o, phase |-> "asked"]
  <2>1. Arrived(q) /\ rows[q].status \in Routable /\ Ask(i, job)
        BY <1>3 DEF AskAssign
  <2>2. DecisionState(rows[q]) \in DecisionFields
        BY <1>1, <2>1, SeenFields
  <2>3. DecisionState(rows[q]).status \in Routable
        BY <2>1 DEF DecisionState
  <2>5. IsAsked(job)
        BY <2>2, <2>3 DEF IsAsked, IsAssign
  <2>6. job.query = q
        OBVIOUS
  <2>. HIDE DEF job
  <2>. QED BY <2>1, <2>5, <2>6, Asks
<1>4. ASSUME NEW o \in {"justified", "blocked_by_user"}, AskJustify(i, q, o)
      PROVE  RowsShaped' /\ HandlersFit' /\ Exclusive'
  <2>. DEFINE job == [op |-> "justify", query |-> q, outcome |-> o, phase |-> "asked"]
  <2>1. Arrived(q) /\ Ask(i, job) /\ IsAsked(job) /\ job.query = q
        BY <1>4 DEF AskJustify, IsAsked, IsJustify
  <2>. HIDE DEF job
  <2>. QED BY <2>1, Asks
<1>5. ASSUME EscalationTick(i, q)
      PROVE  RowsShaped' /\ HandlersFit' /\ Exclusive'
  <2>. DEFINE job == [op |-> "escalate", query |-> q, phase |-> "asked"]
  <2>1. Arrived(q) /\ Ask(i, job) /\ IsAsked(job) /\ job.query = q
        BY <1>5 DEF EscalationTick, Listed, IsAsked, IsEscalate
  <2>. HIDE DEF job
  <2>. QED BY <2>1, Asks
<1>. QED BY <1>2, <1>3, <1>4, <1>5

LEMMA PurgeStarts ==
    ASSUME FlowInv, NEW i \in Instance, PurgeTick(i)
    PROVE  RowsShaped' /\ HandlersFit' /\ Exclusive'
<1>. DEFINE found == {q \in Query : Purgeable(q)}
            job == [op |-> "purge", todo |-> [q \in found |-> rows[q]],
                    append |-> FALSE, phase |-> "selected"]
<1>1. /\ work' = [j \in Instance |-> work'[j]] /\ dirty' = [j \in Instance |-> dirty'[j]]
      /\ \A j \in Instance \ {i} : work'[j] = work[j] /\ dirty'[j] = dirty[j]
      /\ work'[i] = job /\ dirty'[i] = dirty[i] /\ work[i] = NoWork /\ rows' = rows
      BY DEF FlowInv, HandlersFit, PurgeTick, Ask, Idle
<1>2. dirty[i] = NothingDirty
  <2>1. Fit(rows, NoWork, dirty[i])
        BY <1>1 DEF FlowInv, HandlersFit
  <2>. QED BY <2>1, Kinds DEF Fit, RowOps
<1>3. \A q \in found : IsRow(rows[q]) /\ Settled(rows[q], rows[q])
      BY DEF FlowInv, RowsShaped, Purgeable, Arrived, Settled
<1>4. IsRowMap(NothingDirty) /\ DOMAIN NothingDirty = {}
      BY DEF IsRowMap, NothingDirty
<1>5. IsPurging(job)
      BY <1>3 DEF IsPurging, IsRowMap
<1>6. job.todo = [q \in found |-> rows[q]]
      OBVIOUS
<1>7. Fit(rows, job, NothingDirty)
  <2>. HIDE DEF job
  <2>. QED BY <1>3, <1>4, <1>5, <1>6 DEF Fit
<1>8. ~IsWriting(job)
  <2>. HIDE DEF job
  <2>. QED BY <1>5, Kinds DEF RowOps
<1>. HIDE DEF job
<1>. QED BY <1>1, <1>2, <1>7, <1>8, OneHandlerQuiet
-----------------------------------------------------------------------------
(* The transaction of one row. *)

(* What is patched into a row that still admits the request is legal. *)
LEMMA PatchLegal ==
    ASSUME NEW job, NEW row, NoneIsNoRow, IsAsked(job), IsRow(row), Expected(job, row)
    PROVE  IsRow(Patched(job, row)) /\ Legal(row, Patched(job, row))
<1>1. CASE job.op = "decide"
  <2>1. IsDecision(job)
        BY <1>1 DEF IsAsked, IsDecision, IsAssign, IsJustify, IsEscalate, IsNotify, IsSync
  <2>2. Patched(job, row) = [row EXCEPT !.status = job.verdict, !.by = job.by]
        BY <1>1 DEF Patched, Decided
  <2>3. /\ row.status = job.seen.status /\ row.role = job.seen.role
        /\ row.owner = job.seen.owner
        BY <1>1 DEF Expected, DecisionState
  <2>4. row.status \in Held /\ CanDecide(job.by, row) /\ job.by \in User
        /\ job.verdict \in {"approved", "denied"}
        BY <2>1, <2>3 DEF IsDecision, CanDecide
  <2>. HIDE DEF Patched
  <2>5. IsRow(Patched(job, row))
        BY <2>2, <2>4 DEF IsRow, Status, RetentionFinal
  <2>6. /\ Patched(job, row).status = job.verdict /\ Patched(job, row).by = job.by
        /\ Patched(job, row).role = row.role /\ Patched(job, row).owner = row.owner
        BY <2>2 DEF IsRow
  <2>. QED BY <2>4, <2>5, <2>6 DEF Legal
<1>2. CASE job.op = "assign"
  <2>1. IsAssign(job)
        BY <1>2 DEF IsAsked, IsDecision, IsAssign, IsJustify, IsEscalate, IsNotify, IsSync
  <2>2. Patched(job, row) = [row EXCEPT !.role = job.role, !.owner = job.owner]
        BY <1>2 DEF Patched
  <2>3. row.status \in Routable /\ job.role \in Role /\ job.owner \in User \cup {None}
        BY <1>2, <2>1 DEF Expected, DecisionState, IsAssign
  <2>4. IsRow(Patched(job, row))
        BY <2>2, <2>3 DEF IsRow
  <2>5. Patched(job, row).status = row.status /\ Patched(job, row).by = row.by
        BY <2>2 DEF IsRow
  <2>. QED BY <2>3, <2>4, <2>5 DEF Legal
<1>3. CASE job.op = "justify"
  <2>1. IsJustify(job)
        BY <1>3 DEF IsAsked, IsDecision, IsAssign, IsJustify, IsEscalate, IsNotify, IsSync
  <2>2. Patched(job, row) = [row EXCEPT !.status = job.outcome, !.by = "sensor",
                                        !.sealed = FALSE, !.token = FALSE]
        BY <1>3 DEF Patched, Justified
  <2>3. row.status = "pending_justification" /\ job.outcome \in {"justified", "blocked_by_user"}
        BY <1>3, <2>1 DEF Expected, IsJustify
  <2>4. IsRow(Patched(job, row))
        BY <2>2, <2>3 DEF IsRow, Status, Routable
  <2>5. /\ Patched(job, row).status = job.outcome /\ Patched(job, row).by = "sensor"
        /\ Patched(job, row).role = row.role /\ Patched(job, row).owner = row.owner
        BY <2>2 DEF IsRow
  <2>. QED BY <2>3, <2>4, <2>5 DEF Legal
<1>4. CASE job.op = "escalate"
  <2>1. Patched(job, row) = [row EXCEPT !.role = "security_admin", !.escalated = TRUE]
        BY <1>4 DEF Patched, Escalated
  <2>2. row.status \in Routable
        BY <1>4 DEF Expected, Due
  <2>3. IsRow(Patched(job, row))
        BY <2>1 DEF IsRow, Role
  <2>4. Patched(job, row).status = row.status /\ Patched(job, row).by = row.by
        BY <2>1 DEF IsRow
  <2>. QED BY <2>2, <2>3, <2>4 DEF Legal
<1>5. CASE job.op \in {"notify", "sync"}
  <2>1. PICK refs : Patched(job, row) = [row EXCEPT !.refs = refs]
        BY <1>5 DEF Patched
  <2>2. IsRow(Patched(job, row))
        BY <2>1 DEF IsRow
  <2>3. /\ Patched(job, row).status = row.status /\ Patched(job, row).by = row.by
        /\ Patched(job, row).role = row.role /\ Patched(job, row).owner = row.owner
        BY <2>1 DEF IsRow
  <2>4. row # None /\ Patched(job, row) # None
        BY <2>2 DEF NoneIsNoRow
  <2>. QED BY <2>2, <2>3, <2>4 DEF Legal, Shown
<1>. QED BY <1>1, <1>2, <1>3, <1>4, <1>5, Kinds DEF RowOps

LEMMA LockFits ==
    ASSUME FlowInv, NoneIsNoRow, NEW i \in Instance, Lock(i)
    PROVE  RowsShaped' /\ HandlersFit' /\ Exclusive'
<1>. DEFINE job == work[i]
            row == rows[work[i].query]
            w == [op |-> job.op, query |-> job.query, write |-> Patched(job, row),
                  phase |-> "locked"]
<1>1. job.op \notin {"none", "purge"} /\ job.phase = "asked" /\ rows' = rows /\ Free(i)
      BY DEF Lock
<1>2. IsAsked(job) /\ Arrived(job.query) /\ dirty[i] = NothingDirty
  <2>1. Fit(rows, job, dirty[i])
        BY DEF FlowInv, HandlersFit
  <2>. QED BY <1>1, <2>1, Kinds DEF Fit, Arrived
<1>3. job.op \in RowOps /\ job.query \in Query /\ IsRow(row)
      BY <1>2, Kinds DEF FlowInv, RowsShaped, Arrived
<1>4. CASE ~Expected(job, row)
  <2>1. Done(i)
        BY <1>4 DEF Lock
  <2>. QED BY <1>1, <2>1, Ends
<1>5. CASE Expected(job, row)
  <2>1. work' = [work EXCEPT ![i] = w] /\ dirty' = dirty
        BY <1>5 DEF Lock
  <2>2. IsRow(Patched(job, row)) /\ Legal(row, Patched(job, row))
        BY <1>2, <1>3, <1>5, PatchLegal
  <2>3. /\ work' = [j \in Instance |-> work'[j]] /\ dirty' = [j \in Instance |-> dirty'[j]]
        /\ \A j \in Instance \ {i} : work'[j] = work[j] /\ dirty'[j] = dirty[j]
        /\ work'[i] = w /\ dirty'[i] = NothingDirty
        BY <1>2, <2>1 DEF FlowInv, HandlersFit
  <2>4. w.write = Patched(job, row) /\ w.query = job.query /\ w.phase = "locked"
        OBVIOUS
  <2>5. IsWriting(w)
        BY <1>3, <2>2 DEF IsWriting
  <2>6. Fit(rows, w, NothingDirty)
    <3>. HIDE DEF w
    <3>. QED BY <1>2, <2>2, <2>4, <2>5 DEF Fit, Arrived
  <2>7. ASSUME NEW j \in Instance \ {i}, IsWriting(work[j]), work[j].query = job.query
        PROVE  FALSE
    <3>1. RowLocked(j, job.query)
          BY <2>7, Kinds DEF RowLocked, InTransaction, RowOps
    <3>. QED BY <1>1, <2>7, <3>1 DEF Free, WaitsFor
  <2>. HIDE DEF w, job, row
  <2>. QED BY <1>1, <2>3, <2>4, <2>6, <2>7, OneHandlerQuiet
<1>. QED BY <1>4, <1>5

LEMMA WriteFits ==
    ASSUME FlowInv, NEW i \in Instance, Write(i)
    PROVE  RowsShaped' /\ HandlersFit' /\ Exclusive'
<1>1. work[i].op \notin {"none", "purge"} /\ work[i].phase = "locked" /\ rows' = rows
      BY DEF Write
<1>2. IsWriting(work[i]) /\ Arrived(work[i].query) /\ Legal(rows[work[i].query], work[i].write)
  <2>1. Fit(rows, work[i], dirty[i])
        BY DEF FlowInv, HandlersFit
  <2>. QED BY <1>1, <2>1, Kinds DEF Fit, Arrived
<1>3. /\ work' = [j \in Instance |-> work'[j]] /\ dirty' = [j \in Instance |-> dirty'[j]]
      /\ \A j \in Instance \ {i} : work'[j] = work[j] /\ dirty'[j] = dirty[j]
      /\ work'[i] = [work[i] EXCEPT !.phase = "written"]
      /\ dirty'[i] = [q \in {work[i].query} |-> work[i].write]
      BY DEF Write, FlowInv, HandlersFit
<1>4. /\ work'[i].op = work[i].op /\ work'[i].query = work[i].query
      /\ work'[i].write = work[i].write /\ work'[i].phase = "written"
      BY <1>2, <1>3 DEF IsWriting
<1>5. IsWriting(work'[i])
  <2>1. work'[i] \in [op : RowOps, query : Query, write : {work[i].write},
                      phase : {"locked", "written"}]
        BY <1>2, <1>3 DEF IsWriting
  <2>. QED BY <1>2, <1>4, <2>1 DEF IsWriting
<1>6. Fit(rows, work'[i], dirty'[i])
      BY <1>2, <1>3, <1>4, <1>5 DEF Fit, Arrived
<1>7. \A j \in Instance \ {i} : ~(IsWriting(work[j]) /\ work[j].query = work'[i].query)
      BY <1>2, <1>4 DEF FlowInv, Exclusive
<1>. QED BY <1>1, <1>3, <1>6, <1>7, OneHandlerQuiet

(* The commit makes a legal step of the queue, and changes a row that no     *)
(* other handler is about to write.                                          *)
LEMMA CommitFits ==
    ASSUME FlowInv, NoneIsNoRow, NEW i \in Instance, Commit(i)
    PROVE  /\ RowsShaped' /\ HandlersFit' /\ Exclusive'
           /\ \A q \in Query : Arrived(q) => Arrived(q)'
           /\ work[i].query \in Query /\ Arrived(work[i].query)
           /\ \E row : /\ IsRow(row) /\ Legal(rows[work[i].query], row)
                       /\ rows' = [rows EXCEPT ![work[i].query] = row]
<1>. DEFINE q == work[i].query
            row == work[i].write
<1>1. work[i].op \notin {"none", "purge"} /\ work[i].phase = "written"
      BY DEF Commit
<1>2. /\ IsWriting(work[i]) /\ Arrived(q) /\ Legal(rows[q], row)
      /\ dirty[i] = [r \in {q} |-> row]
  <2>1. Fit(rows, work[i], dirty[i])
        BY DEF FlowInv, HandlersFit
  <2>. QED BY <1>1, <2>1, Kinds DEF Fit, Arrived
<1>3. q \in Query /\ IsRow(row) /\ row # None
      BY <1>2, Kinds DEF IsWriting, NoneIsNoRow
<1>4. rows' = [rows EXCEPT ![q] = row]
      BY <1>2 DEF Commit
<1>5. RowsShaped'
      BY <1>3, <1>4 DEF FlowInv, RowsShaped
<1>6. \A r \in Query : rows'[r] = IF r = q THEN row ELSE rows[r]
      BY <1>3, <1>4 DEF FlowInv, RowsShaped
<1>7. /\ work' = [j \in Instance |-> work'[j]] /\ dirty' = [j \in Instance |-> dirty'[j]]
      /\ \A j \in Instance \ {i} : work'[j] = work[j] /\ dirty'[j] = dirty[j]
      /\ work'[i] = NoWork /\ dirty'[i] = NothingDirty
      BY DEF FlowInv, HandlersFit, Commit, Done
<1>8. Fit(rows', work'[i], dirty'[i]) /\ ~IsWriting(work'[i])
      BY <1>7, Kinds DEF Fit, RowOps
<1>9. \/ Shown(row) = Shown(rows[q])
      \/ /\ rows[q].status \notin RetentionFinal
         /\ \A j \in Instance \ {i} : ~(IsWriting(work[j]) /\ work[j].query = q)
      BY <1>2, FinalStays DEF FlowInv, Exclusive
<1>10. \A r \in Query : rows[r] # None =>
           /\ rows'[r] # None
           /\ \/ Shown(rows'[r]) = Shown(rows[r])
              \/ /\ rows[r].status \notin RetentionFinal
                 /\ \A j \in Instance \ {i} : ~(IsWriting(work[j]) /\ work[j].query = r)
  <2>. HIDE DEF row
  <2>. QED BY <1>3, <1>6, <1>9
<1>11. HandlersFit' /\ Exclusive'
  <2>. HIDE DEF q, row
  <2>. QED BY <1>7, <1>8, <1>10, OneHandler
<1>12. \A r \in Query : Arrived(r) => Arrived(r)'
      BY <1>10 DEF Arrived
<1>. QED BY <1>2, <1>3, <1>4, <1>5, <1>11, <1>12

(* A late answer becomes the request of its instance. *)
LEMMA ContinueFits ==
    ASSUME FlowInv, NEW c \in calls, Continue(c)
    PROVE  RowsShaped' /\ HandlersFit' /\ Exclusive' /\ CallsReferred'
<1>1. c.at \in Instance /\ c.query \in Query /\ Arrived(c.query)
      BY DEF FlowInv, CallsReferred
<1>2. /\ work' = [j \in Instance |-> work'[j]] /\ dirty' = [j \in Instance |-> dirty'[j]]
      /\ \A j \in Instance \ {c.at} : work'[j] = work[j] /\ dirty'[j] = dirty[j]
      /\ dirty'[c.at] = dirty[c.at] /\ work[c.at] = NoWork /\ rows' = rows
      BY <1>1 DEF FlowInv, HandlersFit, Continue, Idle
<1>3. \/ work'[c.at] = [op |-> "notify", query |-> c.query, ticket |-> c.ticket, phase |-> "asked"]
      \/ work'[c.at] = [op |-> "sync", query |-> c.query, seen |-> c.seen, refs |-> c.refs,
                        phase |-> "asked"]
      BY <1>1 DEF FlowInv, HandlersFit, Continue
<1>4. IsAsked(work'[c.at]) /\ work'[c.at].query = c.query
  <2>1. ASSUME NEW t, NEW j, j = [op |-> "notify", query |-> c.query, ticket |-> t, phase |-> "asked"]
        PROVE  IsNotify(j) /\ j.query = c.query
        BY <1>1, <2>1 DEF IsNotify
  <2>2. ASSUME NEW s, NEW n, NEW j,
               j = [op |-> "sync", query |-> c.query, seen |-> s, refs |-> n, phase |-> "asked"]
        PROVE  IsSync(j) /\ j.query = c.query
        BY <1>1, <2>2 DEF IsSync
  <2>. QED BY <1>3, <2>1, <2>2 DEF IsAsked
<1>5. dirty[c.at] = NothingDirty
  <2>1. Fit(rows, NoWork, dirty[c.at])
        BY <1>1, <1>2 DEF FlowInv, HandlersFit
  <2>. QED BY <2>1, Kinds DEF Fit, RowOps
<1>6. Fit(rows, work'[c.at], dirty'[c.at]) /\ ~IsWriting(work'[c.at])
      BY <1>1, <1>2, <1>4, <1>5, Kinds DEF Fit, Arrived
<1>7. CallsReferred'
      BY <1>2 DEF FlowInv, CallsReferred, Continue, Arrived
<1>. QED BY <1>1, <1>2, <1>6, <1>7, OneHandlerQuiet
-----------------------------------------------------------------------------
(* The purge. *)

LEMMA PurgeFit ==
    ASSUME FlowInv, NEW i \in Instance, work[i].op = "purge"
    PROVE  /\ IsPurging(work[i]) /\ IsRowMap(dirty[i]) /\ IsRowMap(work[i].todo)
           /\ \A q \in DOMAIN work[i].todo : Settled(rows[q], work[i].todo[q])
           /\ \A q \in DOMAIN dirty[i] : Settled(rows[q], dirty[i][q])
<1>1. Fit(rows, work[i], dirty[i])
      BY DEF FlowInv, HandlersFit
<1>2. IsPurging(work[i]) /\ ~IsWriting(work[i]) /\ ~IsAsked(work[i]) /\ work[i] # NoWork
      BY <1>1, Kinds DEF Fit, RowOps
<1>. QED BY <1>1, <1>2 DEF Fit, IsPurging

(* Stripping a record leaves what the queue shows. *)
LEMMA PurgedShown ==
    ASSUME NEW row, NoneIsNoRow, IsRow(row)
    PROVE  IsRow(Purged(row)) /\ Shown(Purged(row)) = Shown(row)
<1>1. IsRow(Purged(row))
      BY DEF Purged, IsRow
<1>2. /\ Purged(row).status = row.status /\ Purged(row).role = row.role
      /\ Purged(row).owner = row.owner /\ Purged(row).by = row.by
      BY DEF Purged, IsRow
<1>3. row # None /\ Purged(row) # None
      BY <1>1 DEF NoneIsNoRow
<1>. QED BY <1>1, <1>2, <1>3 DEF Shown

LEMMA PurgeUpdateFits ==
    ASSUME FlowInv, NoneIsNoRow, NEW i \in Instance, PurgeUpdate(i)
    PROVE  RowsShaped' /\ HandlersFit' /\ Exclusive'
<1>1. work[i].op = "purge" /\ rows' = rows
      BY DEF PurgeUpdate
<1>2. /\ IsPurging(work[i]) /\ IsRowMap(dirty[i]) /\ IsRowMap(work[i].todo)
      /\ \A q \in DOMAIN work[i].todo : Settled(rows[q], work[i].todo[q])
      /\ \A q \in DOMAIN dirty[i] : Settled(rows[q], dirty[i][q])
      BY <1>1, PurgeFit
<1>3. PICK q \in NextRow(i) :
         /\ dirty' = [dirty EXCEPT ![i] =
               [r \in DOMAIN dirty[i] \cup {q} |->
                  IF r = q THEN Purged(work[i].todo[q]) ELSE dirty[i][r]]]
         /\ work' = [work EXCEPT
               ![i].todo = [r \in DOMAIN work[i].todo \ {q} |-> work[i].todo[r]],
               ![i].phase = IF work[i].append THEN "selected" ELSE "written"]
      BY DEF PurgeUpdate
<1>. DEFINE todo == work[i].todo
            row == Purged(todo[q])
            rest == [r \in DOMAIN todo \ {q} |-> todo[r]]
            ups == [r \in DOMAIN dirty[i] \cup {q} |-> IF r = q THEN row ELSE dirty[i][r]]
            phase == IF work[i].append THEN "selected" ELSE "written"
<1>4. q \in DOMAIN todo /\ q \in Query
      BY <1>1, <1>2, <1>3 DEF NextRow, IsRowMap
<1>5. /\ work' = [j \in Instance |-> work'[j]] /\ dirty' = [j \in Instance |-> dirty'[j]]
      /\ \A j \in Instance \ {i} : work'[j] = work[j] /\ dirty'[j] = dirty[j]
      /\ dirty'[i] = ups
      /\ work'[i] = [work[i] EXCEPT !.todo = rest, !.phase = phase]
      BY <1>3 DEF FlowInv, HandlersFit
<1>6. IsRow(row) /\ Settled(rows[q], row)
  <2>1. IsRow(todo[q]) /\ Settled(rows[q], todo[q])
        BY <1>2, <1>4 DEF IsRowMap
  <2>. QED BY <2>1, PurgedShown DEF Settled
<1>7. IsRowMap(rest) /\ \A r \in DOMAIN rest : Settled(rows[r], rest[r])
      BY <1>2 DEF IsRowMap
<1>8. IsRowMap(ups) /\ \A r \in DOMAIN ups : Settled(rows[r], ups[r])
  <2>. HIDE DEF row
  <2>. QED BY <1>2, <1>4, <1>6 DEF IsRowMap
<1>9. IsPurging(work'[i]) /\ work'[i].todo = rest
  <2>. HIDE DEF rest
  <2>1. /\ work'[i] \in [op : {"purge"}, todo : {rest}, append : BOOLEAN,
                         phase : {"selected", "written"}]
        BY <1>2, <1>5 DEF IsPurging
  <2>. QED BY <1>7, <2>1 DEF IsPurging
<1>10. Fit(rows, work'[i], dirty'[i]) /\ ~IsWriting(work'[i])
  <2>. HIDE DEF rest, ups
  <2>1. ~IsWriting(work'[i])
        BY <1>9, Kinds DEF RowOps
  <2>. QED BY <1>5, <1>7, <1>8, <1>9, <2>1 DEF Fit
<1>. QED BY <1>1, <1>5, <1>10, OneHandlerQuiet

LEMMA PurgeAppendFits ==
    ASSUME FlowInv, NEW i \in Instance, PurgeAppend(i)
    PROVE  RowsShaped' /\ HandlersFit' /\ Exclusive'
<1>1. work[i].op = "purge" /\ rows' = rows /\ dirty' = dirty
      BY DEF PurgeAppend
<1>2. /\ IsPurging(work[i]) /\ IsRowMap(dirty[i]) /\ IsRowMap(work[i].todo)
      /\ \A q \in DOMAIN work[i].todo : Settled(rows[q], work[i].todo[q])
      /\ \A q \in DOMAIN dirty[i] : Settled(rows[q], dirty[i][q])
      BY <1>1, PurgeFit
<1>3. /\ work' = [j \in Instance |-> work'[j]] /\ dirty' = [j \in Instance |-> dirty'[j]]
      /\ \A j \in Instance \ {i} : work'[j] = work[j] /\ dirty'[j] = dirty[j]
      /\ work'[i] = [work[i] EXCEPT !.append = TRUE, !.phase = "selected"]
      /\ dirty'[i] = dirty[i]
      BY <1>1 DEF FlowInv, HandlersFit, PurgeAppend
<1>4. IsPurging(work'[i]) /\ work'[i].todo = work[i].todo
  <2>1. /\ work'[i] \in [op : {"purge"}, todo : {work[i].todo}, append : BOOLEAN,
                         phase : {"selected", "written"}]
        BY <1>2, <1>3 DEF IsPurging
  <2>. QED BY <1>2, <2>1 DEF IsPurging
<1>5. Fit(rows, work'[i], dirty'[i]) /\ ~IsWriting(work'[i])
      BY <1>2, <1>3, <1>4, Kinds DEF Fit, RowOps
<1>. QED BY <1>1, <1>3, <1>5, OneHandlerQuiet

LEMMA PurgeCommitFits ==
    ASSUME FlowInv, NoneIsNoRow, NEW i \in Instance, PurgeCommit(i)
    PROVE  /\ RowsShaped' /\ HandlersFit' /\ Exclusive'
           /\ \A q \in Query : Arrived(q) => Arrived(q)'
           /\ \A q \in Query : Shown(rows'[q]) = Shown(rows[q])
<1>1. work[i].op = "purge"
      BY DEF PurgeCommit
<1>2. /\ IsRowMap(dirty[i])
      /\ \A q \in DOMAIN dirty[i] : Settled(rows[q], dirty[i][q])
      BY <1>1, PurgeFit
<1>3. rows' = [q \in Query |-> IF q \in DOMAIN dirty[i] THEN dirty[i][q] ELSE rows[q]]
      BY DEF PurgeCommit
<1>4. \A q \in DOMAIN dirty[i] : IsRow(dirty[i][q]) /\ dirty[i][q] # None
      BY <1>2 DEF IsRowMap, NoneIsNoRow
<1>5. RowsShaped'
      BY <1>3, <1>4 DEF FlowInv, RowsShaped
<1>6. \A q \in Query : Shown(rows'[q]) = Shown(rows[q]) /\ (rows[q] # None => rows'[q] # None)
      BY <1>2, <1>3, <1>4 DEF Settled
<1>7. /\ work' = [j \in Instance |-> work'[j]] /\ dirty' = [j \in Instance |-> dirty'[j]]
      /\ \A j \in Instance \ {i} : work'[j] = work[j] /\ dirty'[j] = dirty[j]
      /\ work'[i] = NoWork /\ dirty'[i] = NothingDirty
      BY DEF FlowInv, HandlersFit, PurgeCommit, Done
<1>8. Fit(rows', work'[i], dirty'[i]) /\ ~IsWriting(work'[i])
      BY <1>7, Kinds DEF Fit, RowOps
<1>9. HandlersFit' /\ Exclusive'
      BY <1>6, <1>7, <1>8, OneHandler
<1>10. \A q \in Query : Arrived(q) => Arrived(q)'
      BY <1>6 DEF Arrived
<1>. QED BY <1>5, <1>6, <1>9, <1>10
-----------------------------------------------------------------------------
(* A query arrives. *)

LEMMA IngestFits ==
    ASSUME FlowInv, NoneIsNoRow, NEW i \in Instance, NEW q \in Query, NEW s \in Arrivals,
           NEW r \in {"approver", "security_admin"}, NEW raw \in Sealing,
           Ingest(i, q, s, r, raw)
    PROVE  /\ RowsShaped' /\ HandlersFit' /\ Exclusive'
           /\ \A p \in Query : Arrived(p) => Arrived(p)'
           /\ ~Arrived(q) /\ Arrived(q)'
           /\ \E row : /\ rows' = [rows EXCEPT ![q] = row] /\ IsRow(row)
                       /\ row.status = s /\ row.by = None /\ row.owner = None
                       /\ row.role \in {"approver", "security_admin", None}
<1>. DEFINE role == IF s \in Routable THEN r ELSE None
            token == s \in Held \/ (s = "redacted" /\ raw)
            sealed == raw /\ s # "destination_blocked"
            row == [status |-> s, by |-> None, owner |-> None, role |-> role, token |-> token,
                    sealed |-> sealed, escalated |-> FALSE, purged |-> FALSE, refs |-> NoRefs]
<1>1. Idle(i) /\ ~Arrived(q) /\ rows' = [rows EXCEPT ![q] = row] /\ work' = work /\ dirty' = dirty
      BY DEF Ingest
<1>2. s \in Status
      BY WorkflowAssumption DEF Status, Routable, RetentionFinal
<1>3. role \in Role /\ token \in BOOLEAN /\ sealed \in BOOLEAN
      /\ role \in {"approver", "security_admin", None}
      BY WorkflowAssumption DEF Role
<1>. HIDE DEF role, token, sealed
<1>4. IsRow(row)
      BY <1>2, <1>3 DEF IsRow
<1>5. row # None
      BY <1>4 DEF NoneIsNoRow
<1>6. row.status = s /\ row.by = None /\ row.owner = None /\ row.role = role
      OBVIOUS
<1>. HIDE DEF row
<1>7. RowsShaped'
      BY <1>1, <1>4 DEF FlowInv, RowsShaped
<1>8. /\ \A p \in Query : rows[p] # None => rows'[p] = rows[p]
      /\ rows'[q] = row
      BY <1>1 DEF FlowInv, RowsShaped, Arrived
<1>9. work[i] = NoWork /\ Fit(rows', work'[i], dirty'[i]) /\ ~IsWriting(work'[i])
  <2>1. work[i] = NoWork /\ Fit(rows, NoWork, dirty[i])
        BY <1>1 DEF FlowInv, HandlersFit, Idle
  <2>2. dirty[i] = NothingDirty
        BY <2>1, Kinds DEF Fit, RowOps
  <2>. QED BY <1>1, <2>1, <2>2, Kinds DEF Fit, RowOps
<1>10. HandlersFit' /\ Exclusive'
  <2>1. work' = [j \in Instance |-> work'[j]] /\ dirty' = [j \in Instance |-> dirty'[j]]
        BY <1>1 DEF FlowInv, HandlersFit
  <2>2. \A p \in Query : rows[p] # None =>
            rows'[p] # None /\ Shown(rows'[p]) = Shown(rows[p])
        BY <1>8
  <2>3. \A j \in Instance \ {i} : work'[j] = work[j] /\ dirty'[j] = dirty[j]
        BY <1>1
  <2>. QED BY <1>9, <2>1, <2>2, <2>3, OneHandler
<1>11. (\A p \in Query : Arrived(p) => Arrived(p)') /\ Arrived(q)'
      BY <1>5, <1>8 DEF Arrived
<1>. QED BY <1>1, <1>3, <1>4, <1>6, <1>7, <1>10, <1>11
-----------------------------------------------------------------------------
(* Every step of the workflow is a step of the queue, or shows nothing of it. *)

QueueStep == Queue!Next \/ InQueue' = InQueue

LEMMA ItemChanges ==
    ASSUME NEW a, NEW b
    PROVE  /\ (b.status = a.status /\ b.by = a.by) =>
                 Item(b) = [Item(a) EXCEPT !.role = b.role, !.owner = b.owner]
           /\ (b.role = a.role /\ b.owner = a.owner) =>
                 Item(b) = [Item(a) EXCEPT !.status = b.status, !.by = b.by]
<1>1. ASSUME NEW s, NEW r, NEW o, NEW u, NEW x,
             x \in [status : {s}, role : {r}, owner : {o}, by : {u}]
      PROVE  x = [status |-> s, role |-> r, owner |-> o, by |-> u]
      BY <1>1
<1>2. ASSUME b.status = a.status, b.by = a.by
      PROVE  Item(b) = [Item(a) EXCEPT !.role = b.role, !.owner = b.owner]
  <2>1. [Item(a) EXCEPT !.role = b.role, !.owner = b.owner]
           \in [status : {b.status}, role : {b.role}, owner : {b.owner}, by : {b.by}]
        BY <1>2 DEF Item
  <2>. QED BY <2>1, <1>1 DEF Item
<1>3. ASSUME b.role = a.role, b.owner = a.owner
      PROVE  Item(b) = [Item(a) EXCEPT !.status = b.status, !.by = b.by]
  <2>1. [Item(a) EXCEPT !.status = b.status, !.by = b.by]
           \in [status : {b.status}, role : {b.role}, owner : {b.owner}, by : {b.by}]
        BY <1>3 DEF Item
  <2>. QED BY <2>1, <1>1 DEF Item
<1>. QED BY <1>2, <1>3

(* A legal change of a row is a step of the queue. *)
LEMMA LegalIsStep ==
    ASSUME NEW q \in Query, NEW row, NoneIsNoRow, RowsShaped, Arrived(q), IsRow(row),
           Legal(rows[q], row), rows' = [rows EXCEPT ![q] = row]
    PROVE  QueueStep
<1>. DEFINE old == rows[q]
<1>1. old # None /\ row # None /\ IsRow(old)
      BY DEF Arrived, RowsShaped, NoneIsNoRow
<1>2. InQueue[q] = Item(old) /\ Shown(row) = Item(row)
      BY <1>1 DEF InQueue, Shown, Item
<1>3. InQueue' = [InQueue EXCEPT ![q] = Shown(row)]
      BY DEF InQueue, RowsShaped
<1>4. InQueue[q] # None
      BY <1>1, <1>2 DEF NoneIsNoRow
<1>5. /\ InQueue[q].status = old.status /\ InQueue[q].role = old.role
      /\ InQueue[q].owner = old.owner /\ InQueue[q].by = old.by
      BY <1>2 DEF Item
<1>6. row.role \in {"approver", "security_admin", None} /\ row.owner \in Admin \cup Approver \cup {None}
      BY DEF IsRow, Role, User
<1>7. CASE Shown(row) = Shown(old)
  <2>1. InQueue[q] = Shown(row)
        BY <1>7 DEF InQueue
  <2>2. InQueue' = InQueue
        BY <1>3, <2>1 DEF InQueue
  <2>. QED BY <2>2 DEF QueueStep
<1>8. CASE old.status \in Routable /\ row.status = old.status /\ row.by = old.by
  <2>1. Item(row) = [Item(old) EXCEPT !.role = row.role, !.owner = row.owner]
        BY <1>8, ItemChanges
  <2>2. InQueue' = [InQueue EXCEPT ![q].role = row.role, ![q].owner = row.owner]
        BY <1>2, <1>3, <2>1
  <2>3. Queue!Reassign(q)
        BY <1>4, <1>5, <1>6, <1>8, <2>2
           DEF Queue!Reassign, Queue!Owned, Queue!Waiting, Routable, Held
  <2>. QED BY <2>3 DEF QueueStep, Queue!Next
<1>9. CASE /\ old.status \in Held /\ row.status \in {"approved", "denied"}
           /\ row.by \in User /\ CanDecide(row.by, old)
           /\ row.role = old.role /\ row.owner = old.owner
  <2>1. Item(row) = [Item(old) EXCEPT !.status = row.status, !.by = row.by]
        BY <1>9, ItemChanges
  <2>2. InQueue' = [InQueue EXCEPT ![q].status = row.status, ![q].by = row.by]
        BY <1>2, <1>3, <2>1
  <2>3. Queue!Entitled(row.by, InQueue[q])
        BY <1>5, <1>9 DEF Queue!Entitled, CanDecide
  <2>4. Queue!Decide(q, row.by, row.status)
        BY <1>4, <1>5, <1>9, <2>2, <2>3 DEF Queue!Decide, Queue!Waiting, Held
  <2>. QED BY <1>9, <2>4 DEF QueueStep, Queue!Next, User
<1>10. CASE /\ old.status = "pending_justification"
            /\ row.status \in {"justified", "blocked_by_user"} /\ row.by = "sensor"
            /\ row.role = old.role /\ row.owner = old.owner
  <2>1. Item(row) = [Item(old) EXCEPT !.status = row.status, !.by = row.by]
        BY <1>10, ItemChanges
  <2>2. InQueue' = [InQueue EXCEPT ![q].status = row.status, ![q].by = row.by]
        BY <1>2, <1>3, <2>1
  <2>3. Queue!Justify(q, row.status)
        BY <1>4, <1>5, <1>10, <2>2 DEF Queue!Justify
  <2>. QED BY <1>10, <2>3 DEF QueueStep, Queue!Next
<1>. QED BY <1>7, <1>8, <1>9, <1>10 DEF Legal

LEMMA IngestIsStep ==
    ASSUME NEW q \in Query, NEW row, NoneIsNoRow, RowsShaped, ~Arrived(q), IsRow(row),
           rows' = [rows EXCEPT ![q] = row], row.status \in Arrivals,
           row.role \in {"approver", "security_admin", None}, row.owner = None, row.by = None
    PROVE  QueueStep
<1>1. row # None
      BY DEF NoneIsNoRow
<1>2. InQueue[q] = None
      BY DEF InQueue, Shown, Arrived
<1>3. InQueue' = [InQueue EXCEPT ![q] = [status |-> row.status, role |-> row.role,
                                         owner |-> None, by |-> None]]
      BY <1>1 DEF InQueue, RowsShaped, Shown
<1>4. Queue!Arrive(q)
      BY <1>2, <1>3 DEF Queue!Arrive
<1>. QED BY <1>4 DEF QueueStep, Queue!Next
-----------------------------------------------------------------------------
(* The invariant and the refinement, action by action. *)

LEMMA CallsKept ==
    ASSUME CallsReferred, \A q \in Query : Arrived(q) => Arrived(q)',
           \A c \in calls' : \/ c \in calls
                             \/ c.at \in Instance /\ c.query \in Query /\ Arrived(c.query)'
    PROVE  CallsReferred'
BY DEF CallsReferred

LEMMA Announced ==
    ASSUME NEW i, NEW q, NEW s, NEW cause, NEW c \in Announce(i, q, s, cause)
    PROVE  c.at = i /\ c.query = q
BY DEF Announce

(* Steps that touch neither the records nor a handler. *)
LEMMA OutsideFits ==
    ASSUME FlowInv, rows' = rows, work' = work, dirty' = dirty
    PROVE  RowsShaped' /\ HandlersFit' /\ Exclusive' /\ InQueue' = InQueue
           /\ \A q \in Query : Arrived(q) => Arrived(q)'
BY DEF FlowInv, RowsShaped, HandlersFit, Exclusive, InQueue, Arrived

LEMMA FlowStep ==
    ASSUME FlowInv, NoneIsNoRow, Next
    PROVE  FlowInv' /\ QueueStep
<1>1. RowsShaped /\ CallsReferred
      BY DEF FlowInv
<1>2. ASSUME NEW i \in Instance, NEW q \in Query,
             \/ \E u \in User, v \in Verdicts : AskDecision(i, q, u, v)
             \/ \E r \in Role, o \in User \cup {None} : AskAssign(i, q, r, o)
             \/ \E o \in {"justified", "blocked_by_user"} : AskJustify(i, q, o)
             \/ EscalationTick(i, q)
      PROVE  FlowInv' /\ QueueStep
  <2>1. rows' = rows /\ calls' = calls
        BY <1>2 DEF AskDecision, AskAssign, AskJustify, EscalationTick, Ask
  <2>2. RowsShaped' /\ HandlersFit' /\ Exclusive'
        BY <1>2, RequestsFit
  <2>3. CallsReferred'
        BY <1>1, <2>1 DEF CallsReferred, Arrived
  <2>. QED BY <2>1, <2>2, <2>3 DEF FlowInv, QueueStep, InQueue
<1>3. ASSUME NEW i \in Instance, NEW q \in Query, NEW s \in Arrivals,
             NEW r \in {"approver", "security_admin"}, NEW raw \in Sealing,
             Ingest(i, q, s, r, raw)
      PROVE  FlowInv' /\ QueueStep
  <2>1. /\ RowsShaped' /\ HandlersFit' /\ Exclusive'
        /\ \A p \in Query : Arrived(p) => Arrived(p)'
        /\ ~Arrived(q) /\ Arrived(q)'
        BY <1>3, IngestFits
  <2>2. PICK row : /\ rows' = [rows EXCEPT ![q] = row] /\ IsRow(row)
                   /\ row.status = s /\ row.by = None /\ row.owner = None
                   /\ row.role \in {"approver", "security_admin", None}
        BY <1>3, IngestFits
  <2>3. QueueStep
        BY <1>1, <2>1, <2>2, IngestIsStep
  <2>4. \A c \in calls' : c \in calls \/ (c.at = i /\ c.query = q)
        BY <1>3, Announced DEF Ingest
  <2>5. CallsReferred'
        BY <1>1, <2>1, <2>4, CallsKept
  <2>. QED BY <2>1, <2>3, <2>5 DEF FlowInv
<1>4. ASSUME NEW i \in Instance, NEW q \in Query, SyncList(i, q)
      PROVE  FlowInv' /\ QueueStep
  <2>1. /\ RowsShaped' /\ HandlersFit' /\ Exclusive' /\ InQueue' = InQueue
        /\ \A p \in Query : Arrived(p) => Arrived(p)'
        BY <1>4, OutsideFits DEF SyncList
  <2>2. /\ Arrived(q)
        /\ \A c \in calls' : c \in calls \/ (c.at = i /\ c.query = q)
        BY <1>4 DEF SyncList
  <2>3. CallsReferred'
        BY <1>1, <2>1, <2>2, CallsKept
  <2>. QED BY <2>1, <2>3 DEF FlowInv, QueueStep
<1>5. ASSUME NEW i \in Instance, PurgeTick(i)
      PROVE  FlowInv' /\ QueueStep
  <2>1. rows' = rows /\ calls' = calls
        BY <1>5 DEF PurgeTick, Ask
  <2>2. RowsShaped' /\ HandlersFit' /\ Exclusive'
        BY <1>5, PurgeStarts
  <2>3. CallsReferred'
        BY <1>1, <2>1 DEF CallsReferred, Arrived
  <2>. QED BY <2>1, <2>2, <2>3 DEF FlowInv, QueueStep, InQueue
<1>6. ASSUME NEW i \in Instance, Lock(i) \/ Write(i) \/ PurgeUpdate(i) \/ PurgeAppend(i)
      PROVE  FlowInv' /\ QueueStep
  <2>1. rows' = rows /\ calls' = calls
        BY <1>6 DEF Lock, Write, PurgeUpdate, PurgeAppend
  <2>2. RowsShaped' /\ HandlersFit' /\ Exclusive'
        BY <1>6, LockFits, WriteFits, PurgeUpdateFits, PurgeAppendFits
  <2>3. CallsReferred'
        BY <1>1, <2>1 DEF CallsReferred, Arrived
  <2>. QED BY <2>1, <2>2, <2>3 DEF FlowInv, QueueStep, InQueue
<1>7. ASSUME NEW i \in Instance, Commit(i)
      PROVE  FlowInv' /\ QueueStep
  <2>1. /\ RowsShaped' /\ HandlersFit' /\ Exclusive'
        /\ \A q \in Query : Arrived(q) => Arrived(q)'
        /\ work[i].query \in Query /\ Arrived(work[i].query)
        BY <1>7, CommitFits
  <2>2. PICK row : /\ IsRow(row) /\ Legal(rows[work[i].query], row)
                   /\ rows' = [rows EXCEPT ![work[i].query] = row]
        BY <1>7, CommitFits
  <2>3. QueueStep
        BY <1>1, <2>1, <2>2, LegalIsStep
  <2>4. \A c \in calls' : c \in calls \/ (c.at = i /\ c.query = work[i].query)
        BY <1>7, Announced DEF Commit
  <2>5. CallsReferred'
        BY <1>1, <2>1, <2>4, CallsKept
  <2>. QED BY <2>1, <2>3, <2>5 DEF FlowInv
<1>8. ASSUME NEW i \in Instance, PurgeCommit(i)
      PROVE  FlowInv' /\ QueueStep
  <2>1. /\ RowsShaped' /\ HandlersFit' /\ Exclusive'
        /\ \A q \in Query : Arrived(q) => Arrived(q)'
        /\ \A q \in Query : Shown(rows'[q]) = Shown(rows[q])
        BY <1>8, PurgeCommitFits
  <2>2. InQueue' = InQueue
        BY <2>1 DEF InQueue
  <2>3. CallsReferred'
    <3>1. calls' = calls
          BY <1>8 DEF PurgeCommit
    <3>. QED BY <1>1, <2>1, <3>1, CallsKept
  <2>. QED BY <2>1, <2>2, <2>3 DEF FlowInv, QueueStep
<1>9. ASSUME NEW i \in Instance, TimeOut(i) \/ Fail(i) \/ Crash(i)
      PROVE  FlowInv' /\ QueueStep
  <2>1. Done(i) /\ rows' = rows /\ calls' \subseteq calls
        BY <1>9 DEF TimeOut, Fail, Crash
  <2>2. RowsShaped' /\ HandlersFit' /\ Exclusive'
        BY <2>1, Ends
  <2>3. CallsReferred'
        BY <1>1, <2>1 DEF CallsReferred, Arrived
  <2>. QED BY <2>1, <2>2, <2>3 DEF FlowInv, QueueStep, InQueue
<1>10. ASSUME NEW c \in calls, NEW created, NEW answered, Deliver(c, created, answered)
       PROVE  FlowInv' /\ QueueStep
  <2>1. /\ RowsShaped' /\ HandlersFit' /\ Exclusive' /\ InQueue' = InQueue
        /\ \A p \in Query : Arrived(p) => Arrived(p)'
        BY <1>10, OutsideFits DEF Deliver
  <2>2. \A d \in calls' : d \in calls \/ (d.at = c.at /\ d.query = c.query)
        BY <1>10 DEF Deliver
  <2>3. c.at \in Instance /\ c.query \in Query /\ Arrived(c.query)
        BY <1>1 DEF CallsReferred
  <2>4. CallsReferred'
        BY <1>1, <2>1, <2>2, <2>3, CallsKept
  <2>. QED BY <2>1, <2>4 DEF FlowInv, QueueStep
<1>11. ASSUME NEW c \in calls, NEW S, SyncFetch(c, S)
       PROVE  FlowInv' /\ QueueStep
  <2>1. /\ RowsShaped' /\ HandlersFit' /\ Exclusive' /\ InQueue' = InQueue
        /\ \A p \in Query : Arrived(p) => Arrived(p)'
        BY <1>11, OutsideFits DEF SyncFetch
  <2>2. \A d \in calls' : d \in calls \/ (d.at = c.at /\ d.query = c.query)
        BY <1>11 DEF SyncFetch
  <2>3. c.at \in Instance /\ c.query \in Query /\ Arrived(c.query)
        BY <1>1 DEF CallsReferred
  <2>4. CallsReferred'
        BY <1>1, <2>1, <2>2, <2>3, CallsKept
  <2>. QED BY <2>1, <2>4 DEF FlowInv, QueueStep
<1>12. ASSUME NEW c \in calls, Continue(c)
       PROVE  FlowInv' /\ QueueStep
  <2>1. RowsShaped' /\ HandlersFit' /\ Exclusive' /\ CallsReferred'
        BY <1>12, ContinueFits
  <2>2. rows' = rows
        BY <1>12 DEF Continue
  <2>. QED BY <2>1, <2>2 DEF FlowInv, QueueStep, InQueue
<1>13. ASSUME \/ \E t \in Ticket : IssueMoves(t)
              \/ \E q \in Query : SlaElapses(q) \/ RetentionElapses(q)
       PROVE  FlowInv' /\ QueueStep
  <2>1. rows' = rows /\ work' = work /\ dirty' = dirty /\ calls' = calls
        BY <1>13 DEF IssueMoves, SlaElapses, RetentionElapses
  <2>2. RowsShaped' /\ HandlersFit' /\ Exclusive' /\ InQueue' = InQueue
        BY <2>1, OutsideFits
  <2>3. CallsReferred'
        BY <1>1, <2>1 DEF CallsReferred, Arrived
  <2>. QED BY <2>2, <2>3 DEF FlowInv, QueueStep
<1>. QED BY <1>2, <1>3, <1>4, <1>5, <1>6, <1>7, <1>8, <1>9, <1>10, <1>11, <1>12, <1>13
         DEF Next, Step, AssignableRoles, Outcomes, Syncing

(* An empty database, no handler and no call. *)
LEMMA FlowStarts ==
    ASSUME Init
    PROVE  FlowInv /\ Queue!Init
<1>1. RowsShaped /\ CallsReferred
      BY DEF Init, RowsShaped, CallsReferred
<1>2. HandlersFit /\ \A i \in Instance : work[i] = NoWork
      BY DEF Init, HandlersFit, Fit
<1>3. Exclusive
      BY <1>2, Kinds DEF Exclusive, RowOps
<1>4. Queue!Init
      BY DEF Init, Queue!Init, InQueue, Shown
<1>. QED BY <1>1, <1>2, <1>3, <1>4 DEF FlowInv

(* The review queue behaves as HeldQueue says for every number of instances, *)
(* queries and reviewers, on SQLite and on Postgres, with crashes and failed *)
(* transactions: a decision that was checked before its transaction is taken *)
(* only when it is still one its reviewer may take (requireDecisionAccess,   *)
(* transitionQueryWithAudit), and no purge undoes it.                        *)
THEOREM QueueRefined ==
    ASSUME NoneIsNoRow
    PROVE  SafetySpec => ImplementsHeldQueue
<1>1. Init => FlowInv /\ Queue!Init
      BY FlowStarts
<1>2. ASSUME FlowInv, [Next]_vars
      PROVE  FlowInv' /\ [Queue!Next]_InQueue
  <2>1. CASE Next
        BY <1>2, <2>1, FlowStep DEF QueueStep
  <2>2. CASE UNCHANGED vars
    <3>1. rows' = rows /\ work' = work /\ dirty' = dirty /\ calls' = calls
          BY <2>2 DEF vars
    <3>2. RowsShaped' /\ HandlersFit' /\ Exclusive' /\ InQueue' = InQueue
          BY <1>2, <3>1, OutsideFits
    <3>3. CallsReferred'
          BY <1>2, <3>1 DEF FlowInv, CallsReferred, Arrived
    <3>. QED BY <3>2, <3>3 DEF FlowInv
  <2>. QED BY <1>2, <2>1, <2>2
<1>. QED BY <1>1, <1>2, PTL DEF SafetySpec, ImplementsHeldQueue, Queue!Spec
-----------------------------------------------------------------------------
(* What the queue promises of a decision holds of the records.               *)

OwnedInQueue ==
    \A q \in Query :
        InQueue[q] # None /\ InQueue[q].status \in {"approved", "denied"} =>
            Queue!Entitled(InQueue[q].by, InQueue[q])

LEMMA OwnedShown ==
    ASSUME NoneIsNoRow, RowsShaped
    PROVE  DeciderOwns <=> OwnedInQueue
<1>1. ASSUME NEW q \in Query
      PROVE  /\ Arrived(q) <=> InQueue[q] # None
             /\ Arrived(q) => InQueue[q] = Item(rows[q])
      BY DEF Arrived, InQueue, Shown, NoneIsNoRow, RowsShaped, Item
<1>2. ASSUME NEW q \in Query, Arrived(q)
      PROVE  /\ InQueue[q].status = rows[q].status /\ InQueue[q].by = rows[q].by
             /\ CanDecide(rows[q].by, rows[q]) <=> Queue!Entitled(InQueue[q].by, InQueue[q])
  <2>1. InQueue[q] = Item(rows[q])
        BY <1>1, <1>2
  <2>2. /\ InQueue[q].status = rows[q].status /\ InQueue[q].role = rows[q].role
        /\ InQueue[q].owner = rows[q].owner /\ InQueue[q].by = rows[q].by
        BY <2>1 DEF Item
  <2>. QED BY <2>2 DEF CanDecide, Queue!Entitled
<1>. QED BY <1>1, <1>2 DEF DeciderOwns, OwnedInQueue

LEMMA QueueKeepsOwned ==
    ASSUME NoneIsNoRow, RowsShaped, OwnedInQueue, QueueStep
    PROVE  OwnedInQueue'
<1>1. InQueue = [q \in Query |-> InQueue[q]]
      BY DEF InQueue
<1>2. ASSUME NEW q \in Query, InQueue[q] # None
      PROVE  InQueue[q] = Item(rows[q])
      BY <1>2 DEF InQueue, Shown, Item
<1>3. ASSUME NEW q \in Query, Queue!Arrive(q)
      PROVE  OwnedInQueue'
  <2>1. PICK s \in Arrivals, r \in {"approver", "security_admin", None} :
           InQueue' = [InQueue EXCEPT ![q] = [status |-> s, role |-> r, owner |-> None, by |-> None]]
        BY <1>3 DEF Queue!Arrive
  <2>2. InQueue'[q].status = s /\ s \notin {"approved", "denied"}
        BY <1>1, <2>1, WorkflowAssumption DEF Held
  <2>3. \A p \in Query \ {q} : InQueue'[p] = InQueue[p]
        BY <1>1, <2>1
  <2>. QED BY <2>2, <2>3 DEF OwnedInQueue, Queue!Entitled
<1>4. ASSUME NEW q \in Query, Queue!Reassign(q)
      PROVE  OwnedInQueue'
  <2>1. PICK r, o : InQueue' = [InQueue EXCEPT ![q].role = r, ![q].owner = o]
        BY <1>4 DEF Queue!Reassign
  <2>2. InQueue[q] = Item(rows[q]) /\ InQueue[q].status \notin {"approved", "denied"}
        BY <1>2, <1>4 DEF Queue!Reassign, Queue!Owned, Queue!Waiting
  <2>3. InQueue'[q] = [InQueue[q] EXCEPT !.role = r, !.owner = o]
        BY <1>1, <2>1
  <2>4. InQueue'[q].status = InQueue[q].status
        BY <2>2, <2>3 DEF Item
  <2>5. \A p \in Query \ {q} : InQueue'[p] = InQueue[p]
        BY <1>1, <2>1
  <2>. QED BY <2>2, <2>4, <2>5 DEF OwnedInQueue, Queue!Entitled
<1>5. ASSUME NEW q \in Query, NEW u, NEW v, Queue!Decide(q, u, v)
      PROVE  OwnedInQueue'
  <2>1. InQueue[q] = Item(rows[q]) /\ Queue!Entitled(u, InQueue[q])
        BY <1>2, <1>5 DEF Queue!Decide
  <2>2. InQueue'[q] = [InQueue[q] EXCEPT !.status = v, !.by = u]
        BY <1>1, <1>5 DEF Queue!Decide
  <2>3. /\ InQueue'[q].by = u /\ InQueue'[q].role = InQueue[q].role
        /\ InQueue'[q].owner = InQueue[q].owner
        BY <2>1, <2>2 DEF Item
  <2>4. \A p \in Query \ {q} : InQueue'[p] = InQueue[p]
        BY <1>1, <1>5 DEF Queue!Decide
  <2>. QED BY <2>1, <2>3, <2>4 DEF OwnedInQueue, Queue!Entitled
<1>6. ASSUME NEW q \in Query, NEW o \in {"justified", "blocked_by_user"}, Queue!Justify(q, o)
      PROVE  OwnedInQueue'
  <2>1. InQueue[q] = Item(rows[q])
        BY <1>2, <1>6 DEF Queue!Justify
  <2>2. InQueue'[q] = [InQueue[q] EXCEPT !.status = o, !.by = "sensor"]
        BY <1>1, <1>6 DEF Queue!Justify
  <2>3. InQueue'[q].status = o
        BY <2>1, <2>2 DEF Item
  <2>4. \A p \in Query \ {q} : InQueue'[p] = InQueue[p]
        BY <1>1, <1>6 DEF Queue!Justify
  <2>. QED BY <2>3, <2>4 DEF OwnedInQueue, Queue!Entitled
<1>7. ASSUME InQueue' = InQueue
      PROVE  OwnedInQueue'
      BY <1>7 DEF OwnedInQueue, Queue!Entitled
<1>. QED BY <1>3, <1>4, <1>5, <1>6, <1>7 DEF QueueStep, Queue!Next

(* Whoever approved or denied a query was entitled to it by the assignment   *)
(* the record shows (canDecideQuery, decisionExpectedState), for every       *)
(* number of instances, queries and reviewers.                               *)
THEOREM DecidersOwn ==
    ASSUME NoneIsNoRow
    PROVE  SafetySpec => []DeciderOwns
<1>1. Init => FlowInv /\ DeciderOwns
  <2>1. Init => DeciderOwns
        BY DEF Init, DeciderOwns, Arrived
  <2>. QED BY <2>1, FlowStarts
<1>2. ASSUME FlowInv, DeciderOwns, [Next]_vars
      PROVE  FlowInv' /\ DeciderOwns'
  <2>1. CASE Next
    <3>1. FlowInv' /\ QueueStep
          BY <1>2, <2>1, FlowStep
    <3>2. OwnedInQueue
          BY <1>2, OwnedShown DEF FlowInv
    <3>3. OwnedInQueue'
          BY <1>2, <3>1, <3>2, QueueKeepsOwned DEF FlowInv
    <3>4. RowsShaped' => (DeciderOwns' <=> OwnedInQueue')
          BY OwnedShown, PTL
    <3>. QED BY <3>1, <3>3, <3>4 DEF FlowInv
  <2>2. CASE UNCHANGED vars
    <3>1. rows' = rows /\ work' = work /\ dirty' = dirty /\ calls' = calls
          BY <2>2 DEF vars
    <3>2. RowsShaped' /\ HandlersFit' /\ Exclusive'
          BY <1>2, <3>1, OutsideFits
    <3>3. CallsReferred' /\ DeciderOwns'
          BY <1>2, <3>1 DEF FlowInv, CallsReferred, Arrived, DeciderOwns
    <3>. QED BY <3>2, <3>3 DEF FlowInv
  <2>. QED BY <1>2, <2>1, <2>2
<1>. QED BY <1>1, <1>2, PTL DEF SafetySpec
-----------------------------------------------------------------------------
(* What the audit log binds, and what retention keeps and strips.            *)

AuditShaped ==
    /\ audit = [q \in Query |-> audit[q]]
    /\ \A q \in Query : audit[q] = [content |-> audit[q].content, purged |-> audit[q].purged]

EvidenceInv == RowsShaped /\ AuditShaped /\ EvidenceCurrent

(* The content of one entry is replaced. *)
LEMMA Rebound ==
    ASSUME NEW e, NEW row, e = [content |-> e.content, purged |-> e.purged]
    PROVE  [e EXCEPT !.content = row] = [content |-> row, purged |-> e.purged]
OBVIOUS

(* Which steps change a record or an audit entry. *)
LEMMA RecordsChange ==
    ASSUME Next
    PROVE  \/ rows' = rows /\ audit' = audit
           \/ \E i \in Instance : Commit(i) \/ PurgeCommit(i)
           \/ \E i \in Instance, q \in Query, s \in Arrivals,
                 r \in {"approver", "security_admin"}, raw \in Sealing : Ingest(i, q, s, r, raw)
<1>1. ASSUME NEW i \in Instance, Step(i) \/ PurgeTick(i) \/ TimeOut(i) \/ Fail(i) \/ Crash(i)
      PROVE  (rows' = rows /\ audit' = audit) \/ Commit(i) \/ PurgeCommit(i)
      BY <1>1 DEF Step, PurgeTick, Ask, TimeOut, Fail, Crash, Lock, Write, PurgeUpdate, PurgeAppend
<1>2. ASSUME NEW i \in Instance, NEW q \in Query,
             \/ \E u \in User, v \in Verdicts : AskDecision(i, q, u, v)
             \/ \E r \in AssignableRoles, o \in User \cup {None} : AskAssign(i, q, r, o)
             \/ \E o \in Outcomes : AskJustify(i, q, o)
             \/ EscalationTick(i, q)
             \/ SyncList(i, q)
      PROVE  rows' = rows /\ audit' = audit
      BY <1>2 DEF AskDecision, AskAssign, AskJustify, EscalationTick, Ask, SyncList
<1>3. ASSUME NEW c \in calls,
             \/ \E created, answered \in BOOLEAN : Deliver(c, created, answered)
             \/ \E S \in SUBSET Ticket : SyncFetch(c, S)
             \/ Continue(c)
      PROVE  rows' = rows /\ audit' = audit
      BY <1>3 DEF Deliver, SyncFetch, Continue
<1>4. ASSUME \/ \E t \in Ticket : IssueMoves(t)
             \/ \E q \in Query : SlaElapses(q) \/ RetentionElapses(q)
      PROVE  rows' = rows /\ audit' = audit
      BY <1>4 DEF IssueMoves, SlaElapses, RetentionElapses
<1>. QED BY <1>1, <1>2, <1>3, <1>4 DEF Next, Syncing

(* The row and the content of its entry change together. *)
LEMMA EvidenceStep ==
    ASSUME FlowInv, EvidenceInv, [Next]_vars
    PROVE  AuditShaped' /\ EvidenceCurrent'
<1>1. CASE rows' = rows /\ audit' = audit
      BY <1>1 DEF EvidenceInv, AuditShaped, EvidenceCurrent
<1>2. ASSUME NEW i \in Instance, Commit(i) PROVE AuditShaped' /\ EvidenceCurrent'
  <2>1. PICK q, row : /\ rows' = [rows EXCEPT ![q] = row]
                      /\ audit' = [audit EXCEPT ![q].content = row]
        BY <1>2 DEF Commit, BoundContent
  <2>2. \A r \in Query : rows'[r] = IF r = q THEN row ELSE rows[r]
        BY <2>1 DEF EvidenceInv, RowsShaped
  <2>3. /\ audit' = [r \in Query |-> audit'[r]]
        /\ \A r \in Query :
              audit'[r] = IF r = q THEN [audit[r] EXCEPT !.content = row] ELSE audit[r]
        BY <2>1 DEF EvidenceInv, AuditShaped
  <2>4. \A r \in Query :
            audit'[r] = IF r = q THEN [content |-> row, purged |-> audit[r].purged] ELSE audit[r]
        BY <2>3, Rebound DEF EvidenceInv, AuditShaped
  <2>5. AuditShaped'
        BY <2>3, <2>4 DEF EvidenceInv, AuditShaped
  <2>6. ASSUME NEW r \in Query PROVE audit'[r].content = rows'[r]
    <3>1. audit[r].content = rows[r]
          BY DEF EvidenceInv, EvidenceCurrent
    <3>2. CASE r = q
      <4>1. audit'[r] = [content |-> row, purged |-> audit[r].purged] /\ rows'[r] = row
            BY <2>2, <2>4, <3>2
      <4>. QED BY <4>1
    <3>3. CASE r # q
      <4>1. audit'[r] = audit[r] /\ rows'[r] = rows[r]
            BY <2>2, <2>4, <3>3
      <4>. QED BY <3>1, <4>1
    <3>. QED BY <3>2, <3>3
  <2>. QED BY <2>5, <2>6 DEF EvidenceCurrent
<1>3. ASSUME NEW i \in Instance, PurgeCommit(i) PROVE AuditShaped' /\ EvidenceCurrent'
  <2>1. /\ rows' = [q \in Query |-> IF q \in DOMAIN dirty[i] THEN dirty[i][q] ELSE rows[q]]
        /\ audit' = [q \in Query |-> IF q \in DOMAIN dirty[i]
                                     THEN [content |-> dirty[i][q], purged |-> TRUE]
                                     ELSE audit[q]]
        BY <1>3 DEF PurgeCommit, BoundContent
  <2>. QED BY <2>1 DEF EvidenceInv, AuditShaped, EvidenceCurrent
<1>4. ASSUME NEW i \in Instance, NEW q \in Query, NEW s \in Arrivals,
             NEW r \in {"approver", "security_admin"}, NEW raw \in Sealing,
             Ingest(i, q, s, r, raw)
      PROVE  AuditShaped' /\ EvidenceCurrent'
  <2>1. PICK row : /\ rows' = [rows EXCEPT ![q] = row]
                   /\ audit' = [audit EXCEPT ![q] = [content |-> row, purged |-> FALSE]]
        BY <1>4 DEF Ingest
  <2>. QED BY <2>1 DEF EvidenceInv, RowsShaped, AuditShaped, EvidenceCurrent
<1>5. CASE UNCHANGED vars
      BY <1>1, <1>5 DEF vars
<1>. QED BY <1>1, <1>2, <1>3, <1>4, <1>5, RecordsChange

(* An empty log agrees with an empty table. *)
LEMMA EvidenceStarts ==
    ASSUME Init
    PROVE  AuditShaped /\ EvidenceCurrent
BY DEF Init, Unread, AuditShaped, EvidenceCurrent

LEMMA FlowHolds ==
    ASSUME NoneIsNoRow
    PROVE  SafetySpec => []FlowInv
<1>1. Init => FlowInv
      BY FlowStarts
<1>2. ASSUME FlowInv, [Next]_vars PROVE FlowInv'
  <2>1. CASE Next
        BY <1>2, <2>1, FlowStep
  <2>2. CASE UNCHANGED vars
    <3>1. rows' = rows /\ work' = work /\ dirty' = dirty /\ calls' = calls
          BY <2>2 DEF vars
    <3>2. RowsShaped' /\ HandlersFit' /\ Exclusive'
          BY <1>2, <3>1, OutsideFits
    <3>3. CallsReferred'
          BY <1>2, <3>1 DEF FlowInv, CallsReferred, Arrived
    <3>. QED BY <3>2, <3>3 DEF FlowInv
  <2>. QED BY <1>2, <2>1, <2>2
<1>. QED BY <1>1, <1>2, PTL DEF SafetySpec

(* The last audit entry of a query binds the content its record has, however *)
(* transactions of several instances and the purge interleave on either      *)
(* storage (evidence, appendAuditRecord): verifyAuditChain finds no          *)
(* tampering in what the program itself wrote.                               *)
THEOREM EvidenceAgrees ==
    ASSUME NoneIsNoRow
    PROVE  SafetySpec => []EvidenceCurrent
<1>1. Init => AuditShaped /\ EvidenceCurrent
      BY EvidenceStarts
<1>2. FlowInv /\ AuditShaped /\ EvidenceCurrent /\ [Next]_vars => AuditShaped' /\ EvidenceCurrent'
      BY EvidenceStep DEF EvidenceInv, FlowInv
<1>. QED BY <1>1, <1>2, FlowHolds, PTL DEF SafetySpec
-----------------------------------------------------------------------------
(* What a step does to the handlers.                                         *)

OneMoves(i) == \A j \in Instance \ {i} : work'[j] = work[j] /\ dirty'[j] = dirty[j]

(* A handler is asked, gives up, fails or dies: it is in no transaction.     *)
OutOfTransaction(i) ==
    /\ rows' = rows /\ audit' = audit
    /\ \/ work'[i].op = "none"
       \/ work'[i].op \in RowOps /\ work'[i].phase = "asked"

(* The row still admits the request, and its new content is computed.        *)
Locks(i) ==
    /\ work[i].op \in RowOps /\ work[i].phase = "asked" /\ WriterFree(i) /\ Free(i)
    /\ IsAsked(work[i]) /\ work[i].query \in Query /\ IsRow(rows[work[i].query])
    /\ Expected(work[i], rows[work[i].query])
    /\ work'[i] = [op |-> work[i].op, query |-> work[i].query,
                   write |-> Patched(work[i], rows[work[i].query]), phase |-> "locked"]
    /\ rows' = rows /\ audit' = audit

(* The updates are in the transaction: the content stays as it was computed. *)
Writes(i) ==
    /\ IsWriting(work[i]) /\ work[i].op \in RowOps
    /\ work'[i].op = work[i].op /\ work'[i].query = work[i].query
    /\ work'[i].write = work[i].write /\ work'[i].phase = "written"
    /\ rows' = rows /\ audit' = audit

(* The purge begins, strips one more row of its transaction, or appends.     *)
Purges(i) ==
    /\ work[i].op = "purge" \/ (work[i].op = "none" /\ WriterFree(i))
    /\ work'[i].op = "purge"
    /\ \/ dirty'[i] = IF work[i].op = "purge" THEN dirty[i] ELSE NothingDirty
       \/ \E q, row : /\ row.purged /\ ~row.sealed
                      /\ dirty'[i] = [r \in DOMAIN dirty[i] \cup {q} |->
                                        IF r = q THEN row ELSE dirty[i][r]]
                      /\ work[i].op = "purge"
    /\ rows' = rows /\ audit' = audit

Commits(i) ==
    /\ IsWriting(work[i]) /\ work[i].op \in RowOps /\ work[i].phase = "written"
    /\ work[i].query \in Query /\ rows[work[i].query] # None
    /\ \A q \in Query :
          rows'[q] = IF q = work[i].query THEN work[i].write ELSE rows[q]
    /\ \A q \in Query : audit'[q].purged = audit[q].purged
    /\ work'[i].op = "none"

PurgeEnds(i) ==
    /\ work[i].op = "purge" /\ work'[i].op = "none"
    /\ \A q \in DOMAIN dirty[i] : Settled(rows[q], dirty[i][q]) /\ IsRow(dirty[i][q])
    /\ \A q \in Query :
          IF q \in DOMAIN dirty[i] THEN rows'[q] = dirty[i][q]
                                   ELSE rows'[q] = rows[q] /\ audit'[q] = audit[q]

Arrives ==
    \E i \in Instance, q \in Query :
        /\ work[i].op = "none" /\ WriterFree(i) /\ ~Arrived(q)
        /\ work' = work /\ dirty' = dirty
        /\ \A r \in Query \ {q} : rows'[r] = rows[r] /\ audit'[r] = audit[r]
        /\ ~audit'[q].purged

LEMMA WritingFit ==
    ASSUME FlowInv, NEW i \in Instance, work[i].op \in RowOps
    PROVE  /\ work[i].query \in Query /\ rows[work[i].query] # None
           /\ IsRow(rows[work[i].query])
           /\ work[i].phase = "asked" => IsAsked(work[i])
           /\ work[i].phase # "asked" =>
                 /\ IsWriting(work[i])
                 /\ dirty[i] = IF work[i].phase = "written"
                               THEN [q \in {work[i].query} |-> work[i].write] ELSE NothingDirty
<1>1. Fit(rows, work[i], dirty[i])
      BY DEF FlowInv, HandlersFit
<1>2. IsAsked(work[i]) \/ IsWriting(work[i])
      BY <1>1, Kinds DEF Fit, RowOps
<1>3. work[i].query \in Query /\ rows[work[i].query] # None
      BY <1>1, <1>2, Kinds DEF Fit, RowOps
<1>4. IsRow(rows[work[i].query])
      BY <1>3 DEF FlowInv, RowsShaped
<1>. QED BY <1>1, <1>2, <1>3, <1>4, Kinds DEF Fit, RowOps

(* The kinds of steps, as the invariants of retention need them.             *)
LEMMA Effects ==
    ASSUME FlowInv, AuditShaped, NoneIsNoRow, Next
    PROVE  \/ UNCHANGED <<rows, audit, work, dirty>>
           \/ \E i \in Instance :
                 /\ OneMoves(i)
                 /\ \/ OutOfTransaction(i) \/ Locks(i) \/ Writes(i) \/ Purges(i)
                    \/ Commits(i) \/ PurgeEnds(i)
           \/ Arrives
<1>. DEFINE Moves(i) == /\ OneMoves(i)
                        /\ \/ OutOfTransaction(i) \/ Locks(i) \/ Writes(i) \/ Purges(i)
                           \/ Commits(i) \/ PurgeEnds(i)
<1>0. /\ work = [i \in Instance |-> work[i]] /\ dirty = [i \in Instance |-> dirty[i]]
      /\ rows = [q \in Query |-> rows[q]] /\ audit = [q \in Query |-> audit[q]]
      BY DEF FlowInv, HandlersFit, RowsShaped, AuditShaped
<1>1. ASSUME NEW i \in Instance, NEW job, Ask(i, job), job.op \in RowOps, job.phase = "asked"
      PROVE  Moves(i)
      BY <1>0, <1>1 DEF Ask, OneMoves, OutOfTransaction
<1>2. ASSUME NEW i \in Instance, NEW q \in Query,
             \/ \E u \in User, v \in Verdicts : AskDecision(i, q, u, v)
             \/ \E r \in AssignableRoles, o \in User \cup {None} : AskAssign(i, q, r, o)
             \/ \E o \in Outcomes : AskJustify(i, q, o)
             \/ EscalationTick(i, q)
      PROVE  Moves(i)
  <2>. DEFINE Asking(job) == Ask(i, job) /\ job.op \in RowOps /\ job.phase = "asked"
  <2>1. ASSUME NEW u, NEW v, AskDecision(i, q, u, v)
        PROVE  Asking([op |-> "decide", query |-> q, seen |-> DecisionState(rows[q]), by |-> u,
                       verdict |-> v, phase |-> "asked"])
        BY <2>1 DEF AskDecision, RowOps
  <2>2. ASSUME NEW r, NEW o, AskAssign(i, q, r, o)
        PROVE  Asking([op |-> "assign", query |-> q, seen |-> DecisionState(rows[q]),
                       role |-> r, owner |-> o, phase |-> "asked"])
        BY <2>2 DEF AskAssign, RowOps
  <2>3. ASSUME NEW o, AskJustify(i, q, o)
        PROVE  Asking([op |-> "justify", query |-> q, outcome |-> o, phase |-> "asked"])
        BY <2>3 DEF AskJustify, RowOps
  <2>4. ASSUME EscalationTick(i, q)
        PROVE  Asking([op |-> "escalate", query |-> q, phase |-> "asked"])
        BY <2>4 DEF EscalationTick, Listed, RowOps
  <2>. HIDE DEF Asking
  <2>5. \E job : Asking(job)
        BY <1>2, <2>1, <2>2, <2>3, <2>4
  <2>. QED BY <1>1, <2>5 DEF Asking
<1>3. ASSUME NEW i \in Instance, Done(i), rows' = rows, audit' = audit
      PROVE  Moves(i)
      BY <1>0, <1>3 DEF Done, OneMoves, OutOfTransaction, NoWork
<1>4. ASSUME NEW i \in Instance, TimeOut(i) \/ Fail(i) \/ Crash(i)
      PROVE  Moves(i)
      BY <1>3, <1>4 DEF TimeOut, Fail, Crash
<1>5. ASSUME NEW i \in Instance, work[i].op \notin {"none", "purge"}
      PROVE  work[i].op \in RowOps
  <2>1. Fit(rows, work[i], dirty[i])
        BY DEF FlowInv, HandlersFit
  <2>. QED BY <1>5, <2>1, Kinds DEF Fit
<1>6. ASSUME NEW i \in Instance, Lock(i)
      PROVE  Moves(i)
  <2>1. /\ work[i].op \in RowOps /\ work[i].phase = "asked" /\ rows' = rows /\ audit' = audit
        /\ Free(i) /\ WriterFree(i)
        BY <1>5, <1>6 DEF Lock
  <2>2. CASE ~Expected(work[i], rows[work[i].query])
        BY <1>3, <1>6, <2>1, <2>2 DEF Lock
  <2>3. CASE Expected(work[i], rows[work[i].query])
    <3>1. /\ work' = [work EXCEPT ![i] = [op |-> work[i].op, query |-> work[i].query,
                             write |-> Patched(work[i], rows[work[i].query]),
                             phase |-> "locked"]]
          /\ dirty' = dirty
          BY <1>6, <2>3 DEF Lock
    <3>2. OneMoves(i)
          BY <3>1 DEF OneMoves
    <3>3. Locks(i)
          BY <1>0, <2>1, <2>3, <3>1, WritingFit DEF Locks
    <3>. QED BY <3>2, <3>3
  <2>. QED BY <2>2, <2>3
<1>7. ASSUME NEW i \in Instance, Write(i)
      PROVE  Moves(i)
  <2>1. /\ work[i].op \in RowOps /\ work[i].phase = "locked" /\ rows' = rows /\ audit' = audit
        /\ dirty' = [dirty EXCEPT ![i] = [q \in {work[i].query} |-> work[i].write]]
        /\ work' = [work EXCEPT ![i].phase = "written"]
        BY <1>5, <1>7 DEF Write
  <2>2. IsWriting(work[i])
        BY <2>1, WritingFit
  <2>3. OneMoves(i) /\ work'[i] = [work[i] EXCEPT !.phase = "written"]
        BY <1>0, <2>1 DEF OneMoves
  <2>4. /\ work'[i].op = work[i].op /\ work'[i].query = work[i].query
        /\ work'[i].write = work[i].write /\ work'[i].phase = "written"
        BY <2>2, <2>3 DEF IsWriting
  <2>5. Writes(i)
        BY <2>1, <2>2, <2>4 DEF Writes
  <2>. QED BY <2>3, <2>5
<1>8. ASSUME NEW i \in Instance, PurgeTick(i)
      PROVE  Moves(i)
  <2>1. /\ work' = [work EXCEPT ![i] = work'[i]] /\ dirty' = dirty /\ work[i] = NoWork
        /\ work'[i].op = "purge" /\ WriterFree(i) /\ rows' = rows /\ audit' = audit
        BY <1>0, <1>8 DEF PurgeTick, Ask, Idle
  <2>2. work[i].op = "none" /\ dirty[i] = NothingDirty
    <3>1. Fit(rows, NoWork, dirty[i])
          BY <2>1 DEF FlowInv, HandlersFit
    <3>. QED BY <2>1, <3>1, Kinds DEF Fit, RowOps
  <2>3. OneMoves(i)
        BY <1>0, <1>8 DEF PurgeTick, Ask, OneMoves
  <2>4. Purges(i)
        BY <2>1, <2>2 DEF Purges
  <2>. QED BY <2>3, <2>4
<1>9. ASSUME NEW i \in Instance, PurgeUpdate(i)
      PROVE  Moves(i)
  <2>1. PICK q \in NextRow(i) :
           /\ dirty' = [dirty EXCEPT ![i] =
                 [r \in DOMAIN dirty[i] \cup {q} |->
                    IF r = q THEN Purged(work[i].todo[q]) ELSE dirty[i][r]]]
           /\ work' = [work EXCEPT
                 ![i].todo = [r \in DOMAIN work[i].todo \ {q} |-> work[i].todo[r]],
                 ![i].phase = IF work[i].append THEN "selected" ELSE "written"]
        BY <1>9 DEF PurgeUpdate
  <2>2. work[i].op = "purge" /\ rows' = rows /\ audit' = audit
        BY <1>9 DEF PurgeUpdate
  <2>3. IsPurging(work[i]) /\ IsRowMap(work[i].todo) /\ q \in DOMAIN work[i].todo
        BY <2>1, <2>2, PurgeFit DEF NextRow
  <2>4. IsRow(work[i].todo[q])
        BY <2>3 DEF IsRowMap
  <2>5. Purged(work[i].todo[q]).purged /\ ~Purged(work[i].todo[q]).sealed
        BY <2>4 DEF Purged, IsRow
  <2>6. OneMoves(i)
        BY <1>0, <2>1 DEF OneMoves
  <2>7. work'[i].op = "purge"
    <3>1. work'[i] = [work[i] EXCEPT
                 !.todo = [r \in DOMAIN work[i].todo \ {q} |-> work[i].todo[r]],
                 !.phase = IF work[i].append THEN "selected" ELSE "written"]
          BY <1>0, <2>1
    <3>. QED BY <2>2, <2>3, <3>1 DEF IsPurging
  <2>8. dirty'[i] = [r \in DOMAIN dirty[i] \cup {q} |->
                       IF r = q THEN Purged(work[i].todo[q]) ELSE dirty[i][r]]
        BY <1>0, <2>1
  <2>9. Purges(i)
        BY <2>2, <2>5, <2>7, <2>8 DEF Purges
  <2>. QED BY <2>6, <2>9
<1>10. ASSUME NEW i \in Instance, PurgeAppend(i)
       PROVE  Moves(i)
  <2>1. /\ work[i].op = "purge" /\ rows' = rows /\ audit' = audit /\ dirty' = dirty
        /\ work' = [work EXCEPT ![i].append = TRUE, ![i].phase = "selected"]
        BY <1>10 DEF PurgeAppend
  <2>2. OneMoves(i)
        BY <1>0, <2>1 DEF OneMoves
  <2>3. work'[i].op = "purge"
    <3>1. work'[i] = [work[i] EXCEPT !.append = TRUE, !.phase = "selected"]
          BY <1>0, <2>1
    <3>2. IsPurging(work[i])
          BY <2>1, PurgeFit
    <3>. QED BY <2>1, <3>1, <3>2 DEF IsPurging
  <2>4. Purges(i)
        BY <2>1, <2>3 DEF Purges
  <2>. QED BY <2>2, <2>4
<1>11. ASSUME NEW i \in Instance, Commit(i)
       PROVE  Moves(i)
  <2>1. /\ work[i].op \in RowOps /\ work[i].phase = "written" /\ Done(i)
        /\ rows' = [rows EXCEPT ![work[i].query] = dirty[i][work[i].query]]
        /\ audit' = [audit EXCEPT ![work[i].query].content = dirty[i][work[i].query]]
        BY <1>5, <1>11 DEF Commit, BoundContent
  <2>2. /\ IsWriting(work[i]) /\ work[i].query \in Query /\ rows[work[i].query] # None
        /\ dirty[i] = [q \in {work[i].query} |-> work[i].write]
        BY <2>1, WritingFit
  <2>3. \A q \in Query : rows'[q] = IF q = work[i].query THEN work[i].write ELSE rows[q]
        BY <1>0, <2>1, <2>2
  <2>4. ASSUME NEW q \in Query PROVE audit'[q].purged = audit[q].purged
    <3>1. PICK row : audit' = [audit EXCEPT ![work[i].query].content = row]
          BY <2>1
    <3>2. audit'[q] = IF q = work[i].query THEN [audit[q] EXCEPT !.content = row] ELSE audit[q]
          BY <1>0, <3>1
    <3>3. audit[q] = [content |-> audit[q].content, purged |-> audit[q].purged]
          BY DEF AuditShaped
    <3>4. CASE q = work[i].query
      <4>1. audit'[q] = [content |-> row, purged |-> audit[q].purged]
            BY <3>2, <3>3, <3>4, Rebound
      <4>. QED BY <4>1
    <3>5. CASE q # work[i].query
          BY <3>2, <3>5
    <3>. QED BY <3>4, <3>5
  <2>5. OneMoves(i) /\ work'[i].op = "none"
        BY <1>0, <2>1 DEF Done, OneMoves, NoWork
  <2>6. Commits(i)
        BY <2>1, <2>2, <2>3, <2>4, <2>5 DEF Commits
  <2>. QED BY <2>5, <2>6
<1>12. ASSUME NEW i \in Instance, PurgeCommit(i)
       PROVE  Moves(i)
  <2>1. /\ work[i].op = "purge" /\ Done(i)
        /\ rows' = [q \in Query |-> IF q \in DOMAIN dirty[i] THEN dirty[i][q] ELSE rows[q]]
        /\ \A q \in Query : q \notin DOMAIN dirty[i] => audit'[q] = audit[q]
        BY <1>12 DEF PurgeCommit
  <2>2. IsRowMap(dirty[i]) /\ \A q \in DOMAIN dirty[i] : Settled(rows[q], dirty[i][q])
        BY <2>1, PurgeFit
  <2>3. OneMoves(i) /\ work'[i].op = "none"
        BY <1>0, <2>1 DEF Done, OneMoves, NoWork
  <2>4. PurgeEnds(i)
        BY <2>1, <2>2, <2>3 DEF PurgeEnds, IsRowMap
  <2>. QED BY <2>3, <2>4
<1>13. ASSUME NEW i \in Instance, NEW q \in Query, NEW s \in Arrivals,
              NEW r \in {"approver", "security_admin"}, NEW raw \in Sealing,
              Ingest(i, q, s, r, raw)
       PROVE  Arrives
  <2>1. /\ Idle(i) /\ ~Arrived(q) /\ WriterFree(i) /\ work' = work /\ dirty' = dirty
        BY <1>13 DEF Ingest
  <2>2. PICK row : /\ rows' = [rows EXCEPT ![q] = row]
                   /\ audit' = [audit EXCEPT ![q] = [content |-> row, purged |-> FALSE]]
        BY <1>13 DEF Ingest
  <2>3. \A p \in Query \ {q} : rows'[p] = rows[p] /\ audit'[p] = audit[p]
        BY <1>0, <2>2
  <2>4. audit'[q] = [content |-> row, purged |-> FALSE]
        BY <1>0, <2>2
  <2>5. ~audit'[q].purged /\ work[i].op = "none"
        BY <2>1, <2>4 DEF Idle, NoWork
  <2>. QED BY <2>1, <2>3, <2>5 DEF Arrives
<1>14. ASSUME NEW c \in calls, Continue(c)
       PROVE  \E i \in Instance : Moves(i)
  <2>1. c.at \in Instance
        BY DEF FlowInv, CallsReferred
  <2>2. /\ dirty' = dirty /\ rows' = rows /\ audit' = audit
        /\ work' = [work EXCEPT ![c.at] = work'[c.at]]
        /\ work'[c.at].op \in {"notify", "sync"} /\ work'[c.at].phase = "asked"
        BY <1>0, <1>14, <2>1 DEF Continue
  <2>3. OneMoves(c.at) /\ OutOfTransaction(c.at)
        BY <1>0, <2>1, <2>2 DEF OneMoves, OutOfTransaction, RowOps
  <2>. QED BY <2>1, <2>3
<1>15. ASSUME \/ \E i \in Syncing, q \in Query : SyncList(i, q)
              \/ \E c \in calls : \/ \E created, answered \in BOOLEAN : Deliver(c, created, answered)
                                  \/ \E S \in SUBSET Ticket : SyncFetch(c, S)
              \/ \E t \in Ticket : IssueMoves(t)
              \/ \E q \in Query : SlaElapses(q) \/ RetentionElapses(q)
       PROVE  UNCHANGED <<rows, audit, work, dirty>>
       BY <1>15 DEF SyncList, Deliver, SyncFetch, IssueMoves, SlaElapses, RetentionElapses
<1>. HIDE DEF Moves
<1>16. \/ UNCHANGED <<rows, audit, work, dirty>> \/ (\E i \in Instance : Moves(i)) \/ Arrives
       BY <1>2, <1>4, <1>6, <1>7, <1>8, <1>9, <1>10, <1>11, <1>12, <1>13, <1>14, <1>15
          DEF Next, Step
<1>. QED BY <1>16 DEF Moves
-----------------------------------------------------------------------------
(* A query that waits keeps its sealed prompt.                               *)

(* The new content b strips a sealed record a only as a decision does, or    *)
(* after one.                                                                *)
KeepsSealed(a, b) == a.sealed /\ ~b.sealed => a.status \in RetentionFinal \/ b.status \notin Held

(* It brings back nothing that a purge stripped. *)
KeepsPurge(a, b) == (a.purged => b.purged) /\ (b.sealed => a.sealed)

WritesKeep ==
    \A i \in Instance : IsWriting(work[i]) => KeepsSealed(rows[work[i].query], work[i].write)

LEMMA PatchKeeps ==
    ASSUME NEW job, NEW row, IsAsked(job), IsRow(row)
    PROVE  /\ Expected(job, row) => KeepsSealed(row, Patched(job, row))
           /\ KeepsPurge(row, Patched(job, row))
<1>1. ASSUME Patched(job, row).sealed = row.sealed, Patched(job, row).purged = row.purged
      PROVE  KeepsSealed(row, Patched(job, row)) /\ KeepsPurge(row, Patched(job, row))
      BY <1>1 DEF KeepsSealed, KeepsPurge
<1>2. CASE job.op = "decide"
  <2>1. Patched(job, row) = [row EXCEPT !.status = job.verdict, !.by = job.by]
        BY <1>2 DEF Patched, Decided
  <2>2. Patched(job, row).sealed = row.sealed /\ Patched(job, row).purged = row.purged
        BY <2>1 DEF IsRow
  <2>. QED BY <1>1, <2>2
<1>3. CASE job.op = "assign"
  <2>1. Patched(job, row) = [row EXCEPT !.role = job.role, !.owner = job.owner]
        BY <1>3 DEF Patched
  <2>2. Patched(job, row).sealed = row.sealed /\ Patched(job, row).purged = row.purged
        BY <2>1 DEF IsRow
  <2>. QED BY <1>1, <2>2
<1>4. CASE job.op = "justify"
  <2>1. Patched(job, row) = [row EXCEPT !.status = job.outcome, !.by = "sensor",
                                        !.sealed = FALSE, !.token = FALSE]
        BY <1>4 DEF Patched, Justified
  <2>2. IsJustify(job)
        BY <1>4 DEF IsAsked, IsDecision, IsAssign, IsJustify, IsEscalate, IsNotify, IsSync
  <2>3. job.outcome \notin Held
        BY <2>2 DEF IsJustify, Held
  <2>4. /\ Patched(job, row).sealed = FALSE /\ Patched(job, row).purged = row.purged
        /\ Patched(job, row).status = job.outcome
        BY <2>1 DEF IsRow
  <2>. QED BY <2>3, <2>4 DEF KeepsSealed, KeepsPurge
<1>5. CASE job.op = "escalate"
  <2>1. Patched(job, row) = [row EXCEPT !.role = "security_admin", !.escalated = TRUE]
        BY <1>5 DEF Patched, Escalated
  <2>2. Patched(job, row).sealed = row.sealed /\ Patched(job, row).purged = row.purged
        BY <2>1 DEF IsRow
  <2>. QED BY <1>1, <2>2
<1>6. CASE job.op \in {"notify", "sync"}
  <2>1. PICK refs : Patched(job, row) = [row EXCEPT !.refs = refs]
        BY <1>6 DEF Patched
  <2>2. Patched(job, row).sealed = row.sealed /\ Patched(job, row).purged = row.purged
        BY <2>1 DEF IsRow
  <2>. QED BY <1>1, <2>2
<1>. QED BY <1>2, <1>3, <1>4, <1>5, <1>6, Kinds DEF RowOps

(* A handler out of its transaction writes nothing. *)
LEMMA NotWriting ==
    ASSUME NEW j, j.op \in {"none", "purge"} \/ j.phase = "asked"
    PROVE  ~IsWriting(j)
BY Kinds DEF RowOps

(* Who writes a row that another handler changes finds a final one. *)
LEMMA WritesKeepOne ==
    ASSUME FlowInv, WritesKeep, NEW i \in Instance, OneMoves(i),
           IsWriting(work'[i]) => KeepsSealed(rows'[work'[i].query], work'[i].write),
           \A q \in Query : rows[q] # None =>
               \/ rows'[q] = rows[q]
               \/ rows'[q].status \in RetentionFinal
               \/ \A j \in Instance \ {i} : ~(IsWriting(work[j]) /\ work[j].query = q)
    PROVE  WritesKeep'
<1>1. ASSUME NEW j \in Instance, j # i, IsWriting(work[j])
      PROVE  KeepsSealed(rows'[work[j].query], work[j].write)
  <2>1. work[j].query \in Query /\ rows[work[j].query] # None
        BY <1>1, WritingFit, Kinds
  <2>2. KeepsSealed(rows[work[j].query], work[j].write)
        BY <1>1 DEF WritesKeep
  <2>. QED BY <1>1, <2>1, <2>2 DEF KeepsSealed
<1>. QED BY <1>1 DEF WritesKeep, OneMoves

LEMMA WritesKeepStep ==
    ASSUME FlowInv, AuditShaped, NoneIsNoRow, WritesKeep, Next
    PROVE  /\ WritesKeep'
           /\ \A q \in Query :
                 Arrived(q) /\ rows[q].sealed /\ ~rows'[q].sealed =>
                     rows[q].status \in RetentionFinal \/ rows'[q].status \notin Held
<1>. DEFINE Goal == /\ WritesKeep'
                    /\ \A q \in Query : Arrived(q) => KeepsSealed(rows[q], rows'[q])
<1>1. CASE UNCHANGED <<rows, audit, work, dirty>>
      BY <1>1 DEF WritesKeep, KeepsSealed
<1>2. ASSUME NEW i \in Instance, OneMoves(i), OutOfTransaction(i)
      PROVE  Goal
  <2>1. rows' = rows /\ ~IsWriting(work'[i])
        BY <1>2, NotWriting DEF OutOfTransaction
  <2>. QED BY <1>2, <2>1, WritesKeepOne DEF KeepsSealed
<1>3. ASSUME NEW i \in Instance, OneMoves(i), Locks(i)
      PROVE  Goal
  <2>1. /\ rows' = rows /\ work'[i].query = work[i].query
        /\ work'[i].write = Patched(work[i], rows[work[i].query])
        BY <1>3 DEF Locks
  <2>2. KeepsSealed(rows[work[i].query], Patched(work[i], rows[work[i].query]))
        BY <1>3, PatchKeeps DEF Locks
  <2>. QED BY <1>3, <2>1, <2>2, WritesKeepOne DEF KeepsSealed
<1>4. ASSUME NEW i \in Instance, OneMoves(i), Writes(i)
      PROVE  Goal
  <2>1. rows' = rows /\ KeepsSealed(rows[work'[i].query], work'[i].write)
        BY <1>4 DEF Writes, WritesKeep
  <2>. QED BY <1>4, <2>1, WritesKeepOne DEF KeepsSealed
<1>5. ASSUME NEW i \in Instance, OneMoves(i), Purges(i)
      PROVE  Goal
  <2>1. rows' = rows /\ ~IsWriting(work'[i])
        BY <1>5, NotWriting DEF Purges
  <2>. QED BY <1>5, <2>1, WritesKeepOne DEF KeepsSealed
<1>6. ASSUME NEW i \in Instance, OneMoves(i), Commits(i)
      PROVE  Goal
  <2>1. ~IsWriting(work'[i])
        BY <1>6, NotWriting DEF Commits
  <2>2. \A j \in Instance \ {i} : ~(IsWriting(work[j]) /\ work[j].query = work[i].query)
        BY <1>6 DEF Commits, FlowInv, Exclusive
  <2>3. WritesKeep'
        BY <1>6, <2>1, <2>2, WritesKeepOne DEF Commits
  <2>4. KeepsSealed(rows[work[i].query], work[i].write)
        BY <1>6 DEF Commits, WritesKeep
  <2>. QED BY <1>6, <2>3, <2>4 DEF Commits, KeepsSealed
<1>7. ASSUME NEW i \in Instance, OneMoves(i), PurgeEnds(i)
      PROVE  Goal
  <2>1. ~IsWriting(work'[i])
        BY <1>7, NotWriting DEF PurgeEnds
  <2>2. ASSUME NEW q \in Query, rows'[q] # rows[q]
        PROVE  rows[q].status \in RetentionFinal /\ rows'[q].status = rows[q].status
    <3>1. q \in DOMAIN dirty[i] /\ rows'[q] = dirty[i][q]
          BY <1>7, <2>2 DEF PurgeEnds
    <3>2. Settled(rows[q], rows'[q]) /\ IsRow(rows'[q])
          BY <1>7, <3>1 DEF PurgeEnds
    <3>. QED BY <3>2, ShownFields DEF Settled, NoneIsNoRow
  <2>3. \A q \in Query : rows'[q] = rows[q] \/ rows'[q].status \in RetentionFinal
        BY <2>2
  <2>4. WritesKeep'
        BY <1>7, <2>1, <2>3, WritesKeepOne
  <2>. QED BY <2>2, <2>4 DEF KeepsSealed
<1>8. CASE Arrives
  <2>1. PICK q \in Query : /\ ~Arrived(q) /\ work' = work
                           /\ \A r \in Query \ {q} : rows'[r] = rows[r]
        BY <1>8 DEF Arrives
  <2>2. ASSUME NEW i \in Instance, IsWriting(work[i])
        PROVE  KeepsSealed(rows'[work[i].query], work[i].write)
    <3>1. work[i].query \in Query /\ rows[work[i].query] # None
          BY <2>2, WritingFit, Kinds
    <3>. QED BY <2>1, <2>2, <3>1 DEF WritesKeep, Arrived
  <2>. QED BY <2>1, <2>2 DEF WritesKeep, KeepsSealed
<1>. QED BY <1>1, <1>2, <1>3, <1>4, <1>5, <1>6, <1>7, <1>8, Effects DEF KeepsSealed

(* A query that waits for its reviewer keeps the sealed prompt he may        *)
(* reveal, on either storage and whatever purges run beside the decision     *)
(* (rawToStore, purgeRetainedSensitiveData).                                 *)
THEOREM HeldPromptsStay ==
    ASSUME NoneIsNoRow
    PROVE  SafetySpec => HeldKeepsRaw
<1>1. Init => AuditShaped /\ EvidenceCurrent /\ WritesKeep
  <2>1. Init => WritesKeep
        BY NotWriting DEF Init, WritesKeep, NoWork
  <2>. QED BY <2>1, EvidenceStarts
<1>2. FlowInv /\ AuditShaped /\ EvidenceCurrent /\ [Next]_vars => AuditShaped' /\ EvidenceCurrent'
      BY EvidenceStep DEF EvidenceInv, FlowInv
<1>3. FlowInv /\ AuditShaped /\ WritesKeep /\ [Next]_vars
          => /\ WritesKeep'
             /\ [\A q \in Query :
                    Arrived(q) /\ rows[q].sealed /\ ~rows'[q].sealed =>
                        rows[q].status \in RetentionFinal \/ rows'[q].status \notin Held]_vars
  <2>1. CASE UNCHANGED vars
        BY <2>1 DEF vars, WritesKeep
  <2>. QED BY <2>1, WritesKeepStep
<1>. QED BY <1>1, <1>2, <1>3, FlowHolds, PTL DEF SafetySpec, HeldKeepsRaw
-----------------------------------------------------------------------------
(* On SQLite a purge that is in the audit log sticks.                        *)

(* One writer at a time; whatever it writes brings nothing back. *)
OneWriter ==
    /\ \A i, j \in Instance : InTransaction(i) /\ InTransaction(j) => i = j
    /\ \A i \in Instance : IsWriting(work[i]) => KeepsPurge(rows[work[i].query], work[i].write)

(* The purge has stripped what it has updated. *)
PurgeStrips ==
    \A i \in Instance : work[i].op = "purge" =>
        \A q \in DOMAIN dirty[i] : dirty[i][q].purged /\ ~dirty[i][q].sealed

LEMMA WritingIsIn ==
    ASSUME NEW i, IsWriting(work[i])
    PROVE  InTransaction(i)
BY Kinds DEF InTransaction, RowOps

LEMMA PurgeStripsStep ==
    ASSUME FlowInv, AuditShaped, NoneIsNoRow, PurgeStrips, Next
    PROVE  PurgeStrips'
<1>1. CASE UNCHANGED <<rows, audit, work, dirty>> \/ Arrives
      BY <1>1 DEF PurgeStrips, Arrives
<1>2. ASSUME NEW i \in Instance, OneMoves(i), work'[i].op # "purge"
      PROVE  PurgeStrips'
      BY <1>2 DEF PurgeStrips, OneMoves
<1>3. ASSUME NEW i \in Instance, OutOfTransaction(i) \/ Locks(i) \/ Writes(i)
                                 \/ Commits(i) \/ PurgeEnds(i)
      PROVE  work'[i].op # "purge"
      BY <1>3 DEF OutOfTransaction, Locks, Writes, Commits, PurgeEnds, RowOps
<1>4. ASSUME NEW i \in Instance, OneMoves(i), Purges(i)
      PROVE  PurgeStrips'
  <2>1. \A q \in DOMAIN dirty'[i] : dirty'[i][q].purged /\ ~dirty'[i][q].sealed
    <3>1. CASE dirty'[i] = IF work[i].op = "purge" THEN dirty[i] ELSE NothingDirty
          BY <3>1 DEF PurgeStrips, NothingDirty
    <3>2. CASE \E q, row : /\ row.purged /\ ~row.sealed
                           /\ dirty'[i] = [r \in DOMAIN dirty[i] \cup {q} |->
                                             IF r = q THEN row ELSE dirty[i][r]]
                           /\ work[i].op = "purge"
          BY <3>2 DEF PurgeStrips
    <3>. QED BY <1>4, <3>1, <3>2 DEF Purges
  <2>. QED BY <1>4, <2>1 DEF PurgeStrips, OneMoves
<1>. QED BY <1>1, <1>2, <1>3, <1>4, Effects

LEMMA PurgeSticksStep ==
    ASSUME FlowInv, AuditShaped, NoneIsNoRow, PurgeStrips, OneWriter, PurgeSticks, ~Postgres, Next
    PROVE  OneWriter' /\ PurgeSticks'
<1>. DEFINE Goal == OneWriter' /\ PurgeSticks'
<1>1. CASE UNCHANGED <<rows, audit, work, dirty>>
      BY <1>1 DEF OneWriter, PurgeSticks, InTransaction
<1>2. ASSUME NEW i \in Instance, OneMoves(i), rows' = rows, audit' = audit,
             ~InTransaction(i)', ~IsWriting(work'[i])
      PROVE  Goal
      BY <1>2 DEF OneWriter, PurgeSticks, InTransaction, OneMoves
<1>3. ASSUME NEW i \in Instance, OneMoves(i), rows' = rows, audit' = audit,
             \A j \in Instance \ {i} : ~InTransaction(j),
             IsWriting(work'[i]) => KeepsPurge(rows[work'[i].query], work'[i].write)
      PROVE  Goal
  <2>1. \A j \in Instance \ {i} : ~InTransaction(j)' /\ ~IsWriting(work'[j])
        BY <1>3, WritingIsIn DEF OneMoves, InTransaction
  <2>. QED BY <1>3, <2>1 DEF OneWriter, PurgeSticks
<1>4. ASSUME NEW i \in Instance, OneMoves(i), \A j \in Instance \ {i} : ~InTransaction(j),
             work'[i].op = "none"
      PROVE  OneWriter'
  <2>1. \A j \in Instance : ~InTransaction(j)' /\ ~IsWriting(work'[j])
        BY <1>4, WritingIsIn, NotWriting DEF OneMoves, InTransaction
  <2>. QED BY <2>1 DEF OneWriter
<1>5. ASSUME NEW i \in Instance, InTransaction(i)
      PROVE  \A j \in Instance \ {i} : ~InTransaction(j)
      BY <1>5 DEF OneWriter
<1>6. ASSUME NEW i \in Instance, OneMoves(i), OutOfTransaction(i)
      PROVE  Goal
  <2>1. ~InTransaction(i)' /\ ~IsWriting(work'[i])
        BY <1>6, NotWriting DEF OutOfTransaction, InTransaction, RowOps
  <2>. QED BY <1>2, <1>6, <2>1 DEF OutOfTransaction
<1>7. ASSUME NEW i \in Instance, OneMoves(i), Locks(i)
      PROVE  Goal
  <2>1. /\ work'[i].query = work[i].query
        /\ work'[i].write = Patched(work[i], rows[work[i].query])
        BY <1>7 DEF Locks
  <2>2. KeepsPurge(rows[work[i].query], Patched(work[i], rows[work[i].query]))
        BY <1>7, PatchKeeps DEF Locks
  <2>. QED BY <1>3, <1>7, <2>1, <2>2 DEF Locks, WriterFree
<1>8. ASSUME NEW i \in Instance, OneMoves(i), Writes(i)
      PROVE  Goal
  <2>1. InTransaction(i)
        BY <1>8, WritingIsIn DEF Writes
  <2>2. KeepsPurge(rows[work'[i].query], work'[i].write)
        BY <1>8 DEF Writes, OneWriter
  <2>. QED BY <1>3, <1>5, <1>8, <2>1, <2>2 DEF Writes
<1>9. ASSUME NEW i \in Instance, OneMoves(i), Purges(i)
      PROVE  Goal
  <2>1. \A j \in Instance \ {i} : ~InTransaction(j)
        BY <1>5, <1>9 DEF Purges, WriterFree, InTransaction
  <2>2. ~IsWriting(work'[i])
        BY <1>9, NotWriting DEF Purges
  <2>. QED BY <1>3, <1>9, <2>1, <2>2 DEF Purges
<1>10. ASSUME NEW i \in Instance, OneMoves(i), Commits(i)
       PROVE  Goal
  <2>1. InTransaction(i) /\ KeepsPurge(rows[work[i].query], work[i].write)
        BY <1>10, WritingIsIn DEF Commits, OneWriter
  <2>2. OneWriter'
        BY <1>4, <1>5, <1>10, <2>1 DEF Commits
  <2>3. PurgeSticks'
        BY <1>10, <2>1 DEF Commits, PurgeSticks, KeepsPurge
  <2>. QED BY <2>2, <2>3
<1>11. ASSUME NEW i \in Instance, OneMoves(i), PurgeEnds(i)
       PROVE  Goal
  <2>1. InTransaction(i)
        BY <1>11 DEF PurgeEnds, InTransaction
  <2>2. OneWriter'
        BY <1>4, <1>5, <1>11, <2>1 DEF PurgeEnds
  <2>3. PurgeSticks'
        BY <1>11 DEF PurgeEnds, PurgeSticks, PurgeStrips
  <2>. QED BY <2>2, <2>3
<1>12. CASE Arrives
  <2>1. PICK i \in Instance, q \in Query :
           /\ work[i].op = "none" /\ WriterFree(i) /\ ~Arrived(q) /\ work' = work
           /\ \A r \in Query \ {q} : rows'[r] = rows[r] /\ audit'[r] = audit[r]
           /\ ~audit'[q].purged
        BY <1>12 DEF Arrives
  <2>2. \A j \in Instance : ~InTransaction(j)
        BY <2>1 DEF WriterFree, InTransaction
  <2>3. OneWriter'
        BY <2>1, <2>2, WritingIsIn DEF OneWriter, InTransaction
  <2>4. PurgeSticks'
        BY <2>1 DEF PurgeSticks
  <2>. QED BY <2>3, <2>4
<1>. QED BY <1>1, <1>6, <1>7, <1>8, <1>9, <1>10, <1>11, <1>12, Effects

(* On SQLite, whose transactions have one writer, a purge that the audit log *)
(* records stays: no later write of the record brings a sealed field back or *)
(* loses retentionPurgedAt.  On Postgres the run approval_purge_race finds a writer   *)
(* that does.                                                                *)
THEOREM PurgesStick ==
    ASSUME NoneIsNoRow, ~Postgres
    PROVE  SafetySpec => []PurgeSticks
<1>1. Init => AuditShaped /\ EvidenceCurrent /\ PurgeStrips /\ OneWriter /\ PurgeSticks
  <2>1. Init => PurgeStrips /\ OneWriter /\ PurgeSticks
        BY NotWriting DEF Init, PurgeStrips, OneWriter, PurgeSticks, InTransaction, NoWork, Unread
  <2>. QED BY <2>1, EvidenceStarts
<1>2. FlowInv /\ AuditShaped /\ EvidenceCurrent /\ [Next]_vars => AuditShaped' /\ EvidenceCurrent'
      BY EvidenceStep DEF EvidenceInv, FlowInv
<1>3. FlowInv /\ AuditShaped /\ PurgeStrips /\ OneWriter /\ PurgeSticks /\ [Next]_vars
          => PurgeStrips' /\ OneWriter' /\ PurgeSticks'
  <2>1. CASE UNCHANGED vars
        BY <2>1 DEF vars, PurgeStrips, OneWriter, PurgeSticks, InTransaction
  <2>. QED BY <2>1, PurgeStripsStep, PurgeSticksStep
<1>. QED BY <1>1, <1>2, <1>3, FlowHolds, PTL DEF SafetySpec
-----------------------------------------------------------------------------
(* Ticket references only advance.                                           *)

(* References that name issues which exist, in a state they have had. *)
Real(issues, refs) ==
    \A t \in DOMAIN refs : /\ t \in DOMAIN issues /\ refs[t] \in Nat /\ refs[t] <= issues[t]

Ahead(a, b) == \A t \in DOMAIN a : t \in DOMAIN b /\ a[t] <= b[t]

Fetched(issues, seen, refs) ==
    DOMAIN refs = DOMAIN seen /\ Real(issues, refs) /\ Ahead(seen, refs)

RowRefs == tickets \in Seq(Nat) /\ \A q \in Query : Arrived(q) => Real(tickets, rows[q].refs)

WriteRefs ==
    \A i \in Instance : IsWriting(work[i]) =>
        Real(tickets, work[i].write.refs) /\ Ahead(rows[work[i].query].refs, work[i].write.refs)

(* A purge rewrites rows as it selected them; nobody else is in a transaction. *)
PurgeRefs ==
    \A i \in Instance : work[i].op = "purge" =>
        /\ ~Postgres /\ \A j \in Instance \ {i} : ~InTransaction(j)
        /\ \A q \in DOMAIN work[i].todo : work[i].todo[q].refs = rows[q].refs
        /\ \A q \in DOMAIN dirty[i] : dirty[i][q].refs = rows[q].refs

SyncRefs ==
    /\ \A c \in calls : c.op # "notify" =>
          /\ c.op = "sync"
          /\ c.step = "sending" => Real(tickets, c.seen)
          /\ c.step = "answered" => Fetched(tickets, c.seen, c.refs)
    /\ \A i \in Instance : work[i].op = "sync" /\ work[i].phase = "asked" =>
          Fetched(tickets, work[i].seen, work[i].refs)

(* A delivery, or the handler that goes on with it, brings issue t, ... *)
Brings(c, t) == c.op = "notify" /\ c.step = "answered" /\ c.ticket = t
Records(j, t) == j.op = "notify" /\ j.phase = "asked" /\ j.ticket = t

(* ... which is in no record yet, and which nothing else brings. *)
Unused(t) ==
    /\ t \in DOMAIN tickets
    /\ \A q \in Query : Arrived(q) => t \notin DOMAIN rows[q].refs
    /\ \A i \in Instance : IsWriting(work[i]) => t \notin DOMAIN work[i].write.refs

NewRefs ==
    \A t : t # 0 =>
        /\ \A c \in calls : Brings(c, t) =>
              /\ Unused(t) /\ \A d \in calls : Brings(d, t) => d = c
              /\ \A i \in Instance : ~Records(work[i], t)
        /\ \A i \in Instance : Records(work[i], t) =>
              Unused(t) /\ \A j \in Instance : Records(work[j], t) => j = i

RefsInv == RowRefs /\ WriteRefs /\ PurgeRefs /\ SyncRefs /\ NewRefs

(* More issues, further on. *)
Grown(a, b) ==
    \A t \in DOMAIN a : t \in DOMAIN b /\ b[t] \in Nat /\ a[t] <= b[t]

LEMMA RealGrows ==
    ASSUME NEW a \in Seq(Nat), NEW b \in Seq(Nat), Grown(a, b), NEW refs, Real(a, refs)
    PROVE  Real(b, refs)
<1>1. \A t \in DOMAIN a : a[t] \in Nat
      OBVIOUS
<1>. QED BY <1>1 DEF Real, Grown

LEMMA AheadOfItself ==
    ASSUME NEW issues, NEW refs, Real(issues, refs)
    PROVE  Ahead(refs, refs)
BY DEF Real, Ahead

(* The content a request writes has the references of its row, and at most   *)
(* the issue it brings.                                                      *)
LEMMA PatchRefs ==
    ASSUME NEW job, NEW row, IsAsked(job), IsRow(row), Expected(job, row),
           tickets \in Seq(Nat), Real(tickets, row.refs),
           job.op = "sync" => Fetched(tickets, job.seen, job.refs),
           job.op = "notify" /\ job.ticket # 0 =>
               job.ticket \in DOMAIN tickets /\ job.ticket \notin DOMAIN row.refs
    PROVE  /\ Real(tickets, Patched(job, row).refs)
           /\ Ahead(row.refs, Patched(job, row).refs)
           /\ \A t \in DOMAIN Patched(job, row).refs :
                 t \in DOMAIN row.refs \/ (job.op = "notify" /\ job.ticket # 0 /\ t = job.ticket)
<1>. DEFINE Goal(refs) ==
         /\ Real(tickets, refs) /\ Ahead(row.refs, refs)
         /\ \A t \in DOMAIN refs :
               t \in DOMAIN row.refs \/ (job.op = "notify" /\ job.ticket # 0 /\ t = job.ticket)
<1>1. Goal(row.refs)
      BY AheadOfItself
<1>2. CASE job.op = "decide"
  <2>1. Patched(job, row) = [row EXCEPT !.status = job.verdict, !.by = job.by]
        BY <1>2 DEF Patched, Decided
  <2>2. Patched(job, row).refs = row.refs
        BY <2>1 DEF IsRow
  <2>. QED BY <1>1, <2>2
<1>3. CASE job.op = "assign"
  <2>1. Patched(job, row) = [row EXCEPT !.role = job.role, !.owner = job.owner]
        BY <1>3 DEF Patched
  <2>2. Patched(job, row).refs = row.refs
        BY <2>1 DEF IsRow
  <2>. QED BY <1>1, <2>2
<1>4. CASE job.op = "justify"
  <2>1. Patched(job, row) = [row EXCEPT !.status = job.outcome, !.by = "sensor",
                                        !.sealed = FALSE, !.token = FALSE]
        BY <1>4 DEF Patched, Justified
  <2>2. Patched(job, row).refs = row.refs
        BY <2>1 DEF IsRow
  <2>. QED BY <1>1, <2>2
<1>5. CASE job.op = "escalate"
  <2>1. Patched(job, row) = [row EXCEPT !.role = "security_admin", !.escalated = TRUE]
        BY <1>5 DEF Patched, Escalated
  <2>2. Patched(job, row).refs = row.refs
        BY <2>1 DEF IsRow
  <2>. QED BY <1>1, <2>2
<1>6. CASE job.op = "sync"
  <2>1. Patched(job, row) = [row EXCEPT !.refs = job.refs] /\ row.refs = job.seen
        BY <1>6 DEF Patched, Expected
  <2>2. Patched(job, row).refs = job.refs
        BY <2>1 DEF IsRow
  <2>3. Goal(job.refs)
        BY <1>6, <2>1 DEF Fetched
  <2>. QED BY <2>2, <2>3
<1>7. CASE job.op = "notify"
  <2>1. Patched(job, row) = [row EXCEPT !.refs = WithRef(row.refs, job.ticket)]
        BY <1>7 DEF Patched
  <2>2. Patched(job, row).refs = WithRef(row.refs, job.ticket)
        BY <2>1 DEF IsRow
  <2>3. CASE WithRef(row.refs, job.ticket) = row.refs
        BY <1>1, <2>2, <2>3
  <2>4. CASE WithRef(row.refs, job.ticket) # row.refs
    <3>1. /\ job.ticket # 0
          /\ WithRef(row.refs, job.ticket) =
               [u \in DOMAIN row.refs \cup {job.ticket} |->
                  IF u = job.ticket THEN 0 ELSE row.refs[u]]
          BY <2>4 DEF WithRef
    <3>2. job.ticket \in DOMAIN tickets /\ job.ticket \notin DOMAIN row.refs
          BY <1>7, <3>1
    <3>3. tickets[job.ticket] \in Nat
          BY <3>2
    <3>4. Goal(WithRef(row.refs, job.ticket))
          BY <1>7, <3>1, <3>2, <3>3 DEF Real, Ahead
    <3>. QED BY <2>2, <3>4
  <2>. QED BY <2>3, <2>4
<1>. QED BY <1>2, <1>3, <1>4, <1>5, <1>6, <1>7, Kinds DEF RowOps

(* A handler of which the references know nothing. *)
Light(j) ==
    \/ j.op = "none"
    \/ j.op \in {"decide", "assign", "justify", "escalate"} /\ j.phase = "asked"

LEMMA LightHandler ==
    ASSUME NEW j, Light(j)
    PROVE  /\ ~IsWriting(j) /\ j.op # "purge" /\ ~(j.op = "sync" /\ j.phase = "asked")
           /\ \A t : ~Records(j, t)
           /\ ~(j.op = "purge" \/ (j.op # "none" /\ j.phase # "asked"))
<1>1. ~IsWriting(j)
      BY NotWriting DEF Light
<1>. QED BY <1>1 DEF Light, Records

(* What calls the handlers add is still to be sent. *)
CallsGo ==
    \A c \in calls' : c \in calls \/ (c.op = "notify" /\ c.step = "sending")

\* The records keep their references, but for what arrives without any.
RefsSame ==
    \A q \in Query : IF Arrived(q) THEN rows'[q] # None /\ rows'[q].refs = rows[q].refs
                     ELSE rows'[q] # None => DOMAIN rows'[q].refs = {}

(* One handler asks, or ends without changing a reference. *)
LEMMA LightKeeps ==
    ASSUME FlowInv, RefsInv, NEW i \in Instance, OneMoves(i), Light(work'[i]),
           RefsSame, CallsGo, tickets' = tickets
    PROVE  RefsInv'
<1>1. /\ ~IsWriting(work'[i]) /\ work'[i].op # "purge"
      /\ ~(work'[i].op = "sync" /\ work'[i].phase = "asked")
      /\ \A t : ~Records(work'[i], t)
      /\ ~InTransaction(i)'
      BY LightHandler DEF InTransaction
<1>2. ASSUME NEW j \in Instance, j # i
      PROVE  /\ work'[j] = work[j] /\ dirty'[j] = dirty[j]
             /\ InTransaction(j)' <=> InTransaction(j)
      BY <1>2 DEF OneMoves, InTransaction
<1>3. RowRefs'
      BY DEF RefsInv, RowRefs, RefsSame, Arrived, Real
<1>4. WriteRefs'
  <2>1. ASSUME NEW j \in Instance, IsWriting(work'[j])
        PROVE  /\ Real(tickets, work'[j].write.refs)
               /\ Ahead(rows'[work'[j].query].refs, work'[j].write.refs)
    <3>1. j # i /\ work'[j] = work[j]
          BY <1>1, <1>2, <2>1
    <3>2. work[j].query \in Query /\ Arrived(work[j].query)
          BY <2>1, <3>1, WritingFit, Kinds DEF Arrived
    <3>3. rows'[work[j].query].refs = rows[work[j].query].refs
          BY <3>2 DEF RefsSame
    <3>. QED BY <2>1, <3>1, <3>3 DEF RefsInv, WriteRefs
  <2>. QED BY <2>1 DEF WriteRefs
<1>5. PurgeRefs'
  <2>1. ASSUME NEW j \in Instance, work'[j].op = "purge"
        PROVE  /\ ~Postgres /\ \A k \in Instance \ {j} : ~InTransaction(k)'
               /\ \A q \in DOMAIN work'[j].todo : work'[j].todo[q].refs = rows'[q].refs
               /\ \A q \in DOMAIN dirty'[j] : dirty'[j][q].refs = rows'[q].refs
    <3>1. j # i /\ work'[j] = work[j] /\ dirty'[j] = dirty[j]
          BY <1>1, <1>2, <2>1
    <3>2. /\ ~Postgres /\ \A k \in Instance \ {j} : ~InTransaction(k)
          /\ \A q \in DOMAIN work[j].todo : work[j].todo[q].refs = rows[q].refs
          /\ \A q \in DOMAIN dirty[j] : dirty[j][q].refs = rows[q].refs
          BY <2>1, <3>1 DEF RefsInv, PurgeRefs
    <3>3. /\ \A q \in DOMAIN work[j].todo : q \in Query /\ Arrived(q)
          /\ \A q \in DOMAIN dirty[j] : q \in Query /\ Arrived(q)
          BY <2>1, <3>1, PurgeFit DEF IsRowMap, Settled, Arrived
    <3>4. \A k \in Instance \ {j} : ~InTransaction(k)'
          BY <1>1, <1>2, <3>2
    <3>. QED BY <3>1, <3>2, <3>3, <3>4 DEF RefsSame
  <2>. QED BY <2>1 DEF PurgeRefs
<1>6. SyncRefs'
  <2>1. \A c \in calls' : c.op # "notify" => c \in calls
        BY DEF CallsGo
  <2>2. \A j \in Instance : work'[j].op = "sync" /\ work'[j].phase = "asked" => work'[j] = work[j]
        BY <1>1, <1>2
  <2>. QED BY <2>1, <2>2 DEF RefsInv, SyncRefs
<1>7. ASSUME NEW t, Unused(t) PROVE Unused(t)'
  <2>1. \A q \in Query : Arrived(q)' => t \notin DOMAIN rows'[q].refs
        BY <1>7 DEF Unused, RefsSame, Arrived
  <2>2. \A j \in Instance : IsWriting(work'[j]) => t \notin DOMAIN work'[j].write.refs
        BY <1>1, <1>2, <1>7 DEF Unused
  <2>. QED BY <1>7, <2>1, <2>2 DEF Unused
<1>8. NewRefs'
  <2>1. \A t : \A c \in calls' : Brings(c, t) => c \in calls
        BY DEF CallsGo, Brings
  <2>2. \A t : \A j \in Instance : Records(work'[j], t) => Records(work[j], t)
        BY <1>1, <1>2
  <2>3. ASSUME NEW t, t # 0
        PROVE  /\ \A c \in calls' : Brings(c, t) =>
                     /\ Unused(t)' /\ \A d \in calls' : Brings(d, t) => d = c
                     /\ \A j \in Instance : ~Records(work'[j], t)
               /\ \A j \in Instance : Records(work'[j], t) =>
                     Unused(t)' /\ \A k \in Instance : Records(work'[k], t) => k = j
        BY <1>7, <2>1, <2>2, <2>3 DEF RefsInv, NewRefs
  <2>. QED BY <2>3 DEF NewRefs
<1>. QED BY <1>3, <1>4, <1>5, <1>6, <1>8 DEF RefsInv

(* One handler is on the way to its UPDATE, or past it. *)
LEMMA WriterKeeps ==
    ASSUME FlowInv, RefsInv, NEW i \in Instance, OneMoves(i),
           rows' = rows, calls' = calls, tickets' = tickets,
           InTransaction(i) \/ WriterFree(i), work'[i].op # "purge", work[i].op # "purge",
           work'[i].phase # "asked",
           Real(tickets, work'[i].write.refs),
           Ahead(rows[work'[i].query].refs, work'[i].write.refs),
           \A t : /\ t # 0
                  /\ \/ \E c \in calls : Brings(c, t)
                     \/ \E j \in Instance \ {i} : Records(work[j], t)
                  => t \notin DOMAIN work'[i].write.refs
    PROVE  RefsInv'
<1>1. ASSUME NEW j \in Instance, j # i
      PROVE  work'[j] = work[j] /\ dirty'[j] = dirty[j]
      BY <1>1 DEF OneMoves
<1>2. ASSUME NEW j \in Instance, work[j].op = "purge" PROVE FALSE
  <2>1. ~Postgres /\ j # i /\ \A k \in Instance \ {j} : ~InTransaction(k)
        BY <1>2 DEF RefsInv, PurgeRefs
  <2>2. InTransaction(j)
        BY <1>2 DEF InTransaction
  <2>. QED BY <2>1, <2>2 DEF WriterFree
<1>3. RowRefs'
      BY DEF RefsInv, RowRefs, Arrived
<1>4. WriteRefs'
      BY <1>1 DEF RefsInv, WriteRefs
<1>5. PurgeRefs'
      BY <1>1, <1>2 DEF PurgeRefs
<1>6. SyncRefs'
  <2>1. \A j \in Instance : work'[j].op = "sync" /\ work'[j].phase = "asked" => work'[j] = work[j]
        BY <1>1
  <2>. QED BY <2>1 DEF RefsInv, SyncRefs
<1>7. NewRefs'
  <2>1. \A t : \A j \in Instance : Records(work'[j], t) => j # i /\ Records(work[j], t)
        BY <1>1 DEF Records
  <2>2. ASSUME NEW t, t # 0, Unused(t),
               (\E c \in calls : Brings(c, t)) \/ (\E j \in Instance \ {i} : Records(work[j], t))
        PROVE  Unused(t)'
    <3>1. \A j \in Instance : IsWriting(work'[j]) => t \notin DOMAIN work'[j].write.refs
          BY <1>1, <2>2 DEF Unused
    <3>. QED BY <2>2, <3>1 DEF Unused, Arrived
  <2>3. ASSUME NEW t, t # 0
        PROVE  /\ \A c \in calls : Brings(c, t) =>
                     /\ Unused(t)' /\ \A d \in calls : Brings(d, t) => d = c
                     /\ \A j \in Instance : ~Records(work'[j], t)
               /\ \A j \in Instance : Records(work'[j], t) =>
                     Unused(t)' /\ \A k \in Instance : Records(work'[k], t) => k = j
        BY <2>1, <2>2, <2>3 DEF RefsInv, NewRefs
  <2>. QED BY <2>3 DEF NewRefs
<1>. QED BY <1>3, <1>4, <1>5, <1>6, <1>7 DEF RefsInv

LEMMA RowOpsOnly ==
    ASSUME FlowInv, NEW i \in Instance, work[i].op \notin {"none", "purge"}
    PROVE  work[i].op \in RowOps
<1>1. Fit(rows, work[i], dirty[i])
      BY DEF FlowInv, HandlersFit
<1>. QED BY <1>1, Kinds DEF Fit

LEMMA EndRefs ==
    ASSUME FlowInv, RefsInv, NEW i \in Instance, Done(i), rows' = rows, CallsGo,
           tickets' = tickets
    PROVE  RefsInv'
<1>1. OneMoves(i) /\ Light(work'[i])
      BY DEF FlowInv, HandlersFit, Done, OneMoves, Light, NoWork
<1>2. RefsSame
      BY DEF RefsSame, Arrived
<1>. QED BY <1>1, <1>2, LightKeeps

LEMMA LockRefs ==
    ASSUME FlowInv, RefsInv, NEW i \in Instance, Lock(i)
    PROVE  RefsInv'
<1>. DEFINE job == work[i]
            row == rows[job.query]
            rec == [op |-> job.op, query |-> job.query, write |-> Patched(job, row),
                    phase |-> "locked"]
<1>1. /\ job.op \in RowOps /\ job.phase = "asked" /\ WriterFree(i)
      /\ rows' = rows /\ calls' = calls /\ tickets' = tickets
      BY RowOpsOnly DEF Lock
<1>2. CASE ~Expected(job, row)
  <2>1. Done(i)
        BY <1>2 DEF Lock
  <2>. QED BY <1>1, <2>1, EndRefs DEF CallsGo
<1>3. CASE Expected(job, row)
  <2>1. work' = [work EXCEPT ![i] = rec] /\ dirty' = dirty
        BY <1>3 DEF Lock
  <2>2. IsAsked(job) /\ IsRow(row) /\ job.query \in Query /\ Arrived(job.query)
        BY <1>1, WritingFit DEF Arrived
  <2>3. /\ tickets \in Seq(Nat) /\ Real(tickets, row.refs)
        /\ job.op = "sync" => Fetched(tickets, job.seen, job.refs)
        BY <1>1, <2>2 DEF RefsInv, RowRefs, SyncRefs
  <2>4. \A t : t # 0 /\ Records(job, t) => t \in DOMAIN tickets /\ t \notin DOMAIN row.refs
        BY <2>2 DEF RefsInv, NewRefs, Unused
  <2>5. job.op = "notify" => Records(job, job.ticket)
        BY <1>1 DEF Records
  <2>6. /\ Real(tickets, Patched(job, row).refs)
        /\ Ahead(row.refs, Patched(job, row).refs)
        /\ \A t \in DOMAIN Patched(job, row).refs :
              t \in DOMAIN row.refs \/ (job.op = "notify" /\ job.ticket # 0 /\ t = job.ticket)
        BY <1>3, <2>2, <2>3, <2>4, <2>5, PatchRefs
  <2>7. OneMoves(i) /\ work'[i] = rec
        BY <2>1 DEF FlowInv, HandlersFit, OneMoves
  <2>8. /\ work'[i].op = job.op /\ work'[i].query = job.query /\ work'[i].phase = "locked"
        /\ work'[i].write = Patched(job, row)
        BY <2>7
  <2>9. ASSUME NEW t, t # 0,
               (\E c \in calls : Brings(c, t)) \/ (\E j \in Instance \ {i} : Records(work[j], t))
        PROVE  t \notin DOMAIN Patched(job, row).refs
    <3>1. Unused(t) /\ ~Records(job, t)
          BY <2>9 DEF RefsInv, NewRefs
    <3>2. t \notin DOMAIN row.refs
          BY <2>2, <3>1 DEF Unused
    <3>. QED BY <2>5, <2>6, <3>1, <3>2
  <2>. HIDE DEF rec
  <2>. QED BY <1>1, <2>6, <2>7, <2>8, <2>9, WriterKeeps DEF RowOps
<1>. QED BY <1>2, <1>3

LEMMA WriteKeepsRefs ==
    ASSUME FlowInv, RefsInv, NEW i \in Instance, Write(i)
    PROVE  RefsInv'
<1>1. /\ work[i].op \in RowOps /\ work[i].phase = "locked"
      /\ rows' = rows /\ calls' = calls /\ tickets' = tickets
      /\ work' = [work EXCEPT ![i].phase = "written"]
      /\ dirty' = [dirty EXCEPT ![i] = [q \in {work[i].query} |-> work[i].write]]
      BY RowOpsOnly DEF Write
<1>2. IsWriting(work[i]) /\ InTransaction(i)
      BY <1>1, WritingFit, WritingIsIn
<1>3. OneMoves(i) /\ work'[i] = [work[i] EXCEPT !.phase = "written"]
      BY <1>1 DEF FlowInv, HandlersFit, OneMoves
<1>4. /\ work'[i].op = work[i].op /\ work'[i].query = work[i].query
      /\ work'[i].write = work[i].write /\ work'[i].phase = "written"
      BY <1>2, <1>3 DEF IsWriting
<1>5. /\ Real(tickets, work[i].write.refs)
      /\ Ahead(rows[work[i].query].refs, work[i].write.refs)
      BY <1>2 DEF RefsInv, WriteRefs
<1>6. ASSUME NEW t, t # 0,
             (\E c \in calls : Brings(c, t)) \/ (\E j \in Instance \ {i} : Records(work[j], t))
      PROVE  t \notin DOMAIN work[i].write.refs
  <2>1. Unused(t)
        BY <1>6 DEF RefsInv, NewRefs
  <2>. QED BY <1>2, <2>1 DEF Unused
<1>. QED BY <1>1, <1>2, <1>3, <1>4, <1>5, <1>6, WriterKeeps DEF RowOps

LEMMA CommitRefs ==
    ASSUME FlowInv, RefsInv, NEW i \in Instance, Commit(i)
    PROVE  RefsInv'
<1>. DEFINE p == work[i].query
            new == work[i].write
<1>1. /\ work[i].op \in RowOps /\ work[i].phase = "written" /\ Done(i)
      /\ rows' = [rows EXCEPT ![p] = dirty[i][p]] /\ tickets' = tickets
      BY RowOpsOnly DEF Commit
<1>2. /\ IsWriting(work[i]) /\ p \in Query /\ Arrived(p)
      /\ dirty[i] = [q \in {p} |-> new]
      BY <1>1, WritingFit DEF Arrived
<1>3. \A q \in Query : rows'[q] = IF q = p THEN new ELSE rows[q]
      BY <1>1, <1>2 DEF FlowInv, RowsShaped
<1>4. CallsGo
      BY DEF Commit, CallsGo, Announce
<1>5. /\ Real(tickets, new.refs) /\ Ahead(rows[p].refs, new.refs)
      BY <1>2 DEF RefsInv, WriteRefs
<1>6. /\ OneMoves(i) /\ work'[i] = NoWork
      /\ \A j \in Instance \ {i} : work'[j] = work[j] /\ dirty'[j] = dirty[j]
      BY <1>1 DEF FlowInv, HandlersFit, Done, OneMoves
<1>7. /\ ~IsWriting(work'[i]) /\ work'[i].op = "none" /\ \A t : ~Records(work'[i], t)
      BY <1>6, NotWriting DEF NoWork, Records
<1>8. \A j \in Instance : work[j].op = "purge" => FALSE
      BY <1>1, <1>2, WritingIsIn DEF RefsInv, PurgeRefs, RowOps
<1>9. RowRefs'
      BY <1>1, <1>2, <1>3, <1>5 DEF RefsInv, RowRefs, Arrived
<1>10. WriteRefs'
  <2>1. ASSUME NEW j \in Instance, IsWriting(work'[j])
        PROVE  /\ Real(tickets, work'[j].write.refs)
               /\ Ahead(rows'[work'[j].query].refs, work'[j].write.refs)
    <3>1. j # i /\ work'[j] = work[j]
          BY <1>6, <1>7, <2>1
    <3>2. work[j].query \in Query /\ work[j].query # p
          BY <1>2, <2>1, <3>1, Kinds DEF FlowInv, Exclusive
    <3>. QED BY <1>3, <2>1, <3>1, <3>2 DEF RefsInv, WriteRefs
  <2>. QED BY <1>1, <2>1 DEF WriteRefs
<1>11. PurgeRefs'
      BY <1>6, <1>7, <1>8 DEF PurgeRefs
<1>12. SyncRefs'
  <2>1. \A c \in calls' : c.op # "notify" => c \in calls
        BY <1>4 DEF CallsGo
  <2>2. \A j \in Instance : work'[j].op = "sync" /\ work'[j].phase = "asked" => work'[j] = work[j]
        BY <1>6, <1>7
  <2>. QED BY <1>1, <2>1, <2>2 DEF RefsInv, SyncRefs
<1>13. ASSUME NEW t, Unused(t) PROVE Unused(t)'
  <2>1. t \notin DOMAIN new.refs
        BY <1>2, <1>13 DEF Unused
  <2>2. \A q \in Query : Arrived(q)' => t \notin DOMAIN rows'[q].refs
        BY <1>3, <1>13, <2>1 DEF Unused, Arrived
  <2>3. \A j \in Instance : IsWriting(work'[j]) => t \notin DOMAIN work'[j].write.refs
        BY <1>6, <1>7, <1>13 DEF Unused
  <2>. QED BY <1>1, <1>13, <2>2, <2>3 DEF Unused
<1>14. NewRefs'
  <2>1. \A t : \A c \in calls' : Brings(c, t) => c \in calls
        BY <1>4 DEF CallsGo, Brings
  <2>2. \A t : \A j \in Instance : Records(work'[j], t) => Records(work[j], t)
        BY <1>6, <1>7
  <2>3. ASSUME NEW t, t # 0
        PROVE  /\ \A c \in calls' : Brings(c, t) =>
                     /\ Unused(t)' /\ \A d \in calls' : Brings(d, t) => d = c
                     /\ \A j \in Instance : ~Records(work'[j], t)
               /\ \A j \in Instance : Records(work'[j], t) =>
                     Unused(t)' /\ \A k \in Instance : Records(work'[k], t) => k = j
        BY <1>13, <2>1, <2>2, <2>3 DEF RefsInv, NewRefs
  <2>. QED BY <2>3 DEF NewRefs
<1>. QED BY <1>9, <1>10, <1>11, <1>12, <1>14 DEF RefsInv

(* The purge selects, strips or appends. *)
LEMMA PurgeKeepsRefs ==
    ASSUME RefsInv, ~Postgres, NEW i \in Instance, OneMoves(i),
           work[i].op = "purge" \/ (work[i].op = "none" /\ WriterFree(i)),
           rows' = rows, calls' = calls, tickets' = tickets, work'[i].op = "purge",
           \A q \in DOMAIN work'[i].todo : work'[i].todo[q].refs = rows[q].refs,
           \A q \in DOMAIN dirty'[i] : dirty'[i][q].refs = rows[q].refs
    PROVE  RefsInv'
<1>1. /\ ~IsWriting(work'[i]) /\ \A t : ~Records(work'[i], t)
      /\ work'[i].op # "sync"
      BY NotWriting DEF Records
<1>2. ASSUME NEW j \in Instance, j # i
      PROVE  /\ work'[j] = work[j] /\ dirty'[j] = dirty[j]
             /\ ~InTransaction(j) /\ ~InTransaction(j)'
  <2>1. work'[j] = work[j] /\ dirty'[j] = dirty[j]
        BY <1>2 DEF OneMoves
  <2>2. ~InTransaction(j)
        BY <1>2 DEF RefsInv, PurgeRefs, WriterFree
  <2>. QED BY <2>1, <2>2 DEF InTransaction
<1>3. RowRefs'
      BY DEF RefsInv, RowRefs, Arrived
<1>4. WriteRefs'
      BY <1>1, <1>2 DEF RefsInv, WriteRefs
<1>5. PurgeRefs'
  <2>1. \A j \in Instance : work'[j].op = "purge" => j = i
        BY <1>2 DEF InTransaction
  <2>. QED BY <1>2, <2>1 DEF PurgeRefs
<1>6. SyncRefs'
      BY <1>1, <1>2 DEF RefsInv, SyncRefs
<1>7. \A t : Unused(t) => Unused(t)'
      BY <1>1, <1>2 DEF Unused, Arrived
<1>8. NewRefs'
  <2>1. \A t : \A j \in Instance : Records(work'[j], t) => Records(work[j], t)
        BY <1>1, <1>2
  <2>. QED BY <1>7, <2>1 DEF RefsInv, NewRefs
<1>. QED BY <1>3, <1>4, <1>5, <1>6, <1>8 DEF RefsInv

LEMMA PurgeTickRefs ==
    ASSUME FlowInv, RefsInv, ~Postgres, NEW i \in Instance, PurgeTick(i)
    PROVE  RefsInv'
<1>. DEFINE found == {q \in Query : Purgeable(q)}
            job == [op |-> "purge", todo |-> [q \in found |-> rows[q]],
                    append |-> FALSE, phase |-> "selected"]
<1>1. /\ WriterFree(i) /\ Idle(i) /\ work' = [work EXCEPT ![i] = job]
      /\ rows' = rows /\ calls' = calls /\ tickets' = tickets /\ dirty' = dirty
      BY DEF PurgeTick, Ask
<1>2. work[i].op = "none" /\ OneMoves(i) /\ work'[i] = job
      BY <1>1 DEF FlowInv, HandlersFit, Idle, NoWork, OneMoves
<1>3. dirty'[i] = NothingDirty
      BY <1>1, <1>2, Kinds DEF FlowInv, HandlersFit, Fit, RowOps
<1>4. \A q \in DOMAIN dirty'[i] : dirty'[i][q].refs = rows[q].refs
      BY <1>3 DEF NothingDirty
<1>5. work'[i].op = "purge" /\ \A q \in DOMAIN work'[i].todo : work'[i].todo[q].refs = rows[q].refs
      BY <1>2
<1>. QED BY <1>1, <1>2, <1>4, <1>5, PurgeKeepsRefs

LEMMA PurgeUpdateRefs ==
    ASSUME FlowInv, RefsInv, NEW i \in Instance, PurgeUpdate(i)
    PROVE  RefsInv'
<1>1. work[i].op = "purge" /\ rows' = rows /\ calls' = calls /\ tickets' = tickets
      BY DEF PurgeUpdate
<1>2. /\ IsPurging(work[i]) /\ IsRowMap(work[i].todo) /\ ~Postgres
      /\ \A r \in DOMAIN work[i].todo : work[i].todo[r].refs = rows[r].refs
      /\ \A r \in DOMAIN dirty[i] : dirty[i][r].refs = rows[r].refs
      BY <1>1, PurgeFit DEF RefsInv, PurgeRefs
<1>3. PICK q \in NextRow(i) :
         /\ dirty' = [dirty EXCEPT ![i] =
               [r \in DOMAIN dirty[i] \cup {q} |->
                  IF r = q THEN Purged(work[i].todo[q]) ELSE dirty[i][r]]]
         /\ work' = [work EXCEPT
               ![i].todo = [r \in DOMAIN work[i].todo \ {q} |-> work[i].todo[r]],
               ![i].phase = IF work[i].append THEN "selected" ELSE "written"]
      BY DEF PurgeUpdate
<1>. DEFINE todo == work[i].todo
            rest == [r \in DOMAIN todo \ {q} |-> todo[r]]
            ups == [r \in DOMAIN dirty[i] \cup {q} |->
                      IF r = q THEN Purged(todo[q]) ELSE dirty[i][r]]
            phase == IF work[i].append THEN "selected" ELSE "written"
<1>4. q \in DOMAIN todo /\ IsRow(todo[q])
      BY <1>1, <1>2, <1>3 DEF NextRow, IsRowMap
<1>5. /\ OneMoves(i) /\ dirty'[i] = ups
      /\ work'[i] = [work[i] EXCEPT !.todo = rest, !.phase = phase]
      BY <1>3 DEF FlowInv, HandlersFit, OneMoves
<1>6. Purged(todo[q]).refs = rows[q].refs
  <2>1. Purged(todo[q]).refs = todo[q].refs
        BY <1>4 DEF Purged, IsRow
  <2>. QED BY <1>2, <1>4, <2>1
<1>7. \A r \in DOMAIN ups : ups[r].refs = rows[r].refs
      BY <1>2, <1>6
<1>8. \A r \in DOMAIN rest : rest[r].refs = rows[r].refs
      BY <1>2
<1>9. work'[i].op = "purge" /\ work'[i].todo = rest
  <2>. HIDE DEF rest, phase
  <2>. QED BY <1>2, <1>5 DEF IsPurging
<1>. HIDE DEF rest, ups
<1>. QED BY <1>1, <1>2, <1>5, <1>7, <1>8, <1>9, PurgeKeepsRefs

LEMMA PurgeAppendRefs ==
    ASSUME FlowInv, RefsInv, NEW i \in Instance, PurgeAppend(i)
    PROVE  RefsInv'
<1>1. /\ work[i].op = "purge" /\ rows' = rows /\ calls' = calls /\ tickets' = tickets
      /\ dirty' = dirty
      BY DEF PurgeAppend
<1>2. /\ IsPurging(work[i]) /\ ~Postgres
      /\ \A r \in DOMAIN work[i].todo : work[i].todo[r].refs = rows[r].refs
      /\ \A r \in DOMAIN dirty[i] : dirty[i][r].refs = rows[r].refs
      BY <1>1, PurgeFit DEF RefsInv, PurgeRefs
<1>3. OneMoves(i) /\ work'[i] = [work[i] EXCEPT !.append = TRUE, !.phase = "selected"]
      BY <1>1 DEF FlowInv, HandlersFit, PurgeAppend, OneMoves
<1>4. work'[i].op = "purge" /\ work'[i].todo = work[i].todo
      BY <1>2, <1>3 DEF IsPurging
<1>. QED BY <1>1, <1>2, <1>3, <1>4, PurgeKeepsRefs

LEMMA PurgeCommitRefs ==
    ASSUME FlowInv, NoneIsNoRow, RefsInv, NEW i \in Instance, PurgeCommit(i)
    PROVE  RefsInv'
<1>1. /\ work[i].op = "purge" /\ Done(i) /\ calls' = calls /\ tickets' = tickets
      /\ rows' = [q \in Query |-> IF q \in DOMAIN dirty[i] THEN dirty[i][q] ELSE rows[q]]
      BY DEF PurgeCommit
<1>2. OneMoves(i) /\ Light(work'[i])
      BY <1>1 DEF FlowInv, HandlersFit, Done, OneMoves, Light, NoWork
<1>3. \A q \in DOMAIN dirty[i] : /\ dirty[i][q].refs = rows[q].refs
                                 /\ dirty[i][q] # None /\ Arrived(q)
      BY <1>1, PurgeFit DEF RefsInv, PurgeRefs, IsRowMap, NoneIsNoRow, Settled, Arrived
<1>4. RefsSame
      BY <1>1, <1>3 DEF RefsSame, Arrived
<1>. QED BY <1>1, <1>2, <1>4, LightKeeps DEF CallsGo

(* The requests, and every way for a handler to end without a commit. *)
LEMMA AskRefs ==
    ASSUME FlowInv, RefsInv, NEW i \in Instance, NEW job, Ask(i, job), Light(job)
    PROVE  RefsInv'
<1>1. /\ OneMoves(i) /\ work'[i] = job /\ RefsSame
      /\ calls' = calls /\ tickets' = tickets
      BY DEF Ask, FlowInv, HandlersFit, OneMoves, RefsSame, Arrived
<1>. QED BY <1>1, LightKeeps DEF CallsGo

LEMMA RequestRefs ==
    ASSUME FlowInv, RefsInv, NEW i \in Instance, NEW q \in Query,
           \/ \E u \in User, v \in Verdicts : AskDecision(i, q, u, v)
           \/ \E r \in Role, o \in User \cup {None} : AskAssign(i, q, r, o)
           \/ \E o \in {"justified", "blocked_by_user"} : AskJustify(i, q, o)
           \/ EscalationTick(i, q)
    PROVE  RefsInv'
<1>1. ASSUME NEW u, NEW v, AskDecision(i, q, u, v) PROVE RefsInv'
  <2>. DEFINE job == [op |-> "decide", query |-> q, seen |-> DecisionState(rows[q]), by |-> u,
                      verdict |-> v, phase |-> "asked"]
  <2>1. Light(job)
        BY DEF Light
  <2>2. Ask(i, job)
        BY <1>1 DEF AskDecision
  <2>. HIDE DEF job
  <2>. QED BY <2>1, <2>2, AskRefs
<1>2. ASSUME NEW r, NEW o, AskAssign(i, q, r, o) PROVE RefsInv'
  <2>. DEFINE job == [op |-> "assign", query |-> q, seen |-> DecisionState(rows[q]),
                      role |-> r, owner |-> o, phase |-> "asked"]
  <2>1. Light(job)
        BY DEF Light
  <2>2. Ask(i, job)
        BY <1>2 DEF AskAssign
  <2>. HIDE DEF job
  <2>. QED BY <2>1, <2>2, AskRefs
<1>3. ASSUME NEW o, AskJustify(i, q, o) PROVE RefsInv'
  <2>. DEFINE job == [op |-> "justify", query |-> q, outcome |-> o, phase |-> "asked"]
  <2>1. Light(job)
        BY DEF Light
  <2>2. Ask(i, job)
        BY <1>3 DEF AskJustify
  <2>. HIDE DEF job
  <2>. QED BY <2>1, <2>2, AskRefs
<1>4. ASSUME EscalationTick(i, q) PROVE RefsInv'
  <2>. DEFINE job == [op |-> "escalate", query |-> q, phase |-> "asked"]
  <2>1. Light(job)
        BY DEF Light
  <2>2. Ask(i, job)
        BY <1>4 DEF EscalationTick
  <2>. HIDE DEF job
  <2>. QED BY <2>1, <2>2, AskRefs
<1>. QED BY <1>1, <1>2, <1>3, <1>4

LEMMA EndsRefs ==
    ASSUME FlowInv, RefsInv, NEW i \in Instance, TimeOut(i) \/ Fail(i) \/ Crash(i)
    PROVE  RefsInv'
<1>1. Done(i) /\ rows' = rows /\ calls' \subseteq calls /\ tickets' = tickets
      BY DEF TimeOut, Fail, Crash
<1>. QED BY <1>1, EndRefs DEF CallsGo

LEMMA IngestRefs ==
    ASSUME FlowInv, RefsInv, NEW i \in Instance, NEW q \in Query, NEW s, NEW r, NEW raw,
           Ingest(i, q, s, r, raw)
    PROVE  RefsInv'
<1>. DEFINE row == [status |-> s, by |-> None, owner |-> None,
                    role |-> IF s \in Routable THEN r ELSE None,
                    token |-> s \in Held \/ (s = "redacted" /\ raw),
                    sealed |-> raw /\ s # "destination_blocked",
                    escalated |-> FALSE, purged |-> FALSE, refs |-> NoRefs]
<1>1. /\ Idle(i) /\ ~Arrived(q) /\ work' = work /\ dirty' = dirty /\ tickets' = tickets
      /\ rows' = [rows EXCEPT ![q] = row]
      /\ calls' = calls \cup Announce(i, q, s, "routed")
      BY DEF Ingest
<1>2. DOMAIN row.refs = {}
  <2>1. row.refs = NoRefs
        OBVIOUS
  <2>. HIDE DEF row
  <2>. QED BY <2>1 DEF NoRefs
<1>. HIDE DEF row
<1>3. OneMoves(i) /\ Light(work'[i])
      BY <1>1 DEF OneMoves, Light, Idle, NoWork
<1>4. RefsSame
      BY <1>1, <1>2 DEF FlowInv, RowsShaped, RefsSame, Arrived
<1>5. CallsGo
      BY <1>1 DEF CallsGo, Announce
<1>. QED BY <1>1, <1>3, <1>4, <1>5, LightKeeps
-----------------------------------------------------------------------------
(* Trackers and the calls to them. *)

\* A call that goes on, with what its answer brings.
Answers(c) ==
    /\ c.op # "notify" => /\ c.op = "sync"
                          /\ c.step = "sending" => Real(tickets', c.seen)
                          /\ c.step = "answered" => Fetched(tickets', c.seen, c.refs)
    /\ \A t : t # 0 /\ Brings(c, t) => t \in DOMAIN tickets' \ DOMAIN tickets

(* Whatever happens outside the handlers: an issue is new, or moves on, and  *)
(* at most one call is replaced.                                             *)
LEMMA OutsideKeeps ==
    ASSUME RefsInv, rows' = rows, work' = work, dirty' = dirty,
           tickets' \in Seq(Nat), Grown(tickets, tickets'),
           NEW new, \A c \in calls' : c \in calls \/ (c = new /\ Answers(c))
    PROVE  RefsInv'
<1>1. \A refs : Real(tickets, refs) => Real(tickets', refs)
      BY RealGrows DEF RefsInv, RowRefs
<1>2. \A seen, refs : Fetched(tickets, seen, refs) => Fetched(tickets', seen, refs)
      BY <1>1 DEF Fetched
<1>3. RowRefs'
      BY <1>1 DEF RefsInv, RowRefs, Arrived
<1>4. WriteRefs'
      BY <1>1 DEF RefsInv, WriteRefs
<1>5. PurgeRefs'
      BY DEF RefsInv, PurgeRefs, InTransaction
<1>6. SyncRefs'
      BY <1>1, <1>2 DEF RefsInv, SyncRefs, Answers
<1>7. \A t : Unused(t) => Unused(t)'
      BY DEF Unused, Grown, Arrived
<1>8. ASSUME NEW t, t \in DOMAIN tickets' \ DOMAIN tickets
      PROVE  /\ Unused(t)' /\ \A i \in Instance : ~(t # 0 /\ Records(work[i], t))
             /\ \A c \in calls : ~(t # 0 /\ Brings(c, t))
  <2>1. \A q \in Query : Arrived(q) => t \notin DOMAIN rows[q].refs
        BY <1>8 DEF RefsInv, RowRefs, Real
  <2>2. \A i \in Instance : IsWriting(work[i]) => t \notin DOMAIN work[i].write.refs
        BY <1>8 DEF RefsInv, WriteRefs, Real
  <2>. QED BY <1>8, <2>1, <2>2 DEF RefsInv, NewRefs, Unused, Arrived
<1>9. NewRefs'
  <2>1. ASSUME NEW t, t # 0, NEW c \in calls', Brings(c, t)
        PROVE  /\ Unused(t)' /\ \A i \in Instance : ~Records(work[i], t)
               /\ \A d \in calls' : Brings(d, t) => d = c
    <3>1. CASE c \in calls /\ \A d \in calls' : Brings(d, t) => d \in calls
          BY <1>7, <2>1, <3>1 DEF RefsInv, NewRefs
    <3>2. CASE \E d \in calls' : d \notin calls /\ Brings(d, t)
      <4>1. t \in DOMAIN tickets' \ DOMAIN tickets
            BY <2>1, <3>2 DEF Answers
      <4>2. \A d \in calls' : Brings(d, t) => d = new
            BY <1>8, <2>1, <4>1
      <4>. QED BY <1>8, <2>1, <4>1, <4>2
    <3>. QED BY <2>1, <3>1, <3>2
  <2>2. ASSUME NEW t, t # 0, NEW i \in Instance, Records(work[i], t)
        PROVE  Unused(t)' /\ \A j \in Instance : Records(work[j], t) => j = i
        BY <1>7, <2>2 DEF RefsInv, NewRefs
  <2>. QED BY <2>1, <2>2 DEF NewRefs
<1>. QED BY <1>3, <1>4, <1>5, <1>6, <1>9 DEF RefsInv

LEMMA DeliverRefs ==
    ASSUME RefsInv, NEW c \in calls, NEW created \in BOOLEAN, NEW answered \in BOOLEAN,
           Deliver(c, created, answered)
    PROVE  RefsInv'
<1>. DEFINE new == [op |-> "notify", at |-> c.at, query |-> c.query, cause |-> c.cause,
                    step |-> "answered", ticket |-> IF answered THEN Len(tickets) + 1 ELSE 0]
<1>1. /\ rows' = rows /\ work' = work /\ dirty' = dirty
      /\ calls' = (calls \ {c}) \cup {new} /\ (answered => created)
      /\ tickets' = IF created THEN Append(tickets, 0) ELSE tickets
      BY DEF Deliver
<1>2. tickets \in Seq(Nat)
      BY DEF RefsInv, RowRefs
<1>3. tickets' \in Seq(Nat) /\ Grown(tickets, tickets')
      BY <1>1, <1>2 DEF Grown
<1>4. answered => Len(tickets) + 1 \in DOMAIN tickets' \ DOMAIN tickets
      BY <1>1, <1>2
<1>5. new.op = "notify" /\ new.ticket = IF answered THEN Len(tickets) + 1 ELSE 0
      OBVIOUS
<1>. HIDE DEF new
<1>6. Answers(new)
      BY <1>4, <1>5 DEF Answers, Brings
<1>. QED BY <1>1, <1>3, <1>6, OutsideKeeps

LEMMA SyncListRefs ==
    ASSUME RefsInv, NEW i \in Instance, NEW q \in Query, SyncList(i, q)
    PROVE  RefsInv'
<1>. DEFINE new == [op |-> "sync", at |-> i, query |-> q, step |-> "sending",
                    seen |-> rows[q].refs]
<1>1. /\ rows' = rows /\ work' = work /\ dirty' = dirty /\ tickets' = tickets
      /\ calls' = calls \cup {new} /\ Arrived(q)
      BY DEF SyncList
<1>2. tickets \in Seq(Nat) /\ Real(tickets, rows[q].refs)
      BY <1>1 DEF RefsInv, RowRefs
<1>3. Grown(tickets, tickets')
      BY <1>1, <1>2 DEF Grown
<1>4. new.op = "sync" /\ new.step = "sending" /\ new.seen = rows[q].refs
      OBVIOUS
<1>. HIDE DEF new
<1>5. Answers(new)
      BY <1>1, <1>2, <1>4 DEF Answers, Brings
<1>. QED BY <1>1, <1>2, <1>3, <1>5, OutsideKeeps

LEMMA SyncFetchRefs ==
    ASSUME RefsInv, NEW c \in calls, NEW answered, SyncFetch(c, answered)
    PROVE  RefsInv'
<1>. DEFINE refs == [t \in DOMAIN c.seen |-> IF t \in answered THEN tickets[t] ELSE c.seen[t]]
            new == [op |-> "sync", at |-> c.at, query |-> c.query, step |-> "answered",
                    seen |-> c.seen, refs |-> refs]
<1>1. /\ rows' = rows /\ work' = work /\ dirty' = dirty /\ tickets' = tickets
      /\ calls' = (calls \ {c}) \cup (IF refs = c.seen THEN {} ELSE {new})
      /\ c.op = "sync" /\ c.step = "sending"
      BY DEF SyncFetch
<1>2. tickets \in Seq(Nat) /\ Real(tickets, c.seen)
      BY <1>1 DEF RefsInv, RowRefs, SyncRefs
<1>3. Grown(tickets, tickets')
      BY <1>1, <1>2 DEF Grown
<1>4. Fetched(tickets, c.seen, refs)
      BY <1>2 DEF Fetched, Real, Ahead
<1>5. new.op = "sync" /\ new.step = "answered" /\ new.seen = c.seen /\ new.refs = refs
      OBVIOUS
<1>. HIDE DEF new, refs
<1>6. Answers(new)
      BY <1>1, <1>4, <1>5 DEF Answers, Brings
<1>7. \A d \in calls' : d \in calls \/ (d = new /\ Answers(d))
      BY <1>1, <1>6
<1>. QED BY <1>1, <1>2, <1>3, <1>7, OutsideKeeps

LEMMA IssueMovesRefs ==
    ASSUME RefsInv, NEW t, IssueMoves(t)
    PROVE  RefsInv'
<1>1. /\ rows' = rows /\ work' = work /\ dirty' = dirty /\ calls' = calls
      /\ t \in DOMAIN tickets /\ tickets' = [tickets EXCEPT ![t] = tickets[t] + 1]
      BY DEF IssueMoves
<1>2. tickets \in Seq(Nat)
      BY DEF RefsInv, RowRefs
<1>3. tickets' \in Seq(Nat) /\ Grown(tickets, tickets')
      BY <1>1, <1>2 DEF Grown
<1>. QED BY <1>1, <1>3, OutsideKeeps

(* The code after the await: what the answer brought is with the handler now. *)
LEMMA ContinueRefs ==
    ASSUME FlowInv, RefsInv, NEW c \in calls, Continue(c)
    PROVE  RefsInv'
<1>. DEFINE i == c.at
<1>1. /\ i \in Instance /\ work[i] = NoWork /\ c.step = "answered"
      /\ rows' = rows /\ dirty' = dirty /\ tickets' = tickets /\ calls' = calls \ {c}
      /\ \A j \in Instance \ {i} : work'[j] = work[j]
      BY DEF FlowInv, HandlersFit, CallsReferred, Continue, Idle
<1>2. IF c.op = "notify"
      THEN work'[i] = [op |-> "notify", query |-> c.query, ticket |-> c.ticket, phase |-> "asked"]
      ELSE work'[i] = [op |-> "sync", query |-> c.query, seen |-> c.seen, refs |-> c.refs,
                       phase |-> "asked"]
      BY <1>1 DEF FlowInv, HandlersFit, Continue
<1>3. /\ work'[i].phase = "asked" /\ work'[i].op \in {"notify", "sync"}
      /\ \A t : Records(work'[i], t) => Brings(c, t)
      /\ work'[i].op = "sync" => /\ c.op # "notify"
                                 /\ work'[i].seen = c.seen /\ work'[i].refs = c.refs
      BY <1>1, <1>2 DEF Records, Brings
<1>4. ~IsWriting(work'[i]) /\ ~InTransaction(i)' /\ work'[i].op # "purge"
      BY <1>3, NotWriting DEF InTransaction
<1>5. \A j \in Instance \ {i} : InTransaction(j)' <=> InTransaction(j)
      BY <1>1 DEF InTransaction
<1>6. RowRefs'
      BY <1>1 DEF RefsInv, RowRefs, Arrived
<1>7. WriteRefs'
      BY <1>1, <1>4 DEF RefsInv, WriteRefs
<1>8. PurgeRefs'
      BY <1>1, <1>4, <1>5 DEF RefsInv, PurgeRefs
<1>9. SyncRefs'
      BY <1>1, <1>3 DEF RefsInv, SyncRefs
<1>10. \A t : Unused(t) => Unused(t)'
       BY <1>1, <1>4 DEF Unused, Arrived
<1>11. NewRefs'
  <2>1. ASSUME NEW t, t # 0, NEW d \in calls', Brings(d, t)
        PROVE  /\ Unused(t)' /\ \A e \in calls' : Brings(e, t) => e = d
               /\ \A j \in Instance : ~Records(work'[j], t)
    <3>1. /\ Unused(t) /\ ~Brings(c, t) /\ \A e \in calls : Brings(e, t) => e = d
          /\ \A j \in Instance : ~Records(work[j], t)
          BY <1>1, <2>1 DEF RefsInv, NewRefs
    <3>. QED BY <1>1, <1>3, <1>10, <3>1
  <2>2. ASSUME NEW t, t # 0, NEW j \in Instance, Records(work'[j], t)
        PROVE  Unused(t)' /\ \A k \in Instance : Records(work'[k], t) => k = j
    <3>1. CASE j = i
      <4>1. Unused(t) /\ \A k \in Instance : ~Records(work[k], t)
            BY <1>3, <2>2, <3>1 DEF RefsInv, NewRefs
      <4>. QED BY <1>1, <1>10, <3>1, <4>1
    <3>2. CASE j # i
      <4>1. /\ Records(work[j], t) /\ ~Brings(c, t)
            /\ Unused(t) /\ \A k \in Instance : Records(work[k], t) => k = j
            BY <1>1, <2>2, <3>2 DEF RefsInv, NewRefs
      <4>. QED BY <1>1, <1>3, <1>10, <3>2, <4>1
    <3>. QED BY <3>1, <3>2
  <2>. QED BY <2>1, <2>2 DEF NewRefs
<1>. QED BY <1>6, <1>7, <1>8, <1>9, <1>11 DEF RefsInv
-----------------------------------------------------------------------------
LEMMA RefsStart ==
    ASSUME Init
    PROVE  RefsInv
<1>1. \A i \in Instance : work[i] = NoWork /\ work[i].op = "none"
      BY DEF Init, NoWork
<1>2. \A i \in Instance : ~IsWriting(work[i]) /\ \A t : ~Records(work[i], t)
      BY <1>1, NotWriting DEF Records
<1>3. RowRefs
      BY DEF Init, RowRefs, Arrived
<1>4. WriteRefs /\ PurgeRefs
      BY <1>1, <1>2 DEF WriteRefs, PurgeRefs
<1>5. SyncRefs /\ NewRefs
      BY <1>1, <1>2 DEF Init, SyncRefs, NewRefs
<1>. QED BY <1>3, <1>4, <1>5 DEF RefsInv

LEMMA RefsStep ==
    ASSUME FlowInv, NoneIsNoRow, ~Postgres \/ "purge" \notin Ops, RefsInv, Next
    PROVE  RefsInv'
<1>1. ASSUME NEW i \in Instance, NEW q \in Query,
             \/ \E u \in User, v \in Verdicts : AskDecision(i, q, u, v)
             \/ \E r \in AssignableRoles, o \in User \cup {None} : AskAssign(i, q, r, o)
             \/ \E o \in Outcomes : AskJustify(i, q, o)
             \/ EscalationTick(i, q)
      PROVE  RefsInv'
      BY <1>1, RequestRefs DEF AssignableRoles, Outcomes
<1>2. ASSUME NEW i \in Instance, NEW q \in Query, NEW s \in Arrivals,
             NEW r \in {"approver", "security_admin"}, NEW raw \in Sealing,
             Ingest(i, q, s, r, raw)
      PROVE  RefsInv'
      BY <1>2, IngestRefs
<1>3. ASSUME NEW i \in Syncing, NEW q \in Query, SyncList(i, q)
      PROVE  RefsInv'
      BY <1>3, SyncListRefs DEF Syncing
<1>4. ASSUME NEW i \in Instance, PurgeTick(i)
      PROVE  RefsInv'
  <2>1. "purge" \in Ops
        BY <1>4 DEF PurgeTick, Ask
  <2>. QED BY <1>4, <2>1, PurgeTickRefs
<1>5. ASSUME NEW i \in Instance, Step(i)
      PROVE  RefsInv'
      BY <1>5, LockRefs, WriteKeepsRefs, CommitRefs, PurgeUpdateRefs, PurgeAppendRefs,
         PurgeCommitRefs DEF Step
<1>6. ASSUME NEW i \in Instance, TimeOut(i) \/ Fail(i) \/ Crash(i)
      PROVE  RefsInv'
      BY <1>6, EndsRefs
<1>7. ASSUME NEW c \in calls, NEW created \in BOOLEAN, NEW answered \in BOOLEAN,
             Deliver(c, created, answered)
      PROVE  RefsInv'
      BY <1>7, DeliverRefs
<1>8. ASSUME NEW c \in calls, NEW S, SyncFetch(c, S)
      PROVE  RefsInv'
      BY <1>8, SyncFetchRefs
<1>9. ASSUME NEW c \in calls, Continue(c)
      PROVE  RefsInv'
      BY <1>9, ContinueRefs
<1>10. ASSUME NEW t \in Ticket, IssueMoves(t)
       PROVE  RefsInv'
       BY <1>10, IssueMovesRefs
<1>11. ASSUME NEW q \in Query, SlaElapses(q) \/ RetentionElapses(q)
       PROVE  RefsInv'
  <2>1. UNCHANGED <<rows, work, dirty, calls, tickets>>
        BY <1>11 DEF SlaElapses, RetentionElapses
  <2>. QED BY <2>1 DEF RefsInv, RowRefs, WriteRefs, PurgeRefs, SyncRefs, NewRefs, Unused,
                       Arrived, InTransaction
<1>. QED BY <1>1, <1>2, <1>3, <1>4, <1>5, <1>6, <1>7, <1>8, <1>9, <1>10, <1>11 DEF Next

LEMMA RefsGoOn ==
    ASSUME FlowInv, AuditShaped, NoneIsNoRow, RefsInv, Next
    PROVE  \A q \in Query : Arrived(q) => Ahead(rows[q].refs, rows'[q].refs)
<1>1. \A q \in Query : Arrived(q) => Ahead(rows[q].refs, rows[q].refs)
      BY AheadOfItself DEF RefsInv, RowRefs
<1>2. CASE rows' = rows
      BY <1>1, <1>2
<1>3. ASSUME NEW i \in Instance, Commits(i)
      PROVE  \A q \in Query : Arrived(q) => Ahead(rows[q].refs, rows'[q].refs)
      BY <1>1, <1>3 DEF Commits, RefsInv, WriteRefs
<1>4. ASSUME NEW i \in Instance, PurgeEnds(i)
      PROVE  \A q \in Query : Arrived(q) => Ahead(rows[q].refs, rows'[q].refs)
      BY <1>1, <1>4 DEF PurgeEnds, RefsInv, PurgeRefs
<1>5. CASE Arrives
      BY <1>1, <1>5 DEF Arrives
<1>. QED BY <1>2, <1>3, <1>4, <1>5, Effects
         DEF OutOfTransaction, Locks, Writes, Purges

(* An issue that a record refers to stays in it, and the state it has there  *)
(* never goes back, although a sync compares the record with what it listed  *)
(* before its await, a delivery adds to whatever is there by then, and all   *)
(* of them write the whole record (syncTicketStatuses,                       *)
(* emitAndPersistApprovalNotification).  Without the assumption it is false: *)
(* on Postgres a purge that selected the record before a delivery committed  *)
(* writes the references back that it read.                                  *)
THEOREM ReferencesAdvance ==
    ASSUME NoneIsNoRow, ~Postgres \/ "purge" \notin Ops
    PROVE  SafetySpec => RefsAdvance
<1>1. Init => AuditShaped /\ EvidenceCurrent /\ RefsInv
      BY EvidenceStarts, RefsStart
<1>2. FlowInv /\ AuditShaped /\ EvidenceCurrent /\ [Next]_vars => AuditShaped' /\ EvidenceCurrent'
      BY EvidenceStep DEF EvidenceInv, FlowInv
<1>3. FlowInv /\ AuditShaped /\ RefsInv /\ [Next]_vars
          => /\ RefsInv'
             /\ [\A q \in Query : Arrived(q) =>
                    \A t \in DOMAIN rows[q].refs :
                        t \in DOMAIN rows'[q].refs /\ rows[q].refs[t] <= rows'[q].refs[t]]_vars
  <2>1. CASE UNCHANGED vars
        BY <2>1 DEF vars, RefsInv, RowRefs, WriteRefs, PurgeRefs, SyncRefs, NewRefs, Unused,
                    Arrived, InTransaction
  <2>. QED BY <2>1, RefsStep, RefsGoOn DEF Ahead
<1>. QED BY <1>1, <1>2, <1>3, FlowHolds, PTL DEF SafetySpec, RefsAdvance
=============================================================================
