----------------------------- MODULE AuditAnchor -----------------------------
(***************************************************************************)
(* The pending high-water protocol that keeps RedactWall's audit log       *)
(* tamper evident across crashes: server/audit-anchor.js, the transaction  *)
(* adapter of server/storage/index.js and the append path of server/db.js. *)
(*                                                                         *)
(* Control-plane processes share one database and three sidecar files.  A  *)
(* transaction that appended audit rows publishes an authenticated         *)
(* "pending" mark of the row count and head it is about to commit, under   *)
(* the coordination lock, before COMMIT; a later verification moves the    *)
(* "checkpoint" up to the committed tail and removes the mark.             *)
(*                                                                         *)
(* Abstractions.  An audit row is its id: ids are unique and a row's hash  *)
(* covers its predecessor, so the id of the last row stands for the head   *)
(* hash, and a row's position stands for its seq.  HMACs are unforgeable   *)
(* and are left out.  The state file is the version-2 state that           *)
(* initialization leaves (checkpointCreated and pendingProtocol TRUE).     *)
(* The lock is the ideal lock that FileMutationLock.tla (SQLite) or the    *)
(* advisory transaction lock (Postgres) is meant to be; a dead owner's     *)
(* lock counts as free.                                                    *)
(***************************************************************************)
EXTENDS Integers, Sequences

CONSTANTS
    Proc,             \* control-plane processes
    Absent,           \* a sidecar that is not there, a lock nobody holds
    Postgres,         \* TRUE: Postgres driver, FALSE: SQLite driver
    TailLoss,         \* TRUE: committed rows may be lost while nobody runs
    TornPublication,  \* TRUE: a publication may stop between its two renames
    MaxRows,          \* bound on the row ids ever allocated
    MaxBatch          \* bound on the audit rows of one transaction

Mark == [count : Nat, head : Nat]

ASSUME ConstantsAssumption ==
    /\ Absent \notin Mark /\ Absent \notin Proc
    /\ Postgres \in BOOLEAN /\ TailLoss \in BOOLEAN /\ TornPublication \in BOOLEAN
    /\ MaxRows \in Nat /\ MaxBatch \in Nat

VARIABLES
    audit,               \* the committed rows of the audit table
    history,             \* ghost: every row whose COMMIT was applied, in order
    lastId,              \* the last row id allocated
    checkpoint,          \* the checkpoint sidecar
    pending,             \* the pending sidecar
    twoNames,            \* the sidecars a stopped publication left under a second name
    lock,                \* the process that holds the coordination lock
    writer,              \* SQLite: the process with the BEGIN IMMEDIATE slot
    pc,                  \* what each process is doing
    ctx,                 \* what called the verification in progress
    rows,                \* rows appended by the open transaction
    backup,              \* the sidecar a publication has renamed away
    lastError,           \* lastError is set
    requiredCheckpoint,  \* the mark whose publication has not succeeded yet
    scheduled            \* a setImmediate verification is queued

shared == <<audit, history, lastId, checkpoint, pending, twoNames>>
locks  == <<lock, writer>>
local  == <<pc, ctx, rows, backup>>
memory == <<lastError, requiredCheckpoint, scheduled>>
vars   == <<shared, locks, local, memory>>

------------------------------------------------------------------------------
(* Marks and tails *)

HeadOf(tail) == IF tail = <<>> THEN 0 ELSE tail[Len(tail)]
MarkOf(tail) == [count |-> Len(tail), head |-> HeadOf(tail)]

\* exactHighWaterFailureUnlocked returns null: the marked row is in the table.
RowPresent(mark, tail) ==
    mark # Absent /\ mark.count # 0 =>
        mark.count <= Len(tail) /\ tail[mark.count] = mark.head

\* missingPendingFailureUnlocked returns null.
NoMissingPending(tail) == pending = Absent => Len(tail) <= checkpoint.count

\* The sidecar and tail checks common to verifyDatabase and advanceCheckpoint;
\* a missing checkpoint is never bootstrapped again, and a sidecar whose
\* temporary name is still there is no single regular file: reading it throws.
TailConsistent(required) ==
    /\ twoNames = {}
    /\ checkpoint # Absent
    /\ RowPresent(pending, audit)
    /\ NoMissingPending(audit)
    /\ RowPresent(required, audit)
    /\ checkpoint.count <= Len(audit)

\* The verification of the whole chain accepts the database.
VerifyAccepts(required) ==
    /\ TailConsistent(required)
    /\ RowPresent(checkpoint, audit)

\* advanceCheckpoint accepts it: only rows beyond the checkpoint are read, the
\* first of them must extend the checkpoint's head.
AdvanceAccepts(required) ==
    /\ TailConsistent(required)
    /\ checkpoint.count < Len(audit) => RowPresent(checkpoint, audit)

\* durableHighWater
Durable ==
    IF pending = Absent \/ checkpoint.count >= pending.count THEN checkpoint ELSE pending

\* Mutant: only the checkpoint is compared with the table.
PrepareAccepts_CheckpointOnly(p) == checkpoint = MarkOf(audit)

\* What prepareTransactionCommit demands of the sidecars before it publishes.
PrepareAccepts(p) ==
    /\ twoNames = {}
    /\ checkpoint # Absent
    /\ RowPresent(pending, audit \o rows[p])
    /\ checkpoint.count <= Len(audit)
    /\ pending # Absent => /\ pending.count <= Len(audit)
                           /\ checkpoint.count = pending.count => checkpoint = pending
    /\ Durable = MarkOf(audit)

Healthy(p) == ~lastError[p] /\ requiredCheckpoint[p] = Absent

------------------------------------------------------------------------------
TypeOK ==
    /\ audit \in Seq(Nat) /\ history \in Seq(Nat) /\ lastId \in Nat
    /\ checkpoint \in Mark \union {Absent}
    /\ pending \in Mark \union {Absent}
    /\ twoNames \subseteq {"checkpoint", "pending"}
    /\ lock \in Proc \union {Absent}
    /\ writer \in Proc \union {Absent}
    /\ pc \in [Proc -> {"down", "idle", "open", "ready", "pending", "prepared",
                        "applied", "checkpoint", "clear"}]
    /\ ctx \in [Proc -> {"start", "verify", "advance", "tx"}]
    /\ rows \in [Proc -> Seq(Nat)]
    /\ \A p \in Proc : pc[p] \notin {"ready", "pending", "prepared", "applied"}
                          => rows[p] = <<>>
    /\ backup \in [Proc -> Mark \union {Absent}]
    /\ lastError \in [Proc -> BOOLEAN]
    /\ requiredCheckpoint \in [Proc -> Mark \union {Absent}]
    /\ scheduled \in [Proc -> BOOLEAN]

\* The state initialization leaves behind: an empty table, its checkpoint, and
\* processes that are not running yet.
Init ==
    /\ audit = <<>> /\ history = <<>> /\ lastId = 0
    /\ checkpoint = [count |-> 0, head |-> 0]
    /\ pending = Absent /\ twoNames = {}
    /\ lock = Absent /\ writer = Absent
    /\ pc = [p \in Proc |-> "down"]
    /\ ctx = [p \in Proc |-> "start"]
    /\ rows = [p \in Proc |-> <<>>]
    /\ backup = [p \in Proc |-> Absent]
    /\ lastError = [p \in Proc |-> FALSE]
    /\ requiredCheckpoint = [p \in Proc |-> Absent]
    /\ scheduled = [p \in Proc |-> FALSE]

Goto(p, label) == pc' = [pc EXCEPT ![p] = label]
Remember(p, failed) == lastError' = [lastError EXCEPT ![p] = failed]
Release(l, p) == IF l = p THEN Absent ELSE l

\* Mutant: the transaction frame is not dropped.
EndTransaction_FrameKept(p) ==
    /\ Goto(p, "idle")
    /\ writer' = Release(writer, p)
    /\ lock' = Release(lock, p)
    /\ UNCHANGED rows

\* The transaction leaves the process: rolled back, committed or uncertain.
EndTransaction(p) ==
    /\ Goto(p, "idle")
    /\ rows' = [rows EXCEPT ![p] = <<>>]
    /\ writer' = Release(writer, p)
    /\ lock' = Release(lock, p)

------------------------------------------------------------------------------
(* verifyDatabase and advanceCheckpoint *)

\* Who may call it now: module load (start), an integrity endpoint (verify),
\* the setImmediate callback (advance), or requireMutationReady inside an open
\* transaction (tx), which Postgres calls every time and SQLite when unhealthy.
MayVerify(p, c) ==
    CASE c = "start"   -> pc[p] = "down"
      [] c = "verify"  -> pc[p] = "idle"
      [] c = "advance" -> pc[p] = "idle" /\ (scheduled[p] \/ Postgres)
      [] c = "tx"      -> pc[p] = "open" /\ (Postgres \/ ~Healthy(p))

Accepts(p, c) ==
    IF c \in {"start", "verify"} THEN VerifyAccepts(requiredCheckpoint[p])
                                 ELSE AdvanceAccepts(requiredCheckpoint[p])

\* The setImmediate callback runs; Postgres also advances from auditHealth,
\* which may leave a queued callback queued.
Unqueue(p, c) ==
    \/ scheduled' = IF c = "advance" THEN [scheduled EXCEPT ![p] = FALSE] ELSE scheduled
    \/ c = "advance" /\ Postgres /\ scheduled' = scheduled

\* The check passed and the tail is beyond the checkpoint: the new mark is
\* remembered, and the publication renames the old checkpoint away.
VerifyPublishes(p, c) ==
    /\ MayVerify(p, c)
    /\ lock = Absent
    /\ Accepts(p, c)
    /\ checkpoint.count # Len(audit)
    /\ requiredCheckpoint' = [requiredCheckpoint EXCEPT ![p] =
           IF @ = Absent \/ Len(audit) >= @.count THEN MarkOf(audit) ELSE @]
    /\ backup' = [backup EXCEPT ![p] = checkpoint]
    /\ checkpoint' = Absent
    /\ lock' = p
    /\ ctx' = [ctx EXCEPT ![p] = c]
    /\ Goto(p, "checkpoint")
    /\ Unqueue(p, c)
    /\ UNCHANGED <<audit, history, lastId, pending, twoNames, writer, rows, lastError>>

\* The check passed and the checkpoint is already at the tail.
VerifyCurrent(p, c) ==
    /\ MayVerify(p, c)
    /\ lock = Absent
    /\ Accepts(p, c)
    /\ checkpoint.count = Len(audit)
    /\ requiredCheckpoint' = [requiredCheckpoint EXCEPT ![p] =
           IF @ # Absent /\ checkpoint.count >= @.count THEN Absent ELSE @]
    /\ lock' = p
    /\ ctx' = [ctx EXCEPT ![p] = c]
    /\ Goto(p, "clear")
    /\ Unqueue(p, c)
    /\ UNCHANGED <<shared, writer, rows, backup, lastError>>

\* A verification that failed: a process that was starting stays down (module
\* load throws), a transaction is rolled back, any other caller reports.
Refuse(p, c) ==
    IF c = "start"
    THEN /\ Goto(p, "down") /\ lock' = Release(lock, p)
         /\ requiredCheckpoint' = [requiredCheckpoint EXCEPT ![p] = Absent]
         /\ UNCHANGED <<writer, rows, lastError>>
    ELSE /\ EndTransaction(p) /\ Remember(p, TRUE)
         /\ UNCHANGED requiredCheckpoint

\* Mutant: a lock that could not be had in time is no error.
VerifyRefused_TimeoutIgnored(p, c) ==
    /\ c # "start"
    /\ MayVerify(p, c)
    /\ \/ lock = Absent /\ ~Accepts(p, c) /\ Refuse(p, c)
       \/ lock \notin {Absent, p} /\ EndTransaction(p) /\ UNCHANGED <<lastError, requiredCheckpoint>>
    /\ Unqueue(p, c)
    /\ UNCHANGED <<shared, ctx, backup>>

\* A check failed, or the lock could not be had in time.  A refused start
\* leaves everything as it was and is no step.
VerifyRefused(p, c) ==
    /\ c # "start"
    /\ MayVerify(p, c)
    /\ \/ lock = Absent /\ ~Accepts(p, c)
       \/ lock \notin {Absent, p}
    /\ Refuse(p, c)
    /\ Unqueue(p, c)
    /\ UNCHANGED <<shared, ctx, backup>>

\* Mutant: the row that made the caller verify is left out of the checkpoint.
CheckpointPublished_OneBehind(p) ==
    /\ pc[p] = "checkpoint"
    /\ checkpoint' = MarkOf(SubSeq(audit, 1, Len(audit) - 1))
    /\ requiredCheckpoint' = [requiredCheckpoint EXCEPT ![p] = Absent]
    /\ backup' = [backup EXCEPT ![p] = Absent]
    /\ Goto(p, "clear")
    /\ UNCHANGED <<audit, history, lastId, pending, twoNames, locks, ctx, rows, lastError, scheduled>>

\* publishCheckpointUnlocked: the new checkpoint is linked into place.
CheckpointPublished(p) ==
    /\ pc[p] = "checkpoint"
    /\ checkpoint' = MarkOf(audit)
    /\ requiredCheckpoint' = [requiredCheckpoint EXCEPT ![p] =
           IF @ # Absent /\ Len(audit) >= @.count THEN Absent ELSE @]
    /\ backup' = [backup EXCEPT ![p] = Absent]
    /\ Goto(p, "clear")
    /\ UNCHANGED <<audit, history, lastId, pending, twoNames, locks, ctx, rows, lastError, scheduled>>

\* The publication threw: the prior checkpoint was restored, or the rollback
\* failed as well and left none, or left the new one; what is there may have
\* kept the second name it was linked from.
CheckpointFailed(p) ==
    /\ pc[p] = "checkpoint"
    /\ \/ /\ checkpoint' \in {backup[p], MarkOf(audit)}
          /\ twoNames' \in {twoNames, twoNames \union {"checkpoint"}}
       \/ TornPublication /\ checkpoint' = Absent /\ UNCHANGED twoNames
    /\ backup' = [backup EXCEPT ![p] = Absent]
    /\ Refuse(p, ctx[p])
    /\ UNCHANGED <<audit, history, lastId, pending, ctx, scheduled>>

\* clearPendingIfCoveredUnlocked, then the caller goes on: a Postgres
\* transaction keeps the advisory lock until it ends.
PendingCleared(p) ==
    /\ pc[p] = "clear"
    /\ pending' = IF pending # Absent /\ checkpoint.count >= pending.count
                  THEN Absent ELSE pending
    /\ Remember(p, FALSE)
    /\ Goto(p, IF ctx[p] = "tx" THEN "ready" ELSE "idle")
    /\ lock' = IF ctx[p] = "tx" /\ Postgres THEN lock ELSE Absent
    /\ UNCHANGED <<audit, history, lastId, checkpoint, twoNames, writer, ctx, rows, backup,
                   requiredCheckpoint, scheduled>>

\* Removing the covered mark threw, before or after the unlink.
PendingClearFailed(p) ==
    /\ pc[p] = "clear"
    /\ pending # Absent /\ checkpoint.count >= pending.count
    /\ pending' \in {pending, Absent}
    /\ Refuse(p, ctx[p])
    /\ UNCHANGED <<audit, history, lastId, checkpoint, twoNames, ctx, backup, scheduled>>

------------------------------------------------------------------------------
(* Audit-coupled transactions *)

\* The outermost transaction begins; SQLite takes the single writer slot.
Begin(p) ==
    /\ pc[p] = "idle"
    /\ IF Postgres THEN UNCHANGED writer ELSE writer = Absent /\ writer' = p
    /\ Goto(p, "open")
    /\ UNCHANGED <<shared, lock, ctx, rows, backup, memory>>

\* requireMutationReady on SQLite when nothing is wrong in this process.
MutationReady(p) ==
    /\ pc[p] = "open"
    /\ ~Postgres /\ Healthy(p)
    /\ Goto(p, "ready")
    /\ UNCHANGED <<shared, locks, ctx, rows, backup, memory>>

\* appendAuditRecord, inside the transaction.
AppendRow(p) ==
    /\ pc[p] = "ready"
    /\ Len(rows[p]) < MaxBatch /\ lastId < MaxRows
    /\ lastId' = lastId + 1
    /\ rows' = [rows EXCEPT ![p] = Append(@, lastId + 1)]
    /\ UNCHANGED <<audit, history, checkpoint, pending, twoNames, locks, pc, ctx, backup, memory>>

\* The callback threw or appended nothing; or, on Postgres, the advisory lock
\* timed out; or, on SQLite, the file lock did while the commit was prepared.
\* None of these sets lastError.
RollBack(p) ==
    /\ pc[p] \in {"open", "ready"}
    /\ EndTransaction(p)
    /\ UNCHANGED <<shared, ctx, backup, memory>>

\* prepareTransactionCommit: the checks pass and the publication of the pending
\* mark renames the previous one away.
PrepareCommit(p) ==
    /\ pc[p] = "ready" /\ rows[p] # <<>>
    /\ lock = IF Postgres THEN p ELSE Absent
    /\ PrepareAccepts(p)
    /\ lock' = p
    /\ backup' = [backup EXCEPT ![p] = pending]
    /\ pending' = Absent
    /\ Goto(p, "pending")
    /\ UNCHANGED <<audit, history, lastId, checkpoint, twoNames, writer, ctx, rows, memory>>

PrepareRefused(p) ==
    /\ pc[p] = "ready" /\ rows[p] # <<>>
    /\ lock = IF Postgres THEN p ELSE Absent
    /\ ~PrepareAccepts(p)
    /\ EndTransaction(p) /\ Remember(p, TRUE)
    /\ UNCHANGED <<shared, ctx, backup, requiredCheckpoint, scheduled>>

\* Mutant: the mark is the tail the transaction started from.
PendingPublished_PriorTail(p) ==
    /\ pc[p] = "pending"
    /\ pending' = MarkOf(audit)
    /\ backup' = [backup EXCEPT ![p] = Absent]
    /\ Goto(p, "prepared")
    /\ UNCHANGED <<audit, history, lastId, checkpoint, twoNames, locks, ctx, rows, memory>>

\* Mutant: the checkpoint itself is moved before COMMIT.
PendingPublished_AsCheckpoint(p) ==
    /\ pc[p] = "pending"
    /\ checkpoint' = MarkOf(audit \o rows[p])
    /\ backup' = [backup EXCEPT ![p] = Absent]
    /\ Goto(p, "prepared")
    /\ UNCHANGED <<audit, history, lastId, pending, twoNames, locks, ctx, rows, memory>>

PendingPublished(p) ==
    /\ pc[p] = "pending"
    /\ pending' = MarkOf(audit \o rows[p])
    /\ backup' = [backup EXCEPT ![p] = Absent]
    /\ Goto(p, "prepared")
    /\ UNCHANGED <<audit, history, lastId, checkpoint, twoNames, locks, ctx, rows, memory>>

\* Mutant: the prior mark is not restored.
PendingFailed_NotRestored(p) ==
    /\ pc[p] = "pending"
    /\ backup' = [backup EXCEPT ![p] = Absent]
    /\ EndTransaction(p) /\ Remember(p, TRUE)
    /\ UNCHANGED <<shared, ctx, requiredCheckpoint, scheduled>>

\* The publication threw; the transaction is rolled back.
PendingFailed(p) ==
    /\ pc[p] = "pending"
    /\ \/ /\ pending' \in {backup[p], MarkOf(audit \o rows[p])}
          /\ \/ UNCHANGED twoNames
             \/ pending' # Absent /\ twoNames' = twoNames \union {"pending"}
       \/ TornPublication /\ pending' = Absent /\ UNCHANGED twoNames
    /\ backup' = [backup EXCEPT ![p] = Absent]
    /\ EndTransaction(p) /\ Remember(p, TRUE)
    /\ UNCHANGED <<audit, history, lastId, checkpoint, ctx, requiredCheckpoint, scheduled>>

\* The database applies COMMIT.
CommitApplied(p) ==
    /\ pc[p] = "prepared"
    /\ audit' = audit \o rows[p]
    /\ history' = history \o rows[p]
    /\ Goto(p, "applied")
    /\ UNCHANGED <<lastId, checkpoint, pending, twoNames, locks, ctx, rows, backup, memory>>

\* transactionCommitted; a file lock that cannot be released sets lastError.
CommitReturned(p) ==
    /\ pc[p] = "applied"
    /\ EndTransaction(p)
    /\ \/ UNCHANGED lastError
       \/ ~Postgres /\ Remember(p, TRUE)
    /\ scheduled' = [scheduled EXCEPT ![p] = TRUE]
    /\ UNCHANGED <<shared, ctx, backup, requiredCheckpoint>>

\* transactionCommitUncertain: COMMIT failed and rolled back ("prepared"), or
\* was applied and its response lost ("applied").  The pending mark stays.
CommitUncertain(p) ==
    /\ pc[p] \in {"prepared", "applied"}
    /\ EndTransaction(p) /\ Remember(p, TRUE)
    /\ scheduled' = [scheduled EXCEPT ![p] = TRUE]
    /\ UNCHANGED <<shared, ctx, backup, requiredCheckpoint>>

------------------------------------------------------------------------------
(* The environment *)

\* What a process that dies loses; the database rolls an uncommitted
\* transaction back.
Dies(p) ==
    /\ Goto(p, "down")
    /\ ctx' = [ctx EXCEPT ![p] = "start"]
    /\ rows' = [rows EXCEPT ![p] = <<>>]
    /\ backup' = [backup EXCEPT ![p] = Absent]
    /\ lastError' = [lastError EXCEPT ![p] = FALSE]
    /\ requiredCheckpoint' = [requiredCheckpoint EXCEPT ![p] = Absent]
    /\ scheduled' = [scheduled EXCEPT ![p] = FALSE]
    /\ lock' = Release(lock, p)
    /\ writer' = Release(writer, p)

\* The process dies, within a publication after the prior sidecar was renamed
\* away and before the new one was linked.
Crash(p) ==
    /\ pc[p] # "down"
    /\ pc[p] \in {"checkpoint", "pending"} => TornPublication
    /\ Dies(p)
    /\ UNCHANGED shared

\* The process dies within a publication after the new sidecar was linked and
\* before its temporary name was removed.  The steps in between are synchronous
\* and under the lock, so that nobody sees the two names unless it dies there;
\* nothing removes the temporary name at the next start.
CrashLinked(p) ==
    /\ \/ /\ pc[p] = "checkpoint"
          /\ checkpoint' = MarkOf(audit) /\ UNCHANGED pending
          /\ twoNames' = twoNames \union {"checkpoint"}
       \/ /\ pc[p] = "pending"
          /\ pending' = MarkOf(audit \o rows[p]) /\ UNCHANGED checkpoint
          /\ twoNames' = twoNames \union {"pending"}
    /\ Dies(p)
    /\ UNCHANGED <<audit, history, lastId>>

\* A tail of committed rows is gone: SQLite's WAL with synchronous=NORMAL may
\* lose the last commits at a power failure, and a restored or edited file may
\* lack them.
LoseTail ==
    /\ TailLoss
    /\ \A p \in Proc : pc[p] = "down"
    /\ \E n \in 0 .. Len(audit) - 1 : audit' = SubSeq(audit, 1, n)
    /\ UNCHANGED <<history, lastId, checkpoint, pending, twoNames, locks, local, memory>>

Verify(p, c) == VerifyPublishes(p, c) \/ VerifyCurrent(p, c) \/ VerifyRefused(p, c)

\* The steps a process that is executing takes on its own.
Continue(p) ==
    \/ CheckpointPublished(p) \/ CheckpointFailed(p)
    \/ PendingCleared(p) \/ PendingClearFailed(p)
    \/ Verify(p, "tx") \/ MutationReady(p) \/ RollBack(p)
    \/ PrepareCommit(p) \/ PrepareRefused(p)
    \/ PendingPublished(p) \/ PendingFailed(p)
    \/ CommitApplied(p) \/ CommitReturned(p) \/ CommitUncertain(p)

Next ==
    \/ \E p \in Proc :
          \/ Begin(p) \/ AppendRow(p) \/ Crash(p) \/ CrashLinked(p) \/ Continue(p)
          \/ \E c \in {"start", "verify", "advance"} : Verify(p, c)
    \/ LoseTail

\* A synchronous call runs to its end, and the event loop runs setImmediate
\* callbacks on every turn, however often other work is picked up in between.
Fairness ==
    \A p \in Proc : /\ WF_vars(Continue(p))
                    /\ SF_vars(Verify(p, "advance") /\ scheduled[p] /\ ~scheduled'[p])

SafetySpec == Init /\ [][Next]_vars
Spec == SafetySpec /\ Fairness

------------------------------------------------------------------------------
(* Properties *)

\* The pending mark names a row that is not in the table, and nobody is about
\* to put it there: its COMMIT rolled back, or the row was lost.
Phantom ==
    /\ pending # Absent
    /\ ~RowPresent(pending, audit)
    /\ \A p \in Proc : pc[p] # "prepared"

\* A committed row that is lost is detected: whenever the coordination lock is
\* free and the table lacks committed rows, no verification from the sidecars,
\* full or incremental, accepts the table ("a lost tail is detectable as
\* truncation rather than indistinguishable from a pristine state").
LostTailDetected ==
    lock = Absent /\ audit # history =>
        ~VerifyAccepts(Absent) /\ ~AdvanceAccepts(Absent)

\* The protocol does not lock itself out: when no row was lost, no mark names a
\* row that never committed and no publication stopped between the link of a
\* sidecar and the removal of its temporary name, a restart verifies, however
\* many crashes, failed publications and lost responses came before.  (A
\* sidecar left under two names is refused by every later start.)
RestartAccepts ==
    lock = Absent /\ audit = history /\ ~Phantom /\ twoNames = {} => VerifyAccepts(Absent)

\* The checkpoint sidecar, when it is there, names a row that was committed at
\* that position: an uncommitted or rolled-back tail is never blessed.
CheckpointNamesCommitted == RowPresent(checkpoint, history)

\* "A missing row remains a hard failure instead of being mistaken for a normal
\* rollback": once the pending mark names a missing row, it stays, and no
\* process commits another row.
PhantomFreezes == [][Phantom => Phantom' /\ Len(audit') <= Len(audit)]_vars

\* A queued verification ends with the committed tail checkpointed, or with the
\* process unhealthy (which readiness reports) or gone; never silently behind.
TailCheckpointedOrReported ==
    \A p \in Proc : \A n \in 1 .. MaxRows :
        scheduled[p] /\ Len(audit) = n ~>
            \/ checkpoint # Absent /\ checkpoint.count >= n
            \/ lastError[p] \/ pc[p] = "down"

\* The ledger the protocol implements: rows are only ever added, and only while
\* none is missing; only an intact ledger is attested, as a whole.
Ledger == INSTANCE AuditLedger WITH
    ledger   <- history,
    intact   <- audit = history,
    attested <- IF checkpoint # Absent THEN checkpoint.count
                ELSE IF lock # Absent THEN backup[lock].count ELSE 0

ImplementsLedger == Ledger!Spec
=============================================================================
