# RedactWall in TLA+

RedactWall is a data-loss-prevention control plane: sensors (browser extension,
endpoint agent, MCP guard, agent hooks, AI gateway) submit what a user is about
to send to an AI service, the server decides, holds what needs a reviewer, and
keeps a hash-chained audit log of everything it did. These modules describe the
parts of it whose correctness depends on interleavings, crashes and lost
answers, check them with TLC on small instances, and prove the most important
properties with TLAPS for every number of processes, queries and reviewers.

## 1. The system

### 1.1 Components

| Component | State it keeps | Operations | Talks to | What is hard |
|---|---|---|---|---|
| Audit append, sidecars (`server/audit-anchor.js`, `audit-integrity.js`) | rows of the `audit` table; checkpoint and pending sidecars, signed, beside the database | prepare, publish pending mark, finalize, verify, publish checkpoint, recover | storage transactions, file mutation lock, private paths | crash between publication and COMMIT, COMMIT with a lost response, tail lost by the storage, several processes |
| Storage transactions (`server/storage/index.js`) | the open transaction and its audit rows | begin, nested run, commit protocol, rollback | audit anchor, database driver | order of publication, COMMIT and what follows a failure |
| File mutation lock (`server/file-mutation-lock.js`) | a directory at the lock path with one owner file; tokens this process left behind | acquire, publish by rename, judge the owner, reclaim through a quarantine, release | audit anchor, policy store, configuration writers | TOCTOU between reading and renaming, dead owners, reused pids, failed cleanup |
| Approval workflow (`server/workflow.js`, `routing.js`, `roles.js`, `ticket-sync.js`, `notifiers.js`, handlers of `server/app.js`, `server/db.js`) | one row per query (status, assignment, SLA, ticket references, sealed prompt, release token) and its audit entries | ingest, assign, escalate, approve, deny, justify, notify, sync, purge | trackers over HTTP, database, timers | reads before a transaction, awaited calls, two instances, retention against late writers |
| Postgres bridge (`server/storage/pg-driver.js`, `pg-worker.js`) | request sequence, transaction depth, fault of the worker | call, transaction, advisory locks | worker thread, Postgres | late replies, polled locks Postgres cannot see a deadlock in |
| Private path publication (`server/private-path.js`) | none; files | publish durably: the prior file is renamed aside, a staged one linked to the path and then unlinked | file system | crash or failed roll-back between these steps: no file at the path, or one with two links |
| Identity (`auth.js`, `session-authorization.js`, `oidc.js`, `scim.js`, `admin.js`) | users, revocations, recovery codes, failure counters, invitations, login state | login, step-up, log-out, change an account, provision, invite, accept | identity provider, database | check and insert in two steps, revocation against cookies that are out, counters at their limit |
| License and vendor link (`license.js`, `vendor-link.js`, `infra/license-server`) | license state in memory, vendor row in the database | heartbeat, apply, restore at boot | license server | state held across an await, several instances |
| Policy store (`policy.js`, `policy-bundle.js`) | revisioned policy file, what each process read last, signed bundles | load, change under the file lock with an audit record, roll back, sign | file mutation lock, audit log, operators who edit the file | a change that fails after it was published, files that appear in between |
| Signed policy cache (`sensors/shared/signed-policy.js`) | one bundle per machine, a high-water mark per process | accept, publish, fall back | control plane, file mutation lock | replays, expiry, restarts |
| Browser extension (`sensors/browser-extension`) | stored bundle, blocking rules, content script registration, permissions | publish a bundle, sync coverage | the browser, the control plane | the service worker is stopped at any await |
| Endpoint agent (`sensors/endpoint-agent`) | spool of handoff files, claims, jobs | accept, claim, scan, report, settle, retry | control plane | crashes between the steps, answers that are lost or late |
| Updater (`updater.js`) | state file, git worktree, running code | check, back up, fast-forward, install, restart | git, process manager | crash between stages, commits pushed in between |
| Parse pool (`parse-pool.js`) | queue, workers, timers | submit, assign, settle, preempt, reap, expire | child processes | result, kill and exit race |
| Backup and restore (`scripts/backup-store.js`) | sets of artifacts, a staging database, the audit directory | publish or restore a set, guarded restore on Postgres | file system, Postgres, other administrators | failure after some files are replaced, statements whose outcome is unknown |
| Alerts and subscriptions (`alerts.js`, `subscriptions.js`) | destinations, deliveries | deliver with retries, deduplicate | SIEM, mail | check before an await |
| AI gateway (`gateway/`, `scripts/ai-llm-gateway.js`, rate limiter) | token store cache, shared counters | check, count, proxy | the server, model providers | stale caches, clocks of several processes |
| Reports, evidence, detection, validation, console, installers | none of their own | pure projections and parsing | | no behaviour over time |

`PROJECT.json` lists every component with its sources and what is left out.

### 1.2 What makes each component correct

* **Audit log.** A committed row that is lost is noticed by every later
  verification; an intact log is not refused after a crash; a row that was
  never committed is never attested; once something is missing nothing is
  appended over it; what is committed is checkpointed in the end or the process
  says that it is not.
* **File mutation lock.** At most one process is in its callback; the lock of a
  live owner is never deleted; what a process leaves behind it can take up
  again; a dead owner does not block everybody forever.
* **Approval workflow.** A query is decided once, by somebody its assignment
  entitles at that moment; its row is always what the last audit entry binds;
  overdue items the escalation pass lists are escalated; ticket references only advance; sealed data
  outlives the decision but not the retention window, and once purged it does
  not come back.
* **Vendor link.** A revocation reaches every replica and survives restarts,
  lost caches and backups; nobody serves on a verdict that is older than the
  window; answers that return in any order only move the shared verdict forward,
  and none is taken twice; a revocation is lifted by a newer verdict alone.
* **Identity.** A session that was ended is not let in again by any cookie, row
  or restored role; a recovery code opens one session; a name has one source; a
  token that was replaced or revoked creates no account; spraying names does not
  lift the lock of a client.
* **Native handoff.** An event has one record, whatever is copied, lost, late or
  repeated, and what was taken up is settled as recorded.
* **Parse pool.** A task is answered once, on its own account and in the end; no
  task waits beside an idle worker.
* **Postgres bridge.** What the program is told of its writes is what became of
  them, and no late reply passes for an answer.
* **Backup and restore.** A set of files is replaced as a whole or not at all, and
  nobody else's file is removed; a restored database can be connected to only
  when it is verified and its audit state is there.
* **Policy.** The file holds what the last change reported as made, or the operator
  since, put there; no sensor goes back to an older policy; every destination of a trusted policy is
  protected in the browser.
* **Updater.** A checkout is backed up before it moves, and "updated" means
  checked out, installed and marked for a restart.

## 2. Modules

| Module | Models | Kind |
|---|---|---|
| `AuditAnchor` | `audit-anchor.js`, the audit-aware transaction of `storage/index.js`, `publishFileDurably` | detailed specification |
| `AuditLedger` | what the audit log promises, without processes, sidecars or locks | abstract specification |
| `MCAuditAnchor`, `MCAttestation`, `AuditAnchorProofs` | instances for TLC, theorems | |
| `FileMutationLock` | `file-mutation-lock.js`, one lock path | detailed specification |
| `MCFileMutationLock`, `FileMutationLockProofs` | instances for TLC, theorems | |
| `ApprovalWorkflow` | the life of a query over `app.js`, `db.js`, `workflow.js`, `ticket-sync.js`, `notifiers.js`, `pg-driver.js` | detailed specification |
| `HeldQueue` | what reviewers may rely on: one item, one decision, by its owner | abstract specification |
| `MCApprovalWorkflow`, `ApprovalWorkflowProofs` | instances for TLC, theorems | |
| `VendorLink` | `vendor-link.js`, the overlay of `license.js`, the vendor state of `db.js`, its callers in `app.js`, and the license server as environment | detailed specification |
| `MCVendorLink`, `VendorLinkProofs` | instance for TLC, theorems | |
| `Sessions` | cookies, revocations, step-up, recovery codes | detailed specification |
| `Provisioning` | invitations, local accounts, SCIM users | detailed specification |
| `LoginThrottle` | the bounded map of failure counters | detailed specification |
| `ControlPlaneProofs` | theorems about `Sessions`, `Provisioning`, `LoginThrottle` and `MCControlPlane` | theorems |
| `NativeHandoff` | the spool, claims and jobs of the endpoint agent, and the ingest they end in | detailed specification |
| `ParsePool` | `parse-pool.js` | detailed specification |
| `PgBridge` | `pg-driver.js` and `pg-worker.js` as two threads | detailed specification |
| `ArtifactPublication` | `publishPrivateFiles` with its rollback | detailed specification |
| `PgRestore` | `restorePgBackup` | detailed specification |
| `PolicyStore` | the policy file with its audited changes | detailed specification |
| `SignedPolicy` | the bundle cache the sensors of a machine share | detailed specification |
| `BrowserCoverage` | bundle publication and destination coverage of the service worker | detailed specification |
| `Updater` | `updater.js` | detailed specification |
| `ServerProofs` | theorems about `PolicyStore`, `ParsePool`, `PgRestore` | theorems |
| `DurabilityProofs` | theorems about `NativeHandoff`, `SignedPolicy`, `BrowserCoverage` and `MCDurability` | theorems |
| `MaintenanceProofs` | theorems about `Updater`, `ArtifactPublication`, `PgBridge` | theorems |
| `MCControlPlane`, `MCDurability`, `MCBackground`, `MCReviewQueue`, `MCRetention` | runs that hold several specifications side by side | instances for TLC |

### 2.1 AuditAnchor

The state is the database (`audit`, `lastId`), the two sidecars (`checkpoint`,
`pending`), the coordination lock, the sidecars that have kept a second
name (`twoNames`), and of every process its program counter
(`pc`), its transaction (`ctx`), the sidecar it renamed away (`backup`),
`requiredCheckpoint`, `lastError` and whether a verification is queued
(`scheduled`). `history` is a ghost: every row that was ever committed. A mark
is the number of rows and the identity of the last one; the identity stands for
its hash, and a row id is never used twice, which is what the hash chain gives.

One action stands for one crash point of the code: `Prepare...` (checks under
the coordination lock), the publication of the pending mark (which may fail and
be rolled back, or be torn, when `TornPublication`, by a crash after the prior
sidecar was renamed away and before the new one was linked), a crash between the
link and the removal of the temporary name (`CrashLinked`: every later reading
refuses the sidecar, and no start removes the second name), `CommitApplied` (the database commits), the return of COMMIT
or its failure (`CommitUncertain`), and the queued verification with the
publication of the checkpoint. `Crash` is possible anywhere, and loses the last
rows of the table when `TailLoss` (WAL with `synchronous = NORMAL`).
`Postgres` selects the coordination: an ideal lock held for the publication and
the transaction on SQLite, the advisory append lock held to the end of the
transaction with reconciliation inside it on Postgres.

The abstract `AuditLedger` has three steps: commit rows to an intact ledger,
attest the whole of it, lose rows. The mapping hides everything else; while a
checkpoint is being replaced its prior version counts.

Left out: the first bootstrap and the upgrade of the state file, HMACs, gaps in
`seq`, the content evidence (it is in `ApprovalWorkflow`). The file mutation
lock is ideal here; what happens when it is not is the subject of
`FileMutationLock`. Only one process's COMMIT can be unresolved on Postgres at
a time, because the append lock is released by the commit itself.

### 2.2 FileMutationLock

The directory at the lock path (`Absent`, `Empty`, or an owner: process,
generation, token), the processes with what each has read and is about to
rename, the tokens it left behind (`releasedOwnerTokens`). Every system call
that other processes can see is an action: publication by rename, the readings
that judge an owner, the rename to the quarantine, the reading there, the
rename back or the removal. Judging needs the host, the pid and the process
generation, as `ProvablyDead` states it; `PidReuse` lets a pid be used again.
`EmptyBlocks` is the behaviour of platforms where a rename does not replace an
empty directory, `StartsEmpty` starts with one left behind by a dead process.
`ReleaseFails` is what a release that failed still learns by one more reading: the
owner it remembers, or, when that reading fails as well, nothing. `stranded` is a
ghost: owners that were left at the path without a record. A timeout is modelled
as giving up at any time. Windows failures caused by open handles are over-approximated: any rename
and removal may fail.

### 2.3 ApprovalWorkflow

The database rows (`rows`), what the audit log binds (`audit`), the handler each
instance runs (`work`), the rows its open transaction has updated (`dirty`),
tracker calls in flight (`calls`), the trackers (`tickets`) and the clock
(`overdue`, `expired`). One instance is one event loop: its storage calls are
synchronous, so it runs one handler from the first read to COMMIT, while
tracker calls are awaited beside it. `Ask...`, the ticks and `Ingest` start a
handler; `Lock`, `Write` and `Commit` are the three points of a transaction
other instances can come between: the row read again under its advisory lock
and compared, the UPDATE, the audit append with COMMIT. On SQLite a transaction
excludes others, on Postgres (`Postgres`) advisory locks are taken where the code
takes them, and the purge takes none for its rows. `Fail` and `Crash` may end a
handler anywhere, up to `MaxFaults` of them. The escalation pass lists the newest
`ListLimit` queries of any status (5000 in the code).

A row keeps what decisions, purge and sync look at; a ticket state is a number
that only its tracker increases. The content an audit entry binds is the row
without the fields the evidence leaves out. Reading the status for a sensor,
license checks, step-up authentication (a failure of the handler, hence `Fail`),
counters and the choice of channels are left out; every channel is configured.

`HeldQueue` has an item per query with only what a reviewer sees: it arrives,
changes hands, and ends once, and only through somebody its owner fields
entitle, a sensor's justification, or not at all.

### 2.4 VendorLink

The vendor's clock and mind (`now`, `vendor`), the verdict the replicas share
(`shared`: the row of `vendor_license_state` and the audit evidence it must
match, which are written in one transaction), the state file of each replica
(`cache`), what its process remembers (`link`: `_appliedIssuedAt`,
`_lastContactMs` and the two flags of the license overlay), and its heartbeat in
flight (`pc`, `askedAt`, `reply`). `Offset` gives each replica a clock of its
own. `saved` keeps backups of the database, `blind` names the replicas whose
last boot could not read or record; `decisions` and `faults` are budgets.

A heartbeat is three steps, with everything else in between: `Ask` reads the
clock, reconciles the shared verdict and goes to the network; `Serve` is the
license server; then one action per way on in `heartbeat`: `NoAnswer`,
`AnswerRefused` (clock skew, or passed already), `Answer` (committed by the
compare-and-set, adopted, perhaps cached), `AnswerLate` (another replica
committed a verdict that is not older), `AnswerUnrecorded` (the transaction
fails and the overlay is taken back), `AnswerUncertain` (its COMMIT took effect
and was reported as failed). `Request` is `reconcileSharedState` before a
request is let through, also while a heartbeat is in flight, and `RequestUnread`
its failure. `Boot`, `BootUnread` and `BootUnrecorded` are `restore`. Replicas
crash, state files are deleted, and the data directory is put back to a backup
while nobody runs.

Abstractions: a license is installed and bound to one customer; a verdict that
does not verify is an answer that never came; an answer may be late but belongs
to its heartbeat; the failure to read the install date at boot and the license
file with its grace period are left out; the first heartbeat may come any time
after the boot.

`blind` marks a boundary of the code. A boot that cannot read the shared
verdict, or cannot append the audit entry of the revocation it restored, starts
stale without what the cache knew, and the next evaluation of staleness may
clear that. Until its next boot such a replica is held to the database through
reconciliation, but not to its own cache or to the mark of it, so
`RevocationEnforced`, `WindowBounded` and `NoReplay` leave it out.

### 2.5 Identity

`Sessions` has the accounts, the two kinds of revocation rows (`revokedAt` by
user, `loggedOut` by session), the used recovery codes, every cookie that was
ever signed, and the request each server is in. `Authorized` is the whole test a
request passes: signature and lifetime, `identityRevokedSince` for both rows, the
account as it is now. Changes of accounts and groups, log-out and the login that
takes a recovery code read first and commit later; a step-up signs a copy of a
cookie; a log-out deletes the rows of sessions that are past their retention.
`SharedWriters` lets the transactions of two servers overlap. Passwords, TOTP and
signatures are left out.

`Provisioning` runs the requests that create accounts on several nodes: each reads,
takes the advisory locks of `lockRowForUpdate` one after the other, looks again
and commits, or rolls back. Tokens are never issued twice; `dead` remembers those
that were replaced or revoked.

`LoginThrottle` keeps the map as the sequence of its entries, since its insertion
order decides what is evicted at `MAX_ATTEMPT_KEYS`.

### 2.6 NativeHandoff

Files in the spool may be copies of one event. A job per file prunes old claims,
takes the claim under the file mutation lock (ideal here), scans, reports,
settles the claim and removes the file; it fails, is retried and dies anywhere,
and the start-up scan finds what is left. A claim is published by
`publishFileDurably`, with nothing of the agent in between: one that fails, or that
the agent does not survive, may leave the prior claim, none, the new one, or one
under two names, which no reading accepts (`LeftOver`). A report that timed out may still be
served, at any time and beside the next one; the control plane looks for a
committed record at its gate and again in the transaction that creates the query.
`recorded` counts the queries created for an event.

### 2.7 ParsePool

Callbacks of one thread: a submission, a result, a timer, an exit or an error each
run to the end, with `pump` as steps of their own, while children work and
die. The child's `process` runs ahead of what the pool knows of it. `Waiting` is the
set of tasks in the queue and `Spliced` the removal of one of them
(`queue.splice`); they are written with indices, which the prover can reason about.

### 2.8 PgBridge

The main thread numbers its calls and waits for the reply with its number; the
worker runs statements in order on the live connection, reconnects, and refuses
what belongs to a transaction of an older connection. It remembers the connection
a transaction began on only when its BEGIN succeeded (`runQuery`). Postgres runs a statement
of a call that has timed out too. `reported` is what the program was told of its
writes; `stray` that a BEGIN has timed out, whose transaction nobody ends.

### 2.9 Backup and restore

`ArtifactPublication` takes the files of a set in the order of the code: inspect,
move aside, compare, link, read back, verify, settle; on a failure the reverse,
through a quarantine that never removes what the publication does not own; the
return of a prior artifact is a look at the path, a rename that replaces what is
there by then, and a reading. Others rename files to the same paths, any call may fail. With `StagingDisturbed`
they also do so while artifacts are being moved aside, which the code does not
survive (3.1).

`PgRestore` has the staging and the target database, the sessions, and statements
whose session was given up but which may run `late`. Every statement may fail,
have an unknown outcome, or run later; the catalog decides what the code does next.
`phase` ends in what the operator is told. pg_restore, its contents, and the
verification are one step each.

### 2.10 Policy

`PolicyStore` has the file, what each process's loader read last, the change under
the lock with every rename of its publication, its audit commit and its roll-back,
an operator who edits and deletes the file without a lock, and restarts.
`unaccounted` marks the outcomes the code does not claim to prevent, named at the
actions that set it; `audited` is the policy of the last audited change, and
`disowned` the policies whose COMMIT took effect although it was reported failed.

`SignedPolicy` lets every sensor be offered every bundle that was or could be
signed, at any time. The cache is published by the steps of `publishFileDurably`
(aside, link, removal of the temporary name, confirmation); between the last two
whoever falls back on the cache reads the new bundle without a lock, and `mark`
advances with it. `torn` says that a publication was left with the prior moved aside,
`undone` that one was rolled back after its bundle had been taken.

`BrowserCoverage` runs the mutations of the service worker one await at a time
(blocking rules, content script, ejecting tabs, storing the bundle), stops it at
any of them, and lets the user grant and take back permissions and open tabs.

### 2.11 Updater

One run at a time: check, backup, fast-forward, install, conclude, each awaiting a
command that may fail, beside pushes, edits of the source tree, checks, restarts
and deaths of the server. `loaded` is what the process was started with.

### 2.12 Specifications side by side

`MCControlPlane` and `MCDurability` hold specifications that share no state. A
variable (`component`) names the one a behaviour moves, the others stay where they
began, so the states of the run are the sum and not the product of theirs, and each
property is checked over its own part. `MCBackground` does the same with three
fair specifications, `MCReviewQueue` and `MCRetention` with two instances of
`ApprovalWorkflow`, and `MCAttestation` with two of `AuditAnchor`, that differ in
their constants.

## 3. What is checked

| Run | Bounds | Shows |
|---|---|---|
| `durability` | audit: 2 SQLite processes, 3 rows, batches of 2, lost tails, every failure, sidecars left under two names included, except a torn publication | `LostTailDetected`, `RestartAccepts`, `PhantomFreezes`, `ImplementsLedger` |
| | bridge: 5 calls, 2 timeouts, 2 lost connections | `ReportsAreTrue` |
| | handoff: 2 files of one event, 1 restart, 1 mishap, claims lost in publications | `DecidedOnce` |
| | publication: 2 artifacts, 2 intrusions, 2 failed calls | `AllOrNothing` |
| | updater: 2 commits, 3 runs, 1 death, 1 failed command | `UpdatesAreSafe` |
| | cache: 2 sensors, 3 instants | `PolicyNeverRolledBack` |
| | coverage: 2 destinations, 2 bundles, 1 permission taken back | `GovernedIsGuarded` |
| `control_plane` | lock: 2 processes, 3 acquisitions, 1 crash, reused pids, an orphaned empty directory that blocks | `ExclusiveUntilCrash`, `LiveOwnersAccounted` |
| | sessions: 2 servers, 1 account, 2 roles, 2 logins, lifetime and retention 1 of 2 ticks | `EndedStaysEnded`, `RecoveryCodeOnce` |
| | provisioning: 2 nodes, 1 name, 2 invitations, 3 tokens | `OneSource`, `TokensSpentOnce` |
| | throttle: 2 clients, 2 names, 2 attempts, 5 keys | `SprayThrottled` |
| | pool: 2 workers, queue of 1, 2 tasks per child, 4 tasks, 1 failure | `QueueServed` |
| | restore: 2 restores of one name, 2 troubles | `OpenWhenVerified` |
| | policy: 2 editors and an operator, 4 policies | `PolicyAccounted` |
| `background` | lock: 2 processes, 2 acquisitions, 1 crash; handoff: 1 file, 1 restart, 1 mishap; pool: 1 worker, queue of 1, 2 tasks | `DeadOwnerReclaimed`, `TakenUpIsSettled`, `EveryTaskAnswered` under fairness |
| `review_queue` | 2 instances, 1 query; Postgres: 1 admin, 2 approvers, decide, assign, justify; SQLite: 2 tickets, 1 failure, every background job | `DeciderOwns`, `ImplementsHeldQueue`, `PurgeSticks`, `EvidenceCurrent`, `RefsAdvance` |
| `retention` | 2 instances, 2 queries on Postgres; 1 query with timers and 1 failure; 2 queries for a list of 1 | `HeldKeepsRaw`; `DeadlinesAreMet`, `TransactionsEnd` under fairness |
| `attestation` | 2 processes, 2 rows; Postgres with torn publications, or SQLite with lost tails | `CheckpointNamesCommitted`; `TailCheckpointedOrReported` under fairness |
| `vendor_link` | 2 replicas, one a tick ahead, 3 instants, window 1, skew 1, 1 decision, 1 failure or backup | `RevocationEnforced`, `WindowBounded`, `NoReplay`, `VerdictsAdvance`, `LiftedByVerdict` |
| `anchor_torn_loss` | 2 processes, 3 rows, SQLite, torn publications and lost tails | *violated* `LostTailDetected`: the two failures together go unnoticed |
| `lock_reclaim_race` | 2 processes, 3 acquisitions, 1 crash | *violated* `MutualExclusion`: a delayed reclaimer |
| `approval_purge_race` | 2 instances, 1 query, Postgres | *violated* `PurgeSticks` |
| `bridge_timeout` | 4 calls, 1 timeout | *violated* `TimeoutOnlyFails`: a BEGIN whose caller gave up |
| `forced_restore_loses` | 2 artifacts, 1 intrusion, while artifacts are moved aside | *violated* `PriorRecoverable` |

**Why the bounds are enough.** Every property relates at most two actors: a
writer and a crashed or late one. A lost tail needs one committed
row that is checkpointed, one that is not and one that is in preparation: three
rows, the last two possibly in one batch. One ticket suffices to overwrite a
newer state, the second shows that a list keeps both. The wait cycle needs two
rows in one purge. Three instants give a verdict, a newer one, and a time at
which the first is out of the window of one tick; one decision orders a
revocation before or after an active verdict, since the vendor starts with
either; the replica that is a tick ahead records contacts within the skew of the
other. A transaction of the bridge is a BEGIN, two writes and its end, which
leaves a call after it; the second timeout and the second loss come while the
first is being dealt with. A copy of an event is what makes two jobs meet, and an
hour is longer than the window and the retention (0, so that the next hour is
past both). Two artifacts give one that is replaced before the other fails. Three
runs of the updater allow one that fails, its repetition and one after the
restart, over two commits. An older bundle, one of the same time and a newer one
exist with three instants. With `ListLimit = 1` a second query takes the place of the
first in the list of the escalation pass. Two clients with two names make six counters, one more
than the map holds. Four tasks fill two workers and the queue, and one is refused. Four
policies are the one the file starts with, a change, an operator's edit beside it
and a second change.

`MaxTokens`, `MaxCrashes`, `MaxFaults`, `MaxTickets`, `MaxRefs`, `LastState`,
`MaxRows`, `MaxBatch`, `MaxTime`, `MaxDecisions`, `LastCall`, `MaxTimeouts`,
`MaxLosses`, `LastHour`, `MaxRestarts`, `MaxMishaps`, `MaxIntrusions`, `MaxErrors`,
`LastCommit`, `MaxRuns`, `MaxDeaths`, `MaxBadCommands`, `LastTime`, `LastBundle`,
`MaxRevocations`, `LastTick`, `LastDay`, `LastMinute`, `LastTask`, `MaxFailures`,
`MaxTroubles` and `LastPolicy` bound counters in guards; at the bound an action is
disabled and the others go on. Deadlock is checked in `vendor_link`, where a
replica can always boot or crash; elsewhere it is not, because at these bounds
every process may rightly have nothing left to do; that waiting ends is stated as
a property where it matters (`TransactionsEnd`, `DeadOwnerReclaimed`,
`QueueServed`, `EveryTaskAnswered`). Platforms where an empty directory does not
block are covered by the theorem about the lock.

**Symmetry** is used only in runs without liveness properties, over processes,
instances, approvers, logins, invitations, names, files and destinations, which no
definition tells apart. Refinement and action properties are safety, and the
mappings do not tell them apart either.

**Fairness.** Node runs a synchronous handler to its end and every queued
callback in the end, hence weak fairness of a process's next step, of a job of the
agent, of `pump` and of every timer of the pool. A recurring timer
fires again and again, however many requests come in: strong fairness of the
ticks. A supervisor restarts a dead process (`Restart`). A rename or a publication
that is retried forever does not fail every time: strong fairness of the readings,
renames and removals, for the lock only. The control plane answers a report its sender still waits for.
Nothing is assumed of trackers, users, children of the pool, or of failures of the
database: a handler may fail whenever `MaxFaults` allows. `TransactionsEnd`
assumes only that handlers run and that the deadline of a wait comes.

**Mutants.** Each property is paired in `PROJECT.json` with a variant of one
definition, written beside it and marked `Mutant`, that TLC finds it to refute:
a dropped comparison, an erased mark, a rename that is not remembered. They
show which line of the code each property rests on.

### 3.1 Where the code and its documentation disagree

1. **A delayed reclaimer moves a live lock** (`lock_reclaim_race`,
   `file-mutation-lock.js:651`). The identity check and the rename are two
   system calls. A process that found the owner dead and is delayed before the
   rename moves away the lock another reclaimer has published since. It notices
   in the quarantine and reports a cleanup failure, but the path is free and a
   second process enters beside the live owner. Tests describe this as
   impossible. `LiveOwnerKept` still holds: the lock is moved, never deleted.
2. **A torn publication hides a lost tail** (`anchor_torn_loss`,
   `private-path.js:1080`). If the process dies after the prior sidecar has been
   renamed away, there is no pending mark, and a tail that is committed but not
   checkpointed can be lost unnoticed. A torn publication alone does no harm to
   the evidence, but one of the checkpoint makes the next start refuse an
   intact table (`RestartAccepts` needs `TornPublication = FALSE`).
3. **A purge can be undone on Postgres** (`approval_purge_race`, `db.js:692`).
   The purge takes no row lock, so a notification that read the row first
   writes `_rawPrompt` back and drops `retentionPurgedAt`, while the audit log
   says `RETENTION_PURGED`. The next purge repairs it (`ExpiredPurged`). In the
   other direction a purge writes back the ticket references it read: a reference
   a delivery has committed in between is lost. That is why `RefsAdvance` is
   checked and proved where it cannot happen, on SQLite or without a purge.

4. **A BEGIN that times out is not taken back** (`bridge_timeout`,
   `pg-driver.js:201`). `transaction()` sends BEGIN before its `try`, so when the
   call times out while the worker reconnects, nobody rolls back the BEGIN the
   worker runs later. The next write outside a transaction is acknowledged inside
   it, and a later ROLLBACK or a lost connection takes it back. The documentation
   says only that callers see a timeout. `ReportsAreTrue` holds for everything
   else, single writes after such a timeout excepted (`stray`).
5. **A forced restore can remove the artifact it replaces**
   (`forced_restore_loses`, `backup-store.js:861`). An existing artifact is renamed
   into the rollback directory and recorded only after it was compared; when the
   comparison fails, because the database was written in between, the rollback
   passes over it and the directory is removed with it, although the prior set
   "remains recoverable".

Others are not runs. They were found with the same modules, and the properties
that hold are stated around them:

* **A torn publication loses the last-known-good bundle.** `ReplayNeverRollsBack`
  fails in `SignedPolicy`. A sensor that dies between the renames
  (`private-path.js:1080`) leaves no cache, nor does its memory survive, so after a
  restart an older bundle that has not expired is taken, although "an older but
  still-valid signed replay cannot roll policy back across a sensor restart"
  (`docs/process/CONNECTED_DEPLOYMENT.md:190-192`). A roll-back that fails has the
  same effect (`torn`). If the sensor dies after the link, the cache has two links,
  cannot be read, and every update is refused until somebody removes one: that is
  closed. `PolicyNeverRolledBack` has one exception more, `undone`: what was read
  without a lock counts as taken at the moment it is read, and a publication that
  fails its verification after that takes the file back (`private-path.js:1097`).
* **A late event is rejected although it was taken up.** `ClaimProvesRetry` fails in
  `NativeHandoff`. A retry publishes its claim again (`native-handoff.js:581`, `:589`),
  and `publishFileDurably` renames the prior claim away first. If the agent dies
  there, no claim proves that the event is a retry, on which `agent.js:957-959`
  relies; past its window it is rejected and nothing settles it. A claim left under
  two names cannot be read: it fails each attempt, and the pruning of claims stops
  at it. `TakenUpIsSettled` excepts both (`mislaid`).
* **Overdue items the list does not reach.** `EveryOverdueEscalated` fails in
  `ApprovalWorkflow` as soon as there are more rows than `ListLimit`. The escalation
  pass looks at the newest 5000 queries of any status (`workflow.js:102`), so an
  overdue one with that many newer ones is never escalated, whereas
  `docs/deployment/DEPLOYMENT.md:1239-1241` says that overdue items are.
  `DeadlinesAreMet` is stated for queries the pass lists.
* **A revocation can be moved back in time.** With `SharedWriters = TRUE`, as on
  Postgres, `EndedStaysEnded` fails: `revocationUpsert` (`db.js`) writes the time
  its handler read, so of two changes of one account that overlap the earlier
  may be written last, and a session signed in between is let in again, though
  `docs/identity/ACCESS_ROLES.md:53` says that such changes revoke sessions.
  Clocks of instances that differ have the same effect. The run has one writer
  at a time.
* **A redacted record without its companion.** `RedactedHasCompanion` fails in
  `NativeHandoff`: after a report without an answer the agent removes the companion
  (`agent.js:617`), and the late report is then recorded as redacted;
  `docs/deployment/DEPLOYMENT.md:597` describes the companion as the result.
* **"up-to-date" is not "running".** `UpToDateIsRunning` fails in `Updater`: after a
  fast-forward whose install failed, or a second update before the restart, a run
  finds HEAD at the remote and reports that nothing is left to do, without a
  restart (`updater.js:797-805`, shown by `console/src/views/Updates.tsx`).
* **An expired bundle takes custom blocks away.** `GuardedAfterExpiry` fails in
  `BrowserCoverage`: once the stored bundle has expired the next sync works with
  none and removes the blocks and scripts of its destinations, whereas
  `docs/process/CONNECTED_DEPLOYMENT.md:192-195` has it fail closed.
* **A sidecar under two names.** A process that dies between the link of a new
  sidecar and the removal of its temporary name (`private-path.js:1081-1089`), or
  whose removal fails, leaves a file with two links. Every reading refuses it
  (`private-path.js:277`), no start removes the second name, so the server does not
  start on an intact log until an operator does. It fails closed, and a queued
  verification reports it. `RestartAccepts` excepts it (`twoNames`).
* **Artifacts that arrive during a roll-back.** `restoreMovedArtifacts` looks at a
  path (`backup-store.js:812`) and renames the prior artifact to it (`:819`), which
  replaces a file another process put there in between. That is the one artifact of
  others `AllOrNothing` lets a publication remove (`late`); the prior one is safe.
* **An audited policy that was rolled back.** A COMMIT that took effect and throws
  all the same (`storage/index.js:327`) leaves `POLICY_UPDATED` in the audit log, while
  `policy.js:1088` rolls the file back. The first half of `PolicyAccounted` holds, since
  the caller was told that the change failed; the second excepts such policies from
  what the log names (`disowned`).
* **The policy file beside an operator.** An edit between the snapshot and the
  first rename is moved aside and removed unnoticed; a process that dies after its
  publication leaves a policy in force that was never audited; after an operator
  deleted the file every change is refused until a restart, because the loader
  falls back on what it read last and the snapshot on the default.
* **A rename that runs late.** `reconcileRename` may tell the operator that the
  database is under its staging name, and the statement of the session that was
  given up may rename it afterwards. It is not open, which is why
  `OpenWhenVerified` holds.
* **A worker that is alive and forgotten.** When `assign` cannot send to a child,
  the pool drops the worker without killing it.

A comment that is not so: the comment at `storage/index.js:280` says that a
failed COMMIT restores the prior pending intent, whereas the code keeps the new
mark on purpose, since the COMMIT may have been applied
(`transactionCommitUncertain`). `RestartAccepts` is stated for logs without such
a mark, and `PhantomFreezes` says what happens with one.

A gap that no text of the repository denies: two failures in a row leave a lock that
nobody remembers. An acquisition that fails after it published its lock, and cannot
clean up, throws without remembering its token (`tryAcquire`); and a release that
failed, and cannot read its lock again either, deletes the token
(`file-mutation-lock.js:409-414`). The lock then names a live process and blocks
everybody until that process exits. Both are actions of the model; the second half of
`LiveOwnersAccounted`, and `DeadOwnerReclaimed` until the exit, except the owners left so
(`stranded`).

## 4. What is proved

All proofs are checked by TLAPS, for every value of the constants that the named
assumptions admit. Every safety property a passing run checks is the statement of a
theorem; what a run checks under fairness is not (section 4.9). Each
theorem follows the same argument: an inductive invariant that holds initially, is
kept by each action, and implies the property.

### 4.1 Audit log (`AuditAnchorProofs`)

* **`TypeCorrect`** and **`LossDetected`**: `SafetySpec => []LostTailDetected`, for
  any number of processes and rows and either database, if no publication is torn.
  The invariant `SafetyInv` is `TypeOK`, `LockInv` (whoever is in a stage of a
  publication or a commit holds the lock), `PrefixInv` (the table is a prefix of
  the history) and `SidecarInv`. The last carries the argument: between
  publications one of the two sidecars counts at least the rows that were
  committed, and during one the sidecar that was renamed away, which its process
  will bring back, may be the one that does; what a process in each stage has
  established (`PublisherInv`) is what lets its next step keep that. Without the stages
  it is not inductive: the pending mark is absent while it is replaced.
* **`RestartVerifies`**: `SafetySpec => []RestartAccepts`, if no publication is torn.
  It needs both halves: that a checkpoint names committed rows (below) and that it
  is only missing while somebody publishes one (`CheckpointInv`). Sidecars under two
  names are excepted in the property itself (3.1), not by an assumption.
* **`LedgerImplemented`**: `SafetySpec => ImplementsLedger`, if no publication is
  torn. `CommitApplied`, the end of a publication and the loss of a tail are the
  steps of the ledger; every other action, in each of its outcomes, is a stutter.
  That a commit starts from an intact ledger is `StageInv`, and that the mark that
  is attested is the whole of it is `NamesInv`.
* **`AttestsCommitted`**: `SafetySpec => []CheckpointNamesCommitted`, if no
  publication is torn or no rows are lost. To be inductive it must also hold for
  the checkpoint a failed publication would restore (`NamesInv`), and the table
  must be a prefix of the history: that is `SafetyInv` in the first case and
  `audit = history` in the second.
* **`MissingRowFreezes`**: `SafetySpec => PhantomFreezes` in every environment.
  `IntentInv` says that whoever publishes a checkpoint, or is about to clear the
  mark, has seen the marked row in the table, and that the mark is away while it
  is replaced, so that no step that changes it is possible once its row is missing.

### 4.2 File mutation lock (`FileMutationLockProofs`)

* **`ExclusiveWithoutCrashes`**: `SafetySpec => []ExclusiveUntilCrash`: until the
  first crash, that which left an orphaned directory included, at most one process
  is in its callback, whatever fails. This is the exact boundary: with one crash the
  run `lock_reclaim_race` refutes it. `ExclusionInv` is its inductive strengthening:
  the path holds nothing or the lock of a live incarnation (`PathInv`), what a
  process remembers or published is its own (`OwnInv`), whoever inspects or holds is
  the one the path names (`HolderInv`), and whoever is about to rename the path away
  means a lock of its own that is still there (`RemovalInv`).
* **`LiveOwnersKept`**: `SafetySpec => []LiveOwnersAccounted`, with any number of
  crashes and reused pids, whatever reading, rename or unlink fails; what two failures
  in a row leave behind (3.1) is `stranded` and excepted. `AccountInv`: whatever names an owner
  names one that was issued, so a token is never drawn twice (`NamedKnown`); the
  owner of a process that inspects or holds has not been deleted (`HoldersKnown`);
  a remover means its own directory, an empty one, or one whose owner is dead and
  stays dead, since an incarnation only grows, and once it has moved something the
  one it meant is no longer at the path (`RemoversKnown`).

### 4.3 Approval workflow (`ApprovalWorkflowProofs`)

All for any sets of instances, queries and reviewers. The assumption `NoneIsNoRow`
says that the value that stands for "no row" is not a row.

* **`QueueRefined`**: `SafetySpec => ImplementsHeldQueue`, on SQLite and Postgres, and
  **`DecidersOwn`**: `SafetySpec => []DeciderOwns`. The invariant `FlowInv` says
  that rows have their shape, that a handler past its comparison still sees the
  row it compared, because it holds the row (`HandlersFit`), that an awaited call
  is of an announced query, and that no two handlers hold one row's advisory
  lock (`Exclusive`). The purge, which takes no such lock, is covered by showing
  that what it writes back is, for a reviewer, the row that was there: only
  final rows are purged, and a final row keeps its status, its decider and its
  owner (`FinalStays`).
* **`EvidenceAgrees`**: `SafetySpec => []EvidenceCurrent` on either storage. Every
  commit binds the content it writes, rows of the purge included.
* **`HeldPromptsStay`**: `SafetySpec => HeldKeepsRaw` on either storage. `WritesKeep`
  says of every write a handler carries, that was computed from a row before, that
  it takes no sealed prompt from the row that is there now; a purge beside it changes
  final rows only. `Effects` sums up what each action does to rows and handlers; the
  next two theorems rest on it as well.
* **`PurgesStick`**: `SafetySpec => []PurgeSticks` on SQLite. `OneWriter` says that
  nobody else is in a transaction, which is what Postgres lacks
  (`approval_purge_race`).
* **`ReferencesAdvance`**: `SafetySpec => RefsAdvance`, on SQLite, or on Postgres in an
  instance in which nothing is purged (3.1, item 3). `RefsInv` says that references
  name issues in states these have had (`RowRefs`), that a write about to be committed
  is not behind the row it was computed from (`WriteRefs`), that a purge writes the
  references its rows still have (`PurgeRefs`), that an answer a sync waits with is
  ahead of what it listed and not ahead of the tracker (`SyncRefs`), and that the
  issue a delivery brings is in no record and no write yet and is brought by nothing
  else (`NewRefs`). Without the last the invariant would admit a
  delivery that sets an issue back to "open".

### 4.4 Vendor link (`VendorLinkProofs`)

All five properties of `vendor_link`, for any set of replicas, any offsets of their
clocks, any window and skew and any number of decisions, faults and backups:
**`RevocationSurvives`**, **`HeartbeatOrDie`**, **`CacheNotReplayed`**,
**`CommittedInOrder`**, **`LiftedOnlyByVerdict`**. The inductive invariant `IInv` has
three parts beside `TypeOK`. `Clocks`: nothing was signed in the future, and no
contact that is shared or backed up was recorded more than the skew after its
signature. `AheadOfDatabase`: where a replica is ahead of the database, because a
backup was put back, no answer in flight is older than what it holds; backups are put
back while nobody runs, so every heartbeat that is in flight was asked for afterwards.
`Informed`: a process whose boot could read has a mark that is not behind its cache,
counts no contact as younger than the shared verdict and the skew allow, and remembers
a revocation it is ahead with. Without `AheadOfDatabase` the last is not inductive: an
answer could move the database to a verdict between the two.

### 4.5 Identity and the control plane (`ControlPlaneProofs`)

For any servers, nodes, logins, names, invitations and codes.

* **`CodesTakenOnce`**: `SessionSpec => []RecoveryCodeOnce`, on either storage.
* **`SessionsStayEnded`**: `SessionSpec => []EndedStaysEnded` where transactions do not
  overlap (`SharedWriters = FALSE`; 3.1 shows what happens otherwise). `EndedKnown`
  says why an ended session is not let in: its row is there, or it is older than a
  session may be. For the row to cover it, a change that is being written must know a
  time not before any session it found (`ChangeKnown`, `LogoutKnown`), revocations
  must not be moved back (`OneWriter`), and no time may be of the future (`Clocked`).
* **`NamesHaveOneSource`** and **`TokensCountOnce`** share `ProvisioningInv`: who is
  past a lock holds it, and what it read under the lock is still so
  (`InvitationKnown`, `NameKnown`), every token belongs to one invitation or is dead
  (`TokensKnown`), and every account came from an accepted one (`AccountsKnown`).
* **`SpraysAreThrottled`**: `FewOthers => (ThrottleSpec => []SprayThrottled)`, for any
  clients, names, limits and size of the map. `FewOthers` says that, for each client, the
  keys the others can have leave at least two places of the map: one for the key of the
  name and one for the client's own counter, which are refreshed one after the other.
  Two is the exact boundary: with one place less TLC finds the property violated
  (2 clients, 2 names, `MaxKeys = 4`). **`ClientThrottled`** says the same of one client
  on every behaviour that leaves it two places, however many keys the others could have,
  which is the case the code's 10 000 keys are meant for. The invariant is
  `ThrottleMapBounded` (the map has its type, one entry per key, and no more than
  `MaxKeys`), with, for a client that has failed in its window, that its counter is in
  the map with at least the failures of the window, was last refreshed when it last
  failed (so what comes behind it is of other clients), and is locked when there are
  enough of them. It rests on lemmas about `Picked`: what is picked from a sequence keeps
  its order and its entries, which is counted with cardinalities instead of a recursion.
* **`ControlPlaneTyped`**: `ControlPlaneSpec => []ControlPlaneTypes`. The run
  `control_plane` puts seven specifications side by side; a step of the whole is a step
  of one of them and a stutter of the others (`ComponentsStep`), so the theorem follows
  from the type theorem of each: `LockTyped`, `SessionsTyped`, `ProvisioningTyped`,
  `ThrottleMapBounded`, `PoolTyped`, `RestoreTyped`, `PolicyStoreTyped`. For the pool
  that needs `SharesKept` (no child serves more than `CHILD_MAX_TASKS`) and the bound of
  the queue (`QUEUE_MAX`), for the lock that every owner in a directory was drawn before.

### 4.6 Server (`ServerProofs`)

* **`PoliciesAccounted`**: `PolicyStoreSpec => PolicyAccounted`, for any editors and
  policies. `FileKnown` says for each step of a change where the policy that is
  accounted for is: at the path, moved aside, or both with the candidate at the path;
  `WriterKnown` that the change was made from its snapshot. What the audit names apart
  from that is `disowned`.
* **`FilesAnsweredOnce`**: `ParsePoolSpec => []QueueServed`, for any size of pool and
  queue. `PoolInv`: a task is in the queue once, or with one worker of the pool, or
  answered, and a timer belongs to the task its worker holds (`TasksApart`,
  `AnswersKnown`), and a pool that is not full has nobody waiting (`PoolFilled`).
* **`TargetOpensVerified`**: `RestoreSpec => []OpenWhenVerified`, for any number of
  restores of one name. `Known(r)` says, for each phase of a restore, which databases
  it has, which are open, and which statements may still run late; a frame lemma shows
  that a step of one restore leaves what is known of the others alone, since the only
  thing they share is the name, and the rename needs it free.

### 4.7 Sensors and durability (`DurabilityProofs`)

* **`EventsDecidedOnce`**: `HandoffSpec => []DecidedOnce`, for any files, copies,
  restarts and mishaps. `OneRecord` ties the number of queries of an event to its
  record; `JobsAgree` and `ClaimsAgree` say that whoever carries a decision of the
  control plane carries the recorded one.
* **`PoliciesOnlyAdvance`**: `PolicyCacheSpec => PolicyNeverRolledBack`, for any
  sensors and bundles. `MarkKept`: the cache, or during a publication its prior, is not
  behind the newest policy that was taken, unless a sensor has read the bundle of an
  unconfirmed publication; it is kept until a publication is torn or undone. A step
  that changes what a sensor enforces is covered also when the bundle comes from an
  unconfirmed publication.
* **`NamedIsGuarded`**: `CoverageSpec => []GovernedIsGuarded`, for any destinations and
  bundles. `NamedGuarded` and `NothingBare` are the property and the tabs it leaves
  out; what a mutation that is under way has blocked, covers and was granted
  (`JobBlocks`, `JobCovers`, `JobGranted`) is what the worker may rely on after an
  await, and what must be so when it is stopped there.
* **`DurabilityTyped`**: `DurabilitySpec => []DurabilityTypes`, in the same way for the
  seven specifications of the run `durability`. Two of the type invariants are not
  inductive by themselves. The hand-off counts the companion files it keeps, and a job
  that gives up removes one: `AgentInv` says that only a job that has reported and
  holds the lock of its claim has one to remove, and, for that, that a job waits for
  one report at a time (`WaitingKnown`) however often reports are given up and answered
  late. A publication of artifacts that discards what it removed must have removed
  something (`PublicationTyped`); this holds without the assumption of
  `PublishedWholly`.

### 4.8 Files and tables (`MaintenanceProofs`)

* **`UpdatesSafe`**: `UpdaterSpec => []UpdatesAreSafe`, for any number of commits, runs,
  deaths and failures. `StageInv` says for each stage what the run may rely on (the
  checkout stays where it was found until the fast-forward, and its dependencies are
  those of HEAD from the install on), `FileInv` what the state file may claim while no
  run is under way.
* **`PublishedWholly`**: `PublicationSpec => []AllOrNothing`, for any number of files,
  intrusions and failed calls, if nobody disturbs the moving aside itself
  (`StagingDisturbed = FALSE`; with it `forced_restore_loses` loses an artifact).
  `PublicationInv` says for each phase (moving aside, linking, withdrawing, restoring)
  which files are set aside, which are new and which are back, up to the current one;
  only a path in the middle of its return can lose an artifact of others (`late`).
* **`ReportsStayTrue`**: `PgBridgeSpec => []ReportsAreTrue`, for any number of calls,
  timeouts and losses of the connection. `BridgeInv` follows a write from the caller
  to the table. `QueueKnown`: the worker runs statements in the order of the calls, so
  a reply to the last call means that nothing is left of earlier ones. `TxKnown`: while
  the program is in a transaction the connection is the one it began on, with an open
  session, or is lost with all its work. `Acknowledged`: acknowledged writes are in the
  session, and after the reply to COMMIT in the table. `TakenBack`: a write of a
  transaction that is rolled back never gets into the table: it is gone, or a ROLLBACK
  comes behind it before any COMMIT, although the caller may have given up waiting for
  both. `SessionsEnd`: while no BEGIN has timed out, a session is open only for the
  transaction the program is in or ending. Both rest on the
  order `QueueKnown` states, and `TxKnown` on the rule that only a BEGIN that succeeded
  names the connection.

### 4.9 Only model-checked

Each specification states what it needs of its constants in a named assumption,
which every run evaluates. What is left to TLC:

* Everything under fairness, which is beyond the prover: `TailCheckpointedOrReported`,
  `DeadOwnerReclaimed`, `TakenUpIsSettled`, `EveryTaskAnswered`, `DeadlinesAreMet`,
  `TransactionsEnd`.

## 5. What is not modelled, and the plan

In order of what the system depends on most:

1. Alert delivery: retries and deduplication of `alerts.js`, where a delivery is
   checked before an await and recorded after it.
2. The shared rate limiter of the gateway with several processes and clocks.
3. Key rotation in `backup-store.js`. Reading it showed that values sealed under
   the old key are orphaned when the rotation follows no restore.
4. The gateway token store, a client of the file mutation lock. Reading it showed
   that a transient read error is cached as an empty store under the current stamp.
5. `publishFileDurably` as a specification of its own, shown to implement the steps
   that `AuditAnchor`, `NativeHandoff`, `SignedPolicy` and `PolicyStore` take of it.
6. The bootstrap and upgrade of the audit state; nested savepoints and schema
   migrations of the storage layer.
7. The content script of the browser extension with its held submissions and
   rehydration sessions.
8. The OIDC code exchange and its keys.

Not planned: detection (patterns and a trained model over strings), reports and
evidence documents (pure projections), validation schemas and formatting, policy
evaluation, fleet summaries (reads of stored rows), encryption (its use matters
here, not its mathematics), the request deadline (one timer), tenant filters,
installers, the console. They hold no state that two actors change, and their
tests reach what can go wrong in them. They are also most of the repository's
lines: `app.js` is largely read-only routes, `posture.js`, the console views and
the detection engine are functions of their input.
