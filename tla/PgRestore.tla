------------------------------ MODULE PgRestore ------------------------------
(* The guarded restore of a Postgres backup (restorePgBackup in                 *)
(* scripts/backup-store.js): a staging database of a random name is created,     *)
(* filled and verified behind one guard session, frozen, renamed to the          *)
(* requested name, and opened for connections when the audit state that belongs  *)
(* to it is published.  A statement may fail, its answer may be lost, or it may  *)
(* run after its session was given up; the process may die at any point.         *)
EXTENDS Integers, FiniteSets

CONSTANTS
    Restore,    \* restores that ask for one target name
    Other,      \* whoever else creates a database of that name
    NoDb,       \* no database of a name
    MaxTroubles \* bound: statements and calls that go wrong

Db == [of : Restore \cup {Other}, open : BOOLEAN]

ASSUME RestoreAssumption ==
    /\ Other \notin Restore /\ NoDb \notin Db
    /\ MaxTroubles \in Nat

VARIABLES
    staging,  \* the staging database of each restore, under its own random name
    target,   \* the database of the requested name
    sessions, \* sessions of the database each restore created
    phase,    \* what each restore does next, or how it ended
    late,     \* statements of sessions that were given up which may run yet
    verified, \* ghost: restores whose database was verified
    audit,    \* whether each restore's runtime audit directory is published
    troubles  \* ghost: what MaxTroubles counts

restoreVars == <<staging, target, sessions, phase, late, verified, audit, troubles>>

Ddl == {"create", "allow", "freeze", "rename", "enable", "drop"}

Working == {"preflight", "create", "allow", "guard", "restore", "inspect", "freeze", "verify",
            "release", "drain", "rename", "publish", "tidy", "enable"}

Recovering == {"reconcile", "refreeze", "redrain", "drop"}

\* How a restore ends: with its result, or with an error that names no database,
\* the staging one, the target, or either.
Endings == {"restored", "failed", "keptStaging", "keptTarget", "maybeOpen", "ambiguous", "dead"}

RestoreTypes ==
    /\ staging \in [Restore -> Db \cup {NoDb}] /\ target \in Db \cup {NoDb}
    /\ sessions \in [Restore -> SUBSET {"guard", "tool", "other"}]
    /\ phase \in [Restore -> Working \cup Recovering \cup Endings]
    /\ late \subseteq Restore \X Ddl
    /\ verified \subseteq Restore /\ audit \subseteq Restore
    /\ troubles \in 0..MaxTroubles

RestoreInit ==
    /\ staging = [r \in Restore |-> NoDb] /\ target = NoDb
    /\ sessions = [r \in Restore |-> {}]
    /\ phase = [r \in Restore |-> "preflight"]
    /\ late = {} /\ verified = {} /\ audit = {} /\ troubles = 0

------------------------------------------------------------------------------
(* Postgres *)

Here(r) == staging[r] # NoDb

OpenTo(r, yes) == staging' = [staging EXCEPT ![r].open = yes] /\ UNCHANGED target

\* Whether a statement would be carried out, and what it does then.
Valid(r, s) ==
    CASE s = "create" -> ~Here(r)
      [] s \in {"allow", "freeze"} -> Here(r)
      [] s = "rename" -> Here(r) /\ sessions[r] = {} /\ target = NoDb
      [] s = "enable" -> target # NoDb
      [] s = "drop" -> Here(r) /\ sessions[r] = {}

Takes(r, s) ==
    CASE s = "create" ->
           staging' = [staging EXCEPT ![r] = [of |-> r, open |-> FALSE]] /\ UNCHANGED target
      [] s = "allow" -> OpenTo(r, TRUE)
      [] s = "freeze" -> OpenTo(r, FALSE)
      [] s = "rename" -> target' = staging[r] /\ staging' = [staging EXCEPT ![r] = NoDb]
      [] s = "enable" -> target' = [target EXCEPT !.open = TRUE] /\ UNCHANGED staging
      [] s = "drop" -> staging' = [staging EXCEPT ![r] = NoDb] /\ UNCHANGED target

CatalogKept == UNCHANGED <<staging, target>>

RunsLate(r, s) ==
    /\ <<r, s>> \in late
    /\ late' = late \ {<<r, s>>}
    /\ IF Valid(r, s) THEN Takes(r, s) ELSE CatalogKept
    /\ UNCHANGED <<sessions, phase, verified, audit, troubles>>

\* Another client: a monitor that looks into every database it may, and an
\* administrator who uses the name.
Connects_Other(r) ==
    /\ Here(r) /\ staging[r].open /\ Cardinality(sessions[r]) < 2
    /\ sessions' = [sessions EXCEPT ![r] = @ \cup {"other"}]
    /\ UNCHANGED <<staging, target, phase, late, verified, audit, troubles>>

Leaves_Other(r) ==
    /\ "other" \in sessions[r]
    /\ sessions' = [sessions EXCEPT ![r] = @ \ {"other"}]
    /\ UNCHANGED <<staging, target, phase, late, verified, audit, troubles>>

CreatesTarget_Other ==
    /\ target = NoDb /\ troubles < MaxTroubles /\ troubles' = troubles + 1
    /\ target' = [of |-> Other, open |-> TRUE]
    /\ UNCHANGED <<staging, sessions, phase, late, verified, audit>>

------------------------------------------------------------------------------
(* Steps of a restore *)

Goes(r, p) == phase' = [phase EXCEPT ![r] = p]

Trouble == troubles < MaxTroubles /\ troubles' = troubles + 1

Smooth == UNCHANGED troubles

\* handlePgRestoreDatabaseFailure, from each phase.
Failure(p) ==
    CASE p = "preflight" -> "failed"
      [] p = "create" -> "ambiguous"
      [] p \in {"allow", "guard", "restore", "inspect", "freeze", "verify", "release", "drain"} ->
            "refreeze"
      [] p = "rename" -> "reconcile"
      [] p \in {"publish", "tidy"} -> "keptTarget"
      [] p = "reconcile" -> "ambiguous"
      [] p \in {"refreeze", "redrain", "drop"} -> "keptStaging"

\* A statement and the look at the catalog after it.  It is refused, or its
\* outcome is not known: it ran, did not run, or is still to run.
Executes(r, s, next) ==
    /\ \/ /\ Valid(r, s) /\ Takes(r, s) /\ Smooth
          /\ Goes(r, next) /\ UNCHANGED late
       \/ /\ ~Valid(r, s) /\ CatalogKept /\ Smooth
          /\ Goes(r, IF s = "create" THEN "failed" ELSE Failure(phase[r]))
          /\ UNCHANGED late
       \/ /\ Trouble /\ Goes(r, Failure(phase[r]))
          /\ \/ Valid(r, s) /\ Takes(r, s) /\ UNCHANGED late
             \/ CatalogKept /\ UNCHANGED late
             \/ CatalogKept /\ late' = late \cup {<<r, s>>}
    /\ UNCHANGED <<sessions, verified, audit>>

\* A step that asks for no change of a database.
Checks(r, good, next) ==
    /\ \/ good /\ Goes(r, next) /\ Smooth
       \/ ~good /\ Goes(r, Failure(phase[r])) /\ Smooth
       \/ Trouble /\ Goes(r, Failure(phase[r]))
    /\ UNCHANGED <<staging, target, late>>

Preflight(r) ==
    /\ phase[r] = "preflight" /\ Checks(r, target = NoDb, "create")
    /\ UNCHANGED <<sessions, verified, audit>>

CreateStaging(r) == phase[r] = "create" /\ Executes(r, "create", "allow")

AllowGuard(r) == phase[r] = "allow" /\ Executes(r, "allow", "guard")

OnlyGuard(r) == sessions'[r] = {"guard"}

\* openGuard, and the inventory of the empty database.
OpenGuard(r) ==
    /\ phase[r] = "guard"
    /\ \/ /\ Here(r) /\ staging[r].open /\ Cardinality(sessions[r]) < 2
          /\ sessions' = [sessions EXCEPT ![r] = @ \cup {"guard"}]
       \/ UNCHANGED sessions
    /\ Checks(r, OnlyGuard(r), "restore")
    /\ UNCHANGED <<verified, audit>>

\* pg_restore takes the second slot, when nobody else has it.
RunTool(r) ==
    /\ phase[r] = "restore"
    /\ \/ /\ sessions[r] = {"guard"} /\ staging[r].open
          /\ sessions' = [sessions EXCEPT ![r] = @ \cup {"tool"}]
          /\ Goes(r, "inspect") /\ Smooth
       \/ /\ ~(sessions[r] = {"guard"} /\ staging[r].open)
          /\ Goes(r, Failure("restore")) /\ Smooth /\ UNCHANGED sessions
    /\ UNCHANGED <<staging, target, late, verified, audit>>

ToolEnds(r) ==
    /\ phase[r] = "inspect" /\ "tool" \in sessions[r]
    /\ sessions' = [sessions EXCEPT ![r] = @ \ {"tool"}]
    /\ UNCHANGED <<staging, target, phase, late, verified, audit, troubles>>

\* runAndVerifyPgRestore: what pg_restore exits with, then the only session.
InspectTool(r) ==
    /\ phase[r] = "inspect" /\ "tool" \notin sessions[r]
    /\ Checks(r, sessions[r] = {"guard"}, "freeze")
    /\ UNCHANGED <<sessions, verified, audit>>

\* Mutant: the database stays open under its staging name.
FreezeStaging_Left(r) ==
    /\ phase[r] = "freeze" /\ Goes(r, "verify") /\ CatalogKept /\ Smooth
    /\ UNCHANGED <<sessions, late, verified, audit>>

FreezeStaging(r) == phase[r] = "freeze" /\ Executes(r, "freeze", "verify")

\* The audit chain and the rows through the guard, then the only session again.
VerifyRestored(r) ==
    /\ phase[r] = "verify"
    /\ Checks(r, sessions[r] = {"guard"}, "release")
    /\ verified' = IF phase'[r] = "release" THEN verified \cup {r} ELSE verified
    /\ UNCHANGED <<sessions, audit>>

\* closeGuardAndAssertNoConnections polls until a deadline.
ReleaseGuard(r) ==
    /\ phase[r] = "release"
    /\ sessions' = [sessions EXCEPT ![r] = @ \ {"guard"}]
    /\ Goes(r, "drain")
    /\ UNCHANGED <<staging, target, late, verified, audit, troubles>>

Drain(r) ==
    /\ phase[r] = "drain" /\ Checks(r, sessions[r] = {}, "rename")
    /\ UNCHANGED <<sessions, verified, audit>>

RenameStaging(r) == phase[r] = "rename" /\ Executes(r, "rename", "publish")

\* publishNewPgRuntimeAuditDirectory: on an error the directory is taken back.
PublishAudit(r) ==
    /\ phase[r] = "publish" /\ Checks(r, TRUE, "tidy")
    /\ audit' = IF phase'[r] = "tidy" THEN audit \cup {r} ELSE audit
    /\ UNCHANGED <<sessions, verified>>

TidyStaging(r) ==
    /\ phase[r] = "tidy" /\ Checks(r, TRUE, "enable")
    /\ UNCHANGED <<sessions, verified, audit>>

OwnTarget(r) == target # NoDb /\ target.of = r

\* enablePgRestoreTarget: whatever became of the statement, the catalog decides,
\* and it cannot always be asked.
EnableTarget(r) ==
    /\ phase[r] = "enable"
    /\ \/ Valid(r, "enable") /\ Takes(r, "enable") /\ Smooth /\ UNCHANGED late
       \/ Trouble /\ CatalogKept /\ late' \in {late, late \cup {<<r, "enable">>}}
    /\ \/ OwnTarget(r) /\ target'.open /\ Goes(r, "restored")
       \/ OwnTarget(r) /\ ~target'.open /\ Goes(r, "keptTarget")
       \/ ~OwnTarget(r) /\ Goes(r, "maybeOpen")
       \/ troubles' # troubles /\ Goes(r, "maybeOpen")
    /\ UNCHANGED <<sessions, verified, audit>>

------------------------------------------------------------------------------
(* handlePgRestoreDatabaseFailure *)

\* reconcileRename
Location(r) ==
    IF Here(r) THEN "staging" ELSE IF OwnTarget(r) /\ ~target.open THEN "target" ELSE "ambiguous"

ReconcileRename(r) ==
    /\ phase[r] = "reconcile"
    /\ \/ /\ Smooth
          /\ Goes(r, CASE Location(r) = "staging" -> "refreeze"
                       [] Location(r) = "target" -> "keptTarget"
                       [] OTHER -> "ambiguous")
       \/ Trouble /\ Goes(r, "ambiguous")
    /\ UNCHANGED <<staging, target, sessions, late, verified, audit>>

\* cleanupOwnedStaging
Refreeze(r) == phase[r] = "refreeze" /\ Executes(r, "freeze", "redrain")

Redrain(r) ==
    /\ phase[r] = "redrain"
    /\ sessions' = [sessions EXCEPT ![r] = @ \ {"guard", "tool"}]
    /\ Checks(r, sessions'[r] = {} /\ Here(r) /\ ~staging[r].open, "drop")
    /\ UNCHANGED <<verified, audit>>

DropStaging(r) == phase[r] = "drop" /\ Executes(r, "drop", "failed")

Dies(r) ==
    /\ phase[r] \notin Endings /\ Trouble
    /\ Goes(r, "dead")
    /\ sessions' = [sessions EXCEPT ![r] = @ \ {"guard", "tool"}]
    /\ UNCHANGED <<staging, target, late, verified, audit>>

------------------------------------------------------------------------------

Works(r) ==
    \/ Preflight(r) \/ CreateStaging(r) \/ AllowGuard(r) \/ OpenGuard(r) \/ RunTool(r)
    \/ ToolEnds(r) \/ InspectTool(r) \/ FreezeStaging(r) \/ VerifyRestored(r)
    \/ ReleaseGuard(r) \/ Drain(r) \/ RenameStaging(r) \/ PublishAudit(r) \/ TidyStaging(r)
    \/ EnableTarget(r) \/ ReconcileRename(r) \/ Refreeze(r) \/ Redrain(r) \/ DropStaging(r)

RestoreNext ==
    \/ \E r \in Restore :
          \/ Works(r) \/ Dies(r) \/ Connects_Other(r) \/ Leaves_Other(r)
          \/ \E s \in Ddl : RunsLate(r, s)
    \/ CreatesTarget_Other

RestoreSpec == RestoreInit /\ [][RestoreNext]_restoreVars

------------------------------------------------------------------------------
(* Properties *)

\* The requested name can be connected to only when its database is somebody
\* else's or is verified and has its audit state published; a restore that
\* reports success left just that, one that reports the target has it there, and
\* one that reports no database left none (restorePgBackupLocked,
\* handlePgRestoreDatabaseFailure).
OpenWhenVerified ==
    /\ target # NoDb /\ target.open /\ target.of # Other =>
          target.of \in verified /\ target.of \in audit
    /\ target # NoDb /\ target.of = Other => target.open
    /\ \A r \in Restore :
          /\ phase[r] = "restored" => OwnTarget(r) /\ target.open
          /\ phase[r] = "failed" => ~Here(r) /\ ~OwnTarget(r)
          /\ phase[r] = "keptTarget" => OwnTarget(r)
=============================================================================
