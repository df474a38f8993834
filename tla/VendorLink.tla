------------------------------ MODULE VendorLink ------------------------------
(* Connected-mode licensing (src/server/vendor-link.js): the replicas of an    *)
(* install ask the vendor for verdicts, share the newest one through the       *)
(* database, and stop serving when it is a revocation or too old.  The license *)
(* is installed and bound to one customer; a verdict that does not verify, or  *)
(* is bound to somebody else, is an answer that never came.                    *)
EXTENDS Integers, FiniteSets

CONSTANTS
    Replica,    \* processes that share the database, each with its own cache file
    Offset,     \* how far the clock of each replica is ahead of the vendor's
    None,       \* no verdict
    Window,     \* REDACTWALL_LICENSE_MAX_STALENESS_DAYS
    Skew,       \* MAX_VERDICT_CLOCK_SKEW_MS
    MaxTime,    \* bound: how long the vendor's clock runs
    MaxDecisions, \* bound: how often the vendor changes its mind
    MaxFaults   \* bound: reads and appends that fail, and backups that are kept

\* The install is as old as its first audit entry.  0 is before every verdict.
InstalledAt == 1

Status == {"active", "revoked"}

Verdict == [status : Status, issuedAt : Nat]

\* A row of vendor_license_state, and the audit evidence it must match.
Contact == [status : Status, issuedAt : Nat, contactAt : Int]

ASSUME ConstantsAssumption ==
    /\ Offset \in [Replica -> Int]
    /\ None \notin Verdict /\ None \notin Contact
    /\ Window \in Nat /\ Skew \in Nat
    /\ MaxTime \in Nat \ {0} /\ MaxDecisions \in Nat /\ MaxFaults \in Nat

VARIABLES
    now,        \* the vendor's clock
    vendor,     \* what the vendor answers to this customer
    shared,     \* the newest verdict committed to the database
    saved,      \* ghost: the backups of the database that are kept
    cache,      \* the state file of each replica
    link,       \* what each process remembers, and its license overlay
    pc,         \* "down", "idle", or "asking" while a heartbeat is in flight
    askedAt,    \* nowMs of that heartbeat
    reply,      \* the verdict that is on its way back
    blind,      \* ghost: replicas whose last boot could not read or record
    decisions,  \* ghost: decisions so far
    faults      \* ghost: faults so far

database == <<shared, saved>>
process  == <<cache, link, pc, askedAt, reply, blind>>
bounds   == <<decisions, faults>>
vars     == <<now, vendor, database, process, bounds>>

Link == [applied : Nat, contact : Int, revoked : BOOLEAN, stale : BOOLEAN]

\* A process that has restored nothing yet.
Fresh == [applied |-> 0, contact |-> 0, revoked |-> FALSE, stale |-> FALSE]

\* Every variable has its type, and an answer is on its way back only while the
\* heartbeat that asked for it is still in flight.
TypeOK ==
    /\ now \in InstalledAt .. MaxTime /\ vendor \in Status
    /\ shared \in Contact \union {None} /\ saved \subseteq Contact \union {None}
    /\ cache \in [Replica -> Verdict \union {None}]
    /\ link \in [Replica -> Link]
    /\ pc \in [Replica -> {"down", "idle", "asking"}]
    /\ askedAt \in [Replica -> Int]
    /\ reply \in [Replica -> Verdict \union {None}]
    /\ \A r \in Replica : reply[r] # None => pc[r] = "asking"
    /\ blind \subseteq Replica
    /\ decisions \in 0 .. MaxDecisions /\ faults \in 0 .. MaxFaults

Init ==
    /\ now = InstalledAt /\ vendor \in Status
    /\ shared = None /\ saved = {}
    /\ cache = [r \in Replica |-> None]
    /\ link = [r \in Replica |-> Fresh]
    /\ pc = [r \in Replica |-> "down"]
    /\ askedAt = [r \in Replica |-> 0]
    /\ reply = [r \in Replica |-> None]
    /\ blind = {}
    /\ decisions = 0 /\ faults = 0

Clock(r) == now + Offset[r]

Fault == faults < MaxFaults /\ faults' = faults + 1

------------------------------------------------------------------------------
(* The overlay *)

\* Contact lies too far back, or ahead of this clock by more than the skew.
Stale(contact, t) == contact > t + Skew \/ t - contact > Window

Evaluated(l, t) == [l EXCEPT !.stale = Stale(l.contact, t)]

\* failClosedSharedState: what the database says is not known.
FailedClosed(l) == [l EXCEPT !.stale = TRUE]

\* Mutant: the age of the shared contact is not looked at.
Adopted_Unaged(l, s, t) ==
    [applied |-> s.issuedAt, contact |-> s.contactAt,
     revoked |-> s.status = "revoked", stale |-> FALSE]

Adopted(l, s, t) ==
    [applied |-> s.issuedAt, contact |-> s.contactAt,
     revoked |-> s.status = "revoked", stale |-> Stale(s.contactAt, t)]

\* Mutant: a shared verdict older than the applied one is adopted as well.
Reconciled_AnyAge(l, t) ==
    IF shared # None THEN Adopted(l, shared, t) ELSE Evaluated(l, t)

\* reconcileSharedState: a shared verdict that is not older is adopted.
Reconciled(l, t) ==
    IF shared # None /\ shared.issuedAt >= l.applied
    THEN Adopted(l, shared, t) ELSE Evaluated(l, t)

\* blockIfRevoked lets a sensor request through.
Admits(r) ==
    LET l == Reconciled(link[r], Clock(r))
    IN  pc[r] # "down" /\ ~l.revoked /\ ~l.stale

------------------------------------------------------------------------------
(* Heartbeats *)

\* The shared verdict is reconciled, then the vendor is asked.
Ask(r) ==
    /\ pc[r] = "idle"
    /\ pc' = [pc EXCEPT ![r] = "asking"]
    /\ askedAt' = [askedAt EXCEPT ![r] = Clock(r)]
    /\ link' = [link EXCEPT ![r] = Reconciled(@, Clock(r))]
    /\ UNCHANGED <<now, vendor, database, cache, reply, blind, bounds>>

\* The license server signs what holds at its time.
Serve(r) ==
    /\ pc[r] = "asking" /\ reply[r] = None
    /\ reply' = [reply EXCEPT ![r] = [status |-> vendor, issuedAt |-> now]]
    /\ UNCHANGED <<now, vendor, database, cache, link, pc, askedAt, blind, bounds>>

\* The heartbeat is over.
Ended(r) ==
    /\ pc' = [pc EXCEPT ![r] = "idle"]
    /\ askedAt' = [askedAt EXCEPT ![r] = 0]
    /\ reply' = [reply EXCEPT ![r] = None]

\* Unreachable, refused, timed out or not verifiable: no contact.
NoAnswer(r) ==
    /\ pc[r] = "asking"
    /\ link' = [link EXCEPT ![r] = Evaluated(@, askedAt[r])]
    /\ Ended(r)
    /\ UNCHANGED <<now, vendor, database, cache, blind, bounds>>

Timely(v, t) == v.issuedAt - t <= Skew /\ t - v.issuedAt <= Skew

\* Mutant: the order of verdicts is left to the database alone, which lets the
\* last writer win.
Newer_LastWriter(v) == TRUE

\* The upsert of vendor_license_state takes only newer verdicts.
Newer(v) == shared # None => v.issuedAt > shared.issuedAt

\* What is committed of a verdict that was asked for at t.
ContactOf(v, t) == [status |-> v.status, issuedAt |-> v.issuedAt, contactAt |-> t]

\* A timely verdict this process has not applied yet is committed with its
\* audit evidence, and is not stale: its contact is t itself.  The cache is
\* written if it can be.
Answer(r) ==
    LET v == reply[r]
        t == askedAt[r]
        s == ContactOf(v, t)
    IN  /\ pc[r] = "asking" /\ v # None
        /\ Timely(v, t) /\ v.issuedAt > link[r].applied /\ Newer(v)
        /\ shared' = s
        /\ link' = [link EXCEPT ![r] = Adopted(@, s, t)]
        /\ cache' \in {cache, [cache EXCEPT ![r] = v]}
        /\ Ended(r)
        /\ UNCHANGED <<now, vendor, saved, blind, bounds>>

\* Somebody committed a verdict that is not older: that one is adopted.
AnswerLate(r) ==
    LET v == reply[r]
        t == askedAt[r]
    IN  /\ pc[r] = "asking" /\ v # None
        /\ Timely(v, t) /\ v.issuedAt > link[r].applied /\ ~Newer(v)
        /\ link' = [link EXCEPT ![r] = Adopted(@, shared, t)]
        /\ Ended(r)
        /\ UNCHANGED <<now, vendor, database, cache, blind, bounds>>

\* The verdict is misclocked, or one this process has passed already.
AnswerRefused(r) ==
    LET v == reply[r]
        t == askedAt[r]
    IN  /\ pc[r] = "asking" /\ v # None
        /\ \/ ~Timely(v, t)
              /\ link' = [link EXCEPT ![r] = Evaluated(@, t)]
           \/ Timely(v, t) /\ v.issuedAt <= link[r].applied
              /\ link' = [link EXCEPT ![r] = Evaluated(Reconciled(@, t), t)]
        /\ Ended(r)
        /\ UNCHANGED <<now, vendor, database, cache, blind, bounds>>

\* The audit evidence of the answer, or of the staleness without one, could not be
\* committed: everything is as it was.
AnswerUnrecorded(r) ==
    /\ pc[r] = "asking" /\ Fault
    /\ Ended(r)
    /\ UNCHANGED <<now, vendor, database, cache, link, blind, decisions>>

\* The commit is reported as failed, but it took effect.
AnswerUncertain(r) ==
    LET v == reply[r]
        t == askedAt[r]
    IN  /\ pc[r] = "asking" /\ v # None /\ Fault
        /\ Timely(v, t) /\ v.issuedAt > link[r].applied /\ Newer(v)
        /\ shared' = ContactOf(v, t)
        /\ Ended(r)
        /\ UNCHANGED <<now, vendor, saved, cache, link, blind, decisions>>

------------------------------------------------------------------------------
(* Requests of sensors and of the console, also while a heartbeat is in flight *)

Request(r) ==
    /\ pc[r] # "down"
    /\ link' = [link EXCEPT ![r] = Reconciled(@, Clock(r))]
    /\ UNCHANGED <<now, vendor, database, cache, pc, askedAt, reply, blind, bounds>>

\* The shared verdict cannot be read: the request is refused.
RequestUnread(r) ==
    /\ pc[r] # "down" /\ Fault
    /\ link' = [link EXCEPT ![r] = FailedClosed(@)]
    /\ UNCHANGED <<now, vendor, database, cache, pc, askedAt, reply, blind, decisions>>

------------------------------------------------------------------------------
(* Boot: restore *)

IssuedAt(v) == IF v = None THEN 0 ELSE v.issuedAt

Revoked(v) == v # None /\ v.status = "revoked"

\* A record from the future does not raise the mark.
Mark(v, t) == IF IssuedAt(v) > t + Skew THEN 0 ELSE IssuedAt(v)

\* The last contact comes from the database, never from the cache.
ContactAtBoot(t) ==
    LET at == IF shared = None THEN InstalledAt ELSE shared.contactAt
    IN  IF at > t + Skew \/ InstalledAt > t + Skew THEN t + Skew + 1 ELSE at

\* Mutant: the cache is not asked.
RevokedAtBoot_SharedOnly(r, t) == Revoked(shared)

RevokedAtBoot(r, t) ==
    \/ Revoked(shared)
    \/ Revoked(cache[r]) /\ Mark(cache[r], t) >= Mark(shared, t)

\* Mutant: a process starts with no mark.
Restored_NoMark(r, t) ==
    Evaluated([applied |-> 0, contact |-> ContactAtBoot(t),
               revoked |-> RevokedAtBoot(r, t), stale |-> FALSE], t)

Restored(r, t) ==
    LET marks == {Mark(shared, t), Mark(cache[r], t)}
    IN  Evaluated([applied |-> CHOOSE m \in marks : \A n \in marks : m >= n,
                   contact |-> ContactAtBoot(t),
                   revoked |-> RevokedAtBoot(r, t), stale |-> FALSE], t)

\* start() goes on with the first heartbeat; here it may also come later.
Boot(r) ==
    /\ pc[r] = "down"
    /\ link' = [link EXCEPT ![r] = Restored(r, Clock(r))]
    /\ pc' = [pc EXCEPT ![r] = "idle"]
    /\ blind' = blind \ {r}
    /\ UNCHANGED <<now, vendor, database, cache, askedAt, reply, bounds>>

\* The shared verdict cannot be read: the link starts stale, the cache unread.
BootUnread(r) ==
    /\ pc[r] = "down" /\ Fault
    /\ link' = [link EXCEPT ![r] = [applied |-> 0, contact |-> Clock(r) + Skew + 1,
                                    revoked |-> FALSE, stale |-> TRUE]]
    /\ pc' = [pc EXCEPT ![r] = "idle"]
    /\ blind' = blind \union {r}
    /\ UNCHANGED <<now, vendor, database, cache, askedAt, reply, decisions>>

\* The audit entry of a restored revocation cannot be appended: the overlay is
\* taken back, and the link starts stale.
BootUnrecorded(r) ==
    /\ pc[r] = "down" /\ Fault
    /\ RevokedAtBoot(r, Clock(r))
    /\ link' = [link EXCEPT ![r] = FailedClosed([Restored(r, Clock(r)) EXCEPT !.revoked = FALSE])]
    /\ pc' = [pc EXCEPT ![r] = "idle"]
    /\ blind' = blind \union {r}
    /\ UNCHANGED <<now, vendor, database, cache, askedAt, reply, decisions>>

------------------------------------------------------------------------------
(* The environment *)

Tick ==
    /\ now < MaxTime
    /\ now' = now + 1
    /\ UNCHANGED <<vendor, database, process, bounds>>

VendorDecides ==
    /\ decisions < MaxDecisions /\ decisions' = decisions + 1
    /\ \E status \in Status \ {vendor} : vendor' = status
    /\ UNCHANGED <<now, database, process, faults>>

Crash(r) ==
    /\ pc[r] # "down"
    /\ pc' = [pc EXCEPT ![r] = "down"]
    /\ link' = [link EXCEPT ![r] = Fresh]
    /\ askedAt' = [askedAt EXCEPT ![r] = 0]
    /\ reply' = [reply EXCEPT ![r] = None]
    /\ blind' = blind \ {r}
    /\ UNCHANGED <<now, vendor, database, cache, bounds>>

\* The state file is deleted; only a boot would have read it.
CacheLost(r) ==
    /\ pc[r] = "down" /\ cache[r] # None
    /\ cache' = [cache EXCEPT ![r] = None]
    /\ UNCHANGED <<now, vendor, database, link, pc, askedAt, reply, blind, bounds>>

\* The data directory is backed up, and put back once while nobody runs.
BackUp ==
    /\ Fault /\ saved' = saved \union {shared}
    /\ UNCHANGED <<now, vendor, shared, process, decisions>>

PutBack ==
    /\ \A r \in Replica : pc[r] = "down"
    /\ \E backup \in saved : shared' = backup /\ saved' = saved \ {backup}
    /\ UNCHANGED <<now, vendor, process, bounds>>

Next ==
    \/ Tick \/ VendorDecides \/ BackUp \/ PutBack
    \/ \E r \in Replica :
          \/ Ask(r) \/ Serve(r) \/ NoAnswer(r)
          \/ Answer(r) \/ AnswerLate(r) \/ AnswerRefused(r)
          \/ AnswerUnrecorded(r) \/ AnswerUncertain(r)
          \/ Request(r) \/ RequestUnread(r)
          \/ Boot(r) \/ BootUnread(r) \/ BootUnrecorded(r)
          \/ Crash(r) \/ CacheLost(r)

SafetySpec == Init /\ [][Next]_vars

------------------------------------------------------------------------------
(* Properties *)

\* "A revocation survives restart" (vendor-link.js restore): no replica serves
\* while the database holds a revocation, nor while its own cache holds one that
\* is newer than what the database says, whatever was crashed, restored from a
\* backup or answered late.  A replica whose last boot could not read or record
\* is left out.
RevocationEnforced ==
    \A r \in Replica \ blind :
        Admits(r) => /\ ~Revoked(shared)
                     /\ ~(Revoked(cache[r]) /\ IssuedAt(cache[r]) > IssuedAt(shared))

\* When the vendor signed it; an install without a verdict counts from its start.
SignedAt(v) == IF v = None THEN InstalledAt ELSE v.issuedAt

\* "Heartbeat or die" (evaluateStaleness): what a replica serves on was signed at
\* most the window and the tolerated skew before its clock, whichever replica
\* asked for it, however long the answer took and whatever was restarted since.
WindowBounded ==
    \A r \in Replica \ blind :
        Admits(r) => Clock(r) - SignedAt(shared) <= Window + Skew

\* Nothing a replica has cached is fresh for it again: the mark of a running
\* process is never behind its own state file, whatever the database holds.
NoReplay ==
    \A r \in Replica \ blind :
        pc[r] # "down" => link[r].applied >= IssuedAt(cache[r])

\* The compare-and-set of applyVendorHeartbeat: answers of several replicas that
\* return in any order move the shared verdict only forward, and only to what
\* the vendor signed for a heartbeat that was then in flight.
VerdictsAdvance ==
    [][shared' # shared /\ ~PutBack
       => /\ IssuedAt(shared') > IssuedAt(shared) \/ shared = None
          /\ \E r \in Replica : reply[r] = [status |-> shared'.status,
                                            issuedAt |-> shared'.issuedAt]]_vars

\* A running process lifts a revocation only on a shared verdict that is active
\* and not older than what it had applied (reconcileSharedState, heartbeat).
LiftedByVerdict ==
    [][\A r \in Replica :
          pc[r] # "down" /\ pc'[r] # "down" /\ link[r].revoked /\ ~link'[r].revoked
          => shared' # None /\ ~Revoked(shared') /\ shared'.issuedAt >= link[r].applied]_vars
=============================================================================
