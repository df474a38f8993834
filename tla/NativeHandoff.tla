---------------------------- MODULE NativeHandoff ----------------------------
(* The native handoff of the endpoint agent (src/sensors/endpoint-agent): a     *)
(* signed event file in the spool directory asks the agent to scan a file and   *)
(* to report it to the control plane.  A durable claim per event remembers that *)
(* it was taken up and what was decided; the control plane keeps one record per *)
(* event, whatever is lost, late or repeated in between.                        *)
EXTENDS Integers, FiniteSets

CONSTANTS
    File,       \* event files that may appear in the spool directory
    Event,      \* signed events
    EventOf,    \* the event each file holds: a file may be a copy of another
    None,       \* no claim, record, holder or creation time
    Ttl,        \* DEFAULT_TTL_MS: how long a new event is accepted
    Retention,  \* DEFAULT_CLAIM_RETENTION_MS: how long a terminal claim is kept
    LastHour,   \* bound: how long the clock runs
    MaxRestarts, \* bound: crashes of the agent
    MaxMishaps  \* bound: reports that time out, writes and renames that fail

\* What a scan, and the control plane's record of it, decide.
Decision == {"allow", "redact", "block"}

\* A claim that is settled.
Terminal == [state : {"terminal"}, decision : Decision, at : Int]

ASSUME HandoffAssumption ==
    /\ EventOf \in [File -> Event]
    /\ None \notin File /\ None \notin Decision /\ None \notin Terminal
    /\ Ttl \in Nat /\ Retention \in Nat /\ Retention >= 2 * Ttl
    /\ LastHour \in Nat /\ MaxRestarts \in Nat /\ MaxMishaps \in Nat

VARIABLES
    hour,       \* the clock
    createdAt,  \* createdAt of each event that was signed
    spool,      \* the directory entry of each file
    claim,      \* the claim file of each event
    mislaid,    \* ghost: events whose claim a publication left missing or unreadable
    holder,     \* the job that holds the file mutation lock of the claim
    job,        \* the job of each file in the agent: stage, decision, companion
    due,        \* files a watch event, a retry timer or the start-up scan names
    companions, \* redacted companion files written for each event and kept
    requests,   \* reports the control plane has not finished
    record,     \* the control plane's replay snapshot of each event
    recorded,   \* ghost: queries the control plane created for each event
    restarts,   \* ghost: crashes so far
    mishaps     \* ghost: mishaps so far

disk    == <<spool, claim, mislaid, companions>>
agentState  == <<holder, job, due>>
server  == <<requests, record, recorded>>
budget  == <<restarts, mishaps>>
handoffVars == <<hour, createdAt, disk, agentState, server, budget>>

Stage == {"idle", "accepted", "pruned", "claimed", "reported", "fallback",
          "decided", "finished", "quarantined"}

Idle == [stage |-> "idle", decision |-> None, companion |-> FALSE]

\* A claim that is taken up, and one that is settled now.
Taken == [state |-> "claimed"]

Settled(d) == [state |-> "terminal", decision |-> d, at |-> hour]

\* A claim file with a second link: no reading of it is accepted.
Unreadable == [state |-> "unreadable"]

\* A report in flight: "waited" until its sender gives up, "checked" once the
\* gate has found no committed record for it.
Request == [file : File, decision : Decision, waited : BOOLEAN, checked : BOOLEAN]

HandoffTypes ==
    /\ hour \in 0..LastHour
    /\ createdAt \in [Event -> Int \union {None}]
    /\ spool \in [File -> {"absent", "queued", "quarantine", "deleted"}]
    /\ claim \in [Event -> {None, Taken, Unreadable} \union Terminal]
    /\ mislaid \subseteq Event
    /\ holder \in [Event -> File \union {None}]
    /\ job \in [File -> [stage : Stage, decision : Decision \union {None},
                         companion : BOOLEAN]]
    /\ due \subseteq File
    /\ companions \in [Event -> Nat]
    /\ requests \subseteq Request
    /\ record \in [Event -> Decision \union {None}]
    /\ recorded \in [Event -> Nat]
    /\ restarts \in 0..MaxRestarts /\ mishaps \in 0..MaxMishaps

HandoffInit ==
    /\ hour = 0 /\ createdAt = [e \in Event |-> None]
    /\ spool = [f \in File |-> "absent"]
    /\ claim = [e \in Event |-> None] /\ mislaid = {}
    /\ holder = [e \in Event |-> None]
    /\ job = [f \in File |-> Idle] /\ due = {}
    /\ companions = [e \in Event |-> 0]
    /\ requests = {}
    /\ record = [e \in Event |-> None] /\ recorded = [e \in Event |-> 0]
    /\ restarts = 0 /\ mishaps = 0

Mishap == mishaps < MaxMishaps /\ mishaps' = mishaps + 1

HourPasses ==
    /\ hour < LastHour /\ hour' = hour + 1
    /\ UNCHANGED <<createdAt, disk, agentState, server, budget>>

\* writeHandoffFile, and copies of a file it wrote: a new directory entry.
WriteEvent(f) ==
    /\ spool[f] = "absent"
    /\ spool' = [spool EXCEPT ![f] = "queued"]
    /\ createdAt' = [createdAt EXCEPT ![EventOf[f]] = IF @ = None THEN hour ELSE @]
    /\ due' = due \union {f}
    /\ UNCHANGED <<hour, claim, mislaid, companions, holder, job, server, budget>>

------------------------------------------------------------------------------
(* The agent *)

InWindow(e) == hour - createdAt[e] <= Ttl

\* Mutant: a claim does not excuse a late event.
Acceptable_WindowOnly(e) == InWindow(e)

\* An event outside its window is a retry when its claim shows that it was taken up.
Acceptable(e) == InWindow(e) \/ claim[e] \notin {None, Unreadable}

\* One job per path runs at a time; a rejected event stays where it is.
OpenEvent(f) ==
    /\ f \in due /\ job[f] = Idle /\ spool[f] = "queued"
    /\ due' = due \ {f}
    /\ job' = [job EXCEPT ![f].stage = IF Acceptable(EventOf[f]) THEN "accepted" ELSE "idle"]
    /\ UNCHANGED <<hour, createdAt, disk, holder, server, budget>>

Prunable(e) == claim[e] \in Terminal /\ hour - claim[e].at > Retention /\ holder[e] = None

\* A job that fails gives up its lock and is retried, as its file still exists.
Retried(f) ==
    /\ job' = [job EXCEPT ![f] = Idle]
    /\ holder' = [holder EXCEPT ![EventOf[f]] = IF @ = f THEN None ELSE @]
    /\ due' = due \union {f}

\* pruneConsumedClaims runs at most once a minute, before the claim is locked.
PruneClaims(f) ==
    /\ job[f].stage = "accepted"
    /\ job' = [job EXCEPT ![f].stage = "pruned"]
    /\ \/ /\ \A e \in Event : claim[e] # Unreadable
          /\ claim' = [e \in Event |-> IF Prunable(e) THEN None ELSE claim[e]]
       \/ UNCHANGED claim
    /\ UNCHANGED <<hour, createdAt, spool, mislaid, companions, holder, due, server, budget>>

\* One claim that cannot be read stops the pruning, and with it the job, after
\* the claims that the directory lists before it.
PruneStops(f) ==
    /\ job[f].stage = "accepted" /\ \E e \in Event : claim[e] = Unreadable
    /\ \E gone \in SUBSET {e \in Event : Prunable(e)} :
          claim' = [e \in Event |-> IF e \in gone THEN None ELSE claim[e]]
    /\ Retried(f)
    /\ UNCHANGED <<hour, createdAt, spool, mislaid, companions, server, budget>>

\* publishClaimState moves the claim that is there out of the way, links the new
\* one and removes its second link, and nothing else of the agent runs meanwhile.
\* One that fails, or that the agent does not survive, may leave any of these.
LeftOver(e, c) == {claim[e], None, Unreadable, c}

Mislays(e, left) == left = Unreadable \/ (left = None /\ claim[e] # None)

\* Job f is at a publication, and what it publishes.
Publishing(f) ==
    \/ job[f].stage = "pruned" /\ holder[EventOf[f]] = None /\ claim[EventOf[f]] \in {None, Taken}
    \/ job[f].stage = "decided"

NextClaim(f) == IF job[f].stage = "decided" THEN Settled(job[f].decision) ELSE Taken

\* The publication of job f ends somewhere on its way.
PublicationBreaks(f) ==
    LET e == EventOf[f] IN
    /\ Publishing(f)
    /\ \E left \in LeftOver(e, NextClaim(f)) :
          /\ claim' = [claim EXCEPT ![e] = left]
          /\ mislaid' = IF Mislays(e, left) THEN mislaid \union {e} ELSE mislaid

\* Under the lock: a settled claim ends the job, any other is taken (again).
ClaimEvent(f) ==
    LET e == EventOf[f] IN
    /\ job[f].stage = "pruned" /\ holder[e] = None
    /\ \/ /\ claim[e] \in Terminal
          /\ job' = [job EXCEPT ![f].stage = "finished"]
          /\ UNCHANGED <<claim, holder>>
       \/ /\ claim[e] \in {None, Taken}
          /\ job' = [job EXCEPT ![f].stage = "claimed"]
          /\ claim' = [claim EXCEPT ![e] = Taken]
          /\ holder' = [holder EXCEPT ![e] = f]
    /\ UNCHANGED <<hour, createdAt, spool, mislaid, companions, due, server, budget>>

ClaimUnavailable(f) ==
    /\ job[f].stage = "pruned" /\ holder[EventOf[f]] = None
    /\ claim[EventOf[f]] = Unreadable
    /\ Retried(f)
    /\ UNCHANGED <<hour, createdAt, disk, server, budget>>

LockTimesOut(f) ==
    /\ job[f].stage = "pruned" /\ holder[EventOf[f]] # None
    /\ Retried(f)
    /\ UNCHANGED <<hour, createdAt, disk, server, budget>>

Report(f, d) == [file |-> f, decision |-> d, waited |-> TRUE, checked |-> FALSE]

\* The file and the policy may have changed since an earlier attempt.  A redacted
\* result writes its companion before it is reported; a file that cannot be
\* inspected is reported as blocked, and only once.
ScanFile(f) ==
    /\ job[f].stage = "claimed"
    /\ \/ \E d \in Decision :
             /\ job' = [job EXCEPT ![f] = [stage |-> "reported", decision |-> None,
                                           companion |-> d = "redact"]]
             /\ requests' = requests \union {Report(f, d)}
             /\ companions' = [companions EXCEPT ![EventOf[f]] =
                                   IF d = "redact" THEN @ + 1 ELSE @]
       \/ /\ job' = [job EXCEPT ![f].stage = "fallback"]
          /\ requests' = requests \union {Report(f, "block")}
          /\ UNCHANGED companions
    /\ UNCHANGED <<hour, createdAt, spool, claim, mislaid, holder, due, record, recorded, budget>>

\* The companions of e once job f keeps, or removes, the one it wrote.
CompanionRemoved(f) ==
    [companions EXCEPT ![EventOf[f]] = IF job[f].companion THEN @ - 1 ELSE @]

GiveUp(f) == {IF m.file = f THEN [m EXCEPT !.waited = FALSE] ELSE m : m \in requests}

\* No usable answer to the report, because it was refused, lost or too late: the
\* companion is removed and the block is reported under the same identity.  A
\* request whose sender gave up may still be served at any later time, or never.
FirstReportFails(f) ==
    /\ job[f].stage = "reported" /\ Mishap
    /\ companions' = CompanionRemoved(f)
    /\ job' = [job EXCEPT ![f] = [stage |-> "fallback", decision |-> None, companion |-> FALSE]]
    /\ requests' = GiveUp(f) \union {Report(f, "block")}
    /\ UNCHANGED <<hour, createdAt, spool, claim, mislaid, holder, due, record, recorded, restarts>>

\* Nor to the second: nothing shows that evidence was recorded.
SecondReportFails(f) ==
    /\ job[f].stage = "fallback" /\ Mishap
    /\ requests' = GiveUp(f)
    /\ Retried(f)
    /\ UNCHANGED <<hour, createdAt, disk, record, recorded, restarts>>

PublishTerminal(f) ==
    /\ job[f].stage = "decided"
    /\ claim' = [claim EXCEPT ![EventOf[f]] = NextClaim(f)]
    /\ holder' = [holder EXCEPT ![EventOf[f]] = None]
    /\ job' = [job EXCEPT ![f] = [Idle EXCEPT !.stage = "finished"]]
    /\ UNCHANGED <<hour, createdAt, spool, mislaid, companions, due, server, budget>>

\* The claim, or the terminal state, cannot be published.
PublishFails(f) ==
    /\ PublicationBreaks(f) /\ Mishap /\ Retried(f)
    /\ UNCHANGED <<hour, createdAt, spool, companions, server, restarts>>

\* removeAcceptedHandoffFile: the entry is renamed away, compared and deleted.
QuarantineEvent(f) ==
    /\ job[f].stage = "finished"
    /\ spool' = [spool EXCEPT ![f] = "quarantine"]
    /\ job' = [job EXCEPT ![f].stage = "quarantined"]
    /\ UNCHANGED <<hour, createdAt, claim, mislaid, companions, holder, due, server, budget>>

\* The rename is refused: a warning, and the file stays.
QuarantineFails(f) ==
    /\ job[f].stage = "finished" /\ Mishap
    /\ job' = [job EXCEPT ![f] = Idle]
    /\ UNCHANGED <<hour, createdAt, disk, holder, due, server, restarts>>

DeleteEvent(f) ==
    /\ job[f].stage = "quarantined"
    /\ spool' = [spool EXCEPT ![f] = "deleted"]
    /\ job' = [job EXCEPT ![f] = Idle]
    /\ UNCHANGED <<hour, createdAt, claim, mislaid, companions, holder, due, server, budget>>

\* The agent dies, between two steps or within a publication, and starts again:
\* its lock is provably a dead owner's, and processHandoffDirectory finds every
\* file that is still there.
AgentRestarts ==
    /\ restarts < MaxRestarts /\ restarts' = restarts + 1
    /\ \/ UNCHANGED <<claim, mislaid>>
       \/ \E f \in File : PublicationBreaks(f)
    /\ job' = [f \in File |-> Idle]
    /\ holder' = [e \in Event |-> None]
    /\ due' = {f \in File : spool[f] = "queued"}
    /\ requests' = {[m EXCEPT !.waited = FALSE] : m \in requests}
    /\ UNCHANGED <<hour, createdAt, spool, companions, record, recorded, mishaps>>

------------------------------------------------------------------------------
(* The control plane: POST /api/v1/gate with an idempotency key *)

\* What the agent makes of the recorded decision: a replayed answer replaces
\* what it decided itself, and a companion is kept for a redacted record only.
Outcome(f, d) == d

\* The answer d reaches the sender of m, if it still waits.
Answered(m, d) ==
    /\ requests' = requests \ {m}
    /\ IF m.waited
       THEN /\ job' = [job EXCEPT ![m.file] =
                          [stage |-> "decided", decision |-> Outcome(m.file, d),
                           companion |-> FALSE]]
            /\ companions' = IF d = "redact" THEN companions ELSE CompanionRemoved(m.file)
       ELSE UNCHANGED <<job, companions>>

\* committedNativeIngest, before anything is awaited.
GateReplays(m) ==
    /\ ~m.checked /\ record[EventOf[m.file]] # None
    /\ Answered(m, record[EventOf[m.file]])
    /\ UNCHANGED <<hour, createdAt, spool, claim, mislaid, holder, due, record, recorded, budget>>

GateProceeds(m) ==
    /\ ~m.checked /\ record[EventOf[m.file]] = None
    /\ requests' = (requests \ {m}) \union {[m EXCEPT !.checked = TRUE]}
    /\ UNCHANGED <<hour, createdAt, disk, agentState, record, recorded, budget>>

\* Mutant: the transaction relies on the check before it.
Resolved_Unlocked(e) == None

\* resolvedIngestIdempotency inside the transaction of createQueryWithAudits.
Resolved(e) == record[e]

\* The control plane's own policy may be stricter than what the agent reports.
GateCommits(m) ==
    LET e == EventOf[m.file] IN
    /\ m.checked
    /\ IF Resolved(e) # None
       THEN Answered(m, Resolved(e)) /\ UNCHANGED <<record, recorded>>
       ELSE \E d \in {m.decision, "block"} :
               /\ record' = [record EXCEPT ![e] = d]
               /\ recorded' = [recorded EXCEPT ![e] = @ + 1]
               /\ Answered(m, d)
    /\ UNCHANGED <<hour, createdAt, spool, claim, mislaid, holder, due, budget>>

------------------------------------------------------------------------------

AgentWorks(f) ==
    \/ OpenEvent(f) \/ PruneClaims(f) \/ PruneStops(f) \/ ClaimEvent(f)
    \/ ClaimUnavailable(f) \/ ScanFile(f) \/ PublishTerminal(f) \/ QuarantineEvent(f) \/ DeleteEvent(f)

AgentFails(f) ==
    \/ LockTimesOut(f) \/ FirstReportFails(f) \/ SecondReportFails(f)
    \/ PublishFails(f) \/ QuarantineFails(f)

GateWorks(m) == GateReplays(m) \/ GateProceeds(m) \/ GateCommits(m)

HandoffNext ==
    \/ HourPasses \/ AgentRestarts
    \/ \E f \in File : WriteEvent(f) \/ AgentWorks(f) \/ AgentFails(f)
    \/ \E m \in requests : GateWorks(m)

\* Jobs run, and the control plane answers what it has received.
HandoffFairness ==
    /\ \A f \in File : WF_handoffVars(AgentWorks(f))
    /\ WF_handoffVars(\E m \in requests : m.waited /\ GateWorks(m))

HandoffSpec == HandoffInit /\ [][HandoffNext]_handoffVars /\ HandoffFairness

------------------------------------------------------------------------------
(* Properties *)

\* "A lost response no longer produces a second query or a different terminal
\* decision" (docs/process/DURABILITY_HARDENING_2026-07.md): however often an
\* event is copied, retried, restarted or answered late, the control plane
\* creates at most one query for it, and a terminal claim says what it recorded.
DecidedOnce ==
    \A e \in Event :
        /\ recorded[e] <= 1
        /\ claim[e] \in Terminal => recorded[e] = 1 /\ claim[e].decision = record[e]

\* An event that was taken up reaches a terminal decision, even when its window
\* has passed, its job failed or the agent died (processNativeHandoffFile,
\* scheduleNativeHandoffRetry, processHandoffDirectory), unless a publication that
\* failed or that the agent did not survive left a claim missing or unreadable.
TakenUpIsSettled ==
    \A e \in Event : (claim[e] = Taken) ~> (claim[e] \in Terminal \/ mislaid # {})

\* "A signature-valid event accepted while fresh may finish after its freshness
\* window.  Its durable opaque claim proves this is a retry" (agent.js): what
\* was taken up is settled, whatever happens to the agent.  It does not hold: an
\* agent that dies while it publishes the claim again leaves none.
ClaimProvesRetry ==
    \A e \in Event : (claim[e] = Taken) ~> (claim[e] \in Terminal)

\* What the control plane recorded as redacted has its redacted companion once
\* the event is settled (localFileResponse keeps it for a redacted record).
RedactedHasCompanion ==
    \A e \in Event :
        claim[e] \in Terminal /\ claim[e].decision = "redact" => companions[e] > 0
=============================================================================
