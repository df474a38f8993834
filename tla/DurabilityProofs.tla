--------------------------- MODULE DurabilityProofs ---------------------------
(* What runs at the user's side, for any number of files, sensors, bundles and   *)
(* destinations, and however often anything dies: an event is decided once, a    *)
(* policy is never rolled back, and a destination it names is guarded.  Last,    *)
(* every part that must survive failures keeps its state well formed.            *)
EXTENDS MCDurability, AuditAnchorProofs, MaintenanceProofs, TLAPS

-----------------------------------------------------------------------------
(* The hand-off of files *)

HandoffJob == [stage : Stage, decision : Decision \union {None}, companion : BOOLEAN]

ClaimFiles == {None, Taken, Unreadable} \union Terminal

HandoffShapes ==
    /\ job \in [File -> HandoffJob]
    /\ claim \in [Event -> ClaimFiles]
    /\ record \in [Event -> Decision \union {None}]
    /\ recorded \in [Event -> Nat]
    /\ requests \subseteq Request
    /\ hour \in Nat

(* The record and the count of what was created for it go together.              *)
OneRecord == \A e \in Event : recorded[e] = IF record[e] = None THEN 0 ELSE 1

Says(e, d) == record[e] # None /\ d = record[e]

(* A job is answered with the record only, and a claim settled with the answer.  *)
JobsAgree == \A f \in File : job[f].stage = "decided" => Says(EventOf[f], job[f].decision)

ClaimsAgree == \A e \in Event : claim[e] \in Terminal => Says(e, claim[e].decision)

HandoffInv == HandoffShapes /\ OneRecord /\ JobsAgree /\ ClaimsAgree

-----------------------------------------------------------------------------

LEMMA HandoffStarts == HandoffInit => HandoffInv
<1> SUFFICES ASSUME HandoffInit PROVE HandoffInv OBVIOUS
<1> USE HandoffAssumption
<1>1. Idle \in HandoffJob BY DEF Idle, HandoffJob, Stage
<1>2. HandoffShapes BY <1>1 DEF HandoffInit, HandoffShapes, ClaimFiles
<1>3. OneRecord /\ ClaimsAgree BY DEF HandoffInit, OneRecord, ClaimsAgree
<1>4. JobsAgree BY DEF HandoffInit, JobsAgree, Idle
<1> QED BY <1>2, <1>3, <1>4 DEF HandoffInv

(* A step that leaves the record alone and moves job f to a stage of its own.    *)
LEMMA JobMoves ==
    ASSUME HandoffInv, NEW f \in File, NEW j \in HandoffJob, j.stage # "decided",
           job' = [job EXCEPT ![f] = j],
           UNCHANGED <<record, recorded>>
    PROVE  job' \in [File -> HandoffJob] /\ OneRecord' /\ JobsAgree'
BY DEF HandoffInv, HandoffShapes, OneRecord, JobsAgree, Says

LEMMA StageMoves ==
    ASSUME HandoffInv, NEW f \in File, NEW s \in Stage \ {"decided"},
           job' = [job EXCEPT ![f].stage = s],
           UNCHANGED <<record, recorded>>
    PROVE  job' \in [File -> HandoffJob] /\ OneRecord' /\ JobsAgree'
<1>1. [job[f] EXCEPT !.stage = s] \in HandoffJob BY DEF HandoffInv, HandoffShapes, HandoffJob
<1>2. [job[f] EXCEPT !.stage = s].stage # "decided" BY DEF HandoffInv, HandoffShapes, HandoffJob
<1>3. job' = [job EXCEPT ![f] = [job[f] EXCEPT !.stage = s]] OBVIOUS
<1> QED BY <1>1, <1>2, <1>3, JobMoves

LEMMA Retrying ==
    ASSUME HandoffInv, NEW f \in File, Retried(f), UNCHANGED <<record, recorded>>
    PROVE  job' \in [File -> HandoffJob] /\ OneRecord' /\ JobsAgree'
<1>1. Idle \in HandoffJob /\ Idle.stage # "decided" BY DEF Idle, HandoffJob, Stage
<1> QED BY <1>1, JobMoves DEF Retried

LEMMA ClaimsStay ==
    ASSUME HandoffInv, UNCHANGED <<claim, record>>
    PROVE  /\ ClaimsAgree' /\ claim' \in [Event -> ClaimFiles]
           /\ record' \in [Event -> Decision \union {None}]
BY DEF HandoffInv, HandoffShapes, ClaimsAgree, Says

(* A publication that breaks leaves the claim that was there, the one that was   *)
(* meant, or none that can be read.                                              *)
LEMMA ClaimsBreak ==
    ASSUME HandoffInv, NEW f \in File, PublicationBreaks(f), UNCHANGED record
    PROVE  ClaimsAgree' /\ claim' \in [Event -> ClaimFiles]
<1> USE HandoffAssumption
<1>1. EventOf[f] \in Event OBVIOUS
<1>2. PICK left \in LeftOver(EventOf[f], NextClaim(f)) : claim' = [claim EXCEPT ![EventOf[f]] = left]
  BY DEF PublicationBreaks
<1>3. None \notin Terminal /\ Taken \notin Terminal /\ Unreadable \notin Terminal
  BY DEF Taken, Unreadable, Terminal
<1>4. /\ NextClaim(f) \in ClaimFiles
      /\ NextClaim(f) \in Terminal => Says(EventOf[f], NextClaim(f).decision)
  <2>1. CASE job[f].stage # "decided" BY <1>3, <2>1 DEF NextClaim, ClaimFiles
  <2>2. CASE job[f].stage = "decided"
    <3>1. Says(EventOf[f], job[f].decision) BY <2>2 DEF HandoffInv, JobsAgree
    <3>2. job[f].decision \in Decision BY <1>1, <3>1 DEF HandoffInv, HandoffShapes, Says
    <3>3. Settled(job[f].decision) \in Terminal /\ Settled(job[f].decision).decision = job[f].decision
      BY <3>2 DEF Settled, Terminal, HandoffInv, HandoffShapes
    <3> QED BY <2>2, <3>1, <3>3 DEF NextClaim, ClaimFiles
  <2> QED BY <2>1, <2>2
<1>5. left \in ClaimFiles /\ (left \in Terminal => Says(EventOf[f], left.decision))
  BY <1>1, <1>2, <1>3, <1>4 DEF LeftOver, HandoffInv, HandoffShapes, ClaimsAgree, ClaimFiles
<1> QED BY <1>1, <1>2, <1>5 DEF HandoffInv, HandoffShapes, ClaimsAgree, Says

LEMMA GivenUp ==
    ASSUME NEW f \in File, requests \subseteq Request PROVE GiveUp(f) \subseteq Request
BY DEF GiveUp, Request

(* Steps of a job that leave its claim as it is.                                 *)
LEMMA JobKeeps ==
    ASSUME HandoffInv, NEW f \in File,
           \/ OpenEvent(f) \/ ClaimUnavailable(f) \/ ScanFile(f) \/ QuarantineEvent(f)
           \/ DeleteEvent(f) \/ (AgentFails(f) /\ ~PublishFails(f))
    PROVE  HandoffInv'
<1> USE DEF server, agentState, disk, budget
<1>1. UNCHANGED <<hour, claim, record, recorded>>
    BY DEF OpenEvent, ClaimUnavailable, ScanFile, QuarantineEvent, DeleteEvent, AgentFails,
           LockTimesOut, FirstReportFails, SecondReportFails, QuarantineFails
<1>2. job' \in [File -> HandoffJob] /\ OneRecord' /\ JobsAgree'
  <2>0. Idle \in HandoffJob /\ Idle.stage # "decided" BY DEF Idle, HandoffJob, Stage
  <2>1. CASE OpenEvent(f)
    <3>1. CASE Acceptable(EventOf[f])
      <4>1. job' = [job EXCEPT ![f].stage = "accepted"] BY <2>1, <3>1 DEF OpenEvent
      <4> QED BY <1>1, <4>1, StageMoves DEF Stage
    <3>2. CASE ~Acceptable(EventOf[f])
      <4>1. job' = [job EXCEPT ![f].stage = "idle"] BY <2>1, <3>2 DEF OpenEvent
      <4> QED BY <1>1, <4>1, StageMoves DEF Stage
    <3> QED BY <3>1, <3>2
  <2>2. CASE ScanFile(f)
    <3>1. CASE job' = [job EXCEPT ![f].stage = "fallback"]
      BY <1>1, <3>1, StageMoves DEF Stage
    <3>2. ASSUME NEW d \in Decision,
                 job' = [job EXCEPT ![f] = [stage |-> "reported", decision |-> None,
                                            companion |-> d = "redact"]]
          PROVE  job' \in [File -> HandoffJob] /\ OneRecord' /\ JobsAgree'
      <4>1. [stage |-> "reported", decision |-> None, companion |-> d = "redact"] \in HandoffJob
        BY DEF HandoffJob, Stage
      <4> QED BY <1>1, <3>2, <4>1, JobMoves
    <3> QED BY <2>2, <3>1, <3>2 DEF ScanFile
  <2>3. CASE QuarantineEvent(f) BY <1>1, <2>3, StageMoves DEF QuarantineEvent, Stage
  <2>4. CASE DeleteEvent(f) BY <1>1, <2>0, <2>4, JobMoves DEF DeleteEvent
  <2>5. CASE LockTimesOut(f) BY <1>1, <2>5, Retrying DEF LockTimesOut
  <2>6. CASE FirstReportFails(f)
    <3>1. [stage |-> "fallback", decision |-> None, companion |-> FALSE] \in HandoffJob
      BY DEF HandoffJob, Stage
    <3> QED BY <1>1, <2>6, <3>1, JobMoves DEF FirstReportFails
  <2>7. CASE SecondReportFails(f) BY <1>1, <2>7, Retrying DEF SecondReportFails
  <2>8. CASE ClaimUnavailable(f) BY <1>1, <2>8, Retrying DEF ClaimUnavailable
  <2>9. CASE QuarantineFails(f) BY <1>1, <2>0, <2>9, JobMoves DEF QuarantineFails
  <2> QED BY <2>1, <2>2, <2>3, <2>4, <2>5, <2>6, <2>7, <2>8, <2>9 DEF AgentFails
<1>3. requests' \subseteq Request
  <2>1. requests \subseteq Request BY DEF HandoffInv, HandoffShapes
  <2>2. \A d \in Decision : Report(f, d) \in Request BY DEF Report, Request
  <2>3. "block" \in Decision BY DEF Decision
  <2>4. GiveUp(f) \subseteq Request BY <2>1, GivenUp
  <2> QED BY <2>1, <2>2, <2>3, <2>4
          DEF OpenEvent, ClaimUnavailable, ScanFile, QuarantineEvent, DeleteEvent, AgentFails,
              LockTimesOut, FirstReportFails, SecondReportFails, QuarantineFails
<1>4. recorded' \in [Event -> Nat] /\ hour' \in Nat BY <1>1 DEF HandoffInv, HandoffShapes
<1> QED BY <1>1, <1>2, <1>3, <1>4, ClaimsStay DEF HandoffInv, HandoffShapes

(* Steps that take, settle or prune a claim.                                     *)
LEMMA ClaimKeeps ==
    ASSUME HandoffInv, NEW f \in File,
           \/ PruneClaims(f) \/ PruneStops(f) \/ ClaimEvent(f) \/ PublishTerminal(f)
           \/ PublishFails(f)
    PROVE  HandoffInv'
<1> USE HandoffAssumption DEF server, agentState, disk, budget
<1>1. UNCHANGED <<hour, requests, record, recorded>>
    BY DEF PruneClaims, PruneStops, ClaimEvent, PublishTerminal, PublishFails
<1>2. job' \in [File -> HandoffJob] /\ OneRecord' /\ JobsAgree'
  <2>1. CASE PruneClaims(f) BY <1>1, <2>1, StageMoves DEF PruneClaims, Stage
  <2>2. CASE ClaimEvent(f) BY <1>1, <2>2, StageMoves DEF ClaimEvent, Stage
  <2>3. CASE PublishTerminal(f)
    <3>1. [Idle EXCEPT !.stage = "finished"] \in HandoffJob
          /\ [Idle EXCEPT !.stage = "finished"].stage # "decided"
      BY DEF Idle, HandoffJob, Stage
    <3> QED BY <1>1, <2>3, <3>1, JobMoves DEF PublishTerminal
  <2>4. CASE PruneStops(f) BY <1>1, <2>4, Retrying DEF PruneStops
  <2>5. CASE PublishFails(f) BY <1>1, <2>5, Retrying DEF PublishFails
  <2> QED BY <2>1, <2>2, <2>3, <2>4, <2>5
<1>3. claim' \in [Event -> ClaimFiles] /\ ClaimsAgree'
  <2>0. Taken \notin Terminal /\ EventOf[f] \in Event BY DEF Taken, Terminal
  <2>1. CASE PruneClaims(f) \/ PruneStops(f)
    <3>1. \A e \in Event : claim'[e] \in {claim[e], None}
      BY <2>1 DEF PruneClaims, PruneStops, HandoffInv, HandoffShapes
    <3>2. claim' \in [Event -> ClaimFiles]
      BY <2>1 DEF PruneClaims, PruneStops, HandoffInv, HandoffShapes, ClaimFiles
    <3>3. ClaimsAgree' BY <1>1, <3>1 DEF HandoffInv, ClaimsAgree, Says
    <3> QED BY <3>2, <3>3
  <2>2. CASE ClaimEvent(f)
    <3>1. claim' = claim \/ claim' = [claim EXCEPT ![EventOf[f]] = Taken] BY <2>2 DEF ClaimEvent
    <3> QED BY <1>1, <2>0, <3>1 DEF HandoffInv, HandoffShapes, ClaimsAgree, Says, ClaimFiles
  <2>3. CASE PublishTerminal(f)
    <3>1. Says(EventOf[f], job[f].decision) BY <2>3 DEF PublishTerminal, HandoffInv, JobsAgree
    <3>2. job[f].decision \in Decision BY <2>0, <3>1 DEF HandoffInv, HandoffShapes, Says
    <3>3. Settled(job[f].decision) \in Terminal /\ Settled(job[f].decision).decision = job[f].decision
      BY <3>2 DEF Settled, Terminal, HandoffInv, HandoffShapes
    <3>4. claim' = [claim EXCEPT ![EventOf[f]] = Settled(job[f].decision)]
      BY <2>3 DEF PublishTerminal, NextClaim
    <3> HIDE DEF Idle
    <3> QED BY <1>1, <2>0, <3>1, <3>3, <3>4
            DEF HandoffInv, HandoffShapes, ClaimsAgree, Says, ClaimFiles
  <2>4. CASE PublishFails(f) BY <1>1, <2>4, ClaimsBreak DEF PublishFails
  <2> QED BY <2>1, <2>2, <2>3, <2>4
<1>4. record' \in [Event -> Decision \union {None}] /\ recorded' \in [Event -> Nat]
      /\ requests' \subseteq Request /\ hour' \in Nat
    BY <1>1 DEF HandoffInv, HandoffShapes
<1> QED BY <1>2, <1>3, <1>4 DEF HandoffInv, HandoffShapes

(* The clock, a new file, and a restart of the agent.                            *)
LEMMA WorldKeeps ==
    ASSUME HandoffInv, HourPasses \/ AgentRestarts \/ \E f \in File : WriteEvent(f)
    PROVE  HandoffInv'
<1> USE DEF server, agentState, disk, budget
<1>1. UNCHANGED <<record, recorded>> BY DEF HourPasses, AgentRestarts, WriteEvent
<1>2. hour' \in Nat BY DEF HourPasses, AgentRestarts, WriteEvent, HandoffInv, HandoffShapes
<1>3. job' = job \/ job' = [f \in File |-> Idle] BY DEF HourPasses, AgentRestarts, WriteEvent
<1>4. job' \in [File -> HandoffJob] /\ JobsAgree'
  <2>1. Idle \in HandoffJob /\ Idle.stage # "decided" BY DEF Idle, HandoffJob, Stage
  <2> QED BY <1>1, <1>3, <2>1 DEF HandoffInv, HandoffShapes, JobsAgree, Says
<1>5. requests' \subseteq Request
  <2>1. requests \subseteq Request BY DEF HandoffInv, HandoffShapes
  <2>2. \A m \in Request : [m EXCEPT !.waited = FALSE] \in Request BY DEF Request
  <2> QED BY <2>1, <2>2 DEF HourPasses, AgentRestarts, WriteEvent
<1>6. recorded' \in [Event -> Nat] /\ OneRecord' BY <1>1 DEF HandoffInv, HandoffShapes, OneRecord
<1>7. ClaimsAgree' /\ claim' \in [Event -> ClaimFiles]
  <2>1. CASE UNCHANGED claim BY <1>1, <2>1, ClaimsStay
  <2>2. CASE \E f \in File : PublicationBreaks(f) BY <1>1, <2>2, ClaimsBreak
  <2> QED BY <2>1, <2>2 DEF HourPasses, AgentRestarts, WriteEvent
<1>8. record' \in [Event -> Decision \union {None}] BY <1>1 DEF HandoffInv, HandoffShapes
<1> QED BY <1>2, <1>4, <1>5, <1>6, <1>7, <1>8 DEF HandoffInv, HandoffShapes

(* The control plane answers a report with what it has recorded for the event.   *)
LEMMA GateKeeps ==
    ASSUME HandoffInv, NEW m \in requests, GateWorks(m) PROVE HandoffInv'
<1> USE HandoffAssumption DEF server, agentState, disk, budget
<1> DEFINE e == EventOf[m.file]
<1>1. m \in Request /\ m.file \in File /\ m.decision \in Decision /\ e \in Event
    BY DEF HandoffInv, HandoffShapes, Request
<1>2. UNCHANGED <<hour, claim>> BY DEF GateWorks, GateReplays, GateProceeds, GateCommits
<1>3. \/ UNCHANGED <<record, recorded>>
      \/ \E d \in Decision : /\ record[e] = None /\ record' = [record EXCEPT ![e] = d]
                             /\ recorded' = [recorded EXCEPT ![e] = @ + 1]
    BY <1>1 DEF GateWorks, GateReplays, GateProceeds, GateCommits, Resolved, Decision
<1>4. /\ record' \in [Event -> Decision \union {None}] /\ recorded' \in [Event -> Nat]
      /\ OneRecord' /\ \A x \in Event : record[x] # None => record'[x] = record[x]
    BY <1>1, <1>3 DEF HandoffInv, HandoffShapes, OneRecord
<1>5. ClaimsAgree' BY <1>2, <1>4 DEF HandoffInv, ClaimsAgree, Says
<1>6. requests' \subseteq Request
  <2>1. [m EXCEPT !.checked = TRUE] \in Request BY <1>1 DEF Request
  <2> QED BY <2>1 DEF HandoffInv, HandoffShapes, GateWorks, GateReplays, GateProceeds, GateCommits, Answered
<1>7. \/ job' = job
      \/ \E d \in Decision : /\ record'[e] = d
                             /\ job' = [job EXCEPT ![m.file] =
                                          [stage |-> "decided", decision |-> d, companion |-> FALSE]]
  <2>1. CASE GateReplays(m)
    BY <1>1, <2>1 DEF GateReplays, Answered, Outcome, HandoffInv, HandoffShapes
  <2>2. CASE GateProceeds(m) BY <2>2 DEF GateProceeds
  <2>3. CASE GateCommits(m)
    <3>1. CASE record[e] # None
      BY <1>1, <2>3, <3>1 DEF GateCommits, Resolved, Answered, Outcome, HandoffInv, HandoffShapes
    <3>2. CASE record[e] = None
      <4>1. PICK d \in {m.decision, "block"} : record' = [record EXCEPT ![e] = d] /\ Answered(m, d)
        BY <2>3, <3>2 DEF GateCommits, Resolved
      <4>2. record'[e] = d /\ d \in Decision BY <1>1, <4>1 DEF HandoffInv, HandoffShapes, Decision
      <4> QED BY <4>1, <4>2 DEF Answered, Outcome
    <3> QED BY <3>1, <3>2
  <2> QED BY <2>1, <2>2, <2>3 DEF GateWorks
<1>8. job' \in [File -> HandoffJob] /\ JobsAgree'
  <2>1. CASE job' = job BY <1>4, <2>1 DEF HandoffInv, HandoffShapes, JobsAgree, Says
  <2>2. ASSUME NEW d \in Decision, record'[e] = d,
               job' = [job EXCEPT ![m.file] =
                          [stage |-> "decided", decision |-> d, companion |-> FALSE]]
        PROVE  job' \in [File -> HandoffJob] /\ JobsAgree'
    <3>1. [stage |-> "decided", decision |-> d, companion |-> FALSE] \in HandoffJob BY DEF HandoffJob, Stage
    <3>2. job' \in [File -> HandoffJob] BY <2>2, <3>1 DEF HandoffInv, HandoffShapes
    <3>3. ASSUME NEW f \in File, job'[f].stage = "decided"
          PROVE  record'[EventOf[f]] # None /\ job'[f].decision = record'[EventOf[f]]
      <4>1. CASE f = m.file BY <1>1, <2>2, <4>1 DEF HandoffInv, HandoffShapes
      <4>2. CASE f # m.file
        BY <1>4, <2>2, <3>3, <4>2 DEF HandoffInv, HandoffShapes, JobsAgree, Says
      <4> QED BY <4>1, <4>2
    <3> QED BY <3>2, <3>3 DEF JobsAgree, Says
  <2> QED BY <1>7, <2>1, <2>2
<1> QED BY <1>2, <1>4, <1>5, <1>6, <1>8 DEF HandoffInv, HandoffShapes

LEMMA HandoffSteps == HandoffInv /\ [HandoffNext]_handoffVars => HandoffInv'
<1> SUFFICES ASSUME HandoffInv, [HandoffNext]_handoffVars PROVE HandoffInv' OBVIOUS
<1>1. CASE UNCHANGED handoffVars
  BY <1>1 DEF handoffVars, server, agentState, disk, budget, HandoffInv, HandoffShapes, OneRecord,
              JobsAgree, ClaimsAgree, Says
<1>2. CASE HourPasses \/ AgentRestarts BY <1>2, WorldKeeps
<1>3. ASSUME NEW f \in File, WriteEvent(f) \/ AgentWorks(f) \/ AgentFails(f) PROVE HandoffInv'
    BY <1>3, WorldKeeps, JobKeeps, ClaimKeeps DEF AgentWorks, AgentFails
<1>4. ASSUME NEW m \in requests, GateWorks(m) PROVE HandoffInv' BY <1>4, GateKeeps
<1> QED BY <1>1, <1>2, <1>3, <1>4 DEF HandoffNext

(* The control plane creates at most one query for an event, and a settled claim *)
(* says what it recorded (processNativeHandoffFile, committedNativeIngest,       *)
(* resolvedIngestIdempotency).                                                   *)
THEOREM EventsDecidedOnce == HandoffSpec => []DecidedOnce
<1>1. HandoffInv => DecidedOnce
    BY DEF HandoffInv, HandoffShapes, OneRecord, ClaimsAgree, Says, DecidedOnce
<1> QED BY <1>1, HandoffStarts, HandoffSteps, PTL DEF HandoffSpec
(* What bounds the world of the agent: the clock, the directory, locks and       *)
(* mishaps.                                                                      *)
WorldTyped ==
    /\ hour \in 0..LastHour
    /\ createdAt \in [Event -> Int \union {None}]
    /\ spool \in [File -> {"absent", "queued", "quarantine", "deleted"}]
    /\ mislaid \subseteq Event
    /\ holder \in [Event -> File \union {None}]
    /\ due \subseteq File
    /\ restarts \in 0..MaxRestarts /\ mishaps \in 0..MaxMishaps

(* A job that has claimed its event holds the lock of the claim, and only one    *)
(* that has reported has a companion to remove.                                  *)
Claiming == {"claimed", "reported", "fallback", "decided"}

JobKnown(f) ==
    /\ job[f].stage \in Claiming => holder[EventOf[f]] = f
    /\ job[f].companion => job[f].stage = "reported" /\ companions[EventOf[f]] > 0

(* A job waits for one report at a time.                                         *)
WaitingKnown ==
    \A m \in requests : m.waited =>
        /\ job[m.file].stage \in {"reported", "fallback"}
        /\ \A n \in requests : n.waited /\ n.file = m.file => n = m

AgentInv ==
    /\ companions \in [Event -> Nat]
    /\ \A f \in File : JobKnown(f)
    /\ WaitingKnown

LEMMA StageSet ==
    ASSUME HandoffInv, NEW f \in File, NEW st, job' = [job EXCEPT ![f].stage = st]
    PROVE  /\ job'[f].stage = st /\ job'[f].companion = job[f].companion
           /\ \A g \in File \ {f} : job'[g] = job[g]
<1>1. job[f] \in HandoffJob /\ job \in [File -> HandoffJob] BY DEF HandoffInv, HandoffShapes
<1>2. job' = [job EXCEPT ![f] = [job[f] EXCEPT !.stage = st]] OBVIOUS
<1>3. job'[f] = [job[f] EXCEPT !.stage = st] BY <1>1, <1>2
<1>4. job'[f].stage = st /\ job'[f].companion = job[f].companion BY <1>1, <1>3 DEF HandoffJob
<1> QED BY <1>1, <1>2, <1>4

LEMMA JobSet ==
    ASSUME HandoffInv, NEW f \in File, NEW j, job' = [job EXCEPT ![f] = j]
    PROVE  job'[f] = j /\ \A g \in File \ {f} : job'[g] = job[g]
BY DEF HandoffInv, HandoffShapes

(* The lock of a job that is given up was its own.                               *)
LEMMA LockFreed ==
    ASSUME HandoffInv, WorldTyped, NEW f \in File, Retried(f)
    PROVE  /\ job'[f] = Idle /\ \A g \in File \ {f} : job'[g] = job[g]
           /\ \A g \in File \ {f} :
                 holder[EventOf[g]] = g => holder'[EventOf[g]] = g
           /\ holder' \in [Event -> File \union {None}] /\ due' \subseteq File
<1>1. job' = [job EXCEPT ![f] = Idle] BY DEF Retried
<1>2. holder' = [holder EXCEPT ![EventOf[f]] =
                     IF holder[EventOf[f]] = f THEN None ELSE holder[EventOf[f]]]
  BY DEF Retried
<1>3. /\ \A g \in File \ {f} : holder[EventOf[g]] = g => holder'[EventOf[g]] = g
      /\ holder' \in [Event -> File \union {None}]
  BY <1>2, HandoffAssumption DEF WorldTyped
<1>4. due' \subseteq File BY DEF Retried, WorldTyped
<1> QED BY <1>1, <1>3, <1>4, JobSet

(* A job that removes its companion leaves those of the others.                  *)
LEMMA CompanionFreed ==
    ASSUME HandoffInv, AgentInv, NEW f \in File
    PROVE  /\ CompanionRemoved(f) \in [Event -> Nat]
           /\ \A g \in File \ {f} : job[g].companion =>
                 CompanionRemoved(f)[EventOf[g]] = companions[EventOf[g]]
<1>1. companions \in [Event -> Nat] /\ EventOf[f] \in Event
  BY HandoffAssumption DEF AgentInv
<1>2. CASE ~job[f].companion
  <2>1. CompanionRemoved(f) = companions BY <1>1, <1>2 DEF CompanionRemoved
  <2> QED BY <1>1, <2>1
<1>3. CASE job[f].companion
  <2>1. CompanionRemoved(f) = [companions EXCEPT ![EventOf[f]] = companions[EventOf[f]] - 1]
    BY <1>3 DEF CompanionRemoved
  <2>2. companions[EventOf[f]] > 0 /\ holder[EventOf[f]] = f
    BY <1>3 DEF AgentInv, JobKnown, Claiming
  <2>3. companions[EventOf[f]] - 1 \in Nat BY <1>1, <2>2
  <2>4. \A g \in File \ {f} : job[g].companion => EventOf[g] # EventOf[f]
    BY <2>2 DEF AgentInv, JobKnown, Claiming
  <2> QED BY <1>1, <2>1, <2>3, <2>4, HandoffAssumption
<1> QED BY <1>2, <1>3

(* A job that gives up waits for nothing it has sent.                            *)
LEMMA GivenUpWaits ==
    ASSUME HandoffInv, NEW f \in File
    PROVE  \A m \in GiveUp(f) : m.waited => m \in requests /\ m.file # f
<1> SUFFICES ASSUME NEW n \in requests,
                    NEW m, m = IF n.file = f THEN [n EXCEPT !.waited = FALSE] ELSE n, m.waited
             PROVE  m \in requests /\ m.file # f
    BY DEF GiveUp
<1>1. n \in Request BY DEF HandoffInv, HandoffShapes
<1>2. [n EXCEPT !.waited = FALSE].waited = FALSE BY <1>1 DEF Request
<1> QED BY <1>2

(* A job that is not at work on its claim, before and after the step.            *)
LEMMA JobRests ==
    ASSUME HandoffInv, AgentInv, NEW f \in File,
           job[f].stage \notin Claiming, job'[f].stage \notin Claiming,
           job'[f].companion => job[f].companion,
           \A g \in File \ {f} : job'[g] = job[g],
           \A g \in File \ {f} : holder[EventOf[g]] = g => holder'[EventOf[g]] = g,
           UNCHANGED <<companions, requests>>
    PROVE  AgentInv'
<1>1. ~job[f].companion BY DEF AgentInv, JobKnown, Claiming
<1>2. \A g \in File : JobKnown(g)' BY <1>1 DEF AgentInv, JobKnown
<1>3. \A m \in requests : m.file \in File /\ (m.waited => m.file # f)
  BY DEF HandoffInv, HandoffShapes, Request, AgentInv, WaitingKnown, Claiming
<1>4. WaitingKnown' BY <1>3 DEF AgentInv, WaitingKnown
<1> QED BY <1>2, <1>4 DEF AgentInv

LEMMA AgentRests ==
    ASSUME HandoffInv, WorldTyped, AgentInv, NEW f \in File,
           \/ OpenEvent(f) \/ PruneClaims(f) \/ QuarantineEvent(f) \/ DeleteEvent(f)
           \/ LockTimesOut(f) \/ PruneStops(f) \/ ClaimUnavailable(f) \/ QuarantineFails(f)
           \/ (ClaimEvent(f) /\ claim[EventOf[f]] \in Terminal)
    PROVE  AgentInv'
<1> USE DEF server, disk, agentState
<1>1. UNCHANGED <<companions, requests>>
  BY DEF OpenEvent, PruneClaims, PruneStops, QuarantineEvent, DeleteEvent, LockTimesOut,
         ClaimUnavailable, QuarantineFails, ClaimEvent
<1>2. Idle.stage \notin Claiming /\ ~Idle.companion BY DEF Idle, Claiming
<1>3. CASE LockTimesOut(f) \/ PruneStops(f) \/ ClaimUnavailable(f)
  <2>1. job[f].stage \notin Claiming /\ Retried(f)
    BY <1>3 DEF LockTimesOut, PruneStops, ClaimUnavailable, Claiming
  <2> QED BY <1>1, <1>2, <2>1, LockFreed, JobRests
<1>4. CASE ~(LockTimesOut(f) \/ PruneStops(f) \/ ClaimUnavailable(f))
  <2>0. Taken \notin Terminal /\ None \notin Terminal BY HandoffAssumption DEF Taken, Terminal
  <2>1. UNCHANGED holder
    BY <1>4, <2>0
       DEF OpenEvent, PruneClaims, QuarantineEvent, DeleteEvent, QuarantineFails, ClaimEvent
  <2>2. CASE QuarantineFails(f) \/ DeleteEvent(f)
    <3>1. job[f].stage \notin Claiming /\ job' = [job EXCEPT ![f] = Idle]
      BY <2>2 DEF QuarantineFails, DeleteEvent, Claiming
    <3> QED BY <1>1, <1>2, <2>1, <3>1, JobSet, JobRests
  <2>3. CASE \/ OpenEvent(f) \/ PruneClaims(f) \/ QuarantineEvent(f)
             \/ ClaimEvent(f) /\ claim[EventOf[f]] \in Terminal
    <3>1. /\ job[f].stage \notin Claiming
          /\ \E st \in Stage \ Claiming : job' = [job EXCEPT ![f].stage = st]
      <4>1. CASE OpenEvent(f)
        <5>1. job[f].stage \notin Claiming BY <1>2, <4>1 DEF OpenEvent
        <5>2. "accepted" \in Stage \ Claiming /\ "idle" \in Stage \ Claiming
          BY DEF Stage, Claiming
        <5> QED BY <4>1, <5>1, <5>2 DEF OpenEvent
      <4>2. CASE PruneClaims(f) BY <4>2 DEF PruneClaims, Stage, Claiming
      <4>3. CASE QuarantineEvent(f) BY <4>3 DEF QuarantineEvent, Stage, Claiming
      <4>4. CASE ClaimEvent(f) /\ claim[EventOf[f]] \in Terminal
        BY <2>0, <4>4 DEF ClaimEvent, Stage, Claiming
      <4> QED BY <2>3, <4>1, <4>2, <4>3, <4>4
    <3>2. PICK st \in Stage \ Claiming : job' = [job EXCEPT ![f].stage = st] BY <3>1
    <3>3. /\ job'[f].stage = st /\ job'[f].companion = job[f].companion
          /\ \A g \in File \ {f} : job'[g] = job[g]
      BY <3>2, StageSet
    <3> QED BY <1>1, <2>1, <3>1, <3>3, JobRests
  <2> QED BY <1>4, <2>2, <2>3
<1> QED BY <1>3, <1>4

(* A job takes its claim, or works on it: what the others know is left alone.    *)
LEMMA OthersKnow ==
    ASSUME HandoffInv, AgentInv, NEW f \in File,
           \A g \in File \ {f} : job'[g] = job[g],
           \A g \in File \ {f} : holder[EventOf[g]] = g => holder'[EventOf[g]] = g,
           \A g \in File \ {f} : job[g].companion => companions'[EventOf[g]] > 0
    PROVE  \A g \in File \ {f} : JobKnown(g)'
BY DEF AgentInv, JobKnown, Claiming

(* Reports of the others, and at most one of f that waits while f does.          *)
LEMMA OneWaits ==
    ASSUME HandoffInv, AgentInv, NEW f \in File,
           \A g \in File \ {f} : job'[g] = job[g],
           NEW own, \A n \in requests' : n.waited => (n \in requests /\ n.file # f) \/ n = own,
           own \in requests' /\ own.waited =>
               own.file = f /\ job'[f].stage \in {"reported", "fallback"}
    PROVE  WaitingKnown'
<1>1. \A n \in requests : n.file \in File BY DEF HandoffInv, HandoffShapes, Request
<1>2. ASSUME NEW n \in requests', n.waited
      PROVE  /\ job'[n.file].stage \in {"reported", "fallback"}
             /\ \A k \in requests' : k.waited /\ k.file = n.file => k = n
  <2>1. CASE n = own BY <1>2, <2>1
  <2>2. CASE n # own
    <3>1. n \in requests /\ n.file # f BY <1>2, <2>2
    <3>2. job'[n.file] = job[n.file] BY <1>1, <3>1
    <3>3. \A k \in requests' : k.waited /\ k.file = n.file => k \in requests
      BY <1>2, <3>1
    <3> QED BY <1>2, <3>1, <3>2, <3>3 DEF AgentInv, WaitingKnown
  <2> QED BY <2>1, <2>2
<1> QED BY <1>2 DEF WaitingKnown

LEMMA NoneWaits ==
    ASSUME HandoffInv, AgentInv, NEW f \in File,
           \A g \in File \ {f} : job'[g] = job[g],
           \A n \in requests' : n.waited => n \in requests /\ n.file # f
    PROVE  WaitingKnown'
<1>1. \A n \in requests : n.file \in File BY DEF HandoffInv, HandoffShapes, Request
<1>2. ASSUME NEW n \in requests', n.waited
      PROVE  /\ job'[n.file].stage \in {"reported", "fallback"}
             /\ \A k \in requests' : k.waited /\ k.file = n.file => k = n
  <2>1. n \in requests /\ n.file # f /\ \A k \in requests' : k.waited => k \in requests BY <1>2
  <2>2. job'[n.file] = job[n.file] BY <1>1, <2>1
  <2> QED BY <1>2, <2>1, <2>2 DEF AgentInv, WaitingKnown
<1> QED BY <1>2 DEF WaitingKnown

LEMMA ClaimTaken ==
    ASSUME HandoffInv, WorldTyped, AgentInv, NEW f \in File,
           ClaimEvent(f), claim[EventOf[f]] \notin Terminal
    PROVE  AgentInv'
<1> USE DEF server
<1>1. /\ job[f].stage = "pruned" /\ holder[EventOf[f]] = None
      /\ job' = [job EXCEPT ![f].stage = "claimed"]
      /\ holder' = [holder EXCEPT ![EventOf[f]] = f]
      /\ UNCHANGED <<companions, requests>>
  BY DEF ClaimEvent
<1>2. /\ job'[f].stage = "claimed" /\ job'[f].companion = job[f].companion
      /\ \A g \in File \ {f} : job'[g] = job[g]
  BY <1>1, StageSet
<1>3. ~job[f].companion BY <1>1 DEF AgentInv, JobKnown
<1>4. \A g \in File : EventOf[g] \in Event BY HandoffAssumption
<1>5. holder'[EventOf[f]] = f BY <1>1, <1>4 DEF WorldTyped
<1>6. \A g \in File \ {f} : holder[EventOf[g]] = g => holder'[EventOf[g]] = g
  BY <1>1, <1>4, HandoffAssumption DEF WorldTyped
<1>7. \A g \in File \ {f} : job[g].companion => companions'[EventOf[g]] > 0
  BY <1>1 DEF AgentInv, JobKnown
<1>8. \A g \in File \ {f} : JobKnown(g)' BY <1>2, <1>6, <1>7, OthersKnow
<1>9. JobKnown(f)' BY <1>2, <1>3, <1>5 DEF JobKnown
<1>10. \A n \in requests : n.waited => n.file # f BY <1>1 DEF AgentInv, WaitingKnown
<1>11. WaitingKnown' BY <1>1, <1>2, <1>10, NoneWaits
<1> QED BY <1>1, <1>8, <1>9, <1>11 DEF AgentInv

LEMMA ReportKnown ==
    ASSUME NEW f \in File, NEW d
    PROVE  Report(f, d).waited = TRUE /\ Report(f, d).file = f
BY DEF Report

LEMMA FileScanned ==
    ASSUME HandoffInv, WorldTyped, AgentInv, NEW f \in File, ScanFile(f) PROVE AgentInv'
<1>1. job[f].stage = "claimed" /\ UNCHANGED holder BY DEF ScanFile
<1>2. holder[EventOf[f]] = f /\ ~job[f].companion
  BY <1>1 DEF AgentInv, JobKnown, Claiming
<1>3. companions \in [Event -> Nat] /\ \A g \in File : EventOf[g] \in Event
  BY HandoffAssumption DEF AgentInv
<1>4. \A n \in requests : n.waited => n.file # f BY <1>1 DEF AgentInv, WaitingKnown
<1>5. \A g \in File \ {f} : holder[EventOf[g]] = g => holder'[EventOf[g]] = g BY <1>1
<1>6. \A g \in File \ {f} : job[g].companion => companions[EventOf[g]] > 0
  BY DEF AgentInv, JobKnown
<1>7. ASSUME NEW d \in Decision,
             job' = [job EXCEPT ![f] = [stage |-> "reported", decision |-> None,
                                        companion |-> d = "redact"]],
             requests' = requests \union {Report(f, d)},
             companions' = [companions EXCEPT ![EventOf[f]] =
                                IF d = "redact" THEN @ + 1 ELSE @]
      PROVE  AgentInv'
  <2> DEFINE j == [stage |-> "reported", decision |-> None, companion |-> d = "redact"]
  <2>0. j.stage = "reported" /\ j.companion = (d = "redact") OBVIOUS
  <2>a. job' = [job EXCEPT ![f] = j] BY <1>7
  <2> HIDE DEF j
  <2>b. job'[f] = j /\ \A g \in File \ {f} : job'[g] = job[g] BY <2>a, JobSet
  <2>1. /\ job'[f].stage = "reported" /\ job'[f].companion = (d = "redact")
        /\ \A g \in File \ {f} : job'[g] = job[g]
    BY <2>0, <2>b
  <2>2. companions[EventOf[f]] \in Nat BY <1>3
  <2>3. /\ companions' \in [Event -> Nat]
        /\ d = "redact" => companions'[EventOf[f]] > 0
        /\ \A e \in Event : companions'[e] >= companions[e]
    <3>1. CASE d = "redact" BY <1>3, <1>7, <2>2, <3>1
    <3>2. CASE d # "redact"
      <4>1. companions' = companions BY <1>3, <1>7, <3>2
      <4> QED BY <1>3, <3>2, <4>1
    <3> QED BY <3>1, <3>2
  <2>4. \A g \in File \ {f} : job[g].companion => companions'[EventOf[g]] > 0
    BY <1>3, <1>6, <2>3
  <2>5. \A g \in File \ {f} : JobKnown(g)' BY <1>5, <2>1, <2>4, OthersKnow
  <2>6. JobKnown(f)' BY <1>1, <1>2, <2>1, <2>3 DEF JobKnown
  <2>7. WaitingKnown'
    <3>1. \A n \in requests' : n.waited => (n \in requests /\ n.file # f) \/ n = Report(f, d)
      BY <1>4, <1>7
    <3>2. Report(f, d).file = f /\ job'[f].stage \in {"reported", "fallback"}
      BY <2>1, ReportKnown
    <3> QED BY <2>1, <3>1, <3>2, OneWaits
  <2> QED BY <2>3, <2>5, <2>6, <2>7 DEF AgentInv
<1>8. CASE /\ job' = [job EXCEPT ![f].stage = "fallback"]
           /\ requests' = requests \union {Report(f, "block")} /\ UNCHANGED companions
  <2>1. /\ job'[f].stage = "fallback" /\ job'[f].companion = job[f].companion
        /\ \A g \in File \ {f} : job'[g] = job[g]
    BY <1>8, StageSet
  <2>2. \A g \in File \ {f} : job[g].companion => companions'[EventOf[g]] > 0
    BY <1>6, <1>8
  <2>3. \A g \in File \ {f} : JobKnown(g)' BY <1>5, <2>1, <2>2, OthersKnow
  <2>4. JobKnown(f)' BY <1>1, <1>2, <2>1 DEF JobKnown
  <2>5. WaitingKnown'
    <3>1. \A n \in requests' : n.waited => (n \in requests /\ n.file # f) \/ n = Report(f, "block")
      BY <1>4, <1>8
    <3>2. Report(f, "block").file = f /\ job'[f].stage \in {"reported", "fallback"}
      BY <2>1, ReportKnown
    <3> QED BY <2>1, <3>1, <3>2, OneWaits
  <2> QED BY <1>3, <1>8, <2>3, <2>4, <2>5 DEF AgentInv
<1> QED BY <1>7, <1>8 DEF ScanFile

LEMMA ReportsFail ==
    ASSUME HandoffInv, WorldTyped, AgentInv, NEW f \in File,
           FirstReportFails(f) \/ SecondReportFails(f) \/ PublishFails(f)
    PROVE  AgentInv'
<1> USE DEF disk, server
<1>1. /\ CompanionRemoved(f) \in [Event -> Nat]
      /\ \A g \in File \ {f} : job[g].companion =>
            CompanionRemoved(f)[EventOf[g]] = companions[EventOf[g]]
  BY CompanionFreed
<1>2. \A g \in File \ {f} : job[g].companion => companions[EventOf[g]] > 0
  BY DEF AgentInv, JobKnown
<1>3. companions \in [Event -> Nat] BY DEF AgentInv
<1>4. \A m \in GiveUp(f) : m.waited => m \in requests /\ m.file # f BY GivenUpWaits
<1>5. CASE FirstReportFails(f)
  <2> DEFINE j == [stage |-> "fallback", decision |-> None, companion |-> FALSE]
  <2>1. /\ job[f].stage = "reported" /\ companions' = CompanionRemoved(f)
        /\ job' = [job EXCEPT ![f] = j] /\ UNCHANGED holder
        /\ requests' = GiveUp(f) \union {Report(f, "block")}
    BY <1>5 DEF FirstReportFails
  <2>2. j.stage = "fallback" /\ j.companion = FALSE OBVIOUS
  <2> HIDE DEF j
  <2>3. job'[f] = j /\ \A g \in File \ {f} : job'[g] = job[g] BY <2>1, JobSet
  <2>4. holder'[EventOf[f]] = f BY <2>1 DEF AgentInv, JobKnown, Claiming
  <2>5. \A g \in File \ {f} : JobKnown(g)' BY <1>1, <1>2, <2>1, <2>3, OthersKnow
  <2>6. JobKnown(f)' BY <2>2, <2>3, <2>4 DEF JobKnown
  <2>7. \A n \in requests' : n.waited => (n \in requests /\ n.file # f) \/ n = Report(f, "block")
    BY <1>4, <2>1
  <2>8. WaitingKnown'
    <3>1. Report(f, "block").file = f /\ job'[f].stage \in {"reported", "fallback"}
      BY <2>2, <2>3, ReportKnown
    <3> QED BY <2>3, <2>7, <3>1, OneWaits
  <2> QED BY <1>1, <2>1, <2>5, <2>6, <2>8 DEF AgentInv
<1>6. CASE SecondReportFails(f) \/ PublishFails(f)
  <2>1. Retried(f) /\ UNCHANGED companions
    BY <1>6 DEF SecondReportFails, PublishFails
  <2>2. /\ job'[f] = Idle /\ \A g \in File \ {f} : job'[g] = job[g]
        /\ \A g \in File \ {f} : holder[EventOf[g]] = g => holder'[EventOf[g]] = g
    BY <2>1, LockFreed
  <2>3. Idle.stage \notin Claiming /\ ~Idle.companion BY DEF Idle, Claiming
  <2>4. \A g \in File \ {f} : JobKnown(g)' BY <1>2, <2>1, <2>2, OthersKnow
  <2>5. JobKnown(f)' BY <2>2, <2>3 DEF JobKnown
  <2>6. \A n \in requests' : n.waited => n \in requests /\ n.file # f
    <3>1. CASE SecondReportFails(f) BY <1>4, <3>1 DEF SecondReportFails
    <3>2. CASE PublishFails(f)
      <4>1. job[f].stage \in {"pruned", "decided"} /\ UNCHANGED requests
        BY <3>2 DEF PublishFails, PublicationBreaks, Publishing
      <4> QED BY <4>1 DEF AgentInv, WaitingKnown
    <3> QED BY <1>6, <3>1, <3>2
  <2>7. WaitingKnown' BY <2>2, <2>6, NoneWaits
  <2> QED BY <1>3, <2>1, <2>4, <2>5, <2>7 DEF AgentInv
<1> QED BY <1>5, <1>6

LEMMA TerminalPublished ==
    ASSUME HandoffInv, WorldTyped, AgentInv, NEW f \in File, PublishTerminal(f) PROVE AgentInv'
<1> USE DEF server
<1>1. /\ job[f].stage = "decided" /\ job' = [job EXCEPT ![f] = [Idle EXCEPT !.stage = "finished"]]
      /\ holder' = [holder EXCEPT ![EventOf[f]] = None]
      /\ UNCHANGED <<companions, requests>>
  BY DEF PublishTerminal
<1>2. /\ job'[f] = [Idle EXCEPT !.stage = "finished"]
      /\ \A g \in File \ {f} : job'[g] = job[g]
  BY <1>1, JobSet
<1>3. job'[f].stage = "finished" /\ ~job'[f].companion BY <1>2 DEF Idle
<1>4. holder[EventOf[f]] = f BY <1>1 DEF AgentInv, JobKnown, Claiming
<1>5. \A g \in File : EventOf[g] \in Event BY HandoffAssumption
<1>6. \A g \in File \ {f} : holder[EventOf[g]] = g => holder'[EventOf[g]] = g
  BY <1>1, <1>4, <1>5 DEF WorldTyped
<1>7. \A g \in File \ {f} : job[g].companion => companions'[EventOf[g]] > 0
  BY <1>1 DEF AgentInv, JobKnown
<1>8. \A g \in File \ {f} : JobKnown(g)' BY <1>2, <1>6, <1>7, OthersKnow
<1>9. JobKnown(f)' BY <1>3 DEF JobKnown, Claiming
<1>10. \A n \in requests' : n.waited => n \in requests /\ n.file # f
  BY <1>1 DEF AgentInv, WaitingKnown
<1>11. WaitingKnown' BY <1>2, <1>10, NoneWaits
<1> QED BY <1>1, <1>8, <1>9, <1>11 DEF AgentInv

LEMMA WorldMoves ==
    ASSUME HandoffInv, WorldTyped, AgentInv,
           \/ HourPasses \/ AgentRestarts \/ UNCHANGED handoffVars
           \/ \E f \in File : WriteEvent(f)
    PROVE  AgentInv'
<1> USE DEF server, disk, agentState
<1>1. CASE UNCHANGED <<job, holder, companions, requests>>
  BY <1>1 DEF AgentInv, JobKnown, WaitingKnown
<1>2. CASE AgentRestarts
  <2>1. /\ job' = [f \in File |-> Idle] /\ UNCHANGED companions
        /\ requests' = {[m EXCEPT !.waited = FALSE] : m \in requests}
    BY <1>2 DEF AgentRestarts
  <2>2. Idle.stage \notin Claiming /\ ~Idle.companion BY DEF Idle, Claiming
  <2>3. \A f \in File : JobKnown(f)' BY <2>1, <2>2 DEF JobKnown
  <2>4. \A m \in requests : [m EXCEPT !.waited = FALSE].waited = FALSE
    BY DEF HandoffInv, HandoffShapes, Request
  <2>5. \A n \in requests' : n.waited = FALSE BY <2>1, <2>4
  <2>6. WaitingKnown' BY <2>5 DEF WaitingKnown
  <2> QED BY <2>1, <2>3, <2>6 DEF AgentInv
<1> QED BY <1>1, <1>2 DEF HourPasses, WriteEvent, handoffVars

(* The answer reaches the job that waits for it, which keeps its lock and ends   *)
(* with no companion to remove.                                                  *)
LEMMA AnswerReaches ==
    ASSUME HandoffInv, WorldTyped, AgentInv, NEW m \in requests, NEW d, Answered(m, d),
           UNCHANGED holder
    PROVE  AgentInv'
<1> DEFINE f == m.file
<1>0. f \in File /\ companions \in [Event -> Nat]
  BY DEF HandoffInv, HandoffShapes, Request, AgentInv
<1>1. requests' = requests \ {m} BY DEF Answered
<1>2. CASE ~m.waited
  <2>1. UNCHANGED <<job, companions>> BY <1>2 DEF Answered
  <2> QED BY <1>1, <2>1 DEF AgentInv, JobKnown, WaitingKnown
<1>3. CASE m.waited
  <2> DEFINE j == [stage |-> "decided", decision |-> Outcome(f, d), companion |-> FALSE]
  <2>1. /\ job' = [job EXCEPT ![f] = j]
        /\ companions' = IF d = "redact" THEN companions ELSE CompanionRemoved(f)
    BY <1>3 DEF Answered
  <2>2. j.stage = "decided" /\ j.companion = FALSE OBVIOUS
  <2>3. job[f].stage \in {"reported", "fallback"} BY <1>3 DEF AgentInv, WaitingKnown
  <2>4. \A n \in requests : n.waited /\ n.file = f => n = m
    BY <1>3 DEF AgentInv, WaitingKnown
  <2> HIDE DEF j, f
  <2>5. job'[f] = j /\ \A g \in File \ {f} : job'[g] = job[g] BY <1>0, <2>1, JobSet
  <2>6. holder'[EventOf[f]] = f BY <1>0, <2>3 DEF AgentInv, JobKnown, Claiming
  <2>7. /\ companions' \in [Event -> Nat]
        /\ \A g \in File \ {f} : job[g].companion => companions'[EventOf[g]] > 0
    <3>1. \A g \in File \ {f} : job[g].companion => companions[EventOf[g]] > 0
      BY DEF AgentInv, JobKnown
    <3> QED BY <1>0, <2>1, <3>1, CompanionFreed
  <2>8. \A g \in File \ {f} : JobKnown(g)' BY <1>0, <2>5, <2>7, OthersKnow
  <2>9. JobKnown(f)' BY <2>2, <2>5, <2>6 DEF JobKnown
  <2>10. \A n \in requests' : n.waited => n \in requests /\ n.file # f BY <1>1, <2>4
  <2>11. WaitingKnown' BY <1>0, <2>5, <2>10, NoneWaits
  <2> QED BY <2>7, <2>8, <2>9, <2>11 DEF AgentInv
<1> QED BY <1>2, <1>3

LEMMA GateMoves ==
    ASSUME HandoffInv, WorldTyped, AgentInv, NEW m \in requests, GateWorks(m)
    PROVE  AgentInv'
<1>1. CASE GateReplays(m) BY <1>1, AnswerReaches DEF GateReplays
<1>2. CASE GateCommits(m)
  <2>1. UNCHANGED holder /\ \E d : Answered(m, d) BY <1>2 DEF GateCommits
  <2> QED BY <2>1, AnswerReaches
<1>3. CASE GateProceeds(m)
  <2> DEFINE own == [m EXCEPT !.checked = TRUE]
  <2>1. /\ requests' = (requests \ {m}) \union {own}
        /\ UNCHANGED <<job, holder, companions>>
    BY <1>3 DEF GateProceeds, disk, agentState
  <2>2. m \in Request /\ m.file \in File BY DEF HandoffInv, HandoffShapes, Request
  <2>3. own.file = m.file /\ own.waited = m.waited BY <2>2 DEF Request
  <2> HIDE DEF own
  <2>4. \A f \in File : JobKnown(f)' BY <2>1 DEF AgentInv, JobKnown
  <2>5. WaitingKnown'
    <3>1. CASE m.waited
      <4>1. \A n \in requests : n.waited /\ n.file = m.file => n = m
        BY <3>1 DEF AgentInv, WaitingKnown
      <4>2. \A n \in requests' : n.waited => (n \in requests /\ n.file # m.file) \/ n = own
        BY <2>1, <4>1
      <4>3. own.file = m.file /\ job'[m.file].stage \in {"reported", "fallback"}
        BY <2>1, <2>3, <3>1 DEF AgentInv, WaitingKnown
      <4>4. \A g \in File \ {m.file} : job'[g] = job[g] BY <2>1
      <4> QED BY <2>2, <4>2, <4>3, <4>4, OneWaits
    <3>2. CASE ~m.waited
      <4>1. \A n \in requests' : n.waited => n \in requests BY <2>1, <2>3, <3>2
      <4> QED BY <2>1, <4>1 DEF AgentInv, WaitingKnown
    <3> QED BY <3>1, <3>2
  <2> QED BY <2>1, <2>4, <2>5 DEF AgentInv
<1> QED BY <1>1, <1>2, <1>3 DEF GateWorks

LEMMA AgentSteps ==
    ASSUME HandoffInv, WorldTyped, AgentInv, [HandoffNext]_handoffVars PROVE AgentInv'
<1>1. CASE HourPasses \/ AgentRestarts \/ UNCHANGED handoffVars BY <1>1, WorldMoves
<1>2. ASSUME NEW f \in File, WriteEvent(f) \/ AgentWorks(f) \/ AgentFails(f) PROVE AgentInv'
  BY <1>2, WorldMoves, AgentRests, ClaimTaken, FileScanned, ReportsFail, TerminalPublished
     DEF AgentWorks, AgentFails
<1>3. ASSUME NEW m \in requests, GateWorks(m) PROVE AgentInv' BY <1>3, GateMoves
<1> QED BY <1>1, <1>2, <1>3 DEF HandoffNext

LEMMA WorldStaysTyped ==
    ASSUME HandoffInv, WorldTyped, [HandoffNext]_handoffVars PROVE WorldTyped'
<1> USE DEF disk, agentState, server, budget
<1>a. ASSUME NEW f \in File, PublicationBreaks(f) PROVE mislaid' \subseteq Event
  BY <1>a, HandoffAssumption DEF PublicationBreaks, WorldTyped
<1>1. CASE UNCHANGED handoffVars BY <1>1 DEF handoffVars, WorldTyped
<1>2. CASE HourPasses BY <1>2, HandoffAssumption DEF HourPasses, WorldTyped, HandoffInv, HandoffShapes
<1>3. CASE AgentRestarts
  <2>1. restarts' \in 0..MaxRestarts
    BY <1>3, HandoffAssumption DEF AgentRestarts, WorldTyped
  <2>2. holder' \in [Event -> File \union {None}] /\ due' \subseteq File
    BY <1>3 DEF AgentRestarts
  <2>3. mislaid' \subseteq Event BY <1>3, <1>a DEF AgentRestarts, WorldTyped
  <2> QED BY <1>3, <2>1, <2>2, <2>3 DEF AgentRestarts, WorldTyped
<1>4. ASSUME NEW f \in File, WriteEvent(f) PROVE WorldTyped'
  <2>1. hour \in Int BY DEF HandoffInv, HandoffShapes
  <2>2. createdAt' = [createdAt EXCEPT ![EventOf[f]] =
                          IF createdAt[EventOf[f]] = None THEN hour ELSE createdAt[EventOf[f]]]
    BY <1>4 DEF WriteEvent
  <2>3. EventOf[f] \in Event /\ createdAt \in [Event -> Int \union {None}]
    BY HandoffAssumption DEF WorldTyped
  <2>4. createdAt' \in [Event -> Int \union {None}] BY <2>1, <2>2, <2>3
  <2> QED BY <1>4, <2>4 DEF WriteEvent, WorldTyped
<1>5. ASSUME NEW f \in File, Retried(f)
      PROVE  holder' \in [Event -> File \union {None}] /\ due' \subseteq File
  BY <1>5, LockFreed
<1>6. Mishap => mishaps' \in 0..MaxMishaps BY HandoffAssumption DEF Mishap, WorldTyped
<1>7. ASSUME NEW f \in File, AgentFails(f) PROVE WorldTyped'
  <2>1. CASE LockTimesOut(f) BY <1>5, <2>1 DEF LockTimesOut, WorldTyped
  <2>2. CASE FirstReportFails(f) BY <1>6, <2>2 DEF FirstReportFails, WorldTyped
  <2>3. CASE SecondReportFails(f) BY <1>5, <1>6, <2>3 DEF SecondReportFails, WorldTyped
  <2>4. CASE PublishFails(f) BY <1>a, <1>5, <1>6, <2>4 DEF PublishFails, WorldTyped
  <2>5. CASE QuarantineFails(f) BY <1>6, <2>5 DEF QuarantineFails, WorldTyped
  <2> QED BY <1>7, <2>1, <2>2, <2>3, <2>4, <2>5 DEF AgentFails
<1>8. ASSUME NEW f \in File, AgentWorks(f) PROVE WorldTyped'
  <2>1. CASE OpenEvent(f) BY <2>1 DEF OpenEvent, WorldTyped
  <2>2. CASE PruneClaims(f) BY <2>2 DEF PruneClaims, WorldTyped
  <2>3. CASE ClaimEvent(f) BY <2>3, HandoffAssumption DEF ClaimEvent, WorldTyped
  <2>4. CASE ScanFile(f) BY <2>4 DEF ScanFile, WorldTyped
  <2>5. CASE PublishTerminal(f) BY <2>5 DEF PublishTerminal, WorldTyped
  <2>6. CASE QuarantineEvent(f) BY <2>6 DEF QuarantineEvent, WorldTyped
  <2>7. CASE DeleteEvent(f) BY <2>7 DEF DeleteEvent, WorldTyped
  <2>8. CASE PruneStops(f) BY <1>5, <2>8 DEF PruneStops, WorldTyped
  <2>9. CASE ClaimUnavailable(f) BY <1>5, <2>9 DEF ClaimUnavailable, WorldTyped
  <2> QED BY <1>8, <2>1, <2>2, <2>3, <2>4, <2>5, <2>6, <2>7, <2>8, <2>9 DEF AgentWorks
<1>9. ASSUME NEW m \in requests, GateWorks(m) PROVE WorldTyped'
  BY <1>9 DEF GateWorks, GateReplays, GateProceeds, GateCommits, WorldTyped
<1> QED BY <1>1, <1>2, <1>3, <1>4, <1>7, <1>8, <1>9 DEF HandoffNext

(* The hand-off keeps its state well formed: a companion is removed only when    *)
(* one was written, so none is counted below zero.                               *)
LEMMA HandoffTyped == HandoffInit /\ [][HandoffNext]_handoffVars => []HandoffTypes
<1> DEFINE Inv == HandoffInv /\ WorldTyped /\ AgentInv
<1>1. HandoffInit => Inv
  <2> SUFFICES ASSUME HandoffInit PROVE Inv OBVIOUS
  <2>1. HandoffInv BY HandoffStarts
  <2>2. WorldTyped BY HandoffAssumption DEF HandoffInit, WorldTyped
  <2>3. AgentInv
    <3>1. Idle.stage \notin Claiming /\ ~Idle.companion BY DEF Idle, Claiming
    <3>2. \A f \in File : JobKnown(f) BY <3>1 DEF HandoffInit, JobKnown
    <3>3. WaitingKnown BY DEF HandoffInit, WaitingKnown
    <3>4. companions \in [Event -> Nat] BY DEF HandoffInit
    <3> QED BY <3>2, <3>3, <3>4 DEF AgentInv
  <2> QED BY <2>1, <2>2, <2>3
<1>2. Inv /\ [HandoffNext]_handoffVars => Inv'
  BY HandoffSteps, WorldStaysTyped, AgentSteps
<1>3. Inv => HandoffTypes
  BY DEF HandoffInv, HandoffShapes, WorldTyped, AgentInv, HandoffJob, HandoffTypes, ClaimFiles
<1> HIDE DEF Inv
<1> QED BY <1>1, <1>2, <1>3, PTL

-----------------------------------------------------------------------------
(* The cache of signed policies *)

PolicyShapes ==
    /\ cache \in SignedBundle \cup {NoBundle, Unverified}
    /\ publication \in Publication \cup {NoPublication}
    /\ mark \in SignedBundle \cup {NoBundle}

(* One of the two failures that the policies are not kept through.               *)
Excused == torn \/ undone

(* A publication puts a later bundle in the place of the cache it found.         *)
PublicationKnown ==
    publication # NoPublication =>
        /\ Succeeds(publication.bundle, publication.prior)
        /\ publication.step = "aside" => cache = publication.prior
        /\ publication.step = "link" => cache = NoBundle
        /\ publication.step = "unlink" => cache = Unverified
        /\ publication.step = "confirm" => cache = publication.bundle

(* c says no less than the newest policy that was taken, or says nothing.        *)
UpTo(c) ==
    mark # NoBundle => c = Unverified \/ (c \in SignedBundle /\ Succeeds(c, mark))

(* While a publication is under way its prior stands for the cache, until some   *)
(* sensor has read its bundle.                                                   *)
MarkKept ==
    /\ publication = NoPublication => UpTo(cache)
    /\ publication # NoPublication =>
          /\ UpTo(publication.bundle)
          /\ \/ UpTo(publication.prior)
             \/ publication.step = "confirm" /\ mark = publication.bundle

PolicyCacheInv == PolicyShapes /\ PublicationKnown /\ (Excused \/ MarkKept)

LEMMA BundlesAreDated == \A b \in SignedBundle : b.issued \in Int
BY PolicyCacheAssumption DEF SignedBundle

LEMMA SuccessionIsTransitive ==
    ASSUME mark \in SignedBundle \cup {NoBundle}, NEW b \in SignedBundle,
           NEW c \in SignedBundle \cup {NoBundle}, Succeeds(b, c), UpTo(c)
    PROVE  UpTo(b)
<1> SUFFICES ASSUME mark # NoBundle PROVE Succeeds(b, mark) BY DEF UpTo
<1>1. c \in SignedBundle /\ c # NoBundle BY NotBundles DEF UpTo
<1>2. c.issued < b.issued \/ c = b BY <1>1 DEF Succeeds
<1>3. mark.issued < c.issued \/ mark = c BY <1>1, NotBundles DEF UpTo, Succeeds
<1>4. mark.issued \in Int /\ c.issued \in Int /\ b.issued \in Int BY <1>1, BundlesAreDated
<1> QED BY <1>2, <1>3, <1>4 DEF Succeeds

(* The bundle a publication brings, and what it found.                           *)
LEMMA Published ==
    ASSUME PolicyCacheInv, publication # NoPublication
    PROVE  /\ publication \in Publication
           /\ publication.bundle \in SignedBundle
           /\ publication.prior \in SignedBundle \cup {NoBundle}
           /\ publication.step \in {"aside", "link", "unlink", "confirm"}
           /\ ~Excused => /\ UpTo(publication.bundle)
                          /\ \/ UpTo(publication.prior)
                             \/ publication.step = "confirm" /\ mark = publication.bundle
<1>1. publication \in Publication BY DEF PolicyCacheInv, PolicyShapes
<1>2. /\ publication.bundle \in SignedBundle
      /\ publication.prior \in SignedBundle \cup {NoBundle}
      /\ publication.step \in {"aside", "link", "unlink", "confirm"}
    BY <1>1 DEF Publication
<1> QED BY <1>1, <1>2 DEF PolicyCacheInv, MarkKept

(* The step of a publication and nothing else of it.                             *)
LEMMA PublicationMoves ==
    ASSUME NEW p \in Publication, NEW st \in {"aside", "link", "unlink", "confirm"}
    PROVE  /\ [p EXCEPT !.step = st] \in Publication
           /\ [p EXCEPT !.step = st] # NoPublication
           /\ [p EXCEPT !.step = st].step = st
           /\ [p EXCEPT !.step = st].bundle = p.bundle
           /\ [p EXCEPT !.step = st].prior = p.prior
<1> DEFINE q == [p EXCEPT !.step = st]
<1>1. q \in Publication BY DEF Publication
<1>2. q.step = st /\ q.bundle = p.bundle /\ q.prior = p.prior BY DEF Publication
<1> QED BY <1>1, <1>2 DEF NoPublication

LEMMA AcceptKeeps ==
    ASSUME PolicyCacheInv, NEW s \in Sensor, NEW b \in SignedBundle, Accept(s, b)
    PROVE  PolicyCacheInv'
<1>1. /\ publication = NoPublication /\ cache # Unverified /\ Succeeds(b, cache)
      /\ UNCHANGED <<cache, torn, undone>>
    BY DEF Accept, CachedHighWater
<1>2. cache \in SignedBundle \cup {NoBundle} BY <1>1 DEF PolicyCacheInv, PolicyShapes
<1>3. CASE cache = b
  <2>1. mark' = b /\ UNCHANGED publication BY <1>3 DEF Accept
  <2>2. UpTo(cache)' BY <1>1, <1>3, <2>1 DEF UpTo, Succeeds
  <2> QED BY <1>1, <1>3, <2>1, <2>2
          DEF PolicyCacheInv, PolicyShapes, PublicationKnown, MarkKept, Excused
<1>4. CASE cache # b
  <2>1. PICK st \in {"link", "aside"} :
           /\ publication' = [sensor |-> s, bundle |-> b, prior |-> cache, step |-> st]
           /\ st = IF cache = NoBundle THEN "link" ELSE "aside"
      BY <1>4 DEF Accept
  <2>2. mark' = mark BY <1>4 DEF Accept
  <2>3. /\ publication' \in Publication /\ publication'.bundle = b
        /\ publication'.prior = cache /\ publication'.step = st
      BY <1>2, <2>1 DEF Publication
  <2>4. PolicyShapes' BY <1>1, <2>2, <2>3 DEF PolicyCacheInv, PolicyShapes
  <2>5. PublicationKnown' BY <1>1, <2>1, <2>3 DEF PublicationKnown, Succeeds
  <2>6. publication' # NoPublication BY <2>1 DEF NoPublication
  <2>7. ~Excused => MarkKept'
    <3> SUFFICES ASSUME ~Excused PROVE MarkKept' OBVIOUS
    <3>1. UpTo(cache) BY <1>1 DEF PolicyCacheInv, MarkKept
    <3>2. UpTo(b) BY <1>1, <1>2, <3>1, SuccessionIsTransitive DEF PolicyCacheInv, PolicyShapes
    <3> QED BY <2>2, <2>3, <2>6, <3>1, <3>2 DEF MarkKept, UpTo, Succeeds
  <2> QED BY <1>1, <2>4, <2>5, <2>7 DEF PolicyCacheInv, Excused
<1> QED BY <1>3, <1>4

LEMMA PublicationKeeps ==
    ASSUME PolicyCacheInv, NEW s \in Sensor,
           SetAside(s) \/ Link(s) \/ Unlink(s) \/ Confirm(s) \/ PublicationFails(s)
    PROVE  PolicyCacheInv'
<1>1. publication # NoPublication
    BY DEF SetAside, Link, Unlink, Confirm, PublicationFails, PublicationAt, Publishes
<1>2. /\ publication \in Publication
      /\ publication.bundle \in SignedBundle
      /\ publication.prior \in SignedBundle \cup {NoBundle}
      /\ ~Excused => /\ UpTo(publication.bundle)
                     /\ \/ UpTo(publication.prior)
                        \/ publication.step = "confirm" /\ mark = publication.bundle
    BY <1>1, Published
<1>3. Succeeds(publication.bundle, publication.prior)
    BY <1>1 DEF PolicyCacheInv, PublicationKnown
<1>4. CASE SetAside(s) \/ Link(s) \/ Unlink(s)
  <2>1. PICK st \in {"link", "unlink", "confirm"} :
          /\ publication' = [publication EXCEPT !.step = st]
          /\ cache' = CASE st = "link" -> NoBundle
                        [] st = "unlink" -> Unverified
                        [] st = "confirm" -> publication.bundle
          /\ UNCHANGED <<mark, torn, undone>> /\ publication.step # "confirm"
      BY <1>4 DEF SetAside, Link, Unlink, PublicationAt
  <2>2. /\ publication' \in Publication /\ publication' # NoPublication
        /\ publication'.step = st /\ publication'.bundle = publication.bundle
        /\ publication'.prior = publication.prior
    <3>1. publication' = [publication EXCEPT !.step = st] BY <2>1
    <3>2. publication \in Publication /\ st \in {"aside", "link", "unlink", "confirm"}
        BY <1>2
    <3> QED BY <3>1, <3>2, PublicationMoves, Zenon
  <2>3. PolicyShapes' BY <1>2, <2>1, <2>2 DEF PolicyCacheInv, PolicyShapes
  <2>4. PublicationKnown' BY <1>3, <2>1, <2>2 DEF PublicationKnown, Succeeds
  <2>5. ~Excused => MarkKept' BY <1>2, <2>1, <2>2 DEF MarkKept, UpTo, Succeeds
  <2> QED BY <2>1, <2>3, <2>4, <2>5 DEF PolicyCacheInv, Excused
<1>5. CASE Confirm(s)
  <2>1. /\ mark' = publication.bundle /\ publication' = NoPublication
        /\ cache' = cache /\ cache = publication.bundle
      BY <1>1, <1>5 DEF Confirm, PublicationAt, PolicyCacheInv, PublicationKnown
  <2>2. UpTo(cache)' BY <1>2, <2>1 DEF UpTo, Succeeds
  <2> QED BY <1>2, <2>1, <2>2 DEF PolicyCacheInv, PolicyShapes, PublicationKnown, MarkKept
<1>6. CASE PublicationFails(s)
  <2>1. publication' = NoPublication /\ mark' = mark BY <1>6 DEF PublicationFails
  <2>2. /\ cache' \in {publication.prior, NoBundle, Unverified, cache}
        /\ PolicyShapes' /\ PublicationKnown'
      BY <1>2, <1>6, <2>1 DEF PublicationFails, PolicyCacheInv, PolicyShapes, PublicationKnown
  <2>3. ASSUME ~Excused' PROVE UpTo(cache')
    <3>1. ~Excused BY <1>6, <2>3 DEF PublicationFails, Excused
    <3>2. CASE cache' = publication.prior /\ ~(publication.step = "confirm" /\ mark = publication.bundle)
        BY <1>2, <3>1, <3>2
    <3>3. CASE cache' = Unverified BY <3>3 DEF UpTo
    <3>4. CASE publication.step \in {"unlink", "confirm"} /\ cache' = cache
        BY <1>1, <1>2, <3>1, <3>4 DEF PolicyCacheInv, PublicationKnown, UpTo
    <3> QED BY <1>6, <2>3, <3>2, <3>3, <3>4 DEF PublicationFails, Excused
  <2> QED BY <2>1, <2>2, <2>3 DEF PolicyCacheInv, MarkKept, UpTo
<1> QED BY <1>4, <1>5, <1>6

(* A cache that can be read is the prior or the bundle of the publication.       *)
LEMMA CacheUpTo ==
    ASSUME PolicyCacheInv, ~Excused, cache \in SignedBundle
    PROVE  UpTo(cache)
<1>1. CASE publication = NoPublication BY <1>1 DEF PolicyCacheInv, MarkKept
<1>2. CASE publication # NoPublication
    BY <1>2, Published, NotBundles DEF PolicyCacheInv, PublicationKnown
<1> QED BY <1>1, <1>2

LEMMA SensorKeeps ==
    ASSUME PolicyCacheInv, NEW s \in Sensor, ReadCached(s) \/ Restart(s)
    PROVE  PolicyCacheInv'
<1>1. CASE ReadCached(s)
  <2>1. /\ UNCHANGED <<cache, publication, torn, undone>>
        /\ mark' = mark \/ (mark' = cache /\ cache \in SignedBundle)
      BY <1>1 DEF ReadCached, Readable
  <2>2. CASE mark' = mark
      BY <2>1, <2>2
         DEF PolicyCacheInv, PolicyShapes, PublicationKnown, MarkKept, UpTo, Succeeds, Excused
  <2>3. CASE mark' = cache /\ cache \in SignedBundle
    <3>1. PolicyShapes' /\ PublicationKnown'
        BY <2>1, <2>3 DEF PolicyCacheInv, PolicyShapes, PublicationKnown, Succeeds
    <3>2. CASE publication = NoPublication
        BY <2>1, <2>3, <3>1, <3>2 DEF PolicyCacheInv, MarkKept, UpTo, Succeeds
    <3>3. CASE publication # NoPublication
      <4>1. /\ publication.bundle \in SignedBundle
            /\ \/ publication.step = "aside" /\ cache = publication.prior
               \/ publication.step = "confirm" /\ cache = publication.bundle
          BY <2>3, <3>3, Published, NotBundles DEF PolicyCacheInv, PublicationKnown
      <4>2. Succeeds(publication.bundle, publication.prior)
          BY <3>3 DEF PolicyCacheInv, PublicationKnown
      <4> QED BY <2>1, <2>3, <3>1, <3>3, <4>1, <4>2 DEF PolicyCacheInv, MarkKept, UpTo, Succeeds
    <3> QED BY <3>2, <3>3
  <2> QED BY <2>1, <2>2, <2>3
<1>2. CASE Restart(s)
  <2>1. UNCHANGED <<cache, mark, undone>> BY <1>2 DEF Restart
  <2>2. CASE ~Publishes(s)
    <3>1. UNCHANGED <<publication, torn>> BY <1>2, <2>2 DEF Restart
    <3> QED BY <2>1, <3>1
            DEF PolicyCacheInv, PolicyShapes, PublicationKnown, MarkKept, UpTo, Succeeds, Excused
  <2>3. CASE Publishes(s)
    <3>1. /\ publication' = NoPublication
          /\ torn' = (torn \/ (publication.step = "link" /\ publication.prior # NoBundle))
        BY <1>2, <2>3 DEF Restart
    <3>2. publication # NoPublication BY <2>3 DEF Publishes
    <3>3. /\ publication.prior \in SignedBundle \cup {NoBundle}
          /\ publication.step \in {"aside", "link", "unlink", "confirm"}
          /\ ~Excused => /\ UpTo(publication.bundle)
                         /\ \/ UpTo(publication.prior)
                            \/ publication.step = "confirm" /\ mark = publication.bundle
        BY <3>2, Published
    <3>4. ~Excused' => UpTo(cache)
      <4> SUFFICES ASSUME ~Excused' PROVE UpTo(cache) OBVIOUS
      <4>1. ~Excused /\ ~(publication.step = "link" /\ publication.prior # NoBundle)
          BY <2>1, <3>1 DEF Excused
      <4>2. PublicationKnown BY DEF PolicyCacheInv
      <4>3. CASE publication.step = "unlink" BY <3>2, <4>2, <4>3 DEF PublicationKnown, UpTo
      <4>4. CASE publication.step # "unlink"
          BY <3>2, <3>3, <4>1, <4>2, <4>4 DEF PublicationKnown
      <4> QED BY <4>3, <4>4
    <3>5. ~Excused' => MarkKept' BY <2>1, <3>1, <3>4 DEF MarkKept, UpTo, Succeeds
    <3> QED BY <2>1, <3>1, <3>5 DEF PolicyCacheInv, PolicyShapes, PublicationKnown
  <2> QED BY <2>2, <2>3
<1> QED BY <1>1, <1>2

LEMMA PolicyCacheSteps == PolicyCacheInv /\ [PolicyCacheNext]_policyVars => PolicyCacheInv'
<1> SUFFICES ASSUME PolicyCacheInv, [PolicyCacheNext]_policyVars PROVE PolicyCacheInv' OBVIOUS
<1>1. CASE TimePasses \/ UNCHANGED policyVars
  <2>1. UNCHANGED <<cache, publication, mark, torn, undone>>
      BY <1>1 DEF TimePasses, policyVars
  <2> QED BY <2>1
          DEF PolicyCacheInv, PolicyShapes, PublicationKnown, MarkKept, UpTo, Succeeds, Excused
<1>2. ASSUME NEW s \in Sensor,
             \/ SetAside(s) \/ Link(s) \/ Unlink(s) \/ Confirm(s) \/ PublicationFails(s)
             \/ ReadCached(s) \/ Restart(s)
             \/ \E b \in SignedBundle : Accept(s, b)
      PROVE  PolicyCacheInv'
  BY <1>2, AcceptKeeps, PublicationKeeps, SensorKeeps
<1> QED BY <1>1, <1>2 DEF PolicyCacheNext

(* What a sensor takes is up to the newest policy that any of them took.         *)
LEMMA TakenIsUpTo ==
    ASSUME PolicyCacheInv, [PolicyCacheNext]_policyVars, NEW t \in Sensor,
           inUse'[t] # inUse[t], inUse'[t] # NoBundle, ~Excused',
           inUse \in [Sensor -> SignedBundle \cup {NoBundle}]
    PROVE  Succeeds(inUse'[t], mark)
<1>0. inUse' # inUse OBVIOUS
<1>1. PICK s \in Sensor :
          \/ Confirm(s) \/ ReadCached(s) \/ Restart(s)
          \/ \E b \in SignedBundle : Accept(s, b)
  BY <1>0 DEF PolicyCacheNext, TimePasses, policyVars, SetAside, Link, Unlink,
                            PublicationFails
<1>2. CASE Confirm(s)
  <2>1. inUse'[t] = publication.bundle /\ publication # NoPublication /\ ~Excused
      BY <1>2 DEF Confirm, Takes, PublicationAt, Publishes, Excused
  <2> QED BY <2>1, Published, NotBundles DEF UpTo, Succeeds
<1>3. CASE ReadCached(s)
  <2>1. inUse'[t] = cache /\ cache \in SignedBundle /\ ~Excused
      BY <1>3 DEF ReadCached, Readable, Takes, Excused
  <2> QED BY <2>1, CacheUpTo, NotBundles DEF UpTo, Succeeds
<1>4. CASE Restart(s)
  <2>1. inUse' = [inUse EXCEPT ![s] = NoBundle] BY <1>4 DEF Restart
  <2> QED BY <2>1
<1>5. ASSUME NEW b \in SignedBundle, Accept(s, b) PROVE Succeeds(inUse'[t], mark)
  <2>1. inUse'[t] = cache /\ cache \in SignedBundle /\ ~Excused
      BY <1>5 DEF Accept, Takes, Excused
  <2> QED BY <2>1, CacheUpTo, NotBundles DEF UpTo, Succeeds
<1> QED BY <1>1, <1>2, <1>3, <1>4, <1>5

LEMMA InUseTyped ==
    ASSUME PolicyCacheInv, inUse \in [Sensor -> SignedBundle \cup {NoBundle}],
           [PolicyCacheNext]_policyVars
    PROVE  inUse' \in [Sensor -> SignedBundle \cup {NoBundle}]
<1>1. ASSUME NEW s \in Sensor, NEW b \in SignedBundle \cup {NoBundle},
             inUse' = [inUse EXCEPT ![s] = b]
      PROVE  inUse' \in [Sensor -> SignedBundle \cup {NoBundle}]
    BY <1>1
<1>2. CASE inUse' = inUse BY <1>2
<1>3. ASSUME NEW s \in Sensor, Confirm(s)
      PROVE  inUse' \in [Sensor -> SignedBundle \cup {NoBundle}]
    BY <1>1, <1>3, Published DEF Confirm, Takes, PublicationAt, Publishes
<1>4. ASSUME NEW s \in Sensor, ReadCached(s) \/ Restart(s)
      PROVE  inUse' \in [Sensor -> SignedBundle \cup {NoBundle}]
    BY <1>1, <1>4 DEF ReadCached, Readable, Restart, Takes
<1>5. ASSUME NEW s \in Sensor, NEW b \in SignedBundle, Accept(s, b)
      PROVE  inUse' \in [Sensor -> SignedBundle \cup {NoBundle}]
    BY <1>1, <1>5 DEF Accept, Takes
<1> QED BY <1>2, <1>3, <1>4, <1>5
        DEF PolicyCacheNext, TimePasses, policyVars, SetAside, Link, Unlink,
                            PublicationFails

(* No replay, cache, restart or failed publication makes a sensor enforce a      *)
(* policy older than one that a sensor of its machine took, unless a publication *)
(* was torn, or rolled back after a sensor had read its bundle                   *)
(* (acceptSignedPolicyBundle, readCachedSignedPolicy, publishFileDurably).       *)
THEOREM PoliciesOnlyAdvance == PolicyCacheSpec => PolicyNeverRolledBack
<1> DEFINE InUseShape == inUse \in [Sensor -> SignedBundle \cup {NoBundle}]
           Advance == \A s \in Sensor :
               inUse'[s] # inUse[s] /\ inUse'[s] # NoBundle /\ ~torn' /\ ~undone'
                   => Succeeds(inUse'[s], mark)
<1>1. PolicyCacheInit => PolicyCacheInv /\ InUseShape
    BY DEF PolicyCacheInit, PolicyCacheInv, PolicyShapes, PublicationKnown, MarkKept, UpTo
<1>2. PolicyCacheInv /\ InUseShape /\ [PolicyCacheNext]_policyVars
          => PolicyCacheInv' /\ InUseShape' /\ Advance
    BY PolicyCacheSteps, InUseTyped, TakenIsUpTo DEF Excused
<1> HIDE DEF InUseShape
<1>3. Advance => [Advance]_policyVars OBVIOUS
<1> HIDE DEF Advance
<1>4. PolicyCacheSpec => [][Advance]_policyVars BY <1>1, <1>2, <1>3, PTL DEF PolicyCacheSpec
<1> QED BY <1>4 DEF PolicyNeverRolledBack, Advance

(* What the sensors hold, and the clock.                                         *)
SensorsTyped ==
    /\ time \in 0..LastTime /\ torn \in BOOLEAN /\ undone \in BOOLEAN
    /\ highWater \in [Sensor -> SignedBundle \cup {NoBundle}]

LEMMA SensorsStayTyped ==
    ASSUME PolicyCacheInv, SensorsTyped, [PolicyCacheNext]_policyVars PROVE SensorsTyped'
<1>1. CASE TimePasses BY <1>1, PolicyCacheAssumption DEF TimePasses, SensorsTyped
<1>2. CASE UNCHANGED policyVars BY <1>2 DEF policyVars, SensorsTyped
<1>3. ASSUME NEW s \in Sensor, SetAside(s) \/ Link(s) \/ Unlink(s) \/ PublicationFails(s)
      PROVE  SensorsTyped'
    <2>1. CASE SetAside(s) \/ Link(s) \/ Unlink(s)
      BY <2>1 DEF SetAside, Link, Unlink, SensorsTyped
    <2>2. CASE PublicationFails(s)
      <3>1. \/ undone' = (undone \/ (publication.step = "confirm" /\ mark = publication.bundle))
            \/ undone' = undone
        BY <2>2 DEF PublicationFails
      <3>2. undone' \in BOOLEAN BY <3>1, Zenon DEF SensorsTyped
      <3>3. torn' \in BOOLEAN BY <2>2 DEF PublicationFails, SensorsTyped
      <3> QED BY <2>2, <3>2, <3>3 DEF PublicationFails, SensorsTyped
    <2> QED BY <1>3, <2>1, <2>2
<1>4. ASSUME NEW s \in Sensor, NEW b \in SignedBundle \cup {NoBundle},
             highWater' = [highWater EXCEPT ![s] = b]
      PROVE  highWater' \in [Sensor -> SignedBundle \cup {NoBundle}]
    BY <1>4 DEF SensorsTyped
<1>5. ASSUME NEW s \in Sensor, Confirm(s) PROVE SensorsTyped'
    BY <1>4, <1>5, Published DEF Confirm, Takes, PublicationAt, Publishes, SensorsTyped
<1>6. ASSUME NEW s \in Sensor, ReadCached(s) PROVE SensorsTyped'
    BY <1>4, <1>6 DEF ReadCached, Readable, Takes, SensorsTyped
<1>7. ASSUME NEW s \in Sensor, Restart(s) PROVE SensorsTyped'
    <2>1. torn' \in BOOLEAN
      <3>1. CASE Publishes(s)
        <4>1. torn' = (torn \/ (publication.step = "link" /\ publication.prior # NoBundle))
          BY <1>7, <3>1 DEF Restart
        <4> QED BY <4>1, Zenon
      <3>2. CASE ~Publishes(s) BY <1>7, <3>2 DEF Restart, SensorsTyped
      <3> QED BY <3>1, <3>2
    <2> QED BY <1>4, <1>7, <2>1 DEF Restart, SensorsTyped
<1>8. ASSUME NEW s \in Sensor, NEW b \in SignedBundle, Accept(s, b) PROVE SensorsTyped'
    BY <1>4, <1>8 DEF Accept, Takes, SensorsTyped
<1> QED BY <1>1, <1>2, <1>3, <1>5, <1>6, <1>7, <1>8 DEF PolicyCacheNext

(* Everything the sensors and their cache hold is a bundle, or none.             *)
LEMMA PolicyCacheTyped == PolicyCacheSpec => []PolicyCacheTypes
<1> DEFINE InUseShape == inUse \in [Sensor -> SignedBundle \cup {NoBundle}]
           Inv == PolicyCacheInv /\ SensorsTyped /\ InUseShape
<1>1. PolicyCacheInit => Inv
  <2> SUFFICES ASSUME PolicyCacheInit PROVE Inv OBVIOUS
  <2>1. PolicyCacheInv
    BY DEF PolicyCacheInit, PolicyCacheInv, PolicyShapes, PublicationKnown, MarkKept, UpTo
  <2>2. SensorsTyped
    <3>1. time \in 0..LastTime BY PolicyCacheAssumption DEF PolicyCacheInit
    <3>2. torn \in BOOLEAN /\ undone \in BOOLEAN /\ highWater \in [Sensor -> SignedBundle \cup {NoBundle}]
      BY DEF PolicyCacheInit
    <3> QED BY <3>1, <3>2 DEF SensorsTyped
  <2>3. InUseShape BY DEF PolicyCacheInit
  <2> QED BY <2>1, <2>2, <2>3
<1>2. Inv /\ [PolicyCacheNext]_policyVars => Inv'
    BY PolicyCacheSteps, SensorsStayTyped, InUseTyped
<1>3. Inv => PolicyCacheTypes
    BY DEF PolicyCacheInv, PolicyShapes, SensorsTyped, PolicyCacheTypes
<1> HIDE DEF Inv
<1> QED BY <1>1, <1>2, <1>3, PTL DEF PolicyCacheSpec

-----------------------------------------------------------------------------
(* Destination coverage *)

(* While a mutation may have changed the rules only to its own, they block all   *)
(* of its items; the script is changed while they do.                            *)
JobBlocks ==
    JobAt("eject") \/ JobAt("store") \/ JobAt("confirm") \/ JobAt("permissions")
        \/ JobAt("eject_new") \/ JobAt("script") \/ JobAt("final")
    => coverageJob.items \subseteq blockRules

(* What a mutation covers: a publication the stored policy and the next one, a   *)
(* sync the stored policy for as long as it is trusted.                          *)
JobCovers ==
    /\ JobAt("block") \/ JobAt("eject") \/ JobAt("store") =>
          named[stored] \cup named[coverageJob.bundle] \subseteq coverageJob.items
    /\ JobAt("confirm") =>
          coverageJob.bundle = stored /\ named[stored] \subseteq coverageJob.items
    /\ coverageJob # NoJob /\ ~expired => named[stored] \subseteq coverageJob.items

(* Permissions a sync has read are there, or were taken back since.              *)
JobGranted ==
    /\ JobAt("eject_new") \/ JobAt("script") \/ JobAt("final") \/ JobAt("eject_final") =>
          coverageJob.granted \subseteq permitted \cup unread
    /\ JobAt("eject_new") \/ JobAt("script") => coverageJob.granted \subseteq coverageJob.items
    /\ JobAt("final") \/ JobAt("eject_final") => registered = coverageJob.granted

(* What the policy names is blocked or runs the script.                          *)
NamedGuarded == ~expired => \A d \in named[stored] : d \in unread \/ Guarded(d)

(* Until a permission is taken back: a tab without the script shows nothing that *)
(* the script matches, nor what the policy names or a mutation has ejected.      *)
NothingBare ==
    revocations = 0 =>
        /\ unread = {} /\ registered \subseteq permitted /\ registered \cap bare = {}
        /\ JobAt("store") \/ JobAt("confirm") => coverageJob.items \cap bare = {}
        /\ JobAt("script") => coverageJob.granted \cap bare = {}
        /\ ~expired => named[stored] \cap bare = {}

CoverageShapes ==
    /\ coverageJob \in Job \cup {NoJob}
    /\ stored \in 0..LastBundle
    /\ named[0] = {}
    /\ revocations \in Nat

CoverageInv ==
    CoverageShapes /\ JobBlocks /\ JobCovers /\ JobGranted /\ NamedGuarded /\ NothingBare

LEMMA CoverageStarts == CoverageInit => CoverageInv
BY CoverageAssumption
   DEF CoverageInit, CoverageInv, CoverageShapes, JobBlocks, JobCovers, JobGranted, NamedGuarded,
       NothingBare, JobAt

(* A mutation that goes on keeps its bundle, items and permissions.              *)
LEMMA JobGoesOn ==
    ASSUME CoverageShapes, coverageJob # NoJob, NEW st \in Steps, JobGoesTo(st)
    PROVE  /\ coverageJob \in Job /\ coverageJob' \in Job /\ coverageJob' # NoJob
           /\ coverageJob'.step = st
           /\ coverageJob'.bundle = coverageJob.bundle
           /\ coverageJob'.items = coverageJob.items
           /\ coverageJob'.granted = coverageJob.granted
<1>1. coverageJob \in Job BY DEF CoverageShapes
<1>2. coverageJob' = [coverageJob EXCEPT !.step = st] BY DEF JobGoesTo
<1>3. [coverageJob EXCEPT !.step = st] \in Job BY <1>1 DEF Job
<1>4. NoJob.step \notin Steps BY DEF NoJob, Steps
<1> QED BY <1>1, <1>2, <1>3, <1>4 DEF Job

LEMMA SyncJob ==
    ASSUME NEW b \in 0..LastBundle, named[b] \in SUBSET Dest
    PROVE  /\ Syncs(b) \in Job /\ Syncs(b) # NoJob /\ Syncs(b).step = "block_all"
           /\ Syncs(b).bundle = b /\ Syncs(b).items = named[b]
BY DEF Syncs, Job, NoJob, Steps

LEMMA PublicationCovers ==
    ASSUME CoverageInv, named \in [0..LastBundle -> SUBSET Dest],
           \/ \E b \in IssuedBundle : PublishBegins(b)
           \/ PublishBlocks \/ PublishEjects \/ PublishStores \/ PublishConfirms
    PROVE  CoverageInv'
<1> USE CoverageAssumption DEF CoverageInv
<1>1. ASSUME NEW b \in IssuedBundle, PublishBegins(b) PROVE CoverageInv'
  <2>1. /\ coverageJob' \in Job /\ coverageJob' # NoJob /\ coverageJob'.step = "block"
        /\ coverageJob'.bundle = b /\ coverageJob'.items = named[stored] \cup named[b]
      BY <1>1 DEF PublishBegins, Conservative, Job, NoJob, Steps, IssuedBundle, CoverageShapes
  <2>2. /\ coverageJob = NoJob
        /\ UNCHANGED <<named, stored, expired, blockRules, registered, permitted, bare,
                       unread, revocations>>
      BY <1>1 DEF PublishBegins
  <2> QED BY <2>1, <2>2 DEF CoverageShapes, JobBlocks, JobCovers, JobGranted, NamedGuarded,
                            NothingBare, JobAt, Guarded
<1>2. CASE PublishBlocks
  <2>1. JobAt("block") /\ coverageJob # NoJob /\ JobGoesTo("eject") BY <1>2 DEF PublishBlocks, JobAt
  <2>2. /\ coverageJob' \in Job /\ coverageJob' # NoJob /\ coverageJob'.step = "eject"
        /\ coverageJob'.bundle = coverageJob.bundle
        /\ coverageJob'.items = coverageJob.items
      BY <2>1, JobGoesOn DEF Steps
  <2> QED BY <1>2, <2>1, <2>2
          DEF PublishBlocks, Blocks, CoverageShapes, JobBlocks, JobCovers, JobGranted,
              NamedGuarded, NothingBare, JobAt, Guarded
<1>3. CASE PublishEjects
  <2>1. JobAt("eject") /\ coverageJob # NoJob /\ JobGoesTo("store") BY <1>3 DEF PublishEjects, JobAt
  <2>2. /\ coverageJob' \in Job /\ coverageJob' # NoJob /\ coverageJob'.step = "store"
        /\ coverageJob'.bundle = coverageJob.bundle
        /\ coverageJob'.items = coverageJob.items
      BY <2>1, JobGoesOn DEF Steps
  <2>3. PICK read \in SUBSET permitted : bare' = bare \ (coverageJob.items \ (registered \cap read))
      BY <1>3 DEF PublishEjects, Ejects, Uncovered
  <2> QED BY <1>3, <2>1, <2>2, <2>3
          DEF PublishEjects, CoverageShapes, JobBlocks, JobCovers, JobGranted,
              NamedGuarded, NothingBare, JobAt, Guarded
<1>4. CASE PublishStores
  <2>1. JobAt("store") /\ coverageJob # NoJob /\ JobGoesTo("confirm") BY <1>4 DEF PublishStores, JobAt
  <2>2. /\ coverageJob \in Job /\ coverageJob' \in Job /\ coverageJob' # NoJob
        /\ coverageJob'.step = "confirm"
        /\ coverageJob'.bundle = coverageJob.bundle
        /\ coverageJob'.items = coverageJob.items
      BY <2>1, JobGoesOn DEF Steps
  <2>3. coverageJob.bundle \in 0..LastBundle BY <2>2 DEF Job
  <2> QED BY <1>4, <2>1, <2>2, <2>3
          DEF PublishStores, CoverageShapes, JobBlocks, JobCovers, JobGranted,
              NamedGuarded, NothingBare, JobAt, Guarded
<1>5. CASE PublishConfirms
  <2>1. /\ JobAt("confirm") /\ coverageJob # NoJob
        /\ UNCHANGED <<named, stored, expired, blockRules, registered, permitted, bare,
                       unread, revocations>>
      BY <1>5 DEF PublishConfirms, JobAt
  <2>2. \/ coverageJob' = NoJob
        \/ /\ coverageJob' \in Job /\ coverageJob' # NoJob /\ coverageJob'.step = "block_all"
           /\ coverageJob'.items = named[stored]
    <3>1. coverageJob.bundle = stored BY <2>1 DEF JobCovers
    <3>2. stored \in 0..LastBundle BY DEF CoverageShapes
    <3> QED BY <1>5, <3>1, <3>2, SyncJob DEF PublishConfirms
  <2> QED BY <2>1, <2>2 DEF CoverageShapes, JobBlocks, JobCovers, JobGranted, NamedGuarded,
                            NothingBare, JobAt, Guarded
<1> QED BY <1>1, <1>2, <1>3, <1>4, <1>5

LEMMA SyncCovers ==
    ASSUME CoverageInv, named \in [0..LastBundle -> SUBSET Dest],
           \/ SyncBegins \/ SyncBlocksAll \/ SyncReadsPermissions \/ SyncEjectsNew
           \/ SyncSetsScript \/ SyncUnblocks \/ SyncEnds \/ SyncFails \/ SyncEjectsAll
           \/ JobIsLost
    PROVE  CoverageInv'
<1> USE CoverageAssumption DEF CoverageInv
<1>1. CASE SyncBegins
  <2>1. /\ coverageJob' \in Job /\ coverageJob' # NoJob /\ coverageJob'.step = "block_all"
        /\ coverageJob'.items = named[CurrentPolicy]
    <3>1. CurrentPolicy \in 0..LastBundle BY DEF CurrentPolicy, CoverageShapes
    <3>2. coverageJob' = Syncs(CurrentPolicy) BY <1>1 DEF SyncBegins
    <3> HIDE DEF CurrentPolicy
    <3> QED BY <3>1, <3>2, SyncJob
  <2>2. ~expired => CurrentPolicy = stored BY DEF CurrentPolicy
  <2>3. /\ coverageJob = NoJob
        /\ UNCHANGED <<named, stored, expired, blockRules, registered, permitted, bare,
                       unread, revocations>>
      BY <1>1 DEF SyncBegins
  <2> QED BY <2>1, <2>2, <2>3
          DEF CoverageShapes, JobBlocks, JobCovers, JobGranted, NamedGuarded,
              NothingBare, JobAt, Guarded
<1>2. CASE SyncBlocksAll
  <2>1. JobAt("block_all") /\ coverageJob # NoJob /\ JobGoesTo("permissions")
      BY <1>2 DEF SyncBlocksAll, JobAt
  <2>2. /\ coverageJob' \in Job /\ coverageJob' # NoJob /\ coverageJob'.step = "permissions"
        /\ coverageJob'.items = coverageJob.items
      BY <2>1, JobGoesOn DEF Steps
  <2> QED BY <1>2, <2>1, <2>2
          DEF SyncBlocksAll, Blocks, CoverageShapes, JobBlocks, JobCovers, JobGranted,
              NamedGuarded, NothingBare, JobAt, Guarded
<1>3. CASE SyncReadsPermissions
  <2>1. PICK read \in SUBSET permitted :
          coverageJob' = [coverageJob EXCEPT !.step = "eject_new",
                                             !.granted = coverageJob.items \cap read]
      BY <1>3 DEF SyncReadsPermissions
  <2>2. JobAt("permissions") /\ coverageJob # NoJob /\ coverageJob \in Job
      BY <1>3 DEF SyncReadsPermissions, JobAt, CoverageShapes
  <2>3. /\ coverageJob' \in Job /\ coverageJob'.step = "eject_new"
        /\ coverageJob'.items = coverageJob.items
        /\ coverageJob'.granted = coverageJob.items \cap read
    <3> DEFINE g == coverageJob.items \cap read
    <3>1. g \in SUBSET Dest BY <2>2 DEF Job
    <3> HIDE DEF g
    <3>2. coverageJob' = [coverageJob EXCEPT !.step = "eject_new", !.granted = g]
        BY <2>1 DEF g
    <3>3. /\ coverageJob' \in Job /\ coverageJob'.step = "eject_new"
          /\ coverageJob'.items = coverageJob.items /\ coverageJob'.granted = g
        BY <2>2, <3>1, <3>2 DEF Job, Steps
    <3> QED BY <3>3 DEF g
  <2>4. coverageJob' # NoJob BY <2>3 DEF NoJob
  <2> QED BY <1>3, <2>2, <2>3, <2>4
          DEF SyncReadsPermissions, CoverageShapes, JobBlocks, JobCovers, JobGranted,
              NamedGuarded, NothingBare, JobAt, Guarded
<1>4. CASE SyncEjectsNew
  <2>1. JobAt("eject_new") /\ coverageJob # NoJob /\ JobGoesTo("script")
      BY <1>4 DEF SyncEjectsNew, JobAt
  <2>2. /\ coverageJob' \in Job /\ coverageJob' # NoJob /\ coverageJob'.step = "script"
        /\ coverageJob'.items = coverageJob.items /\ coverageJob'.granted = coverageJob.granted
      BY <2>1, JobGoesOn DEF Steps
  <2> QED BY <1>4, <2>1, <2>2
          DEF SyncEjectsNew, Ejects, EjectedBefore, CoverageShapes, JobBlocks, JobCovers,
              JobGranted, NamedGuarded, NothingBare, JobAt, Guarded
<1>5. CASE SyncSetsScript
  <2>1. JobAt("script") /\ coverageJob # NoJob /\ JobGoesTo("final")
      BY <1>5 DEF SyncSetsScript, JobAt
  <2>2. /\ coverageJob' \in Job /\ coverageJob' # NoJob /\ coverageJob'.step = "final"
        /\ coverageJob'.items = coverageJob.items /\ coverageJob'.granted = coverageJob.granted
      BY <2>1, JobGoesOn DEF Steps
  <2> QED BY <1>5, <2>1, <2>2
          DEF SyncSetsScript, CoverageShapes, JobBlocks, JobCovers,
              JobGranted, NamedGuarded, NothingBare, JobAt, Guarded
<1>6. CASE SyncUnblocks
  <2>1. JobAt("final") /\ coverageJob # NoJob /\ JobGoesTo("eject_final")
      BY <1>6 DEF SyncUnblocks, JobAt
  <2>2. /\ coverageJob' \in Job /\ coverageJob' # NoJob /\ coverageJob'.step = "eject_final"
        /\ coverageJob'.items = coverageJob.items /\ coverageJob'.granted = coverageJob.granted
      BY <2>1, JobGoesOn DEF Steps
  <2> QED BY <1>6, <2>1, <2>2
          DEF SyncUnblocks, Blocks, CoverageShapes, JobBlocks, JobCovers,
              JobGranted, NamedGuarded, NothingBare, JobAt, Guarded
<1>7. CASE SyncFails
  <2>1. /\ JobAt("eject_new") \/ JobAt("script") \/ JobAt("final")
        /\ coverageJob # NoJob /\ JobGoesTo("eject_all")
      BY <1>7 DEF SyncFails, JobAt
  <2>2. /\ coverageJob' \in Job /\ coverageJob' # NoJob /\ coverageJob'.step = "eject_all"
        /\ coverageJob'.items = coverageJob.items
      BY <2>1, JobGoesOn DEF Steps
  <2> QED BY <1>7, <2>1, <2>2
          DEF SyncFails, CoverageShapes, JobBlocks, JobCovers,
              JobGranted, NamedGuarded, NothingBare, JobAt, Guarded
<1>8. CASE SyncEnds \/ SyncEjectsAll \/ JobIsLost
  <2>1. /\ coverageJob' = NoJob /\ bare' \subseteq bare
        /\ UNCHANGED <<named, stored, expired, blockRules, registered, permitted, unread,
                       revocations>>
      BY <1>8 DEF SyncEnds, SyncEjectsAll, JobIsLost, Ejects
  <2> QED BY <2>1 DEF CoverageShapes, JobBlocks, JobCovers, JobGranted, NamedGuarded,
                      NothingBare, JobAt, Guarded
<1> QED BY <1>1, <1>2, <1>3, <1>4, <1>5, <1>6, <1>7, <1>8

LEMMA BrowserCovers ==
    ASSUME CoverageInv,
           BundleExpires \/ \E d \in Dest : Grant(d) \/ Revoke(d) \/ Visit(d)
    PROVE  CoverageInv'
<1> USE DEF CoverageInv
<1>1. CASE BundleExpires
  BY <1>1 DEF BundleExpires, CoverageShapes, JobBlocks, JobCovers, JobGranted, NamedGuarded,
              NothingBare, JobAt
<1>2. ASSUME NEW d \in Dest, Grant(d) PROVE CoverageInv'
  BY <1>2 DEF Grant, CoverageShapes, JobBlocks, JobCovers, JobGranted, NamedGuarded,
              NothingBare, JobAt, Guarded
<1>3. ASSUME NEW d \in Dest, Revoke(d) PROVE CoverageInv'
  BY <1>3 DEF Revoke, CoverageShapes, JobBlocks, JobCovers, JobGranted, NamedGuarded,
              NothingBare, JobAt, Guarded
<1>4. ASSUME NEW d \in Dest, Visit(d) PROVE CoverageInv'
  <2>1. CoverageShapes' /\ JobBlocks' /\ JobCovers' /\ JobGranted' /\ NamedGuarded'
      BY <1>4 DEF Visit, CoverageShapes, JobBlocks, JobCovers, JobGranted, NamedGuarded,
                  JobAt, Guarded
  <2>2. NothingBare'
      BY <1>4 DEF Visit, JobBlocks, JobCovers, JobGranted, NamedGuarded, NothingBare,
                  JobAt, Guarded
  <2> QED BY <2>1, <2>2
<1> QED BY <1>1, <1>2, <1>3, <1>4

LEMMA CoverageSteps ==
    ASSUME CoverageInv, named \in [0..LastBundle -> SUBSET Dest], [CoverageNext]_coverageVars
    PROVE  CoverageInv' /\ named' = named
<1>1. named' = named
    BY DEF CoverageNext, coverageVars, PublishBlocks, PublishEjects, PublishStores,
           PublishConfirms, SyncBegins, SyncBlocksAll, SyncReadsPermissions, SyncEjectsNew,
           SyncSetsScript, SyncUnblocks, SyncEnds, SyncFails, SyncEjectsAll, JobIsLost,
           BundleExpires, PublishBegins, Grant, Revoke, Visit
<1>2. CASE UNCHANGED coverageVars
    BY <1>2 DEF coverageVars, CoverageInv, CoverageShapes, JobBlocks, JobCovers, JobGranted,
                NamedGuarded, NothingBare, JobAt, Guarded
<1>3. CASE \/ \E b \in IssuedBundle : PublishBegins(b)
           \/ PublishBlocks \/ PublishEjects \/ PublishStores \/ PublishConfirms
    BY <1>1, <1>3, PublicationCovers
<1>4. CASE \/ SyncBegins \/ SyncBlocksAll \/ SyncReadsPermissions \/ SyncEjectsNew
           \/ SyncSetsScript \/ SyncUnblocks \/ SyncEnds \/ SyncFails \/ SyncEjectsAll
           \/ JobIsLost
    BY <1>1, <1>4, SyncCovers
<1>5. CASE BundleExpires \/ \E d \in Dest : Grant(d) \/ Revoke(d) \/ Visit(d)
    BY <1>1, <1>5, BrowserCovers
<1> QED BY <1>1, <1>2, <1>3, <1>4, <1>5 DEF CoverageNext

(* While the stored policy is trusted, what it names is blocked or runs the      *)
(* script, whatever await the worker dies at (publishPolicyWithCoverage,         *)
(* syncDestinationCoverageLocked).                                               *)
THEOREM NamedIsGuarded == CoverageSpec => []GovernedIsGuarded
<1> DEFINE Inv == CoverageInv /\ named \in [0..LastBundle -> SUBSET Dest]
<1>1. CoverageInit => Inv BY CoverageStarts DEF CoverageInit
<1>2. Inv /\ [CoverageNext]_coverageVars => Inv' BY CoverageSteps
<1>3. Inv => GovernedIsGuarded
    BY DEF CoverageInv, NamedGuarded, NothingBare, GovernedIsGuarded
<1> HIDE DEF Inv
<1> QED BY <1>1, <1>2, <1>3, PTL DEF CoverageSpec

(* Rules, script and tabs are about destinations of the policy only.             *)
BrowserTyped ==
    /\ expired \in BOOLEAN /\ revocations \in 0..MaxRevocations
    /\ blockRules \subseteq Dest /\ registered \subseteq Dest /\ permitted \subseteq Dest
    /\ bare \subseteq Dest /\ unread \subseteq Dest

LEMMA BrowserStaysTyped ==
    ASSUME CoverageShapes, BrowserTyped, [CoverageNext]_coverageVars PROVE BrowserTyped'
<1> USE DEF BrowserTyped, Blocks, Ejects
<1>0. coverageJob # NoJob => coverageJob.items \subseteq Dest /\ coverageJob.granted \subseteq Dest
    BY DEF CoverageShapes, Job
<1>1. CASE PublishBlocks BY <1>0, <1>1 DEF PublishBlocks, JobAt
<1>2. CASE PublishEjects BY <1>2 DEF PublishEjects
<1>3. CASE PublishStores
    <2>1. expired' \in BOOLEAN
      <3>1. PICK e \in BOOLEAN : expired' = (e /\ coverageJob.bundle # 0)
        BY <1>3 DEF PublishStores
      <3> QED BY <3>1, Zenon
    <2> QED BY <1>3, <2>1 DEF PublishStores
<1>4. CASE PublishConfirms \/ SyncBegins \/ SyncFails \/ JobIsLost
    BY <1>4 DEF PublishConfirms, SyncBegins, SyncFails, JobIsLost
<1>5. CASE SyncBlocksAll BY <1>0, <1>5 DEF SyncBlocksAll, JobAt
<1>6. CASE SyncReadsPermissions BY <1>6 DEF SyncReadsPermissions
<1>7. CASE SyncEjectsNew \/ SyncEnds \/ SyncEjectsAll
    BY <1>7 DEF SyncEjectsNew, SyncEnds, SyncEjectsAll
<1>8. CASE SyncSetsScript BY <1>0, <1>8 DEF SyncSetsScript, JobAt
<1>9. CASE SyncUnblocks BY <1>0, <1>9 DEF SyncUnblocks, JobAt
<1>10. CASE BundleExpires BY <1>10 DEF BundleExpires
<1>11. ASSUME NEW b \in IssuedBundle, PublishBegins(b) PROVE BrowserTyped'
    BY <1>11 DEF PublishBegins
<1>12. ASSUME NEW d \in Dest, Grant(d) \/ Revoke(d) \/ Visit(d) PROVE BrowserTyped'
    BY <1>12, CoverageAssumption DEF Grant, Revoke, Visit
<1>13. CASE UNCHANGED coverageVars BY <1>13 DEF coverageVars
<1> QED
    BY <1>1, <1>2, <1>3, <1>4, <1>5, <1>6, <1>7, <1>8, <1>9, <1>10, <1>11, <1>12, <1>13
       DEF CoverageNext

(* The browser's rules, script and tabs are well formed.                         *)
LEMMA CoverageTyped == CoverageSpec => []CoverageTypes
<1> DEFINE Shape == named \in [0..LastBundle -> SUBSET Dest]
           Inv == CoverageInv /\ Shape /\ BrowserTyped
<1>1. CoverageInit => Inv
  <2> SUFFICES ASSUME CoverageInit PROVE Inv OBVIOUS
  <2>1. CoverageInv BY CoverageStarts
  <2>2. Shape BY DEF CoverageInit
  <2>3. BrowserTyped
    <3>1. revocations \in 0..MaxRevocations BY CoverageAssumption DEF CoverageInit
    <3>2. /\ expired \in BOOLEAN /\ blockRules = {} /\ registered = {} /\ permitted = {}
          /\ bare = {} /\ unread = {}
      BY DEF CoverageInit
    <3> QED BY <3>1, <3>2 DEF BrowserTyped
  <2> QED BY <2>1, <2>2, <2>3
<1>2. Inv /\ [CoverageNext]_coverageVars => Inv'
    BY CoverageSteps, BrowserStaysTyped DEF CoverageInv
<1>3. Inv => CoverageTypes
    BY DEF CoverageInv, CoverageShapes, BrowserTyped, CoverageTypes
<1> HIDE DEF Inv
<1> QED BY <1>1, <1>2, <1>3, PTL DEF CoverageSpec

-----------------------------------------------------------------------------
(* What must survive failures *)

(* Each part starts as it does alone, and a step of the whole is a step of one   *)
(* part: the others stutter.                                                     *)
LEMMA PartsStart ==
    DurabilityInit =>
        /\ Init /\ PgBridgeInit /\ HandoffInit /\ PublicationInit /\ UpdaterInit
        /\ PolicyCacheInit /\ CoverageInit
BY DEF DurabilityInit

LEMMA PartsStep ==
    [DurabilityNext]_DurabilityVars =>
        /\ [Next]_vars /\ [PgBridgeNext]_bridgeVars /\ [HandoffNext]_handoffVars
        /\ [PublicationNext]_publicationVars /\ [UpdaterNext]_updaterVars
        /\ [PolicyCacheNext]_policyVars /\ [CoverageNext]_coverageVars
BY DEF DurabilityNext, DurabilityVars

(* Every part that must survive failures keeps its state well formed, whatever   *)
(* fails, for any number of processes, calls, files, commits, sensors and        *)
(* destinations: no bundle, artifact, claim or statement out of nothing, no      *)
(* companion counted below zero.                                                 *)
THEOREM DurabilityTyped == DurabilitySpec => []DurabilityTypes
<1>1. DurabilitySpec => SafetySpec
    BY PartsStart, PartsStep, PTL DEF DurabilitySpec, SafetySpec
<1>2. DurabilitySpec => PgBridgeSpec
    BY PartsStart, PartsStep, PTL DEF DurabilitySpec, PgBridgeSpec
<1>3. DurabilitySpec => HandoffInit /\ [][HandoffNext]_handoffVars
    BY PartsStart, PartsStep, PTL DEF DurabilitySpec
<1>4. DurabilitySpec => PublicationSpec
    BY PartsStart, PartsStep, PTL DEF DurabilitySpec, PublicationSpec
<1>5. DurabilitySpec => UpdaterSpec
    BY PartsStart, PartsStep, PTL DEF DurabilitySpec, UpdaterSpec
<1>6. DurabilitySpec => PolicyCacheSpec
    BY PartsStart, PartsStep, PTL DEF DurabilitySpec, PolicyCacheSpec
<1>7. DurabilitySpec => CoverageSpec
    BY PartsStart, PartsStep, PTL DEF DurabilitySpec, CoverageSpec
<1>8. /\ TypeOK /\ PgBridgeTypes /\ HandoffTypes /\ PublicationTypes /\ UpdaterTypes
      /\ PolicyCacheTypes /\ CoverageTypes
      => DurabilityTypes
    BY DEF DurabilityTypes
<1> QED
    BY <1>1, <1>2, <1>3, <1>4, <1>5, <1>6, <1>7, <1>8, TypeCorrect, BridgeTyped, HandoffTyped,
       PublicationStaysTyped, UpdaterStaysTyped, PolicyCacheTyped, CoverageTyped, PTL

=============================================================================
