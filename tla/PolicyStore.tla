----------------------------- MODULE PolicyStore -----------------------------
(* The policy file: the loader of src/server/policy.js, withPolicyFileMutation, *)
(* the publication of src/server/private-path.js below it, and its roll-back    *)
(* when the change cannot be audited (commitPolicyWithAudit of app.js).  The    *)
(* handlers exclude one another by the file's lock, which is taken to hold;     *)
(* an operator who edits the file takes no lock.                                *)
EXTENDS Integers

CONSTANTS
    Editor,    \* handlers of policy changes, each in a control plane process of its own
    LastPolicy \* bound: policies 1..LastPolicy are written

ASSUME PolicyStoreAssumption == LastPolicy \in Nat \ {0}

NoFile == -1

\* What applies while there is no file.
DefaultPolicy == 0

VARIABLES
    policyFile, \* the policy at the path, or NoFile
    lastGood,   \* the loader of each process: the last policy it read
    before,     \* what each handler's change is made from while it awaits the lock, or NoFile
    writer,     \* the change under the lock
    policies,   \* how many policies were written
    effective,  \* ghost: what the last change reported as made, or the operator since, left
    audited,    \* ghost: the policy of the last audited change, or the operator's since
    disowned,   \* ghost: policies that were audited, but whose change was reported as failed
    unaccounted \* ghost: what became of that was not the program's to ensure

policyStoreVars ==
    <<policyFile, lastGood, before, writer, policies, effective, audited, disowned, unaccounted>>

auditLog == <<audited, disowned>>

\* previous: what a roll-back restores.  taken: what it moved away from the path.
Writer ==
    [editor : Editor, candidate : 1..LastPolicy,
     snapshot : -1..LastPolicy, previous : -1..LastPolicy, taken : -1..LastPolicy,
     step : {"aside", "link", "verify", "check", "commit", "unpublish", "roll_back",
             "restore"}]

NoWriter == [step |-> "none"]

PolicyFileTypes ==
    /\ policyFile \in -1..LastPolicy /\ effective \in -1..LastPolicy
    /\ lastGood \in [Editor -> 0..LastPolicy]
    /\ before \in [Editor -> -1..LastPolicy]
    /\ writer \in Writer \cup {NoWriter}
    /\ policies \in 0..LastPolicy
    /\ unaccounted \in BOOLEAN

PolicyStoreTypes ==
    /\ PolicyFileTypes
    /\ audited \in -1..LastPolicy /\ disowned \subseteq 1..LastPolicy

PolicyStoreInit ==
    /\ policyFile \in {NoFile, 1} /\ effective = policyFile
    /\ audited = policyFile /\ disowned = {}
    /\ lastGood = [e \in Editor |-> DefaultPolicy]
    /\ before = [e \in Editor |-> NoFile]
    /\ writer = NoWriter
    /\ policies = 1
    /\ unaccounted = FALSE

------------------------------------------------------------------------------

Writes(e, step) == writer # NoWriter /\ writer.editor = e /\ writer.step = step

WriterGoesTo(step) == writer' = [writer EXCEPT !.step = step]

\* loadPolicy: without a file, the last one it read.
Loaded(e) == IF policyFile = NoFile THEN lastGood[e] ELSE policyFile

\* policyFromSnapshot
InForce(file) == IF file = NoFile THEN DefaultPolicy ELSE file

\* The request is answered, with success or not, and the lock released.
MutationEnds == writer' = NoWriter /\ before' = [before EXCEPT ![writer.editor] = NoFile]

\* The handler merges the request into the loaded policy and awaits the lock.
ReadPolicy(e) ==
    /\ before[e] = NoFile
    /\ lastGood' = [lastGood EXCEPT ![e] = Loaded(e)]
    /\ before' = [before EXCEPT ![e] = Loaded(e)]
    /\ UNCHANGED <<policyFile, writer, policies, effective, auditLog, unaccounted>>

\* policiesEqual of what the change was made from and the snapshot.
Expected(e) == before[e] = InForce(policyFile)

\* runPolicyFileMutation, up to the first rename of the publication.
Mutate(e) ==
    /\ writer = NoWriter /\ before[e] # NoFile /\ policies < LastPolicy
    /\ Expected(e)
    /\ writer' = [editor |-> e, candidate |-> policies + 1, snapshot |-> policyFile,
                  previous |-> NoFile, taken |-> NoFile, step |-> "aside"]
    /\ policies' = policies + 1
    /\ UNCHANGED <<policyFile, lastGood, before, effective, auditLog, unaccounted>>

\* POLICY_WRITE_CONFLICT, or the lock is not obtained.
Refuse(e) ==
    /\ before[e] # NoFile /\ (writer # NoWriter => writer.editor # e)
    /\ before' = [before EXCEPT ![e] = NoFile]
    /\ UNCHANGED <<policyFile, lastGood, writer, policies, effective, auditLog, unaccounted>>

\* quarantinePriorPublication takes whatever is at the path.
SetPriorAside(e) ==
    /\ Writes(e, "aside")
    /\ policyFile' = NoFile
    /\ writer' = [writer EXCEPT !.previous = policyFile, !.step = "link"]
    /\ UNCHANGED <<lastGood, before, policies, effective, auditLog, unaccounted>>

\* A file that appeared meanwhile makes the link fail, and stays.
LinkCandidate(e) ==
    /\ Writes(e, "link")
    /\ IF policyFile = NoFile
       THEN policyFile' = writer.candidate /\ WriterGoesTo("verify") /\ UNCHANGED before
       ELSE MutationEnds /\ UNCHANGED policyFile
    /\ UNCHANGED <<lastGood, policies, effective, auditLog, unaccounted>>

\* recoverFailedExclusiveLink when the link fails and the path is free: the prior
\* file goes back, or cannot be restored and is retained beside the path.
PublicationNotLinked(e) ==
    /\ \/ Writes(e, "aside") /\ UNCHANGED <<policyFile, unaccounted>>
       \/ /\ Writes(e, "link") /\ policyFile = NoFile
          /\ \/ policyFile' = writer.previous /\ UNCHANGED unaccounted
             \/ UNCHANGED policyFile /\ unaccounted' = TRUE
    /\ MutationEnds
    /\ UNCHANGED <<lastGood, policies, effective, auditLog>>

\* The candidate is durable and the prior file removed, or the publication is undone.
VerifyPublished(e) ==
    /\ Writes(e, "verify")
    /\ \/ policyFile = writer.candidate
          /\ writer' = [writer EXCEPT !.previous = writer.snapshot, !.step = "check"]
       \/ WriterGoesTo("unpublish")
    /\ UNCHANGED <<policyFile, lastGood, before, policies, effective, auditLog, unaccounted>>

\* createPolicyMutationWriter reads the path once more.
CheckCandidate(e) ==
    /\ Writes(e, "check")
    /\ WriterGoesTo(IF policyFile = writer.candidate THEN "commit" ELSE "roll_back")
    /\ UNCHANGED <<policyFile, lastGood, before, policies, effective, auditLog, unaccounted>>

\* mutateWithAudit commits the record of the change.
CommitAudit(e) ==
    /\ Writes(e, "commit")
    /\ MutationEnds
    /\ IF policyFile = writer.candidate
       THEN effective' = policyFile /\ audited' = policyFile /\ unaccounted' = FALSE
       ELSE UNCHANGED <<effective, audited, unaccounted>>
    /\ UNCHANGED <<policyFile, lastGood, policies, disowned>>

\* The append or the COMMIT fails; or the COMMIT took effect and throws all the same.
\* The file is rolled back either way.
AuditFails(e) ==
    /\ Writes(e, "commit") /\ WriterGoesTo("roll_back")
    /\ \/ UNCHANGED auditLog
       \/ audited' = writer.candidate /\ disowned' = disowned \cup {writer.candidate}
    /\ UNCHANGED <<policyFile, lastGood, before, policies, effective, unaccounted>>

\* rollbackPublishedFile, rollbackPolicyCandidate: what is at the path is moved away.
TakeAway(e) ==
    /\ Writes(e, "unpublish") \/ Writes(e, "roll_back")
    /\ policyFile' = NoFile
    /\ IF policyFile = NoFile /\ writer.step = "roll_back"
       THEN MutationEnds
       ELSE /\ writer' = [writer EXCEPT !.taken = policyFile, !.step = "restore"]
            /\ UNCHANGED before
    /\ UNCHANGED <<lastGood, policies, effective, auditLog, unaccounted>>

\* Mutant: what was moved away is taken for the candidate.
Restored_Blindly == writer.previous

\* samePolicyCandidate, samePublicationArtifact: what somebody else put there goes back.
Restored ==
    IF writer.taken \in {writer.candidate, NoFile} THEN writer.previous ELSE writer.taken

\* restoreChangedPolicy, restorePolicySnapshot, restoreRollbackLink: only where the
\* path is free.  What cannot be restored is retained beside it.
RestorePrior(e) ==
    /\ Writes(e, "restore")
    /\ \/ policyFile' = (IF policyFile = NoFile THEN Restored ELSE policyFile)
          /\ UNCHANGED unaccounted
       \/ policyFile' = policyFile /\ unaccounted' = TRUE
    /\ MutationEnds
    /\ UNCHANGED <<lastGood, policies, effective, auditLog>>

------------------------------------------------------------------------------

\* The process dies and is started again; its lock is reclaimed, and nothing undoes
\* what it published.
RestartEditor(e) ==
    /\ lastGood' = [lastGood EXCEPT ![e] = DefaultPolicy]
    /\ before' = [before EXCEPT ![e] = NoFile]
    /\ IF writer # NoWriter /\ writer.editor = e
       THEN writer' = NoWriter /\ unaccounted' = (unaccounted \/ writer.step # "aside")
       ELSE UNCHANGED <<writer, unaccounted>>
    /\ UNCHANGED <<policyFile, policies, effective, auditLog>>

\* An operator replaces the file.  Between the snapshot and the publication nobody
\* would notice.
OperatorReplaces ==
    /\ policies < LastPolicy
    /\ policies' = policies + 1
    /\ policyFile' = policies + 1 /\ effective' = policies + 1 /\ audited' = policies + 1
    /\ unaccounted' = (writer.step = "aside")
    /\ UNCHANGED <<lastGood, before, writer, disowned>>

\* A deletion beside a change may be undone by it.
OperatorDeletes ==
    /\ policyFile # NoFile
    /\ policyFile' = NoFile /\ effective' = NoFile /\ audited' = NoFile
    /\ unaccounted' = (writer # NoWriter)
    /\ UNCHANGED <<lastGood, before, writer, policies, disowned>>

PolicyStoreNext ==
    \/ OperatorReplaces \/ OperatorDeletes
    \/ \E e \in Editor :
          \/ ReadPolicy(e) \/ Mutate(e) \/ Refuse(e)
          \/ SetPriorAside(e) \/ LinkCandidate(e) \/ PublicationNotLinked(e)
          \/ VerifyPublished(e) \/ CheckCandidate(e) \/ CommitAudit(e) \/ AuditFails(e)
          \/ TakeAway(e) \/ RestorePrior(e) \/ RestartEditor(e)

PolicyStoreSpec == PolicyStoreInit /\ [][PolicyStoreNext]_policyStoreVars

------------------------------------------------------------------------------
(* Properties *)

\* Whenever no change is under way, the policy at the path is the one of the last
\* change that was reported as made, or what the operator put there since: a change
\* that fails is undone, and undoing it neither removes an operator's file nor brings
\* an older policy back over it.  That is also the policy of the last change in the
\* audit log, unless that one was reported as failed after its COMMIT had taken
\* effect (disowned): then the log names a policy that was rolled back.  And no
\* change replaces a policy its author did not see.  Excepted from the first part: a
\* process that died after it moved the file, a restore that failed, an operator who
\* edits between the snapshot and the first rename, or deletes the file beside a
\* change (withPolicyFileMutation, runPolicyFileMutation).
PolicyAccounted ==
    /\ []/\ writer = NoWriter /\ ~unaccounted => policyFile = effective
         /\ audited \in {effective} \cup disowned
    /\ [][\A e \in Editor :
             Writes(e, "commit") /\ effective' # effective /\ effective' = writer.candidate
                /\ ~unaccounted
             => before[e] = InForce(effective)]_policyStoreVars
=============================================================================
