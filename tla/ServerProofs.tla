----------------------------- MODULE ServerProofs -----------------------------
(* Proofs about the parts of the control plane server that work beside its      *)
(* queue: the policy file, the pool of parsers and the restores of a database.   *)
EXTENDS PolicyStore, ParsePool, PgRestore, FiniteSetTheorems, SequenceTheorems, TLAPS

------------------------------------------------------------------------------
(* The policy file *)

Publishing == {"verify", "check", "commit", "unpublish", "roll_back"}
Changing == {"aside", "link", "restore"} \cup Publishing

(* The change under the lock was made from the snapshot, and its candidate is    *)
(* newer than that.                                                              *)
WriterKnown ==
    writer # NoWriter =>
        /\ writer \in Writer /\ writer.candidate <= policies
        /\ writer.previous <= policies /\ writer.taken <= policies
        /\ writer.snapshot < writer.candidate
        /\ before[writer.editor] = InForce(writer.snapshot)

(* Where the policy that is accounted for is at each step: at the path, in the   *)
(* change, or both with the candidate at the path; an operator's is at the path. *)
FileKnown ==
    ~unaccounted =>
        /\ writer.step \in {"none", "aside"} => policyFile = effective
        /\ writer.step = "aside" => effective = writer.snapshot
        /\ writer.step = "link" =>
              \/ policyFile = NoFile /\ effective = writer.previous /\ effective = writer.snapshot
              \/ effective = policyFile /\ policyFile # NoFile
        /\ writer.step \in Publishing =>
              \/ /\ policyFile = writer.candidate
                 /\ effective = writer.snapshot /\ writer.previous = effective
              \/ effective = policyFile /\ policyFile \notin {writer.candidate, NoFile}
        /\ writer.step = "restore" =>
              \/ policyFile = NoFile /\ effective = Restored
              \/ effective = policyFile /\ policyFile # NoFile

PolicyStoreInv ==
    /\ PolicyFileTypes /\ policyFile <= policies
    /\ WriterKnown /\ FileKnown

LEMMA WriterSteps ==
    /\ NoWriter.step = "none" /\ NoWriter \notin Writer
    /\ \A w \in Writer : w.step \in Changing /\ w.step # "none"
<1>1. NoWriter.step = "none" BY DEF NoWriter
<1>2. \A w \in Writer : w.step \in Changing /\ w.step # "none"
    BY DEF Writer, Changing, Publishing
<1> QED BY <1>1, <1>2

(* A step of the change, which may note what it moved.                           *)
Moved(w, v, s) ==
    /\ v \in Writer /\ v.step = s /\ v.editor = w.editor
    /\ v.candidate = w.candidate /\ v.snapshot = w.snapshot

LEMMA StepMoves ==
    ASSUME NEW w \in Writer, NEW s \in Changing, NEW v, v = [w EXCEPT !.step = s]
    PROVE  Moved(w, v, s) /\ v.previous = w.previous /\ v.taken = w.taken
BY DEF Moved, Writer, Changing, Publishing

NotedPrevious(w, p, s) == [w EXCEPT !.previous = p, !.step = s]
NotedTaken(w, p, s) == [w EXCEPT !.taken = p, !.step = s]

LEMMA NotesMove ==
    ASSUME NEW w \in Writer, NEW s \in Changing, NEW p \in -1..LastPolicy
    PROVE  /\ Moved(w, NotedPrevious(w, p, s), s)
           /\ NotedPrevious(w, p, s).previous = p /\ NotedPrevious(w, p, s).taken = w.taken
           /\ Moved(w, NotedTaken(w, p, s), s)
           /\ NotedTaken(w, p, s).previous = w.previous /\ NotedTaken(w, p, s).taken = p
BY DEF Moved, Writer, Changing, Publishing, NotedPrevious, NotedTaken

LEMMA PolicyStarts == PolicyStoreInit => PolicyStoreInv
<1> SUFFICES ASSUME PolicyStoreInit PROVE PolicyStoreInv OBVIOUS
<1> USE PolicyStoreAssumption, WriterSteps
<1>1. /\ policyFile \in {-1, 1} /\ effective = policyFile /\ writer = NoWriter
      /\ policies = 1 /\ unaccounted = FALSE
      /\ lastGood \in [Editor -> 0..LastPolicy] /\ before \in [Editor -> -1..LastPolicy]
    BY DEF PolicyStoreInit, NoFile, DefaultPolicy
<1>2. PolicyFileTypes /\ policyFile <= policies
  <2>1. writer \in Writer \cup {NoWriter} BY <1>1
  <2>2. -1 \in -1..LastPolicy /\ 1 \in -1..LastPolicy /\ 1 \in 0..LastPolicy OBVIOUS
  <2>3. /\ policyFile \in -1..LastPolicy /\ policies \in 0..LastPolicy /\ policyFile <= policies
        /\ effective \in -1..LastPolicy
      BY <1>1, <2>2
  <2>4. unaccounted \in BOOLEAN BY <1>1, Zenon
  <2> QED BY <1>1, <2>1, <2>3, <2>4 DEF PolicyFileTypes
<1>3. WriterKnown /\ FileKnown BY <1>1 DEF WriterKnown, FileKnown, Publishing
<1> QED BY <1>2, <1>3 DEF PolicyStoreInv

(* A change that ends leaves the accounted policy at the path.                   *)
LEMMA MutationEnded ==
    ASSUME PolicyStoreInv, NEW e \in Editor, writer \in Writer, writer.editor = e,
           MutationEnds, policyFile' \in -1..LastPolicy, policyFile' <= policies',
           effective' \in -1..LastPolicy, unaccounted' \in BOOLEAN,
           UNCHANGED <<lastGood, policies>>,
           ~unaccounted' => policyFile' = effective'
    PROVE  PolicyStoreInv'
<1> USE PolicyStoreAssumption, WriterSteps
<1>1. writer' = NoWriter /\ before' = [before EXCEPT ![e] = NoFile]
    BY DEF MutationEnds
<1>2. PolicyFileTypes' BY <1>1 DEF PolicyStoreInv, PolicyFileTypes, NoFile
<1>3. WriterKnown' /\ FileKnown' BY <1>1 DEF WriterKnown, FileKnown, Publishing
<1> QED BY <1>2, <1>3 DEF PolicyStoreInv

(* A change that goes on, with the accounted policy where its step has it.       *)
LEMMA MutationGoesOn ==
    ASSUME PolicyStoreInv, writer \in Writer, writer' \in Writer,
           writer'.editor = writer.editor, writer'.candidate = writer.candidate,
           writer'.snapshot = writer.snapshot,
           writer'.previous <= policies, writer'.taken <= policies,
           policyFile' \in -1..LastPolicy, policyFile' <= policies',
           UNCHANGED <<lastGood, before, policies, effective, unaccounted>>,
           FileKnown'
    PROVE  PolicyStoreInv'
<1> USE PolicyStoreAssumption, WriterSteps
<1>1. writer # NoWriter OBVIOUS
<1>2. PolicyFileTypes' BY DEF PolicyStoreInv, PolicyFileTypes
<1>3. WriterKnown' BY <1>1 DEF PolicyStoreInv, WriterKnown, InForce
<1> QED BY <1>2, <1>3 DEF PolicyStoreInv

LEMMA RequestsKeep ==
    ASSUME PolicyStoreInv, NEW e \in Editor, ReadPolicy(e) \/ Refuse(e) \/ Mutate(e)
    PROVE  PolicyStoreInv'
<1> USE PolicyStoreAssumption, WriterSteps
<1>1. InForce(policyFile) \in 0..LastPolicy /\ Loaded(e) \in 0..LastPolicy
    BY DEF PolicyStoreInv, PolicyFileTypes, InForce, Loaded, NoFile, DefaultPolicy
<1>2. CASE ReadPolicy(e) \/ Refuse(e)
  <2>1. /\ UNCHANGED <<policyFile, writer, policies, effective, unaccounted>>
        /\ lastGood' \in [Editor -> 0..LastPolicy] /\ before' \in [Editor -> -1..LastPolicy]
        /\ \A f \in Editor : before'[f] # before[f] => f = e
      BY <1>1, <1>2 DEF ReadPolicy, Refuse, PolicyStoreInv, PolicyFileTypes, NoFile
  <2>2. PolicyFileTypes' /\ policyFile' <= policies'
      BY <2>1 DEF PolicyStoreInv, PolicyFileTypes
  <2>3. writer # NoWriter => before'[writer.editor] = before[writer.editor]
    <3> SUFFICES ASSUME writer # NoWriter PROVE before'[writer.editor] = before[writer.editor]
        OBVIOUS
    <3>1. writer \in Writer /\ writer.editor \in Editor /\ before[writer.editor] # NoFile
      <4>1. writer \in Writer BY DEF PolicyStoreInv, WriterKnown
      <4>2. writer.editor \in Editor /\ writer.snapshot \in -1..LastPolicy BY <4>1 DEF Writer
      <4>3. before[writer.editor] = InForce(writer.snapshot) BY DEF PolicyStoreInv, WriterKnown
      <4> QED BY <4>1, <4>2, <4>3 DEF InForce, NoFile, DefaultPolicy
    <3>2. writer.editor # e BY <1>2, <3>1 DEF ReadPolicy, Refuse
    <3> QED BY <2>1, <3>1, <3>2
  <2>4. WriterKnown' BY <2>1, <2>3 DEF PolicyStoreInv, WriterKnown, InForce
  <2>5. FileKnown' BY <2>1 DEF PolicyStoreInv, FileKnown, Restored
  <2> QED BY <2>2, <2>4, <2>5 DEF PolicyStoreInv
<1>3. CASE Mutate(e)
  <2>1. /\ writer = NoWriter /\ before[e] = InForce(policyFile) /\ policies < LastPolicy
        /\ policies' = policies + 1
        /\ UNCHANGED <<policyFile, lastGood, before, effective, unaccounted>>
      BY <1>3 DEF Mutate, Expected
  <2>2. writer' = [editor |-> e, candidate |-> policies + 1, snapshot |-> policyFile,
                   previous |-> NoFile, taken |-> NoFile, step |-> "aside"]
      BY <1>3 DEF Mutate
  <2>3. /\ policies \in 0..LastPolicy /\ policyFile \in -1..LastPolicy /\ policyFile <= policies
      BY DEF PolicyStoreInv, PolicyFileTypes
  <2>4. /\ writer' \in Writer /\ writer'.editor = e /\ writer'.candidate = policies + 1
        /\ writer'.snapshot = policyFile /\ writer'.step = "aside"
        /\ writer'.previous = -1 /\ writer'.taken = -1
      BY <2>1, <2>2, <2>3 DEF Writer, NoFile
  <2>5. PolicyFileTypes' /\ policyFile' <= policies'
      BY <2>1, <2>3, <2>4 DEF PolicyStoreInv, PolicyFileTypes
  <2>6. WriterKnown' BY <2>1, <2>3, <2>4 DEF WriterKnown, InForce
  <2>7. ~unaccounted => policyFile = effective BY <2>1 DEF PolicyStoreInv, FileKnown
  <2>8. FileKnown' BY <2>1, <2>4, <2>7 DEF FileKnown, Publishing
  <2> QED BY <2>5, <2>6, <2>8 DEF PolicyStoreInv
<1> QED BY <1>2, <1>3

LEMMA PublicationKeeps ==
    ASSUME PolicyStoreInv, NEW e \in Editor,
           SetPriorAside(e) \/ LinkCandidate(e) \/ PublicationNotLinked(e) \/ VerifyPublished(e)
    PROVE  PolicyStoreInv'
<1> USE PolicyStoreAssumption, WriterSteps
<1>1. writer # NoWriter /\ writer.editor = e
    BY DEF SetPriorAside, LinkCandidate, PublicationNotLinked, VerifyPublished, Writes
<1>2. /\ writer \in Writer /\ writer.candidate \in 1..LastPolicy /\ writer.candidate <= policies
      /\ writer.snapshot \in -1..LastPolicy /\ writer.previous \in -1..LastPolicy
      /\ writer.snapshot < writer.candidate
      /\ writer.previous <= policies /\ writer.taken <= policies
      /\ policyFile \in -1..LastPolicy /\ policyFile <= policies
      /\ policies \in 0..LastPolicy /\ effective \in -1..LastPolicy /\ unaccounted \in BOOLEAN
    BY <1>1 DEF PolicyStoreInv, PolicyFileTypes, WriterKnown, Writer
<1>3. /\ UNCHANGED <<lastGood, policies, effective>>
      /\ SetPriorAside(e) \/ LinkCandidate(e) \/ VerifyPublished(e) => unaccounted' = unaccounted
    BY DEF SetPriorAside, LinkCandidate, PublicationNotLinked, VerifyPublished
<1>4. CASE SetPriorAside(e)
  <2>1. /\ writer.step = "aside" /\ policyFile' = NoFile /\ before' = before
        /\ writer' = [writer EXCEPT !.previous = policyFile, !.step = "link"]
      BY <1>4 DEF SetPriorAside, Writes
  <2>2. /\ writer' \in Writer /\ writer'.step = "link" /\ writer'.editor = writer.editor
        /\ writer'.candidate = writer.candidate /\ writer'.snapshot = writer.snapshot
        /\ writer'.previous = policyFile
        /\ writer'.previous <= policies /\ writer'.taken <= policies
    <3>1. "link" \in Changing BY DEF Changing
    <3>2. Moved(writer, writer', "link") /\ writer'.previous = policyFile /\ writer'.taken = writer.taken
      <4>1. writer \in Writer /\ policyFile \in -1..LastPolicy BY <1>2
      <4>2. writer' = NotedPrevious(writer, policyFile, "link") BY <2>1 DEF NotedPrevious
      <4> QED BY <3>1, <4>1, <4>2, NotesMove
    <3> QED BY <1>2, <3>2 DEF Moved
  <2>3. ~unaccounted => policyFile = effective /\ effective = writer.snapshot
      BY <2>1 DEF PolicyStoreInv, FileKnown
  <2>4. FileKnown' BY <1>3, <1>4, <2>1, <2>2, <2>3 DEF FileKnown, Publishing
  <2> QED BY <1>2, <1>3, <1>4, <2>1, <2>2, <2>4, MutationGoesOn DEF NoFile
<1>5. CASE LinkCandidate(e)
  <2>1. writer.step = "link" BY <1>5 DEF LinkCandidate, Writes
  <2>2. CASE policyFile = NoFile
    <3>1. /\ policyFile' = writer.candidate /\ before' = before
          /\ writer' = [writer EXCEPT !.step = "verify"]
        BY <1>5, <2>2 DEF LinkCandidate, WriterGoesTo
    <3>2. /\ writer' \in Writer /\ writer'.step = "verify" /\ writer'.editor = writer.editor
          /\ writer'.candidate = writer.candidate /\ writer'.snapshot = writer.snapshot
          /\ writer'.previous = writer.previous
          /\ writer'.previous <= policies /\ writer'.taken <= policies
        BY <1>2, <3>1, StepMoves DEF Moved, Changing, Publishing
    <3>3. ~unaccounted => effective = writer.previous /\ effective = writer.snapshot
        BY <2>1, <2>2 DEF PolicyStoreInv, FileKnown
    <3>4. FileKnown' BY <1>3, <1>5, <3>1, <3>2, <3>3 DEF FileKnown, Publishing
    <3> QED BY <1>2, <1>3, <1>5, <3>1, <3>2, <3>4, MutationGoesOn
  <2>3. CASE policyFile # NoFile
    <3>1. MutationEnds /\ policyFile' = policyFile BY <1>5, <2>3 DEF LinkCandidate
    <3>2. ~unaccounted => policyFile = effective
        BY <2>1, <2>3 DEF PolicyStoreInv, FileKnown
    <3> QED BY <1>1, <1>2, <1>3, <1>5, <3>1, <3>2, MutationEnded
  <2> QED BY <2>2, <2>3
<1>6. CASE PublicationNotLinked(e)
  <2>1. /\ MutationEnds
        /\ \/ /\ unaccounted' = unaccounted
              /\ \/ writer.step = "aside" /\ policyFile' = policyFile
                 \/ writer.step = "link" /\ policyFile = NoFile /\ policyFile' = writer.previous
           \/ policyFile' = policyFile /\ unaccounted' = TRUE
      BY <1>6 DEF PublicationNotLinked, Writes
  <2>2. ~unaccounted' => policyFile' = effective BY <2>1 DEF PolicyStoreInv, FileKnown
  <2>3. policyFile' <= policies /\ policyFile' \in -1..LastPolicy BY <1>2, <2>1
  <2>4. unaccounted' \in BOOLEAN
    <3>1. CASE unaccounted' = TRUE BY <3>1, Zenon
    <3>2. CASE unaccounted' = unaccounted BY <1>2, <3>2, Zenon
    <3> QED BY <2>1, <3>1, <3>2
  <2> QED BY <1>1, <1>2, <1>3, <2>1, <2>2, <2>3, <2>4, MutationEnded
<1>7. CASE VerifyPublished(e)
  <2>1. writer.step = "verify" /\ UNCHANGED <<policyFile, before>>
      BY <1>7 DEF VerifyPublished, Writes
  <2>2. CASE /\ policyFile = writer.candidate
             /\ writer' = [writer EXCEPT !.previous = writer.snapshot, !.step = "check"]
    <3>1. /\ writer' \in Writer /\ writer'.step = "check" /\ writer'.editor = writer.editor
          /\ writer'.candidate = writer.candidate /\ writer'.snapshot = writer.snapshot
          /\ writer'.previous = writer.snapshot
          /\ writer'.previous <= policies /\ writer'.taken <= policies
      <4>1. "check" \in Changing BY DEF Changing, Publishing
      <4>2. /\ Moved(writer, writer', "check")
            /\ writer'.previous = writer.snapshot /\ writer'.taken = writer.taken
        <5>1. writer \in Writer /\ writer.snapshot \in -1..LastPolicy BY <1>2
        <5>2. writer' = NotedPrevious(writer, writer.snapshot, "check") BY <2>2 DEF NotedPrevious
        <5> QED BY <4>1, <5>1, <5>2, NotesMove
      <4>3. writer.snapshot <= policies BY <1>2
      <4> QED BY <1>2, <4>2, <4>3 DEF Moved
    <3>2. ~unaccounted => effective = writer.snapshot
        BY <2>1, <2>2 DEF PolicyStoreInv, FileKnown, Publishing
    <3>3. FileKnown' BY <1>3, <1>7, <2>1, <2>2, <3>1, <3>2 DEF FileKnown, Publishing
    <3> QED BY <1>2, <1>3, <1>7, <2>1, <3>1, <3>3, MutationGoesOn
  <2>3. CASE writer' = [writer EXCEPT !.step = "unpublish"]
    <3>1. /\ writer' \in Writer /\ writer'.step = "unpublish" /\ writer'.editor = writer.editor
          /\ writer'.candidate = writer.candidate /\ writer'.snapshot = writer.snapshot
          /\ writer'.previous = writer.previous
          /\ writer'.previous <= policies /\ writer'.taken <= policies
        BY <1>2, <2>3, StepMoves DEF Moved, Changing, Publishing
    <3>2. FileKnown' BY <1>3, <1>7, <2>1, <3>1 DEF PolicyStoreInv, FileKnown, Publishing
    <3> QED BY <1>2, <1>3, <1>7, <2>1, <3>1, <3>2, MutationGoesOn
  <2> QED BY <1>7, <2>2, <2>3 DEF VerifyPublished, WriterGoesTo
<1> QED BY <1>4, <1>5, <1>6, <1>7

(* What CommitAudit puts into force was made from what was.                      *)
LEMMA CommitKnown ==
    ASSUME PolicyStoreInv, writer # NoWriter, writer.step = "commit", ~unaccounted,
           policyFile = writer.candidate
    PROVE  effective = writer.snapshot /\ before[writer.editor] = InForce(effective)
BY DEF PolicyStoreInv, FileKnown, WriterKnown, Publishing

LEMMA AuditKeeps ==
    ASSUME PolicyStoreInv, NEW e \in Editor, CheckCandidate(e) \/ CommitAudit(e) \/ AuditFails(e)
    PROVE  PolicyStoreInv'
<1> USE PolicyStoreAssumption, WriterSteps
<1>1. /\ writer # NoWriter /\ writer.editor = e /\ writer.step \in {"check", "commit"}
      /\ UNCHANGED <<policyFile, lastGood, policies>>
    BY DEF CheckCandidate, CommitAudit, AuditFails, Writes
<1>2. /\ writer \in Writer /\ policyFile \in -1..LastPolicy /\ policyFile <= policies
      /\ writer.previous <= policies /\ writer.taken <= policies
      /\ effective \in -1..LastPolicy /\ unaccounted \in BOOLEAN
    BY <1>1 DEF PolicyStoreInv, PolicyFileTypes, WriterKnown
<1>3. CASE CheckCandidate(e) \/ AuditFails(e)
  <2>1. /\ UNCHANGED <<before, effective, unaccounted>>
        /\ writer' = [writer EXCEPT !.step = "commit"] \/ writer' = [writer EXCEPT !.step = "roll_back"]
      BY <1>3 DEF CheckCandidate, AuditFails, WriterGoesTo
  <2>2. /\ writer' \in Writer /\ writer'.step \in {"commit", "roll_back"}
        /\ writer'.editor = writer.editor
        /\ writer'.candidate = writer.candidate /\ writer'.snapshot = writer.snapshot
        /\ writer'.previous = writer.previous
        /\ writer'.previous <= policies /\ writer'.taken <= policies
      BY <1>2, <2>1, StepMoves DEF Moved, Changing, Publishing
  <2>3. FileKnown' BY <1>1, <2>1, <2>2 DEF PolicyStoreInv, FileKnown, Publishing
  <2> QED BY <1>1, <1>2, <2>1, <2>2, <2>3, MutationGoesOn
<1>4. CASE CommitAudit(e)
  <2>1. /\ MutationEnds
        /\ \/ policyFile = writer.candidate /\ effective' = policyFile /\ unaccounted' = FALSE
           \/ policyFile # writer.candidate /\ UNCHANGED <<effective, unaccounted>>
      BY <1>4 DEF CommitAudit
  <2>2. ~unaccounted /\ policyFile # writer.candidate => policyFile = effective
      BY <1>1 DEF PolicyStoreInv, FileKnown, Publishing
  <2>3. effective' \in -1..LastPolicy BY <1>2, <2>1
  <2>4. unaccounted' \in BOOLEAN
    <3>1. CASE unaccounted' = FALSE BY <3>1, Zenon
    <3>2. CASE unaccounted' = unaccounted BY <1>2, <3>2, Zenon
    <3> QED BY <2>1, <3>1, <3>2
  <2>5. ~unaccounted' => policyFile' = effective' BY <1>1, <2>1, <2>2
  <2> QED BY <1>1, <1>2, <2>1, <2>3, <2>4, <2>5, MutationEnded
<1> QED BY <1>3, <1>4

LEMMA RollBackKeeps ==
    ASSUME PolicyStoreInv, NEW e \in Editor, TakeAway(e) \/ RestorePrior(e)
    PROVE  PolicyStoreInv'
<1> USE PolicyStoreAssumption, WriterSteps
<1>1. /\ writer # NoWriter /\ writer.editor = e
      /\ UNCHANGED <<lastGood, policies, effective>>
    BY DEF TakeAway, RestorePrior, Writes
<1>2. /\ writer \in Writer /\ policyFile \in -1..LastPolicy /\ policyFile <= policies
      /\ writer.previous <= policies /\ writer.taken <= policies
      /\ effective \in -1..LastPolicy /\ unaccounted \in BOOLEAN
      /\ writer.candidate \in 1..LastPolicy /\ writer.previous \in -1..LastPolicy
    BY <1>1 DEF PolicyStoreInv, PolicyFileTypes, WriterKnown, Writer
<1>3. CASE TakeAway(e)
  <2>1. /\ writer.step \in {"unpublish", "roll_back"} /\ policyFile' = NoFile
        /\ unaccounted' = unaccounted
      BY <1>3 DEF TakeAway, Writes
  <2>2. CASE policyFile = NoFile /\ MutationEnds
    <3>1. ~unaccounted => FALSE
        BY <1>2, <2>1, <2>2 DEF PolicyStoreInv, FileKnown, Publishing, NoFile
    <3> QED BY <1>1, <1>2, <2>1, <2>2, <3>1, MutationEnded DEF PolicyStoreInv
  <2>3. CASE writer' = [writer EXCEPT !.taken = policyFile, !.step = "restore"] /\ before' = before
    <3>1. /\ writer' \in Writer /\ writer'.step = "restore" /\ writer'.editor = writer.editor
          /\ writer'.candidate = writer.candidate /\ writer'.snapshot = writer.snapshot
          /\ writer'.previous = writer.previous /\ writer'.taken = policyFile
          /\ writer'.previous <= policies /\ writer'.taken <= policies
      <4>1. "restore" \in Changing BY DEF Changing
      <4>2. /\ Moved(writer, writer', "restore")
            /\ writer'.previous = writer.previous /\ writer'.taken = policyFile
        <5>1. writer \in Writer /\ policyFile \in -1..LastPolicy BY <1>2
        <5>2. writer' = NotedTaken(writer, policyFile, "restore") BY <2>3 DEF NotedTaken
        <5> QED BY <4>1, <5>1, <5>2, NotesMove
      <4> QED BY <1>2, <4>2 DEF Moved
    <3>2. ~unaccounted =>
              \/ policyFile = writer.candidate /\ writer.previous = effective
              \/ effective = policyFile /\ policyFile \notin {writer.candidate, NoFile}
        BY <2>1 DEF PolicyStoreInv, FileKnown, Publishing
    <3>3. ~unaccounted => effective = Restored' BY <3>1, <3>2 DEF Restored
    <3>4. FileKnown' BY <1>1, <2>1, <3>1, <3>3 DEF FileKnown, Publishing
    <3> QED BY <1>1, <1>2, <2>1, <2>3, <3>1, <3>4, MutationGoesOn DEF NoFile, PolicyStoreInv,
            PolicyFileTypes
  <2> QED BY <1>3, <2>2, <2>3 DEF TakeAway
<1>4. CASE RestorePrior(e)
  <2>1. /\ writer.step = "restore" /\ MutationEnds
        /\ \/ /\ policyFile' = IF policyFile = NoFile THEN Restored ELSE policyFile
              /\ unaccounted' = unaccounted
           \/ policyFile' = policyFile /\ unaccounted' = TRUE
      BY <1>4 DEF RestorePrior, Writes
  <2>2. ~unaccounted' => policyFile' = effective
      BY <2>1 DEF PolicyStoreInv, FileKnown
  <2>3. Restored \in -1..LastPolicy /\ Restored <= policies
      BY <1>1, <1>2 DEF PolicyStoreInv, WriterKnown, Restored, Writer
  <2> QED BY <1>1, <1>2, <2>1, <2>2, <2>3, MutationEnded
<1> QED BY <1>3, <1>4

LEMMA OutsideKeeps ==
    ASSUME PolicyStoreInv,
           OperatorReplaces \/ OperatorDeletes \/ \E e \in Editor : RestartEditor(e)
    PROVE  PolicyStoreInv'
<1> USE PolicyStoreAssumption, WriterSteps
<1>1. /\ policyFile \in -1..LastPolicy /\ policyFile <= policies /\ policies \in 0..LastPolicy
      /\ effective \in -1..LastPolicy /\ unaccounted \in BOOLEAN
      /\ writer \in Writer \cup {NoWriter}
      /\ lastGood \in [Editor -> 0..LastPolicy] /\ before \in [Editor -> -1..LastPolicy]
    BY DEF PolicyStoreInv, PolicyFileTypes
<1>2. CASE OperatorReplaces \/ OperatorDeletes
  <2>1. UNCHANGED <<lastGood, before, writer>> BY <1>2 DEF OperatorReplaces, OperatorDeletes
  <2>2. unaccounted' \in BOOLEAN
    <3>1. CASE unaccounted' = (writer.step = "aside") BY <3>1
    <3>2. CASE unaccounted' = (writer # NoWriter) BY <3>2
    <3> QED BY <1>2, <3>1, <3>2 DEF OperatorReplaces, OperatorDeletes
  <2>3. CASE OperatorReplaces
    <3>1. /\ policies < LastPolicy /\ policies' = policies + 1
          /\ policyFile' = policies + 1 /\ effective' = policies + 1
          /\ unaccounted' = (writer.step = "aside")
        BY <2>3 DEF OperatorReplaces
    <3>2. PolicyFileTypes' /\ policyFile' <= policies'
        BY <1>1, <2>1, <2>2, <3>1 DEF PolicyFileTypes
    <3>3. WriterKnown'
      <4> SUFFICES ASSUME writer # NoWriter PROVE WriterKnown' BY <2>1 DEF WriterKnown
      <4>1. writer \in Writer /\ WriterKnown BY DEF PolicyStoreInv, WriterKnown
      <4>2. writer.candidate \in Int /\ writer.previous \in Int /\ writer.taken \in Int
          BY <4>1 DEF Writer
      <4> QED BY <1>1, <2>1, <3>1, <4>1, <4>2 DEF WriterKnown, InForce
    <3>4. writer.step \in Publishing => writer.candidate # policies + 1
      <4> SUFFICES ASSUME writer # NoWriter PROVE writer.candidate # policies + 1
          BY DEF Publishing
      <4>1. writer \in Writer /\ writer.candidate <= policies BY DEF PolicyStoreInv, WriterKnown
      <4> QED BY <1>1, <4>1 DEF Writer
    <3>5. FileKnown'
      <4>1. ~unaccounted' => writer'.step # "aside" BY <2>1, <3>1
      <4>2. policyFile' # NoFile /\ policyFile' = effective' BY <1>1, <3>1 DEF NoFile
      <4>3. writer'.step \in Publishing => policyFile' # writer'.candidate
          BY <2>1, <3>1, <3>4
      <4> QED BY <4>1, <4>2, <4>3 DEF FileKnown
    <3> QED BY <3>2, <3>3, <3>5 DEF PolicyStoreInv
  <2>4. CASE OperatorDeletes
    <3>1. /\ policyFile' = NoFile /\ effective' = NoFile /\ policies' = policies
          /\ unaccounted' = (writer # NoWriter)
        BY <2>4 DEF OperatorDeletes
    <3>2. PolicyFileTypes' /\ policyFile' <= policies'
        BY <1>1, <2>1, <2>2, <3>1 DEF PolicyFileTypes, NoFile
    <3>3. WriterKnown' BY <2>1, <3>1 DEF PolicyStoreInv, WriterKnown, InForce
    <3>4. FileKnown' BY <2>1, <3>1 DEF FileKnown, Publishing
    <3> QED BY <3>2, <3>3, <3>4 DEF PolicyStoreInv
  <2> QED BY <1>2, <2>3, <2>4
<1>3. ASSUME NEW e \in Editor, RestartEditor(e) PROVE PolicyStoreInv'
  <2>1. /\ lastGood' \in [Editor -> 0..LastPolicy] /\ before' = [before EXCEPT ![e] = NoFile]
        /\ UNCHANGED <<policyFile, policies, effective>>
      BY <1>1, <1>3 DEF RestartEditor, DefaultPolicy
  <2>2. before' \in [Editor -> -1..LastPolicy] BY <1>1, <2>1 DEF NoFile
  <2>3. CASE /\ writer # NoWriter /\ writer' = NoWriter
             /\ unaccounted' = (unaccounted \/ writer.step # "aside")
    <3>1. unaccounted' \in BOOLEAN BY <2>3
    <3>2. ~unaccounted' => policyFile = effective BY <2>3 DEF PolicyStoreInv, FileKnown
    <3>3. PolicyFileTypes' BY <1>1, <2>1, <2>2, <2>3, <3>1 DEF PolicyFileTypes
    <3>4. WriterKnown' /\ FileKnown'
        BY <2>1, <2>3, <3>2 DEF WriterKnown, FileKnown, Publishing
    <3> QED BY <1>1, <2>1, <3>3, <3>4 DEF PolicyStoreInv
  <2>4. CASE (writer = NoWriter \/ writer.editor # e) /\ UNCHANGED <<writer, unaccounted>>
    <3>1. PolicyFileTypes' BY <1>1, <2>1, <2>2, <2>4 DEF PolicyFileTypes
    <3>2. writer # NoWriter => before'[writer.editor] = before[writer.editor]
      <4> SUFFICES ASSUME writer # NoWriter PROVE before'[writer.editor] = before[writer.editor]
          OBVIOUS
      <4>1. writer.editor \in Editor BY <1>1 DEF Writer
      <4> QED BY <1>1, <2>1, <2>4, <4>1
    <3>3. WriterKnown' BY <2>1, <2>4, <3>2 DEF PolicyStoreInv, WriterKnown, InForce
    <3>4. FileKnown' BY <2>1, <2>4 DEF PolicyStoreInv, FileKnown, Restored
    <3> QED BY <1>1, <2>1, <3>1, <3>3, <3>4 DEF PolicyStoreInv
  <2> QED BY <1>3, <2>3, <2>4 DEF RestartEditor
<1> QED BY <1>2, <1>3

LEMMA PolicySteps == PolicyStoreInv /\ [PolicyStoreNext]_policyStoreVars => PolicyStoreInv'
<1> SUFFICES ASSUME PolicyStoreInv, [PolicyStoreNext]_policyStoreVars PROVE PolicyStoreInv' OBVIOUS
<1>1. CASE UNCHANGED policyStoreVars
    BY <1>1 DEF policyStoreVars, PolicyStoreInv, PolicyFileTypes, WriterKnown, FileKnown,
                InForce, Restored
<1>2. CASE PolicyStoreNext
    BY <1>2, RequestsKeep, PublicationKeeps, AuditKeeps, RollBackKeeps, OutsideKeeps
    DEF PolicyStoreNext
<1> QED BY <1>1, <1>2

(* What is in force changes to the candidate of a change in one step only.       *)
LEMMA OnlyTheAuditCommits ==
    ASSUME PolicyStoreInv, PolicyStoreNext, NEW e \in Editor, Writes(e, "commit"),
           effective' # effective, effective' = writer.candidate, ~unaccounted
    PROVE  before[e] = InForce(effective)
<1> USE PolicyStoreAssumption
<1>1. /\ writer # NoWriter /\ writer.step = "commit" /\ writer.editor = e BY DEF Writes
<1>2. /\ writer.candidate \in 1..LastPolicy /\ writer.candidate <= policies /\ policies \in Int
    BY <1>1 DEF PolicyStoreInv, PolicyFileTypes, WriterKnown, Writer
<1>3. ~OperatorReplaces BY <1>2 DEF OperatorReplaces
<1>4. ~OperatorDeletes BY <1>2 DEF OperatorDeletes, NoFile
<1>5. PICK f \in Editor : CommitAudit(f)
    BY <1>3, <1>4
    DEF PolicyStoreNext, ReadPolicy, Mutate, Refuse, SetPriorAside, LinkCandidate,
        PublicationNotLinked, VerifyPublished, CheckCandidate, AuditFails, TakeAway,
        RestorePrior, RestartEditor
<1>6. policyFile = writer.candidate BY <1>5 DEF CommitAudit
<1> QED BY <1>1, <1>6, CommitKnown

(* What the log names as the policy of the last change is the one accounted for, *)
(* or was disowned.                                                              *)
LogKnown ==
    /\ audited \in -1..LastPolicy /\ disowned \subseteq 1..LastPolicy
    /\ audited \in {effective} \cup disowned

LEMMA LogStarts == PolicyStoreInit => LogKnown
BY PolicyStoreAssumption DEF PolicyStoreInit, LogKnown, NoFile

LEMMA LogSteps ==
    ASSUME PolicyStoreInv, LogKnown, [PolicyStoreNext]_policyStoreVars
    PROVE  LogKnown'
<1> USE PolicyStoreAssumption DEF LogKnown
<1>1. policies \in 0..LastPolicy /\ policyFile \in -1..LastPolicy
    BY DEF PolicyStoreInv, PolicyFileTypes
<1>2. CASE UNCHANGED <<effective, auditLog>> BY <1>2 DEF auditLog
<1>3. ASSUME NEW e \in Editor, CommitAudit(e) PROVE LogKnown'
  <2>1. disowned' = disowned
        /\ \/ effective' = policyFile /\ audited' = policyFile
           \/ UNCHANGED <<effective, audited>>
      BY <1>3 DEF CommitAudit
  <2> QED BY <1>1, <2>1
<1>4. ASSUME NEW e \in Editor, AuditFails(e) PROVE LogKnown'
  <2>1. writer # NoWriter BY <1>4 DEF AuditFails, Writes
  <2>2. writer.candidate \in 1..LastPolicy
      BY <2>1 DEF PolicyStoreInv, WriterKnown, Writer
  <2>3. effective' = effective
        /\ \/ UNCHANGED auditLog
           \/ audited' = writer.candidate /\ disowned' = disowned \cup {writer.candidate}
      BY <1>4 DEF AuditFails
  <2>4. CASE UNCHANGED auditLog BY <2>3, <2>4 DEF auditLog
  <2>5. CASE audited' = writer.candidate /\ disowned' = disowned \cup {writer.candidate}
    <3>1. audited' \in disowned' /\ disowned' \subseteq 1..LastPolicy BY <2>2, <2>5
    <3>2. audited' \in -1..LastPolicy BY <2>2, <2>5
    <3> QED BY <3>1, <3>2
  <2> QED BY <2>3, <2>4, <2>5
<1>5. CASE OperatorReplaces BY <1>1, <1>5 DEF OperatorReplaces
<1>6. CASE OperatorDeletes BY <1>1, <1>6 DEF OperatorDeletes, NoFile
<1>7. CASE UNCHANGED policyStoreVars BY <1>2, <1>7 DEF policyStoreVars, auditLog
<1> QED
    BY <1>2, <1>3, <1>4, <1>5, <1>6, <1>7
    DEF PolicyStoreNext, ReadPolicy, Mutate, Refuse, SetPriorAside, LinkCandidate,
        PublicationNotLinked, VerifyPublished, CheckCandidate, TakeAway, RestorePrior,
        RestartEditor

(* The policy at the path is the last one reported as made whenever no change is *)
(* under way; the log agrees, unless a change it names was reported as failed;   *)
(* and no audited change replaces a policy its author did not see: the code's    *)
(* order of snapshot, publication, audit and roll-back (withPolicyFileMutation,  *)
(* commitPolicyWithAudit), for any number of processes and policies.             *)
THEOREM PoliciesAccounted == PolicyStoreSpec => PolicyAccounted
<1>1. PolicyStoreInit => PolicyStoreInv /\ LogKnown BY PolicyStarts, LogStarts
<1>2. PolicyStoreInv /\ LogKnown /\ [PolicyStoreNext]_policyStoreVars
          => (PolicyStoreInv /\ LogKnown)'
    BY PolicySteps, LogSteps
<1>3. PolicyStoreInv /\ LogKnown =>
          /\ writer = NoWriter /\ ~unaccounted => policyFile = effective
          /\ audited \in {effective} \cup disowned
  <2> SUFFICES ASSUME PolicyStoreInv, writer = NoWriter, ~unaccounted PROVE policyFile = effective
      BY DEF LogKnown
  <2> QED BY WriterSteps DEF PolicyStoreInv, FileKnown
<1>4. PolicyStoreInv /\ [PolicyStoreNext]_policyStoreVars =>
          [\A e \in Editor :
              Writes(e, "commit") /\ effective' # effective /\ effective' = writer.candidate
                 /\ ~unaccounted
              => before[e] = InForce(effective)]_policyStoreVars
    BY OnlyTheAuditCommits
<1> QED BY <1>1, <1>2, <1>3, <1>4, PTL DEF PolicyStoreSpec, PolicyAccounted

(* The policy file is one of the versions made so far, and so is what each        *)
(* change holds of it.                                                           *)
LEMMA PolicyStoreTyped ==
    PolicyStoreInit /\ [][PolicyStoreNext]_policyStoreVars => []PolicyStoreTypes
<1>1. PolicyStoreInv /\ LogKnown => PolicyStoreTypes
    BY DEF PolicyStoreInv, LogKnown, PolicyStoreTypes
<1>2. PolicyStoreInit => PolicyStoreInv /\ LogKnown BY PolicyStarts, LogStarts
<1>3. PolicyStoreInv /\ LogKnown /\ [PolicyStoreNext]_policyStoreVars
          => (PolicyStoreInv /\ LogKnown)'
    BY PolicySteps, LogSteps
<1> QED BY <1>1, <1>2, <1>3, PTL

------------------------------------------------------------------------------
(* The pool of parsers *)

(* A task is in the queue once, or with one worker of the pool, or answered; and *)
(* the timer of a worker is that of the task it holds.                           *)
PoolShapes ==
    /\ asked \in 0..LastTask /\ spawned \in 0..LastTask /\ pumping \in BOOLEAN
    /\ queue \in Seq(Task)
    /\ workers \subseteq 1..spawned
    /\ taskOf \in [Worker -> Task \cup {0}]
    /\ timers \subseteq (Worker \cup {0}) \X Task
    /\ answers \in [Task -> Seq(Answer)]

Distinct(q) == \A i, j \in 1..Len(q) : q[i] = q[j] => i = j

TasksApart ==
    /\ Distinct(queue)
    /\ \A t \in Waiting : t <= asked /\ \A w \in Worker : taskOf[w] # t
    /\ \A w \in Worker : taskOf[w] # 0 => w \in workers /\ taskOf[w] <= asked
    /\ \A v, w \in Worker : taskOf[v] = taskOf[w] /\ taskOf[v] # 0 => v = w
    /\ \A x \in timers : x[1] # 0 => taskOf[x[1]] = x[2]

AnswersKnown ==
    \A t \in Task :
        /\ \/ answers[t] = <<>>
           \/ Len(answers[t]) = 1 /\ answers[t][1].owner = t
        /\ t > asked => answers[t] = <<>>
        /\ t \in Waiting \/ (\E w \in Worker : taskOf[w] = t) => answers[t] = <<>>

PoolFilled ==
    /\ IsFiniteSet(workers) /\ Cardinality(workers) <= PoolSize
    /\ NoTaskWaitsInVain

PoolInv == PoolShapes /\ TasksApart /\ AnswersKnown /\ PoolFilled

(* The queue as the set of its tasks.                                            *)
Elements(q) == {q[i] : i \in 1..Len(q)}

LEMMA QueueGrows ==
    ASSUME NEW q \in Seq(Task), Distinct(q), NEW t \in Task, t \notin Elements(q)
    PROVE  /\ Append(q, t) \in Seq(Task) /\ Distinct(Append(q, t))
           /\ Elements(Append(q, t)) = Elements(q) \cup {t}
<1> DEFINE r == Append(q, t)
<1>1. /\ r \in Seq(Task) /\ Len(r) = Len(q) + 1 /\ r[Len(q) + 1] = t
      /\ \A i \in 1..Len(q) : r[i] = q[i]
    BY AppendProperties
<1>2. Len(q) \in Nat OBVIOUS
<1> HIDE DEF r
<1>3. \A i \in 1..Len(r) : i \in 1..Len(q) \/ i = Len(q) + 1 BY <1>1, <1>2
<1>4. Distinct(r) BY <1>1, <1>2, <1>3 DEF Distinct, Elements
<1>5. Elements(r) = Elements(q) \cup {t}
  <2>1. Elements(r) \subseteq Elements(q) \cup {t} BY <1>1, <1>3 DEF Elements
  <2>2. t \in Elements(r) BY <1>1, <1>2 DEF Elements
  <2>3. Elements(q) \subseteq Elements(r) BY <1>1, <1>2 DEF Elements
  <2> QED BY <2>1, <2>2, <2>3
<1> QED BY <1>1, <1>4, <1>5 DEF r

LEMMA QueueMoves ==
    ASSUME NEW q \in Seq(Task), Distinct(q), q # <<>>
    PROVE  /\ Head(q) \in Task /\ Head(q) \in Elements(q)
           /\ Tail(q) \in Seq(Task) /\ Distinct(Tail(q))
           /\ Elements(Tail(q)) = Elements(q) \ {Head(q)}
<1> DEFINE r == Tail(q)
<1>1. /\ r \in Seq(Task) /\ Len(r) = Len(q) - 1 /\ Head(q) \in Task
      /\ \A i \in 1..Len(r) : r[i] = q[i + 1]
    BY HeadTailProperties
<1>2. Len(q) \in Nat \ {0} /\ Head(q) = q[1] BY EmptySeq
<1> HIDE DEF r
<1>3. \A i \in 1..Len(r) : i + 1 \in 1..Len(q) /\ i + 1 # 1 BY <1>1, <1>2
<1>4. Distinct(r)
  <2> SUFFICES ASSUME NEW i \in 1..Len(r), NEW j \in 1..Len(r), r[i] = r[j] PROVE i = j
      BY DEF Distinct
  <2>1. q[i + 1] = q[j + 1] BY <1>1
  <2>2. i + 1 = j + 1 BY <1>3, <2>1 DEF Distinct
  <2> QED BY <2>2
<1>5. Elements(r) = Elements(q) \ {Head(q)}
  <2>1. ASSUME NEW i \in 1..Len(r) PROVE r[i] \in Elements(q) \ {Head(q)}
    <3>1. r[i] = q[i + 1] /\ i + 1 \in 1..Len(q) /\ i + 1 # 1 BY <1>1, <1>3
    <3>2. 1 \in 1..Len(q) BY <1>2
    <3> QED BY <1>2, <3>1, <3>2 DEF Distinct, Elements
  <2>2. ASSUME NEW k \in 1..Len(q), q[k] # Head(q) PROVE q[k] \in Elements(r)
    <3>1. k # 1 BY <1>2, <2>2
    <3>2. k - 1 \in 1..Len(r) /\ (k - 1) + 1 = k BY <1>1, <1>2, <3>1
    <3>3. r[k - 1] = q[k] BY <1>1, <3>2
    <3> QED BY <3>2, <3>3 DEF Elements
  <2> QED BY <2>1, <2>2 DEF Elements
<1>6. Head(q) \in Elements(q) BY <1>2 DEF Elements
<1> QED BY <1>1, <1>4, <1>5, <1>6 DEF r

LEMMA QueueShrinks ==
    ASSUME NEW q \in Seq(Task), Distinct(q), NEW k \in 1..Len(q)
    PROVE  /\ Spliced(q, k) \in Seq(Task) /\ Distinct(Spliced(q, k))
           /\ Elements(Spliced(q, k)) = Elements(q) \ {q[k]}
           /\ Len(Spliced(q, k)) = Len(q) - 1
<1> DEFINE a == SubSeq(q, 1, k - 1)
           b == SubSeq(q, k + 1, Len(q))
           r == a \o b
<1>1. Len(q) \in Nat /\ k \in Nat \ {0} /\ k <= Len(q) OBVIOUS
<1>2. \A i \in 1..Len(q) : q[i] \in Task OBVIOUS
<1>3. /\ a \in Seq(Task) /\ Len(a) = k - 1
      /\ \A i \in 1..(k - 1) : a[i] = q[i]
  <2>1. \A i \in 1..(k - 1) : q[i] \in Task BY <1>1, <1>2
  <2>2. /\ SubSeq(q, 1, k - 1) \in Seq(Task)
        /\ Len(SubSeq(q, 1, k - 1)) = IF 1 <= k - 1 THEN (k - 1) - 1 + 1 ELSE 0
        /\ \A i \in 1..((k - 1) - 1 + 1) : SubSeq(q, 1, k - 1)[i] = q[1 + i - 1]
      BY <1>1, <2>1, SubSeqProperties
  <2> QED BY <1>1, <2>2
<1>4. /\ b \in Seq(Task) /\ Len(b) = Len(q) - k
      /\ \A i \in 1..(Len(q) - k) : b[i] = q[k + i]
  <2>1. \A i \in (k + 1)..Len(q) : q[i] \in Task BY <1>1, <1>2
  <2>2. /\ SubSeq(q, k + 1, Len(q)) \in Seq(Task)
        /\ Len(SubSeq(q, k + 1, Len(q))) = IF k + 1 <= Len(q) THEN Len(q) - (k + 1) + 1 ELSE 0
        /\ \A i \in 1..(Len(q) - (k + 1) + 1) : SubSeq(q, k + 1, Len(q))[i] = q[(k + 1) + i - 1]
      BY <1>1, <2>1, SubSeqProperties
  <2> QED BY <1>1, <2>2
<1> HIDE DEF a, b
<1>5. /\ r \in Seq(Task) /\ Len(r) = Len(a) + Len(b)
      /\ \A i \in 1..(Len(a) + Len(b)) : r[i] = IF i <= Len(a) THEN a[i] ELSE b[i - Len(a)]
    BY <1>3, <1>4, ConcatProperties
<1>6. Len(r) = Len(q) - 1 BY <1>1, <1>3, <1>4, <1>5
<1> HIDE DEF r
\* The item at i of the rest comes from i or i + 1.
<1> DEFINE from(i) == IF i < k THEN i ELSE i + 1
<1>7. ASSUME NEW i \in 1..Len(r) PROVE from(i) \in 1..Len(q) /\ from(i) # k /\ r[i] = q[from(i)]
  <2>1. CASE i < k
    <3>1. r[i] = a[i] BY <1>1, <1>3, <1>4, <1>5, <1>6, <2>1
    <3> QED BY <1>1, <1>3, <1>6, <2>1, <3>1
  <2>2. CASE i >= k
    <3>1. r[i] = b[i - (k - 1)] BY <1>1, <1>3, <1>4, <1>5, <1>6, <2>2
    <3>2. i - (k - 1) \in 1..(Len(q) - k) /\ k + (i - (k - 1)) = i + 1 BY <1>1, <1>6, <2>2
    <3>3. r[i] = q[i + 1] BY <1>4, <3>1, <3>2
    <3> QED BY <1>1, <1>6, <2>2, <3>3
  <2> QED BY <1>1, <2>1, <2>2
<1>8. Distinct(r)
  <2> SUFFICES ASSUME NEW i \in 1..Len(r), NEW j \in 1..Len(r), r[i] = r[j] PROVE i = j
      BY DEF Distinct
  <2>1. q[from(i)] = q[from(j)] BY <1>7
  <2>2. from(i) = from(j) BY <1>7, <2>1 DEF Distinct
  <2> QED BY <1>1, <2>2
<1>9. Elements(r) \subseteq Elements(q) \ {q[k]}
  <2> SUFFICES ASSUME NEW i \in 1..Len(r) PROVE r[i] \in Elements(q) /\ r[i] # q[k]
      BY DEF Elements
  <2> HIDE DEF from
  <2>1. r[i] = q[from(i)] /\ from(i) \in 1..Len(q) /\ from(i) # k BY <1>7
  <2> QED BY <2>1 DEF Elements, Distinct
<1>10. Elements(q) \ {q[k]} \subseteq Elements(r)
  <2> SUFFICES ASSUME NEW j \in 1..Len(q), j # k PROVE q[j] \in Elements(r)
      BY DEF Elements
  <2>1. CASE j < k
    <3>1. j \in 1..Len(r) /\ from(j) = j BY <1>1, <1>6, <2>1
    <3>2. r[j] = q[j] BY <1>7, <3>1
    <3> QED BY <3>1, <3>2 DEF Elements
  <2>2. CASE j > k
    <3>1. j - 1 \in 1..Len(r) /\ from(j - 1) = j BY <1>1, <1>6, <2>2
    <3>2. r[j - 1] = q[j] BY <1>7, <3>1
    <3> QED BY <3>1, <3>2 DEF Elements
  <2> QED BY <1>1, <2>1, <2>2
<1>11. Spliced(q, k) = r BY DEF Spliced, r, a, b
<1> QED BY <1>5, <1>6, <1>8, <1>9, <1>10, <1>11

(* One answer more.                                                              *)
LEMMA Answered ==
    ASSUME answers \in [Task -> Seq(Answer)], NEW t \in Task, NEW u \in Task,
           NEW what \in {"result", "timeout", "extract_failed"}
    PROVE  /\ Answering(t, what, u) \in [Task -> Seq(Answer)]
           /\ answers[t] = <<>> => /\ Len(Answering(t, what, u)[t]) = 1
                                   /\ Answering(t, what, u)[t][1].owner = u
           /\ \A v \in Task \ {t} : Answering(t, what, u)[v] = answers[v]
<1> DEFINE e == [what |-> what, owner |-> u]
<1>1. e \in Answer /\ e.owner = u BY DEF Answer
<1> HIDE DEF e
<1>2. Answering(t, what, u) = [answers EXCEPT ![t] = Append(@, e)] BY DEF Answering, e
<1>3. answers[t] \in Seq(Answer) OBVIOUS
<1>4. Append(answers[t], e) \in Seq(Answer) BY <1>1, <1>3, AppendProperties
<1>5. answers[t] = <<>> => /\ Len(Append(answers[t], e)) = 1
                           /\ Append(answers[t], e)[1] = e
    BY <1>1, <1>3, AppendProperties, EmptySeq
<1> QED BY <1>1, <1>2, <1>4, <1>5

LEMMA PoolStarts == ParsePoolInit => PoolInv
<1> SUFFICES ASSUME ParsePoolInit PROVE PoolInv OBVIOUS
<1> USE ParsePoolAssumption
<1>1. PoolShapes
  <2>1. pumping \in BOOLEAN BY Zenon DEF ParsePoolInit
  <2>2. /\ asked \in 0..LastTask /\ spawned \in 0..LastTask /\ queue \in Seq(Task)
        /\ workers \subseteq 1..spawned /\ timers \subseteq (Worker \cup {0}) \X Task
      BY DEF ParsePoolInit
  <2>3. taskOf \in [Worker -> Task \cup {0}] BY DEF ParsePoolInit
  <2>4. answers \in [Task -> Seq(Answer)] BY DEF ParsePoolInit
  <2> QED BY <2>1, <2>2, <2>3, <2>4 DEF PoolShapes
<1>2. Waiting = {} BY EmptySeq DEF ParsePoolInit, Waiting
<1>3. TasksApart BY <1>2, EmptySeq DEF ParsePoolInit, TasksApart, Distinct
<1>4. AnswersKnown BY <1>2 DEF ParsePoolInit, AnswersKnown
<1>5. PoolFilled BY FS_EmptySet DEF ParsePoolInit, PoolFilled, NoTaskWaitsInVain
<1> QED BY <1>1, <1>3, <1>4, <1>5 DEF PoolInv

(* The pool with a worker less.                                                  *)
LEMMA FewerWorkers ==
    ASSUME PoolFilled, NEW w, workers' = workers \ {w} \/ workers' = workers
    PROVE  IsFiniteSet(workers') /\ Cardinality(workers') <= PoolSize
<1> USE ParsePoolAssumption
<1>1. Cardinality(workers) \in Nat BY FS_CardinalityType DEF PoolFilled
<1> QED BY <1>1, FS_RemoveElement DEF PoolFilled

(* A worker gives up what it holds, and the promise of that task is answered.    *)
LEMMA WorkerReleased ==
    ASSUME PoolInv, NEW w \in Worker, NEW what \in {"result", "timeout", "extract_failed"},
           UNCHANGED <<asked, queue, spawned>>, pumping' = TRUE,
           workers' = workers \ {w} \/ workers' = workers,
           taskOf' = [taskOf EXCEPT ![w] = 0],
           timers' = timers \ {<<w, taskOf[w]>>},
           answers' = IF taskOf[w] = 0 THEN answers
                      ELSE Answering(taskOf[w], what, taskOf[w])
    PROVE  PoolInv'
<1> DEFINE t == taskOf[w]
<1>1. /\ taskOf \in [Worker -> Task \cup {0}] /\ timers \subseteq (Worker \cup {0}) \X Task
      /\ answers \in [Task -> Seq(Answer)] /\ workers \subseteq 1..spawned
    BY DEF PoolInv, PoolShapes
<1>2. Waiting' = Waiting BY DEF Waiting
<1>3. /\ taskOf'[w] = 0 /\ \A v \in Worker \ {w} : taskOf'[v] = taskOf[v]
      /\ taskOf' \in [Worker -> Task \cup {0}]
    BY <1>1
<1>4. \A x \in timers' : x \in timers /\ x[1] # w
  <2> SUFFICES ASSUME NEW x \in timers', x[1] = w PROVE FALSE OBVIOUS
  <2>1. x \in timers /\ x # <<w, taskOf[w]>> OBVIOUS
  <2>2. x[1] # 0 BY DEF Worker
  <2>3. taskOf[w] = x[2] BY <2>1, <2>2 DEF PoolInv, TasksApart
  <2>4. x = <<x[1], x[2]>> BY <1>1, <2>1
  <2> QED BY <2>1, <2>3, <2>4
<1>5. /\ answers' \in [Task -> Seq(Answer)]
      /\ t # 0 => Len(answers'[t]) = 1 /\ answers'[t][1].owner = t
      /\ \A v \in Task : v # t => answers'[v] = answers[v]
      /\ t = 0 => answers' = answers
  <2>1. CASE t = 0 BY <1>1, <2>1 DEF Task
  <2>2. CASE t # 0
    <3>1. t \in Task BY <1>1, <2>2
    <3>2. answers[t] = <<>> BY <3>1 DEF PoolInv, AnswersKnown
    <3>3. answers' = Answering(t, what, t) BY <2>2
    <3> HIDE DEF t
    <3> DEFINE f == Answering(t, what, t)
    <3>4. /\ f \in [Task -> Seq(Answer)] /\ Len(f[t]) = 1 /\ f[t][1].owner = t
          /\ \A v \in Task \ {t} : f[v] = answers[v]
        BY <1>1, <3>1, <3>2, Answered
    <3> HIDE DEF f
    <3>5. answers' = f BY <3>3 DEF f
    <3> QED BY <2>2, <3>4, <3>5
  <2> QED BY <2>1, <2>2
<1>6. PoolShapes' BY <1>1, <1>3, <1>5 DEF PoolInv, PoolShapes
<1>7. TasksApart'
  <2>1. \A v \in Worker : taskOf'[v] # 0 => v # w /\ taskOf'[v] = taskOf[v] BY <1>3
  <2>2. Distinct(queue)' BY DEF PoolInv, TasksApart, Distinct
  <2>3. \A u \in Waiting' : u <= asked' /\ \A v \in Worker : taskOf'[v] # u
    <3> SUFFICES ASSUME NEW u \in Waiting PROVE u <= asked /\ \A v \in Worker : taskOf'[v] # u
        BY <1>2
    <3>1. u \in Task BY DEF Waiting, PoolInv, PoolShapes
    <3>2. u # 0 BY <3>1 DEF Task
    <3> QED BY <2>1, <3>2 DEF PoolInv, TasksApart
  <2>4. \A v \in Worker : taskOf'[v] # 0 => v \in workers' /\ taskOf'[v] <= asked'
      BY <2>1 DEF PoolInv, TasksApart
  <2>5. \A u, v \in Worker : taskOf'[u] = taskOf'[v] /\ taskOf'[u] # 0 => u = v
      BY <2>1 DEF PoolInv, TasksApart
  <2>6. \A x \in timers' : x[1] # 0 => taskOf'[x[1]] = x[2]
    <3> SUFFICES ASSUME NEW x \in timers', x[1] # 0 PROVE taskOf'[x[1]] = x[2] OBVIOUS
    <3>1. x \in timers /\ x[1] \in Worker /\ x[1] # w BY <1>1, <1>4
    <3> QED BY <1>3, <3>1 DEF PoolInv, TasksApart
  <2> QED BY <2>2, <2>3, <2>4, <2>5, <2>6 DEF TasksApart
<1>8. AnswersKnown'
  <2> SUFFICES ASSUME NEW u \in Task
               PROVE  /\ \/ answers'[u] = <<>>
                         \/ Len(answers'[u]) = 1 /\ answers'[u][1].owner = u
                      /\ u > asked => answers'[u] = <<>>
                      /\ u \in Waiting \/ (\E v \in Worker : taskOf'[v] = u)
                            => answers'[u] = <<>>
      BY <1>2 DEF AnswersKnown
  <2>0. u # 0 /\ u \in Int BY DEF Task
  <2>1. CASE u = t
    <3>1. t # 0 /\ t <= asked BY <2>0, <2>1 DEF PoolInv, TasksApart
    <3>2. asked \in Int BY DEF PoolInv, PoolShapes
    <3>3. u \notin Waiting BY <2>1 DEF PoolInv, TasksApart
    <3>4. \A v \in Worker : taskOf'[v] # u BY <1>3, <2>0, <2>1 DEF PoolInv, TasksApart
    <3> QED BY <1>5, <2>0, <2>1, <3>1, <3>2, <3>3, <3>4
  <2>2. CASE u # t
    <3>1. answers'[u] = answers[u] BY <1>5, <2>2
    <3>2. \A v \in Worker : taskOf'[v] = u => taskOf[v] = u BY <1>3, <2>0
    <3> QED BY <3>1, <3>2 DEF PoolInv, AnswersKnown
  <2> QED BY <2>1, <2>2
<1>9. PoolFilled' BY FewerWorkers DEF PoolInv, PoolFilled, NoTaskWaitsInVain
<1> QED BY <1>6, <1>7, <1>8, <1>9 DEF PoolInv

LEMMA PoolUntouched ==
    ASSUME PoolInv,
           UNCHANGED <<asked, queue, spawned, workers, taskOf, timers, pumping, answers>>
    PROVE  PoolInv'
<1>1. Waiting' = Waiting /\ IdleWorkers' = IdleWorkers BY DEF Waiting, IdleWorkers
<1>2. PoolShapes' BY DEF PoolInv, PoolShapes
<1>3. TasksApart' BY <1>1 DEF PoolInv, TasksApart, Distinct
<1>4. AnswersKnown' BY <1>1 DEF PoolInv, AnswersKnown
<1>5. PoolFilled' BY <1>1 DEF PoolInv, PoolFilled, NoTaskWaitsInVain
<1> QED BY <1>2, <1>3, <1>4, <1>5 DEF PoolInv

(* What the pool hears of a worker: a result, an exit, an error, the timer of    *)
(* the task it holds.                                                            *)
LEMMA CallbacksKeep ==
    ASSUME PoolInv, NEW w \in Worker,
           \/ \E t \in Task : Settle(w, t)
           \/ \E t \in Task : Preempt(w, t)
           \/ Exit(w) \/ ErrorEvent(w)
    PROVE  PoolInv'
<1>1. w # 0 /\ 0 \notin Task /\ taskOf[w] \in Task \cup {0}
    BY DEF Worker, Task, PoolInv, PoolShapes
<1>2. ASSUME NEW t \in Task, Settle(w, t) PROVE PoolInv'
  <2>1. CASE taskOf[w] # t
    <3>1. UNCHANGED <<asked, queue, spawned, workers, taskOf, timers, pumping, answers>>
        BY <1>2, <2>1 DEF Settle
    <3> QED BY <3>1, PoolUntouched
  <2>2. CASE taskOf[w] = t
    <3>1. /\ UNCHANGED <<asked, queue, spawned>> /\ pumping' = TRUE
          /\ workers' = workers \ {w} \/ workers' = workers
          /\ taskOf' = [taskOf EXCEPT ![w] = 0]
          /\ timers' = timers \ {<<w, taskOf[w]>>}
          /\ answers' = Answering(taskOf[w], "result", taskOf[w])
        BY <1>2, <2>2 DEF Settle, Cleared
    <3>2. taskOf[w] # 0 BY <1>1, <2>2
    <3> QED BY <3>1, <3>2, WorkerReleased
  <2> QED BY <2>1, <2>2
<1>3. ASSUME NEW t \in Task, Preempt(w, t) PROVE PoolInv'
  <2>1. taskOf[w] = t
    <3>1. <<w, t>> \in timers BY <1>3 DEF Preempt
    <3>2. <<w, t>>[1] # 0 => taskOf[<<w, t>>[1]] = <<w, t>>[2]
        BY <3>1 DEF PoolInv, TasksApart
    <3> QED BY <1>1, <3>2
  <2>2. /\ UNCHANGED <<asked, queue, spawned>> /\ pumping' = TRUE
        /\ workers' = workers \ {w}
        /\ taskOf' = [taskOf EXCEPT ![w] = 0]
        /\ timers' = timers \ {<<w, taskOf[w]>>}
        /\ answers' = Answering(taskOf[w], "timeout", taskOf[w])
      BY <1>1, <1>3, <2>1 DEF Preempt, Released, PumpsOn
  <2>3. taskOf[w] # 0 BY <1>1, <2>1
  <2> QED BY <2>2, <2>3, WorkerReleased
<1>4. CASE Exit(w) \/ ErrorEvent(w)
  <2>1. /\ UNCHANGED <<asked, queue, spawned>> /\ pumping' = TRUE
        /\ workers' = workers \ {w}
        /\ taskOf' = [taskOf EXCEPT ![w] = 0]
        /\ timers' = timers \ {<<w, taskOf[w]>>}
        /\ answers' = IF taskOf[w] = 0 THEN answers
                      ELSE Answering(taskOf[w], "extract_failed", taskOf[w])
      BY <1>4 DEF Exit, ErrorEvent, Reap
  <2> QED BY <2>1, WorkerReleased
<1> QED BY <1>2, <1>3, <1>4

LEMMA PumpReturnsKeeps == PoolInv /\ PumpReturns => PoolInv'
<1> SUFFICES ASSUME PoolInv, PumpReturns PROVE PoolInv' OBVIOUS
<1>1. /\ UNCHANGED <<asked, queue, spawned, workers, taskOf, timers, answers>>
      /\ pumping' = FALSE /\ (queue = <<>> \/ (IdleWorkers = {} /\ ~Forks))
    BY DEF PumpReturns
<1>2. Waiting' = Waiting /\ IdleWorkers' = IdleWorkers BY <1>1 DEF Waiting, IdleWorkers
<1>3. PoolShapes'
  <2>1. pumping' \in BOOLEAN BY <1>1, Zenon
  <2> QED BY <1>1, <2>1 DEF PoolInv, PoolShapes
<1>4. TasksApart' BY <1>1, <1>2 DEF PoolInv, TasksApart, Distinct
<1>5. AnswersKnown' BY <1>1, <1>2 DEF PoolInv, AnswersKnown
<1>6. IdleWorkers = {} /\ ~Forks => Cardinality(workers) = PoolSize
    BY FS_CardinalityType, ParsePoolAssumption DEF PoolInv, PoolFilled, Forks
<1>7. PoolFilled' BY <1>1, <1>2, <1>6 DEF PoolInv, PoolFilled, NoTaskWaitsInVain
<1> QED BY <1>3, <1>4, <1>5, <1>7 DEF PoolInv

(* A file arrives: refused by a full queue, or in it until pump() runs.          *)
LEMMA ExtractTextKeeps == PoolInv /\ ExtractText => PoolInv'
<1> SUFFICES ASSUME PoolInv, ExtractText PROVE PoolInv' OBVIOUS
<1> DEFINE n == asked + 1
<1>1. /\ asked \in 0..LastTask /\ asked < LastTask /\ LastTask \in Nat
      /\ queue \in Seq(Task) /\ answers \in [Task -> Seq(Answer)]
      /\ taskOf \in [Worker -> Task \cup {0}]
      /\ asked' = n /\ UNCHANGED <<spawned, workers, taskOf>>
    BY ParsePoolAssumption DEF ExtractText, PoolInv, PoolShapes
<1>2. /\ n \in Task /\ n \in 0..LastTask /\ n # 0 /\ n > asked
      /\ n \notin Waiting /\ \A w \in Worker : taskOf[w] # n
    <2>1. n \in Task /\ n \in 0..LastTask /\ n # 0 /\ n > asked BY <1>1 DEF Task
    <2>2. n \notin Waiting BY <1>1, <2>1 DEF PoolInv, TasksApart
    <2>3. \A w \in Worker : taskOf[w] # n BY <1>1, <2>1 DEF PoolInv, TasksApart
    <2> QED BY <2>1, <2>2, <2>3
<1>3. answers[n] = <<>> BY <1>2 DEF PoolInv, AnswersKnown
<1>4. \A v \in Task \cup {0} : v <= asked => v <= n BY <1>1 DEF Task
<1> HIDE DEF n
<1>5. CASE Len(queue) >= QueueMax
  <2> DEFINE f == Answering(n, "extract_failed", n)
  <2>1. /\ answers' = f /\ UNCHANGED <<queue, timers, pumping>>
      BY <1>5 DEF ExtractText, n
  <2>2. /\ f \in [Task -> Seq(Answer)] /\ Len(f[n]) = 1 /\ f[n][1].owner = n
        /\ \A v \in Task \ {n} : f[v] = answers[v]
      BY <1>1, <1>2, <1>3, Answered
  <2> HIDE DEF f
  <2>3. Waiting' = Waiting /\ IdleWorkers' = IdleWorkers
      BY <1>1, <2>1 DEF Waiting, IdleWorkers
  <2>4. Waiting \subseteq Task BY <1>1 DEF Waiting
  <2>5. PoolShapes' BY <1>1, <1>2, <2>1, <2>2 DEF PoolInv, PoolShapes
  <2>6. TasksApart' BY <1>1, <1>4, <2>1, <2>3, <2>4 DEF PoolInv, TasksApart, Distinct
  <2>7. AnswersKnown'
    <3> SUFFICES ASSUME NEW u \in Task
                 PROVE  /\ \/ answers'[u] = <<>>
                           \/ Len(answers'[u]) = 1 /\ answers'[u][1].owner = u
                        /\ u > n => answers'[u] = <<>>
                        /\ u \in Waiting \/ (\E v \in Worker : taskOf[v] = u)
                              => answers'[u] = <<>>
        BY <1>1, <2>3 DEF AnswersKnown
    <3>1. CASE u = n BY <1>1, <1>2, <2>1, <2>2, <3>1
    <3>2. CASE u # n
      <4>1. answers'[u] = answers[u] /\ (u > n => u > asked)
          BY <1>1, <1>2, <2>1, <2>2, <3>2 DEF Task
      <4> QED BY <4>1 DEF PoolInv, AnswersKnown
    <3> QED BY <3>1, <3>2
  <2>8. PoolFilled' BY <1>1, <2>1, <2>3 DEF PoolInv, PoolFilled, NoTaskWaitsInVain
  <2> QED BY <2>5, <2>6, <2>7, <2>8 DEF PoolInv
<1>6. CASE ~(Len(queue) >= QueueMax)
  <2>1. /\ queue' = Append(queue, n) /\ timers' = timers \cup {<<0, n>>} /\ pumping' = TRUE
        /\ answers' = answers
      BY <1>6 DEF ExtractText, n
  <2>2. /\ queue' \in Seq(Task) /\ Distinct(queue') /\ Waiting' = Waiting \cup {n}
    <3>1. Waiting = Elements(queue) /\ Waiting' = Elements(queue') BY DEF Waiting, Elements
    <3>2. Distinct(queue) BY DEF PoolInv, TasksApart
    <3> QED BY <1>1, <1>2, <2>1, <3>1, <3>2, QueueGrows
  <2>3. PoolShapes'
    <3>1. timers' \subseteq (Worker \cup {0}) \X Task
        BY <1>2, <2>1 DEF PoolInv, PoolShapes
    <3>2. pumping' \in BOOLEAN BY <2>1, Zenon
    <3> QED BY <1>1, <1>2, <2>1, <2>2, <3>1, <3>2 DEF PoolInv, PoolShapes
  <2>4. TasksApart'
    <3>1. Waiting \subseteq Task BY <1>1 DEF Waiting
    <3>2. \A u \in Waiting' : u <= asked' /\ \A v \in Worker : taskOf'[v] # u
        BY <1>1, <1>2, <1>4, <2>2, <3>1 DEF PoolInv, TasksApart
    <3>3. \A v \in Worker : taskOf'[v] # 0 => v \in workers' /\ taskOf'[v] <= asked'
        BY <1>1, <1>4 DEF PoolInv, TasksApart
    <3>4. \A v, u \in Worker : taskOf'[v] = taskOf'[u] /\ taskOf'[v] # 0 => v = u
        BY <1>1 DEF PoolInv, TasksApart
    <3>5. \A x \in timers' : x[1] # 0 => taskOf'[x[1]] = x[2]
        BY <1>1, <2>1 DEF PoolInv, TasksApart
    <3>6. Distinct(queue)' BY <2>2 DEF Distinct
    <3> QED BY <3>2, <3>3, <3>4, <3>5, <3>6 DEF TasksApart
  <2>5. AnswersKnown'
    <3> SUFFICES ASSUME NEW u \in Task
                 PROVE  /\ \/ answers[u] = <<>>
                           \/ Len(answers[u]) = 1 /\ answers[u][1].owner = u
                        /\ u > n => answers[u] = <<>>
                        /\ u \in Waiting' \/ (\E v \in Worker : taskOf[v] = u)
                              => answers[u] = <<>>
        BY <1>1, <2>1 DEF AnswersKnown
    <3>1. u > n => u > asked BY <1>1, <1>2 DEF Task
    <3> QED BY <1>3, <2>2, <3>1 DEF PoolInv, AnswersKnown
  <2>6. PoolFilled' BY <1>1, <2>1 DEF PoolInv, PoolFilled, NoTaskWaitsInVain
  <2> QED BY <2>3, <2>4, <2>5, <2>6 DEF PoolInv
<1> QED BY <1>5, <1>6

(* pump() finds a worker that holds nothing, or forks one while the pool has     *)
(* room: either way the pool keeps its size.                                     *)
LEMMA ChosenWorker ==
    ASSUME PoolInv, NEW w \in Worker, Chosen(w), SpawnWorker
    PROVE  /\ taskOf[w] = 0
           /\ spawned' \in 0..LastTask /\ spawned <= spawned'
           /\ workers \cup {w} \subseteq 1..spawned'
           /\ IsFiniteSet(workers \cup {w}) /\ Cardinality(workers \cup {w}) <= PoolSize
<1>1. /\ spawned \in 0..LastTask /\ LastTask \in Nat /\ workers \subseteq 1..spawned
      /\ IsFiniteSet(workers) /\ Cardinality(workers) <= PoolSize
      /\ Cardinality(workers) \in Nat /\ PoolSize \in Nat
    BY ParsePoolAssumption, FS_CardinalityType DEF PoolInv, PoolShapes, PoolFilled
<1>2. CASE Forks
  <2>1. w = spawned + 1 /\ spawned' = spawned + 1 /\ Cardinality(workers) < PoolSize
      BY <1>2 DEF Chosen, SpawnWorker, Forks
  <2>2. w \notin workers BY <1>1, <2>1
  <2>3. taskOf[w] = 0 BY <2>2 DEF PoolInv, TasksApart
  <2>4. spawned' \in 0..LastTask /\ workers \cup {w} \subseteq 1..spawned'
      BY <1>1, <2>1 DEF Worker
  <2>5. IsFiniteSet(workers \cup {w}) /\ Cardinality(workers \cup {w}) <= PoolSize
    <3>1. /\ IsFiniteSet(workers \cup {w})
          /\ Cardinality(workers \cup {w}) = Cardinality(workers) + 1
        BY <1>1, <2>2, FS_AddElement
    <3> QED BY <1>1, <2>1, <3>1
  <2> QED BY <1>1, <2>1, <2>3, <2>4, <2>5
<1>3. CASE ~Forks
  <2>1. w \in workers /\ taskOf[w] = 0 /\ spawned' = spawned
      BY <1>3 DEF Chosen, SpawnWorker, IdleWorkers
  <2>2. workers \cup {w} = workers BY <2>1
  <2> QED BY <1>1, <2>1, <2>2
<1> QED BY <1>2, <1>3

LEMMA AssignKeeps == ASSUME PoolInv, NEW w \in Worker, Assign(w) PROVE PoolInv'
<1> DEFINE t == Head(queue)
<1>1. /\ queue # <<>> /\ queue' = Tail(queue)
      /\ workers' = workers \cup {w} /\ taskOf' = [taskOf EXCEPT ![w] = t]
      /\ timers' = (timers \ {<<0, t>>}) \cup {<<w, t>>}
      /\ pumping /\ UNCHANGED <<asked, answers, pumping>>
    BY DEF Assign, RunTimer
<1>2. /\ taskOf[w] = 0 /\ spawned' \in 0..LastTask /\ workers' \subseteq 1..spawned'
      /\ IsFiniteSet(workers') /\ Cardinality(workers') <= PoolSize
  <2>1. Chosen(w) /\ SpawnWorker BY DEF Assign
  <2> QED BY <1>1, <2>1, ChosenWorker
<1>3. /\ t \in Task /\ t # 0 /\ t \in Waiting /\ queue' \in Seq(Task) /\ Distinct(queue')
      /\ Waiting' = Waiting \ {t}
  <2>1. Waiting = Elements(queue) /\ Waiting' = Elements(queue') BY DEF Waiting, Elements
  <2>2. queue \in Seq(Task) /\ Distinct(queue) BY DEF PoolInv, PoolShapes, TasksApart
  <2>3. t \in Task /\ t \in Waiting /\ queue' \in Seq(Task) /\ Distinct(queue')
        /\ Waiting' = Waiting \ {t}
      BY <1>1, <2>1, <2>2, QueueMoves
  <2> QED BY <2>3 DEF Task
<1>4. t <= asked /\ (\A v \in Worker : taskOf[v] # t) /\ answers[t] = <<>>
    BY <1>3 DEF PoolInv, TasksApart, AnswersKnown
<1> HIDE DEF t
<1>5. /\ taskOf \in [Worker -> Task \cup {0}] /\ taskOf' \in [Worker -> Task \cup {0}]
      /\ taskOf'[w] = t /\ \A v \in Worker \ {w} : taskOf'[v] = taskOf[v]
    BY <1>1, <1>3 DEF PoolInv, PoolShapes
<1>6. PoolShapes'
  <2>1. timers' \subseteq (Worker \cup {0}) \X Task BY <1>1, <1>3 DEF PoolInv, PoolShapes
  <2> QED BY <1>1, <1>2, <1>3, <1>5, <2>1 DEF PoolInv, PoolShapes
<1>7. TasksApart'
  <2>1. \A u \in Waiting' : u <= asked' /\ \A v \in Worker : taskOf'[v] # u
    <3> SUFFICES ASSUME NEW u \in Waiting, u # t
                 PROVE  u <= asked /\ \A v \in Worker : taskOf'[v] # u
        BY <1>1, <1>3
    <3> QED BY <1>5 DEF PoolInv, TasksApart
  <2>2. \A v \in Worker : taskOf'[v] # 0 => v \in workers' /\ taskOf'[v] <= asked'
      BY <1>1, <1>4, <1>5 DEF PoolInv, TasksApart
  <2>3. \A v, u \in Worker : taskOf'[v] = taskOf'[u] /\ taskOf'[v] # 0 => v = u
      BY <1>4, <1>5 DEF PoolInv, TasksApart
  <2>4. \A x \in timers' : x[1] # 0 => taskOf'[x[1]] = x[2]
    <3> SUFFICES ASSUME NEW x \in timers', x[1] # 0 PROVE taskOf'[x[1]] = x[2] OBVIOUS
    <3>1. CASE x = <<w, t>> BY <1>5, <3>1
    <3>2. CASE x \in timers
      <4>1. x[1] \in Worker /\ x[2] \in Task /\ taskOf[x[1]] = x[2]
          BY <3>2 DEF PoolInv, PoolShapes, TasksApart
      <4>2. x[1] # w BY <1>2, <4>1 DEF Task
      <4> QED BY <1>5, <4>1, <4>2
    <3> QED BY <1>1, <3>1, <3>2
  <2>5. Distinct(queue)' BY <1>3 DEF Distinct
  <2> QED BY <2>1, <2>2, <2>3, <2>4, <2>5 DEF TasksApart
<1>8. AnswersKnown'
  <2> SUFFICES ASSUME NEW u \in Task
               PROVE  /\ \/ answers[u] = <<>>
                         \/ Len(answers[u]) = 1 /\ answers[u][1].owner = u
                      /\ u > asked => answers[u] = <<>>
                      /\ u \in Waiting' \/ (\E v \in Worker : taskOf'[v] = u)
                            => answers[u] = <<>>
      BY <1>1 DEF AnswersKnown
  <2> QED BY <1>3, <1>4, <1>5 DEF PoolInv, AnswersKnown
<1>9. PoolFilled' BY <1>1, <1>2 DEF PoolFilled, NoTaskWaitsInVain
<1> QED BY <1>6, <1>7, <1>8, <1>9 DEF PoolInv

LEMMA AssignThrowsKeeps == ASSUME PoolInv, NEW w \in Worker, AssignThrows(w) PROVE PoolInv'
<1> DEFINE t == Head(queue)
           f == Answering(t, "extract_failed", t)
<1>1. /\ queue # <<>> /\ queue' = Tail(queue)
      /\ workers' = workers \ {w} /\ timers' = timers \ {<<0, t>>} /\ answers' = f
      /\ pumping /\ UNCHANGED <<asked, taskOf, pumping>>
    BY DEF AssignThrows
<1>2. /\ taskOf[w] = 0 /\ spawned' \in 0..LastTask /\ workers' \subseteq 1..spawned'
      /\ IsFiniteSet(workers') /\ Cardinality(workers') <= PoolSize
  <2>1. Chosen(w) /\ SpawnWorker BY DEF AssignThrows
  <2>2. taskOf[w] = 0 /\ spawned' \in 0..LastTask /\ workers \cup {w} \subseteq 1..spawned'
      BY <2>1, ChosenWorker
  <2>3. IsFiniteSet(workers') /\ Cardinality(workers') <= PoolSize
      BY <1>1, FewerWorkers DEF PoolInv
  <2> QED BY <1>1, <2>2, <2>3
<1>3. /\ t \in Task /\ t # 0 /\ t \in Waiting /\ queue' \in Seq(Task) /\ Distinct(queue')
      /\ Waiting' = Waiting \ {t}
  <2>1. Waiting = Elements(queue) /\ Waiting' = Elements(queue') BY DEF Waiting, Elements
  <2>2. queue \in Seq(Task) /\ Distinct(queue) BY DEF PoolInv, PoolShapes, TasksApart
  <2>3. t \in Task /\ t \in Waiting /\ queue' \in Seq(Task) /\ Distinct(queue')
        /\ Waiting' = Waiting \ {t}
      BY <1>1, <2>1, <2>2, QueueMoves
  <2> QED BY <2>3 DEF Task
<1>4. t <= asked /\ (\A v \in Worker : taskOf[v] # t) /\ answers[t] = <<>>
    BY <1>3 DEF PoolInv, TasksApart, AnswersKnown
<1>5. /\ f \in [Task -> Seq(Answer)] /\ Len(f[t]) = 1 /\ f[t][1].owner = t
      /\ \A v \in Task \ {t} : f[v] = answers[v]
  <2>1. answers \in [Task -> Seq(Answer)] BY DEF PoolInv, PoolShapes
  <2> HIDE DEF t
  <2> QED BY <1>3, <1>4, <2>1, Answered
<1> HIDE DEF t, f
<1>6. PoolShapes'
  <2>1. timers' \subseteq (Worker \cup {0}) \X Task BY <1>1 DEF PoolInv, PoolShapes
  <2> QED BY <1>1, <1>2, <1>3, <1>5, <2>1 DEF PoolInv, PoolShapes
<1>7. TasksApart'
  <2>1. \A v \in Worker : taskOf[v] # 0 => v \in workers' /\ taskOf[v] <= asked
      BY <1>1, <1>2 DEF PoolInv, TasksApart
  <2>2. Distinct(queue)' BY <1>3 DEF Distinct
  <2> QED BY <1>1, <1>3, <2>1, <2>2 DEF PoolInv, TasksApart
<1>8. AnswersKnown'
  <2> SUFFICES ASSUME NEW u \in Task
               PROVE  /\ f[u] = <<>> \/ (Len(f[u]) = 1 /\ f[u][1].owner = u)
                      /\ u > asked => f[u] = <<>>
                      /\ u \in Waiting' \/ (\E v \in Worker : taskOf[v] = u) => f[u] = <<>>
      BY <1>1 DEF AnswersKnown
  <2>1. CASE u = t
    <3>1. ~(u > asked) BY <1>4, <2>1 DEF PoolInv, PoolShapes, Task
    <3> QED BY <1>3, <1>4, <1>5, <2>1, <3>1
  <2>2. CASE u # t
    <3>1. f[u] = answers[u] BY <1>5, <2>2
    <3>2. /\ answers[u] = <<>> \/ (Len(answers[u]) = 1 /\ answers[u][1].owner = u)
          /\ u > asked => answers[u] = <<>>
          /\ u \in Waiting \/ (\E v \in Worker : taskOf[v] = u) => answers[u] = <<>>
        BY DEF PoolInv, AnswersKnown
    <3>3. u \in Waiting' => u \in Waiting BY <1>3
    <3> HIDE DEF f
    <3> QED BY <3>1, <3>2, <3>3
  <2> QED BY <2>1, <2>2
<1>9. PoolFilled' BY <1>1, <1>2 DEF PoolFilled, NoTaskWaitsInVain
<1> QED BY <1>6, <1>7, <1>8, <1>9 DEF PoolInv

(* The timer of a queued task takes it out of the queue and answers it.          *)
LEMMA ExpireQueuedKeeps == ASSUME PoolInv, NEW t \in Task, ExpireQueued(t) PROVE PoolInv'
<1> DEFINE f == Answering(t, "timeout", t)
<1>1. /\ ~pumping /\ timers' = timers \ {<<0, t>>}
      /\ UNCHANGED <<asked, spawned, workers, taskOf, pumping>>
      /\ queue \in Seq(Task) /\ Distinct(queue) /\ answers \in [Task -> Seq(Answer)]
    BY DEF ExpireQueued, PoolInv, PoolShapes, TasksApart
<1>2. \/ \E i \in 1..Len(queue) : queue[i] = t /\ queue' = Spliced(queue, i) /\ answers' = f
      \/ queue' = queue /\ answers' = answers
    BY DEF ExpireQueued
<1>3. /\ queue' \in Seq(Task) /\ Distinct(queue') /\ Waiting' \subseteq Waiting
      /\ queue = <<>> => queue' = <<>>
      /\ answers' # answers => t \in Waiting /\ answers' = f /\ Waiting' = Waiting \ {t}
  <2>1. CASE queue' = queue /\ answers' = answers BY <1>1, <2>1 DEF Waiting
  <2>2. ASSUME NEW i \in 1..Len(queue), queue[i] = t, queue' = Spliced(queue, i), answers' = f
        PROVE  /\ queue' \in Seq(Task) /\ Distinct(queue') /\ Waiting' = Waiting \ {t}
               /\ queue # <<>> /\ t \in Waiting
    <3>1. Waiting = Elements(queue) /\ Waiting' = Elements(queue') BY DEF Waiting, Elements
    <3>2. queue # <<>> BY EmptySeq
    <3>3. t \in Waiting BY <2>2 DEF Waiting
    <3> QED BY <1>1, <2>2, <3>1, <3>2, <3>3, QueueShrinks
  <2> QED BY <1>2, <2>1, <2>2
<1>4. /\ answers' \in [Task -> Seq(Answer)]
      /\ \A u \in Task \ {t} : answers'[u] = answers[u]
      /\ answers' # answers => Len(answers'[t]) = 1 /\ answers'[t][1].owner = t
  <2>1. CASE answers' = answers BY <1>1, <2>1
  <2>2. CASE answers' # answers
    <3>1. answers[t] = <<>> BY <1>3, <2>2 DEF PoolInv, AnswersKnown
    <3>2. /\ f \in [Task -> Seq(Answer)] /\ Len(f[t]) = 1 /\ f[t][1].owner = t
          /\ \A u \in Task \ {t} : f[u] = answers[u]
        BY <1>1, <3>1, Answered
    <3> HIDE DEF f
    <3> QED BY <1>3, <2>2, <3>2
  <2> QED BY <2>1, <2>2
<1> HIDE DEF f
<1>5. PoolShapes' BY <1>1, <1>3, <1>4 DEF PoolInv, PoolShapes
<1>6. TasksApart'
  <2>1. Distinct(queue)' BY <1>3 DEF Distinct
  <2> QED BY <1>1, <1>3, <2>1 DEF PoolInv, TasksApart
<1>7. AnswersKnown'
  <2> SUFFICES ASSUME NEW u \in Task
               PROVE  /\ \/ answers'[u] = <<>>
                         \/ Len(answers'[u]) = 1 /\ answers'[u][1].owner = u
                      /\ u > asked => answers'[u] = <<>>
                      /\ u \in Waiting' \/ (\E v \in Worker : taskOf[v] = u)
                            => answers'[u] = <<>>
      BY <1>1 DEF AnswersKnown
  <2>1. /\ \/ answers[u] = <<>>
           \/ Len(answers[u]) = 1 /\ answers[u][1].owner = u
        /\ u > asked => answers[u] = <<>>
        /\ u \in Waiting \/ (\E v \in Worker : taskOf[v] = u) => answers[u] = <<>>
      BY DEF PoolInv, AnswersKnown
  <2>2. CASE answers'[u] = answers[u] BY <1>3, <2>1, <2>2
  <2>3. CASE answers'[u] # answers[u]
    <3>1. u = t /\ t \in Waiting /\ u \notin Waiting' BY <1>3, <1>4, <2>3
    <3>2. ~(u > asked) /\ \A v \in Worker : taskOf[v] # u
        BY <3>1 DEF PoolInv, PoolShapes, TasksApart, Task
    <3> QED BY <1>4, <2>3, <3>1, <3>2
  <2> QED BY <2>2, <2>3
<1>8. PoolFilled'
  <2>1. IdleWorkers' = IdleWorkers BY <1>1 DEF IdleWorkers
  <2> QED BY <1>1, <1>3, <2>1 DEF PoolInv, PoolFilled, NoTaskWaitsInVain
<1> QED BY <1>5, <1>6, <1>7, <1>8 DEF PoolInv

(* shutdown answers what waits and what runs, and forgets the workers.           *)
LEMMA ShutdownKeeps == ASSUME PoolInv, Shutdown PROVE PoolInv'
<1> DEFINE held == {taskOf[w] : w \in workers} \ {0}
           owed == Waiting \cup held
<1>1. /\ queue' = <<>> /\ workers' = {} /\ UNCHANGED <<asked, spawned, pumping>>
      /\ taskOf' = [w \in Worker |-> IF w \in workers THEN 0 ELSE taskOf[w]]
      /\ timers' = {x \in timers : x[2] \notin owed}
      /\ answers' = [t \in Task |-> IF t \in owed THEN Answering(t, "extract_failed", t)[t]
                                    ELSE answers[t]]
    BY DEF Shutdown
<1>2. /\ taskOf \in [Worker -> Task \cup {0}] /\ answers \in [Task -> Seq(Answer)]
      /\ timers \subseteq (Worker \cup {0}) \X Task /\ asked \in 0..LastTask
    BY DEF PoolInv, PoolShapes
<1>3. \A w \in Worker : taskOf'[w] = 0
    BY <1>1 DEF PoolInv, TasksApart
<1>4. \A t \in owed : \/ t \in Waiting
                      \/ t # 0 /\ \E w \in Worker : taskOf[w] = t
  <2> SUFFICES ASSUME NEW w \in workers PROVE w \in Worker OBVIOUS
  <2> QED BY ParsePoolAssumption DEF PoolInv, PoolShapes, Worker
<1>5. \A w \in Worker : taskOf[w] # 0 => taskOf[w] \in owed
    BY DEF PoolInv, TasksApart
<1>6. ASSUME NEW t \in Task, t \in owed
      PROVE  answers[t] = <<>> /\ ~(t > asked)
  <2>1. answers[t] = <<>> BY <1>4, <1>6 DEF PoolInv, AnswersKnown
  <2>2. t <= asked BY <1>4, <1>6 DEF PoolInv, TasksApart
  <2> QED BY <1>2, <2>1, <2>2 DEF Task
<1> HIDE DEF owed
<1>7. ASSUME NEW t \in Task
      PROVE  /\ answers'[t] \in Seq(Answer)
             /\ t \in owed => Len(answers'[t]) = 1 /\ answers'[t][1].owner = t
             /\ t \notin owed => answers'[t] = answers[t]
  <2> DEFINE f == Answering(t, "extract_failed", t)
  <2>1. answers'[t] = IF t \in owed THEN f[t] ELSE answers[t] BY <1>1
  <2>2. /\ f \in [Task -> Seq(Answer)]
        /\ answers[t] = <<>> => Len(f[t]) = 1 /\ f[t][1].owner = t
      BY <1>2, Answered
  <2> HIDE DEF f
  <2> QED BY <1>2, <1>6, <2>1, <2>2
<1>8. Waiting' = {} /\ Distinct(queue)' BY <1>1, EmptySeq DEF Waiting, Distinct
<1>9. PoolShapes'
  <2>1. queue' \in Seq(Task) BY <1>1, EmptySeq
  <2>2. taskOf' \in [Worker -> Task \cup {0}] BY <1>1, <1>2
  <2>3. answers' \in [Task -> Seq(Answer)] BY <1>1, <1>7
  <2>4. timers' \subseteq timers /\ workers' = {} BY <1>1
  <2> QED BY <1>1, <2>1, <2>2, <2>3, <2>4 DEF PoolInv, PoolShapes
<1>10. \A x \in timers' : x[1] = 0
  <2> SUFFICES ASSUME NEW x \in timers, x[1] # 0 PROVE x[2] \in owed BY <1>1
  <2>1. x[1] \in Worker /\ x[2] \in Task BY <1>2
  <2>2. taskOf[x[1]] = x[2] /\ x[2] # 0 BY <2>1 DEF PoolInv, TasksApart, Task
  <2> QED BY <1>5, <2>1, <2>2
<1>11. TasksApart' BY <1>3, <1>8, <1>10 DEF TasksApart
<1>12. AnswersKnown'
  <2> SUFFICES ASSUME NEW u \in Task
               PROVE  /\ \/ answers'[u] = <<>>
                         \/ Len(answers'[u]) = 1 /\ answers'[u][1].owner = u
                      /\ u > asked => answers'[u] = <<>>
                      /\ \A v \in Worker : taskOf'[v] # u
      BY <1>1, <1>8 DEF AnswersKnown
  <2>1. \A v \in Worker : taskOf'[v] # u BY <1>3 DEF Task
  <2>2. /\ \/ answers[u] = <<>>
           \/ Len(answers[u]) = 1 /\ answers[u][1].owner = u
        /\ u > asked => answers[u] = <<>>
      BY DEF PoolInv, AnswersKnown
  <2> QED BY <1>6, <1>7, <2>1, <2>2
<1>13. PoolFilled' BY <1>1, FS_EmptySet, ParsePoolAssumption DEF PoolFilled, NoTaskWaitsInVain
<1> QED BY <1>9, <1>11, <1>12, <1>13 DEF PoolInv

LEMMA PoolSteps == PoolInv /\ [ParsePoolNext]_poolVars => PoolInv'
<1> SUFFICES ASSUME PoolInv, [ParsePoolNext]_poolVars PROVE PoolInv' OBVIOUS
<1>1. CASE UNCHANGED poolVars BY <1>1, PoolUntouched DEF poolVars
<1>2. ASSUME NEW w \in Worker, ChildFinishes(w) \/ ChildDies(w) PROVE PoolInv'
    BY <1>2, PoolUntouched DEF ChildFinishes, ChildDies
<1>3. ASSUME NEW w \in Worker \cup {0}, NEW t \in Task, Timer(w, t) PROVE PoolInv'
  <2>1. CASE Preempt(w, t)
    <3>1. w \in Worker BY <2>1 DEF Preempt
    <3> QED BY <2>1, <3>1, CallbacksKeep
  <2>2. CASE ExpireQueued(t) BY <2>2, ExpireQueuedKeeps
  <2> QED BY <1>3, <2>1, <2>2 DEF Timer
<1>4. CASE PumpStep BY <1>4, PumpReturnsKeeps, AssignKeeps DEF PumpStep
<1> QED BY <1>1, <1>2, <1>3, <1>4, ExtractTextKeeps, ShutdownKeeps, AssignThrowsKeeps,
           CallbacksKeep
        DEF ParsePoolNext

(* A file handed to the pool is answered at most once, on its own account, and   *)
(* waits only while a full pool is busy, for any size of the pool and its queue: *)
(* the order in which settle, preempt, expireQueued, reap, shutdown and pump     *)
(* clear a worker, its timer and its task.                                       *)
THEOREM FilesAnsweredOnce == ParsePoolSpec => []QueueServed
<1>1. ParsePoolInit => PoolInv BY PoolStarts
<1>2. PoolInv /\ [ParsePoolNext]_poolVars => PoolInv' BY PoolSteps
<1>3. PoolInv => QueueServed
  <2> SUFFICES ASSUME PoolInv PROVE QueueServed OBVIOUS
  <2>1. NoTaskWaitsInVain BY DEF PoolInv, PoolFilled
  <2>2. ASSUME NEW t \in Task
        PROVE  /\ Len(answers[t]) <= 1 /\ \A i \in DOMAIN answers[t] : answers[t][i].owner = t
               /\ (t \in Waiting \/ \E w \in workers : taskOf[w] = t) => answers[t] = <<>>
    <3>1. answers[t] \in Seq(Answer) BY DEF PoolInv, PoolShapes
    <3>2. workers \subseteq Worker BY ParsePoolAssumption DEF PoolInv, PoolShapes, Worker
    <3>3. /\ answers[t] = <<>> \/ (Len(answers[t]) = 1 /\ answers[t][1].owner = t)
          /\ t \in Waiting \/ (\E w \in Worker : taskOf[w] = t) => answers[t] = <<>>
        BY DEF PoolInv, AnswersKnown
    <3>4. CASE answers[t] = <<>>
      <4>1. Len(answers[t]) = 0 /\ DOMAIN answers[t] = {} BY <3>1, <3>4, EmptySeq
      <4> QED BY <3>4, <4>1
    <3>5. CASE answers[t] # <<>>
      <4>1. /\ Len(answers[t]) = 1 /\ answers[t][1].owner = t
            /\ t \notin Waiting /\ \A w \in workers : taskOf[w] # t
          BY <3>2, <3>3, <3>5
      <4>2. DOMAIN answers[t] = {1} BY <3>1, <4>1
      <4> QED BY <4>1, <4>2
    <3> QED BY <3>4, <3>5
  <2> QED BY <2>1, <2>2 DEF QueueServed, AnsweredOnce
<1> QED BY <1>1, <1>2, <1>3, PTL DEF ParsePoolSpec

------------------------------------------------------------------------------
(* The pool of parsers: types *)

(* No child has served more than its share: one that serves or waits may serve   *)
(* another task, and one that was not forked yet has served none.                *)
SharesKept ==
    /\ tasksDone \in [Worker -> 0..TasksPerChild]
    /\ \A w \in Worker : /\ w \in workers => tasksDone[w] < TasksPerChild
                         /\ w > spawned => tasksDone[w] = 0

LEMMA SharesNext ==
    ASSUME PoolInv, SharesKept, [ParsePoolNext]_poolVars
    PROVE  SharesKept'
<1> USE ParsePoolAssumption
<1>1. ASSUME tasksDone' = tasksDone, workers' \subseteq workers, spawned' = spawned
      PROVE  SharesKept'
  BY <1>1 DEF SharesKept
<1>2. ASSUME NEW w \in Worker, Chosen(w), SpawnWorker, tasksDone' = tasksDone,
             workers' \subseteq workers \cup {w}
      PROVE  SharesKept'
  <2>1. spawned \in 0..LastTask /\ workers \subseteq 1..spawned BY DEF PoolInv, PoolShapes
  <2>2. spawned' \in Int /\ spawned <= spawned' BY <1>2, <2>1 DEF SpawnWorker
  <2>3. tasksDone[w] < TasksPerChild
    <3>1. CASE Forks
      <4>1. w > spawned BY <1>2, <2>1, <3>1 DEF Chosen
      <4> QED BY <4>1 DEF SharesKept
    <3>2. CASE ~Forks BY <1>2, <3>2 DEF Chosen, IdleWorkers, SharesKept
    <3> QED BY <3>1, <3>2
  <2>4. \A v \in Worker : v \in Int BY DEF Worker
  <2>5. ASSUME NEW v \in Worker, v > spawned' PROVE tasksDone[v] = 0
    <3>1. v > spawned BY <2>1, <2>2, <2>4, <2>5
    <3> QED BY <3>1 DEF SharesKept
  <2> QED BY <1>2, <2>3, <2>5 DEF SharesKept
<1>3. ASSUME NEW w \in Worker, NEW t \in Task, Settle(w, t) PROVE SharesKept'
  <2>1. CASE taskOf[w] # t BY <1>1, <1>3, <2>1 DEF Settle
  <2>2. CASE taskOf[w] = t
    <3>1. taskOf[w] # 0 BY <2>2 DEF Task
    <3>2. w \in workers BY <3>1 DEF PoolInv, TasksApart
    <3>3. /\ tasksDone' = [tasksDone EXCEPT ![w] = @ + 1]
          /\ spawned' = spawned /\ workers' \subseteq workers
          /\ tasksDone[w] + 1 >= TasksPerChild => w \notin workers'
      BY <1>3, <2>2 DEF Settle
    <3>4. tasksDone[w] \in 0..TasksPerChild /\ tasksDone[w] < TasksPerChild
      BY <3>2 DEF SharesKept
    <3>5. tasksDone[w] + 1 \in 0..TasksPerChild BY <3>4
    <3>6. w \in 1..spawned /\ spawned \in Int BY <3>2 DEF PoolInv, PoolShapes
    <3>7. ~(w > spawned) BY <3>6
    <3>8. /\ tasksDone' \in [Worker -> 0..TasksPerChild] /\ tasksDone'[w] = tasksDone[w] + 1
          /\ \A v \in Worker \ {w} : tasksDone'[v] = tasksDone[v]
      BY <3>3, <3>5 DEF SharesKept
    <3>9. ASSUME NEW v \in Worker
          PROVE  /\ v \in workers' => tasksDone'[v] < TasksPerChild
                 /\ v > spawned => tasksDone'[v] = 0
      <4>1. CASE v = w BY <3>3, <3>4, <3>7, <3>8, <4>1
      <4>2. CASE v # w BY <3>3, <3>8, <4>2 DEF SharesKept
      <4> QED BY <4>1, <4>2
    <3> QED BY <3>3, <3>8, <3>9 DEF SharesKept
  <2> QED BY <2>1, <2>2
<1>4. CASE UNCHANGED poolVars \/ ExtractText \/ PumpReturns \/ Shutdown
  BY <1>1, <1>4 DEF poolVars, ExtractText, PumpReturns, Shutdown
<1>5. ASSUME NEW w \in Worker, Assign(w) \/ AssignThrows(w) PROVE SharesKept'
  BY <1>2, <1>5 DEF Assign, AssignThrows
<1>6. ASSUME NEW w \in Worker, Exit(w) \/ ErrorEvent(w) \/ ChildFinishes(w) \/ ChildDies(w)
      PROVE  SharesKept'
  BY <1>1, <1>6 DEF Exit, ErrorEvent, Reap, ChildFinishes, ChildDies
<1>7. ASSUME NEW w \in Worker \cup {0}, NEW t \in Task, Timer(w, t) PROVE SharesKept'
  BY <1>1, <1>7 DEF Timer, Preempt, ExpireQueued
<1> QED BY <1>3, <1>4, <1>5, <1>6, <1>7 DEF ParsePoolNext, PumpStep

(* The queue is never longer than its limit.                                     *)
LEMMA QueueBounded ==
    ASSUME PoolInv, Len(queue) <= QueueMax, [ParsePoolNext]_poolVars
    PROVE  Len(queue') <= QueueMax
<1> USE ParsePoolAssumption
<1>0. queue \in Seq(Task) /\ Len(queue) \in Nat /\ QueueMax \in Nat
  BY LenProperties DEF PoolInv, PoolShapes
<1>1. CASE queue' = queue BY <1>1
<1>2. CASE ExtractText
  <2>1. queue' = queue \/ (Len(queue) < QueueMax /\ queue' = Append(queue, asked + 1))
    BY <1>0, <1>2 DEF ExtractText
  <2>2. asked + 1 \in Task BY <1>2 DEF ExtractText, PoolInv, PoolShapes, Task
  <2>3. Len(Append(queue, asked + 1)) = Len(queue) + 1 BY <1>0, <2>2, AppendProperties
  <2> QED BY <1>0, <2>1, <2>3
<1>3. ASSUME queue # <<>>, queue' = Tail(queue) PROVE Len(queue') <= QueueMax
  <2>1. Len(Tail(queue)) = Len(queue) - 1 BY <1>0, <1>3, HeadTailProperties
  <2> QED BY <1>0, <1>3, <2>1
<1>4. CASE queue' = <<>>
  <2>1. Len(<<>>) = 0 BY EmptySeq
  <2> QED BY <1>0, <1>4, <2>1
<1>5. ASSUME NEW t \in Task, ExpireQueued(t) PROVE Len(queue') <= QueueMax
  <2>1. ASSUME NEW i \in 1..Len(queue), queue' = Spliced(queue, i) PROVE Len(queue') <= QueueMax
    <3> DEFINE a == SubSeq(queue, 1, i - 1)
               b == SubSeq(queue, i + 1, Len(queue))
    <3>1. i \in Int /\ 1 <= i /\ i <= Len(queue) BY <1>0
    <3>2. /\ i - 1 \in 0..Len(queue) /\ i + 1 \in 1..(Len(queue) + 1)
          /\ Len(queue) \in i..Len(queue) /\ 1 \in 1..(Len(queue) + 1)
      BY <1>0, <3>1
    <3>3. a \in Seq(Task) /\ Len(a) = IF 1 <= i - 1 THEN (i - 1) - 1 + 1 ELSE 0
      BY <1>0, <3>1, <3>2, SubSeqProperties
    <3>4. b \in Seq(Task) /\ Len(b) = IF i + 1 <= Len(queue) THEN Len(queue) - (i + 1) + 1 ELSE 0
      BY <1>0, <3>1, <3>2, SubSeqProperties
    <3>5. queue' = a \o b BY <2>1 DEF Spliced
    <3> HIDE DEF a, b
    <3>6. Len(a \o b) = Len(a) + Len(b) BY <3>3, <3>4, ConcatProperties
    <3>7. Len(a) = i - 1 BY <3>1, <3>3
    <3>8. Len(b) = Len(queue) - i BY <1>0, <3>1, <3>4
    <3>9. Len(queue') = (i - 1) + (Len(queue) - i) BY <3>5, <3>6, <3>7, <3>8
    <3>10. Len(queue') = Len(queue) - 1 BY <1>0, <3>1, <3>9
    <3> QED BY <1>0, <3>10
  <2> QED BY <1>1, <1>5, <2>1 DEF ExpireQueued
<1>6. ASSUME NEW w \in Worker, Assign(w) \/ AssignThrows(w) PROVE Len(queue') <= QueueMax
  BY <1>3, <1>6 DEF Assign, AssignThrows
<1>7. CASE UNCHANGED poolVars \/ PumpReturns \/ Shutdown
  BY <1>1, <1>4, <1>7 DEF poolVars, PumpReturns, Shutdown
<1>8. ASSUME NEW w \in Worker, Exit(w) \/ ErrorEvent(w) \/ ChildFinishes(w) \/ ChildDies(w)
      PROVE  queue' = queue
  BY <1>8 DEF Exit, ErrorEvent, Reap, ChildFinishes, ChildDies
<1>9. ASSUME NEW w \in Worker \cup {0}, NEW t \in Task, Preempt(w, t) \/ Settle(w, t)
      PROVE  queue' = queue
  BY <1>9 DEF Preempt, Settle
<1> QED BY <1>1, <1>2, <1>5, <1>6, <1>7, <1>8, <1>9 DEF ParsePoolNext, PumpStep, Timer

(* What the children are, and what they send.                                    *)
ChildrenTyped ==
    /\ process \in [Worker -> {"none", "alive", "ended", "closed"}]
    /\ results \subseteq Worker \X Task
    /\ failures \in 0..MaxFailures

LEMMA ChildrenNext ==
    ASSUME PoolInv, ChildrenTyped, [ParsePoolNext]_poolVars
    PROVE  ChildrenTyped'
<1> USE ParsePoolAssumption
<1> DEFINE Lives == {"none", "alive", "ended", "closed"}
<1>1. process \in [Worker -> Lives] /\ results \subseteq Worker \X Task
      /\ failures \in 0..MaxFailures /\ taskOf \in [Worker -> Task \cup {0}]
  BY DEF ChildrenTyped, PoolInv, PoolShapes
<1>2. \A w \in Worker : Killed(w) \in [Worker -> Lives] BY <1>1 DEF Killed
<1>3. ASSUME NEW w \in Worker, Assign(w) \/ AssignThrows(w) PROVE ChildrenTyped'
  <2>1. process' \in [Worker -> Lives] BY <1>1, <1>3 DEF Assign, AssignThrows, SpawnWorker
  <2>2. results' = results BY <1>3 DEF Assign, AssignThrows
  <2>3. failures' \in 0..MaxFailures BY <1>1, <1>3 DEF Assign, AssignThrows
  <2> QED BY <1>1, <2>1, <2>2, <2>3 DEF ChildrenTyped
<1>4. ASSUME NEW w \in Worker, NEW t \in Task, Settle(w, t) PROVE ChildrenTyped'
  <2>1. /\ process' = process \/ process' = Killed(w)
        /\ results' \subseteq results /\ failures' = failures
    BY <1>4 DEF Settle
  <2> QED BY <1>1, <1>2, <2>1 DEF ChildrenTyped
<1>5. ASSUME NEW w \in Worker \cup {0}, NEW t \in Task, Timer(w, t) PROVE ChildrenTyped'
  <2>1. CASE Preempt(w, t)
    <3>1. w \in Worker /\ process' = Killed(w) /\ UNCHANGED <<results, failures>>
      BY <2>1 DEF Preempt
    <3> QED BY <1>1, <1>2, <3>1 DEF ChildrenTyped
  <2>2. CASE ExpireQueued(t) BY <2>2 DEF ExpireQueued, ChildrenTyped
  <2> QED BY <1>5, <2>1, <2>2 DEF Timer
<1>6. ASSUME NEW w \in Worker, Exit(w) \/ ErrorEvent(w) PROVE ChildrenTyped'
  <2>1. process' \in [Worker -> Lives] BY <1>1, <1>6 DEF Exit, ErrorEvent
  <2>2. results' = results BY <1>6 DEF Exit, ErrorEvent, Reap
  <2>3. failures' \in 0..MaxFailures BY <1>1, <1>6 DEF Exit, ErrorEvent
  <2> QED BY <1>1, <2>1, <2>2, <2>3 DEF ChildrenTyped
<1>7. ASSUME NEW w \in Worker, ChildFinishes(w) PROVE ChildrenTyped'
  <2>1. taskOf[w] \in Task BY <1>1, <1>7 DEF ChildFinishes
  <2>2. <<w, taskOf[w]>> \in Worker \X Task BY <2>1
  <2>3. results' = results \cup {<<w, taskOf[w]>>} /\ UNCHANGED <<process, failures>>
    BY <1>7 DEF ChildFinishes
  <2> QED BY <1>1, <2>2, <2>3 DEF ChildrenTyped
<1>8. ASSUME NEW w \in Worker, ChildDies(w) PROVE ChildrenTyped'
  BY <1>1, <1>2, <1>8 DEF ChildDies, ChildrenTyped
<1>9. CASE Shutdown
  <2>1. process' \in [Worker -> Lives]
    <3>1. process' = [w \in Worker |-> IF w \in workers THEN Killed(w)[w] ELSE process[w]]
      BY <1>9 DEF Shutdown
    <3>2. \A w \in Worker : Killed(w)[w] \in Lives /\ process[w] \in Lives BY <1>1, <1>2
    <3> QED BY <3>1, <3>2
  <2> QED BY <1>1, <1>9, <2>1 DEF Shutdown, ChildrenTyped
<1>10. CASE UNCHANGED poolVars \/ ExtractText \/ PumpReturns
  BY <1>10 DEF poolVars, ExtractText, PumpReturns, ChildrenTyped
<1> QED BY <1>3, <1>4, <1>5, <1>6, <1>7, <1>8, <1>9, <1>10 DEF ParsePoolNext, PumpStep

(* The pool keeps its state well formed: no queue above its limit, no pool above *)
(* its size and no child above its share (QUEUE_MAX, POOL_SIZE, CHILD_MAX_TASKS).*)
LEMMA PoolTyped == ParsePoolInit /\ [][ParsePoolNext]_poolVars => []ParsePoolTypes
<1> DEFINE Inv == PoolInv /\ SharesKept /\ Len(queue) <= QueueMax /\ ChildrenTyped
<1>1. ParsePoolInit => Inv
  <2> SUFFICES ASSUME ParsePoolInit PROVE Inv OBVIOUS
  <2> USE ParsePoolAssumption
  <2>1. PoolInv BY PoolStarts
  <2>2. SharesKept BY DEF ParsePoolInit, SharesKept
  <2>3. Len(queue) <= QueueMax BY EmptySeq DEF ParsePoolInit
  <2>4. ChildrenTyped BY DEF ParsePoolInit, ChildrenTyped
  <2> QED BY <2>1, <2>2, <2>3, <2>4
<1>2. Inv /\ [ParsePoolNext]_poolVars => Inv'
  BY PoolSteps, SharesNext, QueueBounded, ChildrenNext
<1>3. Inv => ParsePoolTypes
  BY DEF PoolInv, PoolShapes, PoolFilled, SharesKept, ChildrenTyped, ParsePoolTypes
<1> QED BY <1>1, <1>2, <1>3, PTL

-----------------------------------------------------------------------------
(* Restores of a Postgres database: the requested name is open for connections   *)
(* only with a verified database whose audit state is published, and a restore   *)
(* reports what it left, whatever statements fail, come late or are lost.        *)

(* What is known of one restore.  While it works no statement of it is on its   *)
(* way: each trouble ends the work.  A database is under one name, a statement  *)
(* that opens the staging name and one that renames it are never both on their *)
(* way, and only what is verified and published is ever asked to be opened.     *)
Known(r) ==
    /\ Here(r) => staging[r].of = r /\ ~OwnTarget(r)
    /\ phase[r] \in Working => \A s \in Ddl : <<r, s>> \notin late
    /\ phase[r] \in {"preflight", "create", "failed"} => ~Here(r) /\ ~OwnTarget(r)
    /\ <<r, "create">> \in late => phase[r] = "ambiguous" /\ ~Here(r) /\ ~OwnTarget(r)
    /\ phase[r] \in {"verify", "release", "drain", "rename"} /\ Here(r) => ~staging[r].open
    /\ phase[r] \in {"release", "drain", "rename", "publish", "tidy", "enable"} => r \in verified
    /\ phase[r] \in {"tidy", "enable"} => r \in audit
    /\ phase[r] \in {"publish", "tidy", "enable", "restored", "keptTarget"} => OwnTarget(r)
    /\ phase[r] = "restored" => target.open
    /\ <<r, "rename">> \in late =>
          <<r, "allow">> \notin late /\ (Here(r) => ~staging[r].open)
    /\ <<r, "enable">> \in late => OwnTarget(r) /\ r \in verified /\ r \in audit

(* What is known of the database of the requested name.                         *)
TargetKnown ==
    target # NoDb =>
        /\ target.of = Other => target.open
        /\ target.of # Other /\ target.open => target.of \in verified /\ target.of \in audit

Catalog ==
    /\ staging \in [Restore -> Db \cup {NoDb}] /\ target \in Db \cup {NoDb}
    /\ phase \in [Restore -> Working \cup Recovering \cup Endings]

RestoreInv == Catalog /\ TargetKnown /\ \A r \in Restore : Known(r)

-----------------------------------------------------------------------------
(* A step of one restore leaves the others alone.                               *)

NotTouched(q) ==
    /\ staging'[q] = staging[q] /\ phase'[q] = phase[q]
    /\ \A s \in Ddl : <<q, s>> \in late' <=> <<q, s>> \in late
    /\ q \in verified => q \in verified'
    /\ q \in audit => q \in audit'
    /\ OwnTarget(q)' <=> OwnTarget(q)
    /\ OwnTarget(q) /\ target.open => target'.open

LEMMA Framed == ASSUME NEW q \in Restore, Known(q), NotTouched(q) PROVE Known(q)'
<1>1. Here(q)' <=> Here(q) BY DEF NotTouched, Here
<1>2. \A s \in {"create", "rename", "allow", "enable"} : <<q, s>> \in late' <=> <<q, s>> \in late
    BY DEF NotTouched, Ddl
<1> QED BY <1>1, <1>2 DEF Known, NotTouched

(* What a statement may be carried out on, and what it leaves.                  *)
Fit(r, s) ==
    /\ s = "create" => ~OwnTarget(r)
    /\ s = "rename" => ~staging[r].open
    /\ s = "enable" => OwnTarget(r) /\ r \in verified /\ r \in audit

CatalogIn == staging \in [Restore -> Db \cup {NoDb}] /\ target \in Db \cup {NoDb}

OthersKept(r) ==
    \A q \in Restore \ {r} :
        /\ staging'[q] = staging[q]
        /\ OwnTarget(q)' <=> OwnTarget(q)
        /\ OwnTarget(q) /\ target.open => target'.open

LEMMA Executed ==
    ASSUME NEW r \in Restore, NEW s \in Ddl, CatalogIn, TargetKnown, Known(r),
           Valid(r, s), Takes(r, s), Fit(r, s), UNCHANGED <<verified, audit>>
    PROVE  CatalogIn' /\ TargetKnown' /\ OthersKept(r)
<1> USE RestoreAssumption DEF CatalogIn, Here, OwnTarget, Valid, Takes, OpenTo
<1>1. CASE s = "create"
  <2>1. [of |-> r, open |-> FALSE] \in Db BY DEF Db
  <2> QED BY <1>1, <2>1 DEF TargetKnown, OthersKept
<1>2. CASE s = "allow" BY <1>2 DEF TargetKnown, OthersKept, Db
<1>3. CASE s = "freeze" BY <1>3 DEF TargetKnown, OthersKept, Db
<1>4. CASE s = "rename"
  <2>1. target = NoDb /\ target' = staging[r] /\ staging[r] # NoDb /\ staging[r].of = r
        /\ ~staging[r].open /\ staging[r] \in Db
    BY <1>4 DEF Fit, Known
  <2>2. staging' = [staging EXCEPT ![r] = NoDb] BY <1>4
  <2>3. CatalogIn' BY <2>1, <2>2
  <2>4. TargetKnown' BY <2>1 DEF TargetKnown
  <2>5. OthersKept(r) BY <2>1, <2>2 DEF OthersKept
  <2> QED BY <2>3, <2>4, <2>5
<1>5. CASE s = "enable"
  <2>1. target # NoDb /\ target.of = r /\ target \in Db /\ r \in verified /\ r \in audit
    BY <1>5 DEF Fit
  <2>2. target' = [target EXCEPT !.open = TRUE] /\ staging' = staging BY <1>5
  <2>3. target' \in Db /\ target'.of = r /\ target'.open BY <2>1, <2>2 DEF Db
  <2> QED BY <2>1, <2>2, <2>3 DEF TargetKnown, OthersKept
<1>6. CASE s = "drop" BY <1>6 DEF TargetKnown, OthersKept
<1> QED BY <1>1, <1>2, <1>3, <1>4, <1>5, <1>6 DEF Ddl

(* What every step of restore r must leave.                                     *)
Leaves(r) ==
    Catalog' /\ TargetKnown' /\ Known(r)' /\ \A q \in Restore \ {r} : NotTouched(q)

Phase == Working \cup Recovering \cup Endings

LEMMA FailurePhase == ASSUME NEW p \in Working \cup Recovering, p # "enable" PROVE Failure(p) \in Phase
BY DEF Failure, Phase, Working, Recovering, Endings

(* A step that leaves every database and every late statement as it is.         *)
LEMMA Quiet ==
    ASSUME RestoreInv, NEW r \in Restore, NEW p \in Phase, Goes(r, p),
           UNCHANGED <<staging, target, late>>,
           verified \subseteq verified', audit \subseteq audit'
    PROVE  Catalog' /\ TargetKnown' /\ \A q \in Restore \ {r} : NotTouched(q)
<1>1. Catalog' BY DEF RestoreInv, Catalog, Goes, Phase
<1>2. TargetKnown' BY DEF RestoreInv, TargetKnown
<1>3. ASSUME NEW q \in Restore \ {r} PROVE NotTouched(q)
    BY DEF RestoreInv, Catalog, NotTouched, Goes, OwnTarget
<1> QED BY <1>1, <1>2, <1>3

(* A statement of restore r, with its three outcomes.                           *)
LEMMA Statement ==
    ASSUME RestoreInv, NEW r \in Restore, NEW s \in Ddl, NEW next \in Phase,
           phase[r] \in Working \cup Recovering, phase[r] # "enable",
           Executes(r, s, next), Valid(r, s) => Fit(r, s)
    PROVE  Catalog' /\ TargetKnown' /\ \A q \in Restore \ {r} : NotTouched(q)
<1>1. CatalogIn /\ TargetKnown /\ Known(r) BY DEF RestoreInv, Catalog, CatalogIn
<1>2. CatalogIn' /\ TargetKnown' /\ OthersKept(r)
  <2>1. CASE Valid(r, s) /\ Takes(r, s) BY <2>1, <1>1, Executed DEF Executes
  <2>2. CASE CatalogKept
    BY <2>2, <1>1 DEF CatalogKept, CatalogIn, TargetKnown, OthersKept, OwnTarget, Executes
  <2> QED BY <2>1, <2>2 DEF Executes
<1>3. \E p \in Phase : Goes(r, p)
  <2>1. Failure(phase[r]) \in Phase BY FailurePhase
  <2>2. "failed" \in Phase BY DEF Phase, Endings
  <2> QED BY <2>1, <2>2 DEF Executes
<1>4. Catalog' BY <1>2, <1>3 DEF CatalogIn, Catalog, Goes, Phase, RestoreInv
<1>5. ASSUME NEW q \in Restore \ {r} PROVE NotTouched(q)
  <2>1. phase'[q] = phase[q] BY <1>3 DEF Goes, RestoreInv, Catalog
  <2>2. \A t \in Ddl : <<q, t>> \in late' <=> <<q, t>> \in late BY DEF Executes
  <2> QED BY <2>1, <2>2, <1>2 DEF NotTouched, OthersKept, Executes
<1> QED BY <1>2, <1>4, <1>5

(* The steps that check: they end in the next phase or in the failure's.        *)
LEMMA ChecksKeep ==
    ASSUME RestoreInv, NEW r \in Restore,
           \/ Preflight(r) \/ OpenGuard(r) \/ InspectTool(r) \/ VerifyRestored(r)
           \/ Drain(r) \/ PublishAudit(r) \/ TidyStaging(r) \/ Redrain(r)
    PROVE  Leaves(r)
<1> USE DEF Checks, Working, Recovering, Endings
<1>1. /\ UNCHANGED <<staging, target, late>>
      /\ verified \subseteq verified' /\ audit \subseteq audit'
    BY DEF Preflight, OpenGuard, InspectTool, VerifyRestored, Drain, PublishAudit, TidyStaging, Redrain
<1>2. \E p \in Phase : Goes(r, p)
  <2>1. Failure(phase[r]) \in Phase
    BY FailurePhase DEF Preflight, OpenGuard, InspectTool, VerifyRestored, Drain, PublishAudit,
                        TidyStaging, Redrain
  <2> QED BY <2>1 DEF Preflight, OpenGuard, InspectTool, VerifyRestored, Drain, PublishAudit,
                      TidyStaging, Redrain, Phase
<1>3. Catalog' /\ TargetKnown' /\ \A q \in Restore \ {r} : NotTouched(q) BY <1>1, <1>2, Quiet
<1>4. Known(r) /\ phase \in [Restore -> Phase] BY DEF RestoreInv, Catalog, Phase
<1>5. Known(r)'
  <2> USE <1>1, <1>4 DEF Known, Here, OwnTarget, Goes, Failure, Ddl
  <2>1. CASE Preflight(r) BY <2>1 DEF Preflight
  <2>2. CASE OpenGuard(r) BY <2>2 DEF OpenGuard
  <2>3. CASE InspectTool(r) BY <2>3 DEF InspectTool
  <2>4. CASE VerifyRestored(r) BY <2>4 DEF VerifyRestored
  <2>5. CASE Drain(r) BY <2>5 DEF Drain
  <2>6. CASE PublishAudit(r) BY <2>6 DEF PublishAudit
  <2>7. CASE TidyStaging(r) BY <2>7 DEF TidyStaging
  <2>8. CASE Redrain(r) BY <2>8 DEF Redrain
  <2> QED BY <2>1, <2>2, <2>3, <2>4, <2>5, <2>6, <2>7, <2>8
<1> QED BY <1>3, <1>5 DEF Leaves

(* The other steps that ask the database for nothing.                           *)
LEMMA WaitsKeep ==
    ASSUME RestoreInv, NEW r \in Restore,
           RunTool(r) \/ ToolEnds(r) \/ ReleaseGuard(r) \/ ReconcileRename(r) \/ Dies(r)
    PROVE  Leaves(r)
<1> USE DEF Working, Recovering, Endings
<1>1. UNCHANGED <<staging, target, late, verified, audit>>
    BY DEF RunTool, ToolEnds, ReleaseGuard, ReconcileRename, Dies
<1>2. \E p \in Phase : Goes(r, p)
  <2>1. CASE ToolEnds(r) BY <2>1 DEF ToolEnds, Goes, RestoreInv, Catalog, Phase
  <2>2. CASE RunTool(r) BY <2>2 DEF RunTool, Phase, Failure
  <2>3. CASE ReleaseGuard(r) BY <2>3 DEF ReleaseGuard, Phase
  <2>4. CASE ReconcileRename(r) BY <2>4 DEF ReconcileRename, Phase
  <2>5. CASE Dies(r) BY <2>5 DEF Dies, Phase
  <2> QED BY <2>1, <2>2, <2>3, <2>4, <2>5
<1>3. Catalog' /\ TargetKnown' /\ \A q \in Restore \ {r} : NotTouched(q) BY <1>1, <1>2, Quiet
<1>4. Known(r) /\ phase \in [Restore -> Phase] BY DEF RestoreInv, Catalog, Phase
<1>5. Known(r)'
  <2> USE <1>1, <1>4 DEF Known, Here, OwnTarget, Goes, Ddl
  <2>1. CASE ToolEnds(r) BY <2>1 DEF ToolEnds
  <2>2. CASE RunTool(r) BY <2>2 DEF RunTool, Failure
  <2>3. CASE ReleaseGuard(r) BY <2>3 DEF ReleaseGuard
  <2>4. CASE ReconcileRename(r) BY <2>4 DEF ReconcileRename, Location
  <2>5. CASE Dies(r) BY <2>5 DEF Dies
  <2> QED BY <2>1, <2>2, <2>3, <2>4, <2>5
<1> QED BY <1>3, <1>5 DEF Leaves

LEMMA CreateKeeps == ASSUME RestoreInv, NEW r \in Restore, CreateStaging(r) PROVE Leaves(r)
<1> USE DEF Working, Recovering, Endings, Ddl
<1>1. Known(r) /\ phase \in [Restore -> Phase] /\ phase[r] = "create"
    BY DEF RestoreInv, Catalog, Phase, CreateStaging
<1>2. Fit(r, "create") BY <1>1 DEF Fit, Known
<1>3. Catalog' /\ TargetKnown' /\ \A q \in Restore \ {r} : NotTouched(q)
    BY <1>1, <1>2, Statement DEF CreateStaging, Phase
<1>4. Known(r)'
  <2>1. CASE Valid(r, "create") /\ Takes(r, "create")
    <3>1. staging'[r] = [of |-> r, open |-> FALSE] /\ target' = target
      BY <2>1 DEF Takes, RestoreInv, Catalog
    <3>2. staging[r] = NoDb /\ ~OwnTarget(r) /\ \A t \in Ddl : <<r, t>> \notin late
      BY <1>1 DEF Known, Here
    <3>3. [of |-> r, open |-> FALSE] # NoDb
      <4>1. [of |-> r, open |-> FALSE] \in Db BY DEF Db
      <4> QED BY <4>1, RestoreAssumption
    <3>4. UNCHANGED <<late, verified, audit>> BY <2>1, <3>1, <3>2, <3>3 DEF CreateStaging, Executes, CatalogKept
    <3>5. phase'[r] \in {"allow", "ambiguous"}
      BY <1>1, <2>1 DEF CreateStaging, Executes, Goes, Failure
    <3>6. staging'[r].of = r /\ ~OwnTarget(r)' BY <3>1, <3>2 DEF OwnTarget
    <3> QED BY <3>2, <3>4, <3>5, <3>6 DEF Known
  <2>2. CASE CatalogKept
    BY <1>1, <2>2 DEF CreateStaging, Executes, Goes, Failure, CatalogKept, Known, Here, OwnTarget, Valid
  <2> QED BY <2>1, <2>2 DEF CreateStaging, Executes
<1> QED BY <1>3, <1>4 DEF Leaves

(* The statements that open and close the staging database.                     *)
LEMMA OpensKeep ==
    ASSUME RestoreInv, NEW r \in Restore, AllowGuard(r) \/ FreezeStaging(r) \/ Refreeze(r)
    PROVE  Leaves(r)
<1> USE DEF Working, Recovering, Endings, Ddl
<1>1. Known(r) /\ phase \in [Restore -> Phase] BY DEF RestoreInv, Catalog, Phase
<1>2. Fit(r, "allow") /\ Fit(r, "freeze") BY DEF Fit
<1>3. Catalog' /\ TargetKnown' /\ \A q \in Restore \ {r} : NotTouched(q)
  <2>1. CASE AllowGuard(r) BY <1>2, <2>1, Statement DEF AllowGuard, Phase
  <2>2. CASE FreezeStaging(r) BY <1>2, <2>2, Statement DEF FreezeStaging, Phase
  <2>3. CASE Refreeze(r) BY <1>2, <2>3, Statement DEF Refreeze, Phase
  <2> QED BY <2>1, <2>2, <2>3
<1>4. /\ UNCHANGED <<target, verified, audit>> /\ (Here(r)' <=> Here(r))
      /\ Here(r) => staging'[r].of = staging[r].of
  <2>1. UNCHANGED <<target, verified, audit>>
    BY DEF AllowGuard, FreezeStaging, Refreeze, Executes, Takes, OpenTo, CatalogKept
  <2>2. \/ staging' = staging
        \/ Here(r) /\ staging' = [staging EXCEPT ![r].open = TRUE]
        \/ Here(r) /\ staging' = [staging EXCEPT ![r].open = FALSE]
    BY DEF AllowGuard, FreezeStaging, Refreeze, Executes, Takes, OpenTo, CatalogKept, Valid
  <2>3. CASE staging' = staging BY <2>1, <2>3 DEF Here
  <2>4. ASSUME Here(r), NEW yes \in BOOLEAN, staging' = [staging EXCEPT ![r].open = yes]
        PROVE  Here(r)' /\ staging'[r].of = staging[r].of
    <3>1. staging[r] \in Db BY <2>4 DEF RestoreInv, Catalog, Here
    <3>2. staging'[r] = [staging[r] EXCEPT !.open = yes] BY <2>4 DEF RestoreInv, Catalog
    <3>3. staging'[r] \in Db /\ staging'[r].of = staging[r].of BY <3>1, <3>2 DEF Db
    <3> QED BY <3>3, RestoreAssumption DEF Here
  <2> QED BY <2>1, <2>2, <2>3, <2>4
<1>5. Known(r)'
  <2>1. Here(r)' => staging'[r].of = r /\ ~OwnTarget(r)'
    BY <1>1, <1>4 DEF Known, OwnTarget
  <2>2. CASE AllowGuard(r)
    <3>1. phase[r] = "allow" /\ phase'[r] \in {"guard", "refreeze"}
      BY <1>1, <2>2 DEF AllowGuard, Executes, Goes, Failure
    <3>2. \A s \in Ddl : <<r, s>> \notin late BY <1>1, <3>1 DEF Known
    <3>3. late' = late \/ (late' = late \cup {<<r, "allow">>} /\ phase'[r] = "refreeze")
      BY <1>1, <2>2, <3>1 DEF AllowGuard, Executes, Goes, Failure
    <3> QED BY <2>1, <3>1, <3>2, <3>3 DEF Known
  <2>3. CASE FreezeStaging(r)
    <3>1. phase[r] = "freeze" /\ phase'[r] \in {"verify", "refreeze"}
      BY <1>1, <2>3 DEF FreezeStaging, Executes, Goes, Failure
    <3>2. \A s \in Ddl : <<r, s>> \notin late BY <1>1, <3>1 DEF Known
    <3>3. late' = late \/ (late' = late \cup {<<r, "freeze">>} /\ phase'[r] = "refreeze")
      BY <1>1, <2>3, <3>1 DEF FreezeStaging, Executes, Goes, Failure
    <3>4. phase'[r] = "verify" => Takes(r, "freeze") /\ Valid(r, "freeze")
      BY <1>1, <2>3, <3>1 DEF FreezeStaging, Executes, Goes, Failure
    <3>5. phase'[r] = "verify" => ~staging'[r].open
      <4>1. Takes(r, "freeze") /\ Valid(r, "freeze") => staging'[r].open = FALSE
        <5> SUFFICES ASSUME Takes(r, "freeze"), Valid(r, "freeze") PROVE staging'[r].open = FALSE
          OBVIOUS
        <5>1. staging[r] \in Db BY DEF Valid, RestoreInv, Catalog, Here
        <5>2. staging'[r] = [staging[r] EXCEPT !.open = FALSE]
          BY DEF Takes, OpenTo, RestoreInv, Catalog
        <5> QED BY <5>1, <5>2 DEF Db
      <4> QED BY <3>4, <4>1
    <3> QED BY <2>1, <3>1, <3>2, <3>3, <3>5 DEF Known
  <2>4. CASE Refreeze(r)
    <3>1. phase[r] = "refreeze" /\ phase'[r] \in {"redrain", "keptStaging"}
      BY <1>1, <2>4 DEF Refreeze, Executes, Goes, Failure
    <3>2. \A s \in Ddl : s # "freeze" => (<<r, s>> \in late' <=> <<r, s>> \in late)
      BY <2>4 DEF Refreeze, Executes
    <3>3. <<r, "rename">> \in late => (Here(r)' => ~staging'[r].open)
      <4>1. CASE staging' = staging BY <1>1, <4>1 DEF Known, Here
      <4>2. CASE staging' = [staging EXCEPT ![r].open = FALSE] /\ Here(r)
        <5>1. staging[r] \in Db BY <4>2 DEF RestoreInv, Catalog, Here
        <5>2. staging'[r] = [staging[r] EXCEPT !.open = FALSE] BY <4>2 DEF RestoreInv, Catalog
        <5> QED BY <5>1, <5>2 DEF Db
      <4> QED BY <2>4, <4>1, <4>2 DEF Refreeze, Executes, Takes, OpenTo, CatalogKept, Valid
    <3>4. <<r, "create">> \notin late BY <1>1, <3>1 DEF Known
    <3>5. OwnTarget(r)' <=> OwnTarget(r) BY <1>4 DEF OwnTarget
    <3> QED BY <1>1, <1>4, <2>1, <3>1, <3>2, <3>3, <3>4, <3>5 DEF Known
  <2> QED BY <2>2, <2>3, <2>4
<1> QED BY <1>3, <1>5 DEF Leaves

LEMMA RenameKeeps == ASSUME RestoreInv, NEW r \in Restore, RenameStaging(r) PROVE Leaves(r)
<1> USE DEF Working, Recovering, Endings, Ddl
<1>1. Known(r) /\ phase \in [Restore -> Phase] /\ phase[r] = "rename"
    BY DEF RestoreInv, Catalog, Phase, RenameStaging
<1>2. Valid(r, "rename") => Fit(r, "rename") BY <1>1 DEF Fit, Known, Valid
<1>3. Catalog' /\ TargetKnown' /\ \A q \in Restore \ {r} : NotTouched(q)
    BY <1>1, <1>2, Statement DEF RenameStaging, Phase
<1>4. /\ \A s \in Ddl : <<r, s>> \notin late
      /\ r \in verified
      /\ UNCHANGED <<verified, audit>>
    BY <1>1 DEF Known, RenameStaging, Executes
<1>5. Known(r)'
  <2>1. CASE Valid(r, "rename") /\ Takes(r, "rename")
    <3>1. /\ Here(r) /\ staging[r].of = r /\ ~staging[r].open
      BY <1>1, <2>1 DEF Known, Valid
    <3>2. staging'[r] = NoDb /\ target' = staging[r] BY <2>1 DEF Takes, RestoreInv, Catalog
    <3>3. ~Here(r)' /\ OwnTarget(r)' BY <3>1, <3>2 DEF Here, OwnTarget
    <3>4. phase'[r] \in {"publish", "reconcile"}
      BY <1>1, <2>1 DEF RenameStaging, Executes, Goes, Failure
    <3>5. late' = late
      <4>1. ~CatalogKept BY <3>1, <3>2 DEF CatalogKept, Here
      <4> QED BY <4>1 DEF RenameStaging, Executes
    <3> QED BY <1>4, <3>3, <3>4, <3>5 DEF Known
  <2>2. CASE CatalogKept
    <3>1. phase'[r] = "reconcile" \/ (Valid(r, "rename") /\ Takes(r, "rename"))
      BY <1>1 DEF RenameStaging, Executes, Goes, Failure
    <3>2. late' = late \/ late' = late \cup {<<r, "rename">>} BY DEF RenameStaging, Executes
    <3>3. phase'[r] = "reconcile" => Known(r)'
      BY <1>1, <1>4, <2>2, <3>2 DEF Known, CatalogKept, Here, OwnTarget
    <3> QED BY <2>1, <3>1, <3>3
  <2> QED BY <2>1, <2>2 DEF RenameStaging, Executes
<1> QED BY <1>3, <1>5 DEF Leaves

LEMMA DropKeeps == ASSUME RestoreInv, NEW r \in Restore, DropStaging(r) PROVE Leaves(r)
<1> USE DEF Working, Recovering, Endings, Ddl
<1>1. Known(r) /\ phase \in [Restore -> Phase] /\ phase[r] = "drop"
    BY DEF RestoreInv, Catalog, Phase, DropStaging
<1>2. Fit(r, "drop") BY DEF Fit
<1>3. Catalog' /\ TargetKnown' /\ \A q \in Restore \ {r} : NotTouched(q)
    BY <1>1, <1>2, Statement DEF DropStaging, Phase
<1>4. <<r, "create">> \notin late /\ UNCHANGED <<verified, audit>>
    BY <1>1 DEF Known, DropStaging, Executes
<1>5. \A s \in Ddl : s # "drop" => (<<r, s>> \in late' <=> <<r, s>> \in late)
    BY DEF DropStaging, Executes
<1>6. Known(r)'
  <2>1. CASE Valid(r, "drop") /\ Takes(r, "drop")
    <3>1. Here(r) /\ ~OwnTarget(r) BY <1>1, <2>1 DEF Known, Valid
    <3>2. staging'[r] = NoDb /\ target' = target BY <2>1 DEF Takes, RestoreInv, Catalog
    <3>3. ~Here(r)' /\ ~OwnTarget(r)' BY <3>1, <3>2 DEF Here, OwnTarget
    <3>4. phase'[r] \in {"failed", "keptStaging"}
      BY <1>1, <2>1 DEF DropStaging, Executes, Goes, Failure
    <3>5. <<r, "enable">> \notin late BY <1>1, <3>1 DEF Known
    <3> QED BY <1>1, <1>4, <1>5, <3>3, <3>4, <3>5 DEF Known
  <2>2. CASE CatalogKept
    <3>1. phase'[r] = "keptStaging" \/ (Valid(r, "drop") /\ Takes(r, "drop"))
      BY <1>1 DEF DropStaging, Executes, Goes, Failure
    <3>2. phase'[r] = "keptStaging" => Known(r)'
      BY <1>1, <1>4, <1>5, <2>2 DEF Known, CatalogKept, Here, OwnTarget
    <3> QED BY <2>1, <3>1, <3>2
  <2> QED BY <2>1, <2>2 DEF DropStaging, Executes
<1> QED BY <1>3, <1>6 DEF Leaves

LEMMA EnableKeeps == ASSUME RestoreInv, NEW r \in Restore, EnableTarget(r) PROVE Leaves(r)
<1> USE DEF Working, Recovering, Endings, Ddl
<1>1. Known(r) /\ phase \in [Restore -> Phase] /\ phase[r] = "enable"
    BY DEF RestoreInv, Catalog, Phase, EnableTarget
<1>2. /\ OwnTarget(r) /\ r \in verified /\ r \in audit
      /\ \A s \in Ddl : <<r, s>> \notin late
      /\ UNCHANGED <<verified, audit>>
    BY <1>1 DEF Known, EnableTarget
<1>3. Valid(r, "enable") /\ Fit(r, "enable") BY <1>2 DEF Valid, Fit, OwnTarget
<1>4. CatalogIn /\ TargetKnown BY DEF RestoreInv, Catalog, CatalogIn
<1>5. CatalogIn' /\ TargetKnown' /\ OthersKept(r)
  <2>1. CASE Takes(r, "enable") BY <1>1, <1>2, <1>3, <1>4, <2>1, Executed
  <2>2. CASE CatalogKept
    BY <2>2, <1>2, <1>4 DEF CatalogKept, CatalogIn, TargetKnown, OthersKept, OwnTarget
  <2> QED BY <2>1, <2>2 DEF EnableTarget
<1>6. \E p \in {"restored", "keptTarget", "maybeOpen"} : Goes(r, p) BY DEF EnableTarget
<1>7. Catalog' BY <1>5, <1>6 DEF CatalogIn, Catalog, Goes, RestoreInv
<1>8. ASSUME NEW q \in Restore \ {r} PROVE NotTouched(q)
  <2>1. phase'[q] = phase[q] BY <1>1, <1>6 DEF Goes
  <2>2. \A t \in Ddl : <<q, t>> \in late' <=> <<q, t>> \in late BY DEF EnableTarget
  <2> QED BY <1>2, <1>5, <2>1, <2>2 DEF NotTouched, OthersKept
<1>9. Known(r)'
  <2>1. OwnTarget(r)' /\ staging' = staging
    <3>1. CASE Takes(r, "enable")
      <4>1. target \in Db /\ target.of = r /\ target' = [target EXCEPT !.open = TRUE]
            /\ staging' = staging
        BY <1>2, <1>4, <3>1 DEF OwnTarget, CatalogIn, Takes
      <4>2. target' \in Db /\ target'.of = r BY <4>1 DEF Db
      <4> QED BY <4>1, <4>2, RestoreAssumption DEF OwnTarget
    <3>2. CASE CatalogKept BY <1>2, <3>2 DEF CatalogKept, OwnTarget
    <3> QED BY <3>1, <3>2 DEF EnableTarget
  <2>2. ~Here(r)' BY <1>1, <1>2, <2>1 DEF Known, Here
  <2>3. late' = late \/ late' = late \cup {<<r, "enable">>} BY DEF EnableTarget
  <2>4. /\ phase'[r] \in {"restored", "keptTarget", "maybeOpen"}
        /\ phase'[r] = "restored" => target'.open
    BY <1>1 DEF EnableTarget, Goes
  <2> QED BY <1>2, <2>1, <2>2, <2>3, <2>4 DEF Known
<1> QED BY <1>5, <1>7, <1>8, <1>9 DEF Leaves

(* A statement of a session that was given up runs after all.                   *)
LEMMA LateKeeps ==
    ASSUME RestoreInv, NEW r \in Restore, NEW s \in Ddl, RunsLate(r, s) PROVE Leaves(r)
<1> USE DEF Working, Recovering, Endings, Ddl
<1>1. Known(r) /\ <<r, s>> \in late /\ CatalogIn /\ TargetKnown
    BY DEF RestoreInv, Catalog, CatalogIn, RunsLate
<1>2. UNCHANGED <<phase, verified, audit>> /\ late' = late \ {<<r, s>>} BY DEF RunsLate
<1>3. Valid(r, s) => Fit(r, s) BY <1>1 DEF Fit, Known, Valid
<1>4. CatalogIn' /\ TargetKnown' /\ OthersKept(r)
  <2>1. CASE Valid(r, s) BY <1>1, <1>2, <1>3, <2>1, Executed DEF RunsLate
  <2>2. CASE ~Valid(r, s)
    BY <1>1, <1>2, <2>2 DEF RunsLate, CatalogKept, CatalogIn, TargetKnown, OthersKept, OwnTarget
  <2> QED BY <2>1, <2>2
<1>5. Catalog' BY <1>2, <1>4 DEF CatalogIn, Catalog, RestoreInv
<1>6. ASSUME NEW q \in Restore \ {r} PROVE NotTouched(q)
    BY <1>2, <1>4 DEF NotTouched, OthersKept
<1>7. phase[r] \notin Working BY <1>1 DEF Known
<1>8. \A t \in Ddl : <<r, t>> \in late' <=> <<r, t>> \in late /\ t # s BY <1>2
<1>9. Known(r)'
  <2>1. CASE ~Valid(r, s)
    <3>1. UNCHANGED <<staging, target>> BY <2>1 DEF RunsLate, CatalogKept
    <3> QED BY <1>1, <1>2, <1>8, <3>1 DEF Known, Here, OwnTarget
  <2>2. ASSUME Valid(r, s) PROVE Known(r)'
    <3>0. Takes(r, s) BY <2>2 DEF RunsLate
    <3>1. CASE s = "create"
      <4>1. phase[r] = "ambiguous" /\ ~OwnTarget(r) BY <1>1, <3>1 DEF Known
      <4>2. staging'[r] = [of |-> r, open |-> FALSE] /\ target' = target
        BY <3>0, <3>1, <1>1 DEF Takes, CatalogIn
      <4>3. staging'[r].of = r /\ ~staging'[r].open /\ ~OwnTarget(r)' BY <4>1, <4>2 DEF OwnTarget
      <4>4. <<r, "rename">> \in late => <<r, "allow">> \notin late BY <1>1 DEF Known
      <4>5. <<r, "enable">> \notin late BY <1>1, <4>1 DEF Known
      <4> QED BY <1>2, <1>8, <3>1, <4>1, <4>3, <4>4, <4>5 DEF Known
    <3>2. CASE s \in {"allow", "freeze"}
      <4>1. Here(r) /\ staging[r] \in Db /\ target' = target
        BY <1>1, <2>2, <3>0, <3>2 DEF Valid, Takes, OpenTo, CatalogIn, Here
      <4>2. staging'[r] = [staging[r] EXCEPT !.open = (s = "allow")]
        BY <1>1, <3>0, <3>2 DEF Takes, OpenTo, CatalogIn
      <4>3. staging'[r].of = staging[r].of /\ (staging'[r].open <=> s = "allow")
        BY <4>1, <4>2 DEF Db
      <4>4. staging[r].of = r /\ ~OwnTarget(r) /\ ~OwnTarget(r)' BY <1>1, <4>1 DEF Known, OwnTarget
      <4>5. phase[r] \notin {"preflight", "create", "failed"} /\ <<r, "create">> \notin late
        BY <1>1, <4>1 DEF Known
      <4>6. <<r, "rename">> \in late => <<r, "allow">> \notin late BY <1>1 DEF Known
      <4>7. phase[r] \notin {"restored", "keptTarget"} /\ <<r, "enable">> \notin late
        BY <1>1, <4>4 DEF Known
      <4>8. <<r, "rename">> \in late' => s = "freeze" /\ <<r, "allow">> \notin late'
        BY <1>1, <1>8, <3>2, <4>6
      <4> QED BY <1>2, <1>7, <1>8, <4>3, <4>4, <4>5, <4>7, <4>8 DEF Known
    <3>3. CASE s = "rename"
      <4>1. Here(r) /\ staging[r].of = r /\ <<r, "create">> \notin late
            /\ phase[r] \notin {"preflight", "create", "failed"}
        BY <1>1, <2>2, <3>3 DEF Known, Valid
      <4>2. staging'[r] = NoDb /\ target' = staging[r] BY <1>1, <3>0, <3>3 DEF Takes, CatalogIn
      <4>3. ~Here(r)' /\ OwnTarget(r)' BY <4>1, <4>2 DEF Here, OwnTarget
      <4>4. ~OwnTarget(r) /\ phase[r] # "restored" /\ <<r, "enable">> \notin late
        BY <1>1, <4>1 DEF Known
      <4> QED BY <1>2, <1>7, <1>8, <3>3, <4>1, <4>3, <4>4 DEF Known
    <3>4. CASE s = "enable"
      <4>1. OwnTarget(r) /\ ~Here(r) /\ target \in Db BY <1>1, <3>4 DEF Known, OwnTarget, CatalogIn
      <4>2. target' = [target EXCEPT !.open = TRUE] /\ staging' = staging
        BY <3>0, <3>4 DEF Takes
      <4>3. target' \in Db /\ target'.of = r /\ target'.open BY <4>1, <4>2 DEF Db, OwnTarget
      <4>4. ~Here(r)' /\ OwnTarget(r)' BY <4>1, <4>2, <4>3, RestoreAssumption DEF Here, OwnTarget
      <4>5. phase[r] \notin {"preflight", "create", "failed"} /\ <<r, "create">> \notin late
        BY <1>1, <4>1 DEF Known
      <4> QED BY <1>1, <1>2, <1>7, <1>8, <3>4, <4>3, <4>4, <4>5 DEF Known
    <3>5. CASE s = "drop"
      <4>1. Here(r) /\ ~OwnTarget(r) BY <1>1, <2>2, <3>5 DEF Known, Valid
      <4>2. staging'[r] = NoDb /\ target' = target BY <1>1, <3>0, <3>5 DEF Takes, CatalogIn
      <4>3. ~Here(r)' /\ ~OwnTarget(r)' BY <4>1, <4>2 DEF Here, OwnTarget
      <4>4. /\ phase[r] \notin {"restored", "keptTarget"}
            /\ <<r, "create">> \notin late /\ <<r, "enable">> \notin late
            /\ <<r, "rename">> \in late => <<r, "allow">> \notin late
        BY <1>1, <4>1 DEF Known
      <4> QED BY <1>2, <1>7, <1>8, <3>5, <4>3, <4>4 DEF Known
    <3> QED BY <3>1, <3>2, <3>3, <3>4, <3>5
  <2> QED BY <2>1, <2>2
<1> QED BY <1>4, <1>5, <1>6, <1>9 DEF Leaves

(* The other clients.                                                           *)
LEMMA ClientsKeep ==
    ASSUME RestoreInv,
           \/ \E r \in Restore : Connects_Other(r) \/ Leaves_Other(r)
           \/ CreatesTarget_Other \/ UNCHANGED restoreVars
    PROVE  RestoreInv'
<1>1. UNCHANGED <<staging, phase, late, verified, audit>>
    BY DEF Connects_Other, Leaves_Other, CreatesTarget_Other, restoreVars
<1>2. CASE target' = target
    BY <1>1, <1>2 DEF RestoreInv, Catalog, TargetKnown, Known, Here, OwnTarget
<1>3. CASE CreatesTarget_Other
  <2>1. target' = [of |-> Other, open |-> TRUE] /\ target = NoDb BY <1>3 DEF CreatesTarget_Other
  <2>2. target' \in Db BY <2>1 DEF Db
  <2>3. Catalog' /\ TargetKnown' BY <1>1, <2>1, <2>2 DEF RestoreInv, Catalog, TargetKnown
  <2>4. ASSUME NEW q \in Restore PROVE Known(q)'
    <3>1. q # Other BY RestoreAssumption
    <3>2. ~OwnTarget(q) /\ ~OwnTarget(q)' BY <2>1, <3>1 DEF OwnTarget
    <3> QED BY <1>1, <3>2 DEF RestoreInv, Known, Here
  <2> QED BY <2>3, <2>4 DEF RestoreInv
<1> QED BY <1>2, <1>3 DEF Connects_Other, Leaves_Other, restoreVars

LEMMA RestoreStarts == RestoreInit => RestoreInv
BY DEF RestoreInit, RestoreInv, Catalog, TargetKnown, Known, Here, OwnTarget, Working

LEMMA RestoreSteps == RestoreInv /\ [RestoreNext]_restoreVars => RestoreInv'
<1> SUFFICES ASSUME RestoreInv, [RestoreNext]_restoreVars PROVE RestoreInv' OBVIOUS
<1>1. ASSUME NEW r \in Restore, Leaves(r) PROVE RestoreInv'
    BY <1>1, Framed DEF Leaves, RestoreInv
<1>2. ASSUME NEW r \in Restore, Works(r) PROVE Leaves(r)
    BY <1>2, ChecksKeep, WaitsKeep, CreateKeeps, OpensKeep, RenameKeeps, DropKeeps, EnableKeeps
       DEF Works
<1>3. ASSUME NEW r \in Restore, Dies(r) PROVE Leaves(r) BY <1>3, WaitsKeep
<1>4. ASSUME NEW r \in Restore, NEW s \in Ddl, RunsLate(r, s) PROVE Leaves(r)
    BY <1>4, LateKeeps
<1> QED BY <1>1, <1>2, <1>3, <1>4, ClientsKeep DEF RestoreNext

(* The requested name is open for connections only when its database is         *)
(* somebody else's, or verified with its audit state published, and each way a  *)
(* restore ends says what it left (restorePgBackupLocked,                       *)
(* handlePgRestoreDatabaseFailure).                                             *)
THEOREM TargetOpensVerified == RestoreSpec => []OpenWhenVerified
<1>1. RestoreInv => OpenWhenVerified
    BY DEF RestoreInv, TargetKnown, Known, OpenWhenVerified
<1> QED BY <1>1, RestoreStarts, RestoreSteps, PTL DEF RestoreSpec

(* What the catalog does not show: sessions, late statements, what is verified   *)
(* and published, and the troubles so far.                                       *)
SidesTyped ==
    /\ sessions \in [Restore -> SUBSET {"guard", "tool", "other"}]
    /\ late \subseteq Restore \X Ddl
    /\ verified \subseteq Restore /\ audit \subseteq Restore
    /\ troubles \in 0..MaxTroubles

LEMMA SessionsOf ==
    ASSUME sessions \in [Restore -> SUBSET {"guard", "tool", "other"}], NEW r \in Restore,
           NEW S, \/ sessions' = sessions
                  \/ sessions' = [sessions EXCEPT ![r] = @ \ S]
                  \/ S \subseteq {"guard", "tool", "other"}
                     /\ sessions' = [sessions EXCEPT ![r] = @ \cup S]
    PROVE  sessions' \in [Restore -> SUBSET {"guard", "tool", "other"}]
<1>1. sessions[r] \ S \in SUBSET {"guard", "tool", "other"} OBVIOUS
<1>2. S \subseteq {"guard", "tool", "other"} =>
          sessions[r] \cup S \in SUBSET {"guard", "tool", "other"}
  OBVIOUS
<1> QED BY <1>1, <1>2

LEMMA SidesNext ==
    ASSUME SidesTyped, [RestoreNext]_restoreVars
    PROVE  SidesTyped'
<1> USE RestoreAssumption DEF Trouble, Smooth
<1>0. /\ sessions \in [Restore -> SUBSET {"guard", "tool", "other"}]
      /\ late \subseteq Restore \X Ddl /\ verified \subseteq Restore /\ audit \subseteq Restore
      /\ troubles \in 0..MaxTroubles
  BY DEF SidesTyped
<1>1. ASSUME NEW r \in Restore, NEW s \in Ddl, NEW next, Executes(r, s, next) PROVE SidesTyped'
  <2>1. UNCHANGED <<sessions, verified, audit>> BY <1>1 DEF Executes
  <2>2. late' = late \/ late' = late \cup {<<r, s>>} BY <1>1 DEF Executes
  <2>3. troubles' \in 0..MaxTroubles BY <1>0, <1>1 DEF Executes
  <2>4. <<r, s>> \in Restore \X Ddl OBVIOUS
  <2> QED BY <1>0, <2>1, <2>2, <2>3, <2>4 DEF SidesTyped
<1>2. ASSUME NEW r \in Restore, NEW good, NEW next, Checks(r, good, next)
      PROVE  late' = late /\ troubles' \in 0..MaxTroubles
  BY <1>0, <1>2 DEF Checks
<1>3. ASSUME NEW r \in Restore,
             \/ CreateStaging(r) \/ AllowGuard(r) \/ FreezeStaging(r) \/ RenameStaging(r)
             \/ Refreeze(r) \/ DropStaging(r)
      PROVE  SidesTyped'
  BY <1>1, <1>3 DEF CreateStaging, AllowGuard, FreezeStaging, RenameStaging, Refreeze, DropStaging,
                    Ddl
<1>4. ASSUME NEW r \in Restore,
             \/ Preflight(r) \/ InspectTool(r) \/ VerifyRestored(r) \/ Drain(r)
             \/ PublishAudit(r) \/ TidyStaging(r)
      PROVE  SidesTyped'
  <2>1. late' = late /\ troubles' \in 0..MaxTroubles
    BY <1>2, <1>4 DEF Preflight, InspectTool, VerifyRestored, Drain, PublishAudit, TidyStaging
  <2>2. sessions' = sessions /\ verified' \subseteq Restore /\ audit' \subseteq Restore
    BY <1>0, <1>4 DEF Preflight, InspectTool, VerifyRestored, Drain, PublishAudit, TidyStaging
  <2> QED BY <1>0, <2>1, <2>2 DEF SidesTyped
<1>5. ASSUME NEW r \in Restore, OpenGuard(r) \/ Redrain(r) PROVE SidesTyped'
  <2>1. late' = late /\ troubles' \in 0..MaxTroubles BY <1>2, <1>5 DEF OpenGuard, Redrain
  <2>2. verified' = verified /\ audit' = audit BY <1>5 DEF OpenGuard, Redrain
  <2>3. \/ sessions' = sessions \/ sessions' = [sessions EXCEPT ![r] = @ \cup {"guard"}]
        \/ sessions' = [sessions EXCEPT ![r] = @ \ {"guard", "tool"}]
    BY <1>5 DEF OpenGuard, Redrain
  <2>4. sessions' \in [Restore -> SUBSET {"guard", "tool", "other"}]
    BY <1>0, <2>3, SessionsOf
  <2> QED BY <1>0, <2>1, <2>2, <2>4 DEF SidesTyped
<1>6. ASSUME NEW r \in Restore,
             \/ RunTool(r) \/ ToolEnds(r) \/ ReleaseGuard(r) \/ Dies(r)
             \/ Connects_Other(r) \/ Leaves_Other(r)
      PROVE  SidesTyped'
  <2>1. UNCHANGED <<late, verified, audit>>
    BY <1>6 DEF RunTool, ToolEnds, ReleaseGuard, Dies, Connects_Other, Leaves_Other
  <2>2. troubles' \in 0..MaxTroubles
    BY <1>0, <1>6 DEF RunTool, ToolEnds, ReleaseGuard, Dies, Connects_Other, Leaves_Other
  <2>3. sessions' \in [Restore -> SUBSET {"guard", "tool", "other"}]
    <3>1. CASE RunTool(r) BY <1>0, <3>1, SessionsOf DEF RunTool
    <3>2. CASE ToolEnds(r) BY <1>0, <3>2, SessionsOf DEF ToolEnds
    <3>3. CASE ReleaseGuard(r) BY <1>0, <3>3, SessionsOf DEF ReleaseGuard
    <3>4. CASE Dies(r) BY <1>0, <3>4, SessionsOf DEF Dies
    <3>5. CASE Connects_Other(r) BY <1>0, <3>5, SessionsOf DEF Connects_Other
    <3>6. CASE Leaves_Other(r) BY <1>0, <3>6, SessionsOf DEF Leaves_Other
    <3> QED BY <1>6, <3>1, <3>2, <3>3, <3>4, <3>5, <3>6
  <2> QED BY <1>0, <2>1, <2>2, <2>3 DEF SidesTyped
<1>7. ASSUME NEW r \in Restore, EnableTarget(r) PROVE SidesTyped'
  <2>1. UNCHANGED <<sessions, verified, audit>> /\ late' \in {late, late \cup {<<r, "enable">>}}
    BY <1>7 DEF EnableTarget
  <2>2. troubles' \in 0..MaxTroubles BY <1>0, <1>7 DEF EnableTarget
  <2>3. <<r, "enable">> \in Restore \X Ddl BY DEF Ddl
  <2> QED BY <1>0, <2>1, <2>2, <2>3 DEF SidesTyped
<1>8. ASSUME NEW r \in Restore, ReconcileRename(r) PROVE SidesTyped'
  <2>1. UNCHANGED <<sessions, late, verified, audit>> BY <1>8 DEF ReconcileRename
  <2>2. troubles' \in 0..MaxTroubles BY <1>0, <1>8 DEF ReconcileRename
  <2> QED BY <1>0, <2>1, <2>2 DEF SidesTyped
<1>9. ASSUME NEW r \in Restore, NEW s \in Ddl, RunsLate(r, s) PROVE SidesTyped'
  <2>1. UNCHANGED <<sessions, verified, audit, troubles>> /\ late' = late \ {<<r, s>>}
    BY <1>9 DEF RunsLate
  <2> QED BY <1>0, <2>1 DEF SidesTyped
<1>10. CASE CreatesTarget_Other BY <1>0, <1>10 DEF CreatesTarget_Other, SidesTyped
<1>11. CASE UNCHANGED restoreVars BY <1>11 DEF restoreVars, SidesTyped
<1> QED BY <1>3, <1>4, <1>5, <1>6, <1>7, <1>8, <1>9, <1>10, <1>11 DEF RestoreNext, Works

(* Restores keep their state well formed.                                        *)
LEMMA RestoreTyped == RestoreSpec => []RestoreTypes
<1> DEFINE Inv == RestoreInv /\ SidesTyped
<1>1. RestoreInit => SidesTyped BY RestoreAssumption DEF RestoreInit, SidesTyped
<1>2. Inv => RestoreTypes BY DEF RestoreInv, Catalog, SidesTyped, RestoreTypes
<1> QED BY <1>1, <1>2, RestoreStarts, RestoreSteps, SidesNext, PTL DEF RestoreSpec

=============================================================================
