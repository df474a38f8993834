-------------------------- MODULE MaintenanceProofs --------------------------
(* What keeps a server's files and tables whole, for any number of runs, files,  *)
(* calls and mishaps: updates are safe, a publication of artifacts replaces all  *)
(* of them or none, and what the bridge to Postgres reports stays true.          *)
EXTENDS Updater, ArtifactPublication, PgBridge, FiniteSetTheorems, SequenceTheorems, TLAPS

-----------------------------------------------------------------------------
(* Updates: for every stage what the run may rely on, and what the state file    *)
(* may claim.                                                                    *)

(* From the backup on, the checkout stays where the run found it until the     *)
(* fast-forward; after the install its dependencies are those of HEAD.          *)
StageInv ==
    /\ Ready("checking") \/ Ready("backup") => activeRun.from = head
    /\ Ready("fast-forward") => activeRun.from = head /\ saved = head
    /\ Ready("install") \/ Ready("conclude") => saved = activeRun.from /\ file.to = head
    /\ Ready("conclude") => installed = head

(* While a run is under way the file does not say "updated", and nothing moves *)
(* the checkout outside of one.                                                *)
FileInv ==
    file.status = "updated" =>
        activeRun = NoRun /\ file.to = head /\ installed = head /\ file.restart

UpdaterInv == UpdaterTypes /\ StageInv /\ FileInv

-----------------------------------------------------------------------------

(* Nothing has been pushed, and no run asked for, when the server starts.       *)
LEMMA UpdaterStarts == UpdaterInit => UpdaterInv
<1> SUFFICES ASSUME UpdaterInit PROVE UpdaterInv OBVIOUS
<1>1. UpdaterTypes
  <2>1. 0 \in Commit BY UpdaterAssumption DEF Commit
  <2>2. loaded \in Commit \X (Commit \cup {Broken}) BY <2>1 DEF UpdaterInit
  <2>3. file \in [status : UpdateStatus, restart : BOOLEAN, to : Commit]
    BY <2>1 DEF UpdaterInit, UpdateStatus
  <2>4. pushed \in Commit /\ fetched \in 0..pushed /\ head \in 0..fetched
    BY <2>1 DEF UpdaterInit
  <2>5. dirty \in BOOLEAN /\ timer \in BOOLEAN /\ activeRun = NoRun BY DEF UpdaterInit
  <2>6. installed \in Commit \cup {Broken} /\ saved \in Commit \cup {-1}
    BY <2>1 DEF UpdaterInit
  <2>7. runs \in 0..MaxRuns /\ deaths \in 0..MaxDeaths /\ badCommands \in 0..MaxBadCommands
    BY UpdaterAssumption DEF UpdaterInit
  <2> QED BY <2>2, <2>3, <2>4, <2>5, <2>6, <2>7 DEF UpdaterTypes
<1>2. StageInv BY DEF UpdaterInit, StageInv, Ready
<1>3. FileInv BY DEF UpdaterInit, FileInv
<1> QED BY <1>1, <1>2, <1>3 DEF UpdaterInv

(* Every action keeps the state well formed.                                    *)
LEMMA UpdaterTyped ==
    ASSUME UpdaterTypes, [UpdaterNext]_updaterVars PROVE UpdaterTypes'
<1> USE UpdaterAssumption DEF UpdaterTypes, Commit, RunStage, UpdateStatus, Broken
<1> USE DEF checkout, counts, Ready, Records, EntersStage, Fails, UpToDate, InstallStops, Started
<1>a. /\ pushed \in Nat /\ fetched \in Nat /\ head \in Nat
      /\ head <= fetched /\ fetched <= pushed /\ pushed <= LastCommit
  OBVIOUS
<1>b. head \in Commit /\ fetched \in Commit BY <1>a
<1>1. CASE Pushes BY <1>1 DEF Pushes
<1>2. CASE Edits BY <1>2 DEF Edits
<1>3. CASE Fetch BY <1>3 DEF Fetch
<1>4. CASE ApplyUpdate BY <1>4 DEF ApplyUpdate
<1>5. CASE CheckRun
  <2>1. pushed \in 0..pushed /\ head \in 0..pushed BY <1>a
  <2>2. [stage |-> "backup", from |-> head] \in [stage : RunStage, from : Commit] BY <1>b
  <2>3. file' \in [status : UpdateStatus, restart : BOOLEAN, to : Commit]
    BY <1>5 DEF CheckRun
  <2> QED BY <1>5, <2>1, <2>2, <2>3 DEF CheckRun
<1>6. CASE BackUp BY <1>6 DEF BackUp, BackupTaken
<1>7. CASE FastForward BY <1>7 DEF FastForward
<1>8. CASE Install BY <1>8 DEF Install
<1>9. CASE Conclude BY <1>9 DEF Conclude
<1>10. CASE CommandFails BY <1>10 DEF CommandFails
<1>11. CASE ScheduleRestart BY <1>11 DEF ScheduleRestart
<1>12. CASE RestartRuns
  <2>1. installed' \in Commit \cup {Broken} BY <1>12 DEF RestartRuns
  <2>2. <<head, installed'>> \in Commit \X (Commit \cup {Broken}) BY <1>b, <2>1
  <2>3. loaded' \in Commit \X (Commit \cup {Broken}) BY <1>12, <2>2 DEF RestartRuns
  <2>4. file' \in [status : UpdateStatus, restart : BOOLEAN, to : Commit]
    BY <1>12 DEF RestartRuns
  <2>5. /\ UNCHANGED <<pushed, fetched, head, dirty, saved, runs>>
        /\ activeRun' \in {activeRun, NoRun} /\ timer' = FALSE
        /\ deaths' \in 0..MaxDeaths /\ badCommands' \in 0..MaxBadCommands
    BY <1>12 DEF RestartRuns
  <2> QED BY <2>1, <2>3, <2>4, <2>5
<1>13. CASE Restarts
  <2>1. installed' \in Commit \cup {Broken} BY <1>13 DEF Restarts
  <2>2. <<head, installed'>> \in Commit \X (Commit \cup {Broken}) BY <1>b, <2>1
  <2>3. loaded' \in Commit \X (Commit \cup {Broken}) BY <1>13, <2>2 DEF Restarts
  <2>4. file' \in [status : UpdateStatus, restart : BOOLEAN, to : Commit]
    BY <1>13 DEF Restarts
  <2>5. /\ UNCHANGED <<pushed, fetched, head, dirty, saved, runs>>
        /\ activeRun' \in {activeRun, NoRun} /\ timer' = FALSE
        /\ deaths' \in 0..MaxDeaths /\ badCommands' \in 0..MaxBadCommands
    BY <1>13 DEF Restarts
  <2> QED BY <2>1, <2>3, <2>4, <2>5
<1>14. CASE UNCHANGED updaterVars BY <1>14 DEF updaterVars
<1> QED
    BY <1>1, <1>2, <1>3, <1>4, <1>5, <1>6, <1>7, <1>8, <1>9, <1>10, <1>11, <1>12, <1>13, <1>14
       DEF UpdaterNext

(* Every action keeps what the stages and the state file promise.               *)
LEMMA UpdaterSteps ==
    ASSUME UpdaterInv, [UpdaterNext]_updaterVars PROVE StageInv' /\ FileInv'
<1> USE UpdaterAssumption DEF UpdaterInv, UpdaterTypes, StageInv, FileInv, RunStage, UpdateStatus
<1> USE DEF checkout, counts, Ready, Records, EntersStage, Fails, UpToDate, InstallStops, Started
<1>1. CASE Pushes BY <1>1 DEF Pushes
<1>2. CASE Edits BY <1>2 DEF Edits
<1>3. CASE Fetch BY <1>3 DEF Fetch
<1>4. CASE ApplyUpdate BY <1>4 DEF ApplyUpdate
<1>5. CASE CheckRun
  <2>1. CASE dirty BY <1>5, <2>1 DEF CheckRun
  <2>2. CASE ~dirty /\ head = fetched' BY <1>5, <2>2 DEF CheckRun
  <2>3. CASE ~dirty /\ head # fetched' BY <1>5, <2>3 DEF CheckRun
  <2> QED BY <2>1, <2>2, <2>3
<1>6. CASE BackUp BY <1>6 DEF BackUp, BackupTaken
<1>7. CASE FastForward BY <1>7 DEF FastForward
<1>8. CASE Install BY <1>8 DEF Install
<1>9. CASE Conclude BY <1>9 DEF Conclude
<1>10. CASE CommandFails BY <1>10 DEF CommandFails
<1>11. CASE ScheduleRestart BY <1>11 DEF ScheduleRestart
<1>12. CASE RestartRuns BY <1>12 DEF RestartRuns
<1>13. CASE Restarts BY <1>13 DEF Restarts
<1>14. CASE UNCHANGED updaterVars BY <1>14 DEF updaterVars
<1> QED
    BY <1>1, <1>2, <1>3, <1>4, <1>5, <1>6, <1>7, <1>8, <1>9, <1>10, <1>11, <1>12, <1>13, <1>14
       DEF UpdaterNext

LEMMA UpdaterKept == UpdaterInv /\ [UpdaterNext]_updaterVars => UpdaterInv'
BY UpdaterTyped, UpdaterSteps DEF UpdaterInv

(* Whatever fails, dies or is pushed, for any number of commits and runs: what  *)
(* a run leaves has been backed up, and what is reported as updated is checked  *)
(* out, installed and marked for a restart (runApplyUpdate).                    *)
THEOREM UpdatesSafe == UpdaterSpec => []UpdatesAreSafe
<1>1. UpdaterInv => UpdatesAreSafe
    BY DEF UpdaterInv, StageInv, FileInv, UpdatesAreSafe
<1> QED BY UpdaterStarts, UpdaterKept, <1>1, PTL DEF UpdaterSpec

(* The state file and the run of the updater are well formed.                   *)
LEMMA UpdaterStaysTyped == UpdaterSpec => []UpdaterTypes
<1>1. UpdaterInv => UpdaterTypes BY DEF UpdaterInv
<1> QED BY UpdaterStarts, UpdaterKept, <1>1, PTL DEF UpdaterSpec

-----------------------------------------------------------------------------
(* Publication of artifacts *)

Staging == {"inspect", "move", "check"}
Linking == {"link", "compare", "settle", "verify", "current", "retire"}
Withdrawing == {"remove", "discard", "collide"}

(* A prior artifact is where it was or set aside, and a path without one empty.  *)
Placed(i) == public[i] = IF aside[i] = Nil THEN before[i] ELSE Nil

Ours == Item \ intrusions

(* The items up to the current one are set aside, and nobody disturbs that.      *)
StagingKnown ==
    step.what \in Staging =>
        /\ force /\ linked = {} /\ intrusions = {} /\ discarded = {}
        /\ \A i \in Item : /\ Placed(i)
                           /\ i < step.item => aside[i] = before[i]
                           /\ i > step.item => aside[i] = Nil
        /\ step.what \in {"inspect", "move"} => aside[step.item] = Nil
        /\ step.what = "move" => seen[step.item] = public[step.item] /\ step.item \notin rewritten
        /\ step.what = "check" => Untouched(step.item) /\ aside[step.item] = before[step.item]

(* All are set aside, and the new ones linked up to the current one.             *)
LinkingKnown ==
    step.what \in Linking =>
        /\ aside = before
        /\ \A i \in Ours : IF i \in linked THEN public[i] = New(i) ELSE Placed(i)
        /\ step.what = "link" => linked = 1..(step.item - 1)
        /\ step.what \in {"compare", "settle"} => linked = 1..step.item
        /\ step.what \in {"verify", "current", "retire"} => linked = Item

Processed(i) ==
    \/ step.what = "remove" /\ i > step.item
    \/ step.what = "discard" /\ i >= step.item
    \/ step.what = "collide"

(* The new ones are removed from the last to the current one, unless a path is   *)
(* blocked.                                                                      *)
WithdrawingKnown ==
    step.what \in Withdrawing =>
        /\ aside = before
        /\ \A i \in Ours : i \notin linked \/ (Processed(i) /\ ~blocked) => Placed(i)

Restoring == {"restore", "return", "confirm"}

(* The prior ones are restored from the last to the current one, whose path was  *)
(* found vacant when it is renamed back.                                         *)
UndoingKnown ==
    step.what \in Restoring \cup {"clean"} =>
        /\ \A i \in Ours : Placed(i)
        /\ step.what \in Restoring /\ ~blocked => \A i \in Item : i > step.item => aside[i] = Nil
        /\ step.what = "confirm" /\ ~blocked => aside[step.item] = Nil
        /\ step.what = "return" =>
              \/ public[step.item] = Nil
              \/ public[step.item] = Foreign(step.item) /\ step.item \in late
        /\ step.what = "clean" => \A i \in Item : aside[i] = Nil

FinalsKnown ==
    /\ step.what = "published" => linked = Item /\ \A i \in Ours : public[i] = New(i)
    /\ step.what \in {"refused", "preserved"} => \A i \in Ours : public[i] = before[i]
    /\ step.what = "recovery" => \A i \in Ours : before[i] \in {Nil, public[i], aside[i]}

DiscardedKnown ==
    \A i \in Item : /\ Foreign(i) \in discarded => i \in late
                    /\ Old(i) \in discarded => step.what = "published"

AsideKnown ==
    \A i \in Item :
        /\ before[i] \in {Nil, Old(i)} /\ (~force => before[i] = Nil)
        /\ aside[i] \in {Nil, before[i]}
        /\ aside[i] # Nil => i \in movedAside \/ (step.what = "check" /\ i = step.item)

PublicationShapes ==
    /\ public \in [Item -> Artifact \cup {Nil}]
    /\ aside \in [Item -> Artifact \cup {Nil}]
    /\ before \in [Item -> Artifact \cup {Nil}]
    /\ seen \in [Item -> Artifact \cup {Nil}]
    /\ force \in BOOLEAN /\ blocked \in BOOLEAN
    /\ linked \subseteq Item
    /\ step.what \in Doing \cup Linking \cup {"clean"} \cup Finals
    /\ step.what \in Doing => step.item \in Item
    /\ step = At(step.what, step.item)
    /\ step.what \notin Doing => step.item = 0

PublicationInv ==
    /\ PublicationShapes /\ AsideKnown /\ DiscardedKnown /\ FinalsKnown
    /\ StagingKnown /\ LinkingKnown /\ WithdrawingKnown /\ UndoingKnown

LEMMA ItemsOrdered == 1 \in Item /\ Artifacts \in Item /\ Item \subseteq Nat
                      /\ \A i \in Item : i >= 1 /\ i <= Artifacts
BY PublicationAssumption DEF Item

LEMMA ArtifactsDiffer ==
    ASSUME NEW i \in Item, NEW j \in Item
    PROVE  /\ Old(i) # New(j) /\ Old(i) # Foreign(j) /\ New(i) # Foreign(j)
           /\ Old(i) \in Artifact /\ New(i) \in Artifact /\ Foreign(i) \in Artifact
           /\ Old(i) # Nil /\ New(i) # Nil /\ Foreign(i) # Nil
           /\ Old(i) = Old(j) => i = j
           /\ Foreign(i) = Foreign(j) => i = j
BY NilIsNoArtifact DEF Old, New, Foreign, Artifact

LEMMA PublicationStarts == PublicationInit => PublicationInv
<1> SUFFICES ASSUME PublicationInit PROVE PublicationInv OBVIOUS
<1> USE ItemsOrdered, ArtifactsDiffer
<1>1. /\ before = public /\ public \in [Item -> Artifact \cup {Nil}] /\ force \in BOOLEAN
      /\ \A i \in Item : public[i] \in {Old(i), Nil}
      /\ force \/ \A i \in Item : public[i] = Nil
      /\ aside = [i \in Item |-> Nil] /\ seen = [i \in Item |-> Nil]
      /\ rewritten = {} /\ movedAside = {} /\ linked = {} /\ blocked = FALSE
      /\ discarded = {} /\ intrusions = {}
      /\ step.what = IF force THEN "inspect" ELSE "link"
      /\ step.item = 1 /\ step = At(step.what, step.item)
    BY DEF PublicationInit, At
<1>2. \A i \in Item : aside[i] = Nil BY <1>1
<1>3. PublicationShapes BY <1>1 DEF PublicationShapes, Doing, Linking
<1>4. AsideKnown /\ DiscardedKnown BY <1>1, <1>2 DEF AsideKnown, DiscardedKnown
<1>5. FinalsKnown /\ WithdrawingKnown /\ UndoingKnown
    BY <1>1 DEF FinalsKnown, WithdrawingKnown, UndoingKnown, Restoring, Withdrawing
<1>6. StagingKnown BY <1>1, <1>2 DEF StagingKnown, Placed, Staging
<1>7. LinkingKnown
  <2> SUFFICES ASSUME ~force PROVE LinkingKnown BY <1>1 DEF LinkingKnown, Linking
  <2>1. aside = before BY <1>1
  <2>2. linked = 1..(step.item - 1) BY <1>1
  <2>3. \A i \in Ours : i \notin linked /\ Placed(i) BY <1>1, <1>2 DEF Placed, Ours
  <2>4. step.what = "link" BY <1>1
  <2> QED BY <2>1, <2>2, <2>3, <2>4 DEF LinkingKnown
<1> QED BY <1>3, <1>4, <1>5, <1>6, <1>7 DEF PublicationInv

LEMMA StepNames ==
    /\ \A w, i : At(w, i).what = w /\ At(w, i).item = i
    /\ \A w : Then(w).what = w /\ Then(w).item = 0 /\ Then(w) = At(w, 0)
BY DEF At, Then


LEMMA StagingKeeps ==
    ASSUME PublicationInv, StagingDisturbed = FALSE, NEW i \in Item,
           InspectExisting(i) \/ MoveAside(i) \/ CheckMoved(i)
    PROVE  PublicationInv'
<1> USE ItemsOrdered, ArtifactsDiffer, StepNames
<1>1. /\ step.what \in Staging /\ step.item = i
      /\ UNCHANGED <<force, before, keptAside, linked, blocked, quarantine, discarded,
                     intrusions, late>>
    BY DEF InspectExisting, MoveAside, CheckMoved, given, work, paths, Staging
<1>2. /\ force /\ linked = {} /\ intrusions = {} /\ discarded = {}
      /\ \A j \in Item : /\ Placed(j)
                         /\ j < i => aside[j] = before[j]
                         /\ j > i => aside[j] = Nil
    BY <1>1 DEF PublicationInv, StagingKnown
<1>3. ASSUME step'.what \in {"inspect", "link"},
             UNCHANGED <<public, aside>>, aside[i] = before[i],
             aside[i] # Nil => i \in movedAside',
             movedAside \subseteq movedAside',
             seen' \in [Item -> Artifact \cup {Nil}],
             step' = Follows("inspect", i, At("link", 1))
      PROVE  PublicationInv'
  <2>1. \/ /\ i < Artifacts /\ step'.what = "inspect" /\ step'.item = i + 1
           /\ i + 1 \in Item
        \/ i = Artifacts /\ step'.what = "link" /\ step'.item = 1
      BY <1>3 DEF Follows, Item
  <2>2. PublicationShapes'
      BY <1>1, <1>3, <2>1 DEF PublicationInv, PublicationShapes, Doing, Linking, Follows
  <2>3. AsideKnown' BY <1>1, <1>3 DEF PublicationInv, AsideKnown
  <2>4. DiscardedKnown' BY <1>1, <1>2 DEF DiscardedKnown
  <2>5. FinalsKnown' /\ WithdrawingKnown' /\ UndoingKnown'
      BY <2>1 DEF FinalsKnown, WithdrawingKnown, UndoingKnown, Restoring, Withdrawing
  <2>6. StagingKnown'
      BY <1>1, <1>2, <1>3, <2>1 DEF StagingKnown, Placed, Staging, Item
  <2>7. LinkingKnown'
    <3> SUFFICES ASSUME i = Artifacts, step'.what = "link", step'.item = 1 PROVE LinkingKnown'
        BY <2>1 DEF LinkingKnown, Linking
    <3>1. aside' = before'
      <4>1. \A j \in Item : aside[j] = before[j] BY <1>2, <1>3 DEF Item
      <4>2. aside \in [Item -> Artifact \cup {Nil}] /\ before \in [Item -> Artifact \cup {Nil}]
          BY DEF PublicationInv, PublicationShapes
      <4>3. aside = before
        <5> HIDE ItemsOrdered, ArtifactsDiffer, StepNames
        <5> QED BY <4>1, <4>2
      <4> QED BY <1>1, <1>3, <4>3
    <3>2. \A j \in Ours' : j \notin linked' /\ Placed(j)'
        BY <1>1, <1>2, <1>3 DEF Ours, Placed
    <3> QED BY <1>1, <1>2, <3>1, <3>2 DEF LinkingKnown
  <2> QED BY <2>2, <2>3, <2>4, <2>5, <2>6, <2>7 DEF PublicationInv
<1>4. ASSUME step' = Undoes, UNCHANGED <<public, aside, seen>>,
             movedAside \subseteq movedAside', aside[i] # Nil => i \in movedAside'
      PROVE  PublicationInv'
  <2>1. step'.what = "restore" /\ step'.item = Artifacts BY <1>4 DEF Undoes
  <2>2. PublicationShapes'
      BY <1>1, <1>4, <2>1 DEF PublicationInv, PublicationShapes, Doing, Undoes
  <2>3. AsideKnown' BY <1>1, <1>4 DEF PublicationInv, AsideKnown
  <2>4. DiscardedKnown' BY <1>1, <1>2 DEF DiscardedKnown
  <2>5. FinalsKnown' /\ WithdrawingKnown' /\ StagingKnown' /\ LinkingKnown'
      BY <2>1 DEF FinalsKnown, WithdrawingKnown, Withdrawing, StagingKnown, Staging,
                  LinkingKnown, Linking
  <2>6. UndoingKnown' BY <1>1, <1>2, <1>4, <2>1 DEF UndoingKnown, Restoring, Placed, Ours
  <2> QED BY <2>2, <2>3, <2>4, <2>5, <2>6 DEF PublicationInv
<1>5. ASSUME step' = At("move", i), InspectExisting(i), step = At("inspect", i),
             seen' = [seen EXCEPT ![i] = public[i]], rewritten' = rewritten \ {i}
      PROVE  PublicationInv'
  <2>1. UNCHANGED <<public, aside, movedAside>> BY <1>5 DEF InspectExisting, paths, work
  <2>2. step'.what = "move" /\ step'.item = i /\ step.what = "inspect" BY <1>5
  <2>3. PublicationShapes'
      BY <1>1, <1>5, <2>1, <2>2 DEF PublicationInv, PublicationShapes, Doing
  <2>4. AsideKnown' BY <1>1, <2>1, <2>2 DEF PublicationInv, AsideKnown
  <2>5. DiscardedKnown' BY <1>1, <1>2 DEF DiscardedKnown
  <2>6. FinalsKnown' /\ WithdrawingKnown' /\ UndoingKnown' /\ LinkingKnown'
      BY <2>2 DEF FinalsKnown, WithdrawingKnown, Withdrawing, UndoingKnown, Restoring,
         LinkingKnown, Linking
  <2>7. aside[i] = Nil BY <1>1, <2>2 DEF PublicationInv, StagingKnown
  <2>8. seen'[i] = public[i] /\ i \notin rewritten'
      BY <1>5 DEF PublicationInv, PublicationShapes
  <2>9. StagingKnown'
      BY <1>1, <1>2, <2>1, <2>2, <2>7, <2>8 DEF StagingKnown, Placed, Staging
  <2> QED BY <2>3, <2>4, <2>5, <2>6, <2>9 DEF PublicationInv
<1>6. CASE InspectExisting(i)
  <2>1. step = At("inspect", i) /\ UNCHANGED <<public, aside, movedAside>> /\ aside[i] = Nil
      BY <1>1, <1>6 DEF InspectExisting, paths, work, PublicationInv, StagingKnown, Staging
  <2>2. CASE public[i] = Nil
    <3>1. step' = Follows("inspect", i, At("link", 1)) /\ seen' = seen
        BY <1>6, <2>2 DEF InspectExisting
    <3>2. aside[i] = before[i] BY <1>2, <2>1, <2>2 DEF Placed
    <3>3. step'.what \in {"inspect", "link"} BY <3>1 DEF Follows
    <3> QED BY <1>3, <2>1, <3>1, <3>2, <3>3 DEF PublicationInv, PublicationShapes
  <2>3. CASE public[i] # Nil
      BY <1>4, <1>5, <1>6, <2>1, <2>3 DEF InspectExisting
  <2> QED BY <2>2, <2>3
<1>7. CASE MoveAside(i)
  <2>1. /\ step = At("move", i) /\ UNCHANGED <<movedAside, seen, rewritten>>
        /\ aside[i] = Nil /\ seen[i] = public[i] /\ i \notin rewritten
      BY <1>1, <1>7 DEF MoveAside, work, PublicationInv, StagingKnown, Staging
  <2>2. CASE step' = Undoes /\ UNCHANGED <<aside, public>> BY <1>4, <2>1, <2>2
  <2>3. CASE /\ aside' = [aside EXCEPT ![i] = public[i]]
             /\ public' = [public EXCEPT ![i] = Nil]
             /\ step' = At("check", i)
    <3>1. step'.what = "check" /\ step'.item = i BY <2>3
    <3>2. public[i] = before[i] BY <1>2, <2>1 DEF Placed
    <3>3. /\ aside' \in [Item -> Artifact \cup {Nil}] /\ public' \in [Item -> Artifact \cup {Nil}]
          /\ aside'[i] = before[i] /\ public'[i] = Nil
          /\ \A j \in Item \ {i} : aside'[j] = aside[j] /\ public'[j] = public[j]
        BY <2>3, <3>2 DEF PublicationInv, PublicationShapes
    <3>4. PublicationShapes'
        BY <1>1, <2>1, <2>3, <3>1, <3>3 DEF PublicationInv, PublicationShapes, Doing
    <3>5. AsideKnown' BY <1>1, <2>1, <3>1, <3>3 DEF PublicationInv, AsideKnown
    <3>6. DiscardedKnown' BY <1>1, <1>2 DEF DiscardedKnown
    <3>7. FinalsKnown' /\ WithdrawingKnown' /\ UndoingKnown' /\ LinkingKnown'
        BY <3>1 DEF FinalsKnown, WithdrawingKnown, Withdrawing, UndoingKnown, Restoring,
         LinkingKnown, Linking
    <3>8. \A j \in Item : /\ Placed(j)'
                          /\ j < i => aside'[j] = before[j]
                          /\ j > i => aside'[j] = Nil
        BY <1>1, <1>2, <3>3 DEF Placed
    <3>9. StagingKnown'
        BY <1>1, <1>2, <2>1, <3>1, <3>2, <3>3, <3>8 DEF StagingKnown, Untouched
    <3> QED BY <3>4, <3>5, <3>6, <3>7, <3>9 DEF PublicationInv
  <2> QED BY <1>7, <2>2, <2>3 DEF MoveAside
<1>8. CASE CheckMoved(i)
  <2>1. /\ Untouched(i) /\ aside[i] = before[i] /\ UNCHANGED <<public, aside, seen>>
      BY <1>1, <1>8 DEF CheckMoved, PublicationInv, StagingKnown, Staging, paths
  <2>2. movedAside' = movedAside \cup {i}
        /\ (step' = Follows("inspect", i, At("link", 1)) \/ step' = Undoes)
      BY <1>8, <2>1 DEF CheckMoved
  <2>3. Follows("inspect", i, At("link", 1)).what \in {"inspect", "link"} BY DEF Follows
  <2> QED BY <1>3, <1>4, <2>1, <2>2, <2>3 DEF PublicationInv, PublicationShapes
<1> QED BY <1>6, <1>7, <1>8

(* What the link phase keeps when it goes on, and when it gives up.              *)
LEMMA GivesUp ==
    ASSUME PublicationInv, step.what \in Linking, step' = Withdraws,
           UNCHANGED <<given, paths, seen, work, discarded, intrusions, late>>
    PROVE  PublicationInv'
<1> USE ItemsOrdered, ArtifactsDiffer, StepNames
<1>1. /\ step'.what = "remove" /\ step'.item = Artifacts
      /\ UNCHANGED <<force, before, public, aside, seen, linked, movedAside, blocked,
                     discarded, intrusions, late>>
    BY DEF Withdraws, given, paths, work
<1>2. /\ aside = before
      /\ \A i \in Ours : IF i \in linked THEN public[i] = New(i) ELSE Placed(i)
    BY DEF PublicationInv, LinkingKnown
<1>3. PublicationShapes' BY <1>1 DEF PublicationInv, PublicationShapes, Doing, Withdraws
<1>4. AsideKnown' BY <1>1 DEF PublicationInv, AsideKnown, Linking
<1>5. DiscardedKnown' BY <1>1 DEF PublicationInv, DiscardedKnown, Linking
<1>6. FinalsKnown' /\ UndoingKnown' /\ StagingKnown' /\ LinkingKnown'
    BY <1>1 DEF FinalsKnown, UndoingKnown, Restoring, StagingKnown, Staging, LinkingKnown, Linking
<1>7. WithdrawingKnown'
    BY <1>1, <1>2 DEF WithdrawingKnown, Placed, Ours, Processed, Item
<1> QED BY <1>3, <1>4, <1>5, <1>6, <1>7 DEF PublicationInv

LEMMA LinkingGoesOn ==
    ASSUME PublicationInv, step.what \in Linking,
           step'.what \in Linking \cup {"published"}, step' = At(step'.what, step'.item),
           step'.what \in Doing => step'.item \in Item,
           step'.what \notin Doing => step'.item = 0,
           step'.what = "link" => linked' = 1..(step'.item - 1),
           step'.what \in {"compare", "settle"} => linked' = 1..step'.item,
           step'.what \in {"verify", "current", "retire", "published"} => linked' = Item,
           linked' \subseteq Item,
           public' \in [Item -> Artifact \cup {Nil}],
           \A i \in Ours : IF i \in linked' THEN public'[i] = New(i) ELSE Placed(i)',
           UNCHANGED <<given, aside, seen, movedAside, blocked, discarded, intrusions, late>>
    PROVE  PublicationInv'
<1> USE ItemsOrdered, ArtifactsDiffer, StepNames
<1>1. UNCHANGED <<force, before>> BY DEF given
<1>2. aside = before BY DEF PublicationInv, LinkingKnown
<1>3. PublicationShapes' BY <1>1 DEF PublicationInv, PublicationShapes, Finals
<1>4. AsideKnown' BY <1>1 DEF PublicationInv, AsideKnown, Linking
<1>5. DiscardedKnown' BY DEF PublicationInv, DiscardedKnown, Linking
<1>6. UndoingKnown' /\ StagingKnown' /\ WithdrawingKnown'
    BY DEF UndoingKnown, Restoring, StagingKnown, Staging, WithdrawingKnown, Withdrawing, Linking
<1>7. Ours' = Ours BY DEF Ours
<1>8. FinalsKnown' BY <1>7 DEF FinalsKnown, Linking, Ours
<1>9. LinkingKnown' BY <1>1, <1>2, <1>7 DEF LinkingKnown
<1> QED BY <1>3, <1>4, <1>5, <1>6, <1>8, <1>9 DEF PublicationInv

LEMMA LinkingKeeps ==
    ASSUME PublicationInv, NEW i \in Item, LinkStaged(i) \/ CompareLinked(i) \/ SettleLinked(i)
    PROVE  PublicationInv'
<1> USE ItemsOrdered, ArtifactsDiffer, StepNames
<1>1. step.what \in Linking /\ step.item = i /\ step.what \in {"link", "compare", "settle"}
    BY DEF LinkStaged, CompareLinked, SettleLinked, Linking
<1>2. /\ aside = before
      /\ \A j \in Ours : IF j \in linked THEN public[j] = New(j) ELSE Placed(j)
    BY <1>1 DEF PublicationInv, LinkingKnown
<1>3. UNCHANGED <<given, aside, seen, movedAside, blocked, discarded, intrusions, late>>
    BY DEF LinkStaged, CompareLinked, SettleLinked, Expects, paths, work
<1>4. CASE step' = Withdraws
  <2>1. UNCHANGED <<given, paths, seen, work, discarded, intrusions, late>>
      BY <1>4 DEF LinkStaged, CompareLinked, SettleLinked, Expects, paths, work, Withdraws
  <2> QED BY <1>1, <1>4, <2>1, GivesUp
<1>5. CASE LinkStaged(i) /\ step' # Withdraws
  <2>1. /\ public' = [public EXCEPT ![i] = New(i)] /\ linked' = linked \cup {i}
        /\ step' = At("compare", i) /\ step = At("link", i)
      BY <1>5 DEF LinkStaged
  <2>2. linked = 1..(i - 1) BY <1>1, <2>1 DEF PublicationInv, LinkingKnown
  <2>3. linked' = 1..i BY <2>1, <2>2
  <2>4. /\ public' \in [Item -> Artifact \cup {Nil}] /\ public'[i] = New(i)
        /\ \A j \in Item \ {i} : public'[j] = public[j]
      BY <2>1 DEF PublicationInv, PublicationShapes
  <2>5. ASSUME NEW j \in Ours
        PROVE  IF j \in linked' THEN public'[j] = New(j) ELSE Placed(j)'
      BY <1>2, <1>3, <2>1, <2>4 DEF Placed, Ours, given
  <2>6. linked' \subseteq Item BY <2>3 DEF Item
  <2> QED BY <1>1, <1>3, <2>1, <2>3, <2>4, <2>5, <2>6, LinkingGoesOn DEF Linking, Doing
<1>6. CASE (CompareLinked(i) \/ SettleLinked(i)) /\ step' # Withdraws
  <2>1. /\ UNCHANGED <<public, linked>> /\ step.what \in {"compare", "settle"}
        /\ step' = At("settle", i) \/ step' = Follows("link", i, Then("verify"))
      BY <1>6 DEF CompareLinked, SettleLinked, Expects, paths, work
  <2>2. linked = 1..i BY <1>1, <2>1 DEF PublicationInv, LinkingKnown
  <2>3. \A j \in Ours : IF j \in linked' THEN public'[j] = New(j) ELSE Placed(j)'
      BY <1>2, <1>3, <2>1 DEF Placed, given
  <2>4. public' \in [Item -> Artifact \cup {Nil}] /\ linked' \subseteq Item
      BY <2>1 DEF PublicationInv, PublicationShapes
  <2>5. \/ step' = At("settle", i)
        \/ i < Artifacts /\ step' = At("link", i + 1) /\ i + 1 \in Item
        \/ i = Artifacts /\ step' = At("verify", 0) /\ linked = Item
      BY <2>1, <2>2 DEF Follows, Item
  <2>6. i + 1 - 1 = i OBVIOUS
  <2> QED BY <1>1, <1>3, <2>1, <2>2, <2>3, <2>4, <2>5, <2>6, LinkingGoesOn DEF Linking, Doing
<1> QED BY <1>4, <1>5, <1>6

LEMMA VerificationKeeps ==
    ASSUME PublicationInv, VerifyPublished \/ AssertCurrent
    PROVE  PublicationInv'
<1> USE ItemsOrdered, ArtifactsDiffer, StepNames
<1>1. step.what \in {"verify", "current"} /\ step.what \in Linking
    BY DEF VerifyPublished, AssertCurrent, Linking
<1>2. /\ aside = before /\ linked = Item
      /\ \A j \in Ours : IF j \in linked THEN public[j] = New(j) ELSE Placed(j)
    BY <1>1 DEF PublicationInv, LinkingKnown
<1>3. UNCHANGED <<given, paths, seen, work, discarded, intrusions, late>>
    BY DEF VerifyPublished, AssertCurrent, Expects
<1>4. CASE step' = Withdraws BY <1>1, <1>3, <1>4, GivesUp
<1>5. CASE step' # Withdraws
  <2>1. step' \in {At("current", 0), At("retire", 0), At("published", 0)}
      BY <1>5 DEF VerifyPublished, AssertCurrent, Expects, Committed
  <2>2. \A j \in Ours : IF j \in linked' THEN public'[j] = New(j) ELSE Placed(j)'
      BY <1>2, <1>3 DEF Placed, given, paths, work
  <2>3. public' \in [Item -> Artifact \cup {Nil}] /\ linked' = Item
      BY <1>2, <1>3 DEF PublicationInv, PublicationShapes, paths, work
  <2> QED BY <1>1, <1>3, <2>1, <2>2, <2>3, LinkingGoesOn DEF Linking, Doing, paths, work
<1> QED BY <1>4, <1>5

LEMMA WithdrawalKeeps ==
    ASSUME PublicationInv, NEW i \in Item,
           QuarantineLinked(i) \/ DiscardLinked(i) \/ SetCollisionAside(i)
    PROVE  PublicationInv'
<1> USE ItemsOrdered, ArtifactsDiffer, StepNames
<1>1. /\ step.what \in Withdrawing /\ step.item = i
      /\ UNCHANGED <<force, before, aside, seen, movedAside, linked, intrusions, late>>
    BY DEF QuarantineLinked, DiscardLinked, SetCollisionAside, given, Withdrawing
<1>2. /\ aside = before
      /\ \A j \in Ours : j \notin linked \/ (Processed(j) /\ ~blocked) => Placed(j)
    BY <1>1 DEF PublicationInv, WithdrawingKnown
<1>3. Ours' = Ours BY <1>1 DEF Ours
<1>4. AsideKnown' BY <1>1 DEF PublicationInv, AsideKnown, Withdrawing
<1>5. \A j \in Item : Old(j) \notin discarded BY <1>1 DEF PublicationInv, DiscardedKnown, Withdrawing
<1>6. discarded' = discarded \/ \E j \in Item : discarded' = discarded \cup {New(j)}
    BY DEF QuarantineLinked, DiscardLinked, SetCollisionAside, Owned
<1>7. DiscardedKnown' BY <1>1, <1>5, <1>6 DEF PublicationInv, DiscardedKnown
\* A path that is looked at is left as it is, or emptied.
<1>8. /\ public' \in [Item -> Artifact \cup {Nil}]
      /\ public'[i] \in {public[i], Nil}
      /\ \A j \in Item \ {i} : public'[j] = public[j]
  <2>1. public' = public \/ public' = [public EXCEPT ![i] = Nil]
      BY DEF QuarantineLinked, DiscardLinked, SetCollisionAside
  <2> QED BY <2>1 DEF PublicationInv, PublicationShapes
<1>9. \A j \in Ours : Placed(j) => Placed(j)'
  <2> SUFFICES ASSUME NEW j \in Ours, Placed(j) PROVE Placed(j)' OBVIOUS
  <2>1. aside[j] = before[j] /\ public'[j] \in {public[j], Nil} BY <1>2, <1>8 DEF Ours
  <2> QED BY <1>1, <2>1 DEF Placed
<1>10. \A j \in Ours : public'[j] = Nil => Placed(j)'
  <2> SUFFICES ASSUME NEW j \in Ours, public'[j] = Nil PROVE Placed(j)' OBVIOUS
  <2>1. aside'[j] = before'[j] BY <1>1, <1>2
  <2> QED BY <2>1 DEF Placed
<1>11. blocked' \in BOOLEAN /\ (blocked => blocked')
    BY DEF QuarantineLinked, DiscardLinked, SetCollisionAside, PublicationInv, PublicationShapes
\* What any of them goes on to.
<1>12. ASSUME NEW w \in Withdrawing, NEW k \in Item, step' = At(w, k),
              \A j \in Ours : j \notin linked \/ (Processed(j)' /\ ~blocked') => Placed(j)'
       PROVE  PublicationInv'
  <2>1. step'.what = w /\ step'.item = k BY <1>12
  <2>2. PublicationShapes'
      BY <1>1, <1>8, <1>11, <1>12, <2>1 DEF PublicationInv, PublicationShapes, Doing, Withdrawing
  <2>3. FinalsKnown' /\ UndoingKnown' /\ StagingKnown' /\ LinkingKnown'
      BY <2>1 DEF FinalsKnown, UndoingKnown, Restoring, StagingKnown, Staging, LinkingKnown, Linking,
                  Withdrawing
  <2>4. WithdrawingKnown' BY <1>1, <1>2, <1>3, <1>12 DEF WithdrawingKnown
  <2> QED BY <1>4, <1>7, <2>2, <2>3, <2>4 DEF PublicationInv
<1>13. CASE QuarantineLinked(i)
  <2>1. step = At("remove", i) BY <1>13 DEF QuarantineLinked
  <2>2. ASSUME NEW j \in Ours, j \notin linked \/ (j > i /\ ~blocked) PROVE Placed(j)'
      BY <1>2, <1>9, <2>1, <2>2 DEF Processed
  <2>3. CASE step' = At("discard", i) /\ public' = [public EXCEPT ![i] = Nil] /\ blocked' = blocked
    <3>1. public'[i] = Nil BY <2>3 DEF PublicationInv, PublicationShapes
    <3>2. \A j \in Ours : Processed(j)' => j = i \/ j > i BY <2>3 DEF Processed, Ours
    <3>3. \A j \in Ours : j \notin linked \/ (Processed(j)' /\ ~blocked') => Placed(j)'
        BY <1>10, <2>2, <2>3, <3>1, <3>2
    <3> QED BY <1>12, <2>3, <3>3 DEF Withdrawing
  <2>4. CASE /\ step' = Precedes("remove", i, Collides)
             /\ (i \notin linked \/ public'[i] = Nil) \/ blocked'
    <3>1. \A j \in Ours : j \notin linked \/ ((j = i \/ j > i) /\ ~blocked') => Placed(j)'
        BY <1>10, <1>11, <2>2, <2>4
    <3>2. CASE i > 1 /\ step' = At("remove", i - 1)
      <4>1. i - 1 \in Item BY <3>2 DEF Item
      <4>2. \A j \in Ours : Processed(j)' => j = i \/ j > i BY <3>2 DEF Processed, Ours
      <4> QED BY <1>12, <3>1, <3>2, <4>1, <4>2 DEF Withdrawing
    <3>3. CASE i = 1 /\ step' = At("collide", Artifacts)
      <4>1. \A j \in Ours : j = i \/ j > i BY <3>3 DEF Ours
      <4> QED BY <1>12, <3>1, <3>3, <4>1 DEF Withdrawing
    <3> QED BY <2>4, <3>2, <3>3 DEF Precedes, Collides
  <2>5. \/ step' = At("discard", i) /\ public' = [public EXCEPT ![i] = Nil] /\ blocked' = blocked
        \/ /\ step' = Precedes("remove", i, Collides)
           /\ (i \notin linked \/ public'[i] = Nil) \/ blocked'
      BY <1>13 DEF QuarantineLinked
  <2> QED BY <2>3, <2>4, <2>5
<1>14. CASE DiscardLinked(i)
  <2>1. /\ step = At("discard", i) /\ UNCHANGED <<public, blocked>>
        /\ step' = Precedes("remove", i, Collides)
      BY <1>14 DEF DiscardLinked
  <2>2. \A j \in Ours : j \notin linked \/ ((j = i \/ j > i) /\ ~blocked') => Placed(j)'
      BY <1>2, <1>9, <2>1 DEF Processed, Ours
  <2>3. CASE i > 1 /\ step' = At("remove", i - 1)
    <3>1. i - 1 \in Item BY <2>3 DEF Item
    <3>2. \A j \in Ours : Processed(j)' => j = i \/ j > i BY <2>3 DEF Processed, Ours
    <3> QED BY <1>12, <2>2, <2>3, <3>1, <3>2 DEF Withdrawing
  <2>4. CASE i = 1 /\ step' = At("collide", Artifacts)
    <3>1. \A j \in Ours : j = i \/ j > i BY <2>4 DEF Ours
    <3> QED BY <1>12, <2>2, <2>4, <3>1 DEF Withdrawing
  <2> QED BY <2>1, <2>3, <2>4 DEF Precedes, Collides
<1>15. CASE SetCollisionAside(i)
  <2>1. /\ step = At("collide", i)
        /\ step' = Precedes("collide", i, IF blocked' THEN Then("recovery")
                                          ELSE IF force THEN Undoes
                                          ELSE IF keptAside' # {} THEN Then("preserved")
                                          ELSE Then("refused"))
      BY <1>15 DEF SetCollisionAside
  <2>2. \A j \in Ours : ~blocked' => Placed(j)'
      BY <1>2, <1>9, <1>11, <2>1 DEF Processed
  <2>3. \A j \in Ours : j \notin linked => Placed(j)' BY <1>2, <1>9
  <2>4. CASE i > 1 /\ step' = At("collide", i - 1)
    <3>1. i - 1 \in Item BY <2>4 DEF Item
    <3> QED BY <1>12, <2>2, <2>3, <2>4, <3>1 DEF Withdrawing
  <2>5. CASE step'.what = "restore" /\ step' = Undoes /\ ~blocked'
    <3>1. step'.item = Artifacts BY <2>5 DEF Undoes
    <3>2. PublicationShapes'
        BY <1>1, <1>8, <1>11, <2>5, <3>1 DEF PublicationInv, PublicationShapes, Doing, Undoes
    <3>3. FinalsKnown' /\ WithdrawingKnown' /\ StagingKnown' /\ LinkingKnown'
        BY <2>5 DEF FinalsKnown, WithdrawingKnown, Withdrawing, StagingKnown, Staging,
                    LinkingKnown, Linking
    <3>4. UndoingKnown'
      <4>1. step'.what = "restore" /\ \A j \in Item : ~(j > Artifacts) BY <2>5
      <4> QED BY <1>3, <2>2, <2>5, <3>1, <4>1 DEF UndoingKnown
    <3> QED BY <1>4, <1>7, <3>2, <3>3, <3>4 DEF PublicationInv
  <2>6. CASE step' = Then("recovery")
    <3>1. step'.what = "recovery" /\ step'.item = 0 BY <2>6
    <3>2. PublicationShapes'
        BY <1>1, <1>8, <1>11, <2>6, <3>1 DEF PublicationInv, PublicationShapes, Doing, Finals
    <3>3. UndoingKnown' /\ WithdrawingKnown' /\ StagingKnown' /\ LinkingKnown'
        BY <3>1 DEF UndoingKnown, Restoring, WithdrawingKnown, Withdrawing, StagingKnown, Staging,
                    LinkingKnown, Linking
    <3>4. FinalsKnown' BY <1>1, <1>2, <3>1 DEF FinalsKnown
    <3> QED BY <1>4, <1>7, <3>2, <3>3, <3>4 DEF PublicationInv
  <2>7. CASE ~blocked' /\ ~force /\ step' \in {Then("preserved"), Then("refused")}
    <3>1. step'.what \in {"preserved", "refused"} /\ step'.item = 0 BY <2>7
    <3>2. PublicationShapes'
        BY <1>1, <1>8, <1>11, <2>7, <3>1 DEF PublicationInv, PublicationShapes, Doing, Finals
    <3>3. UndoingKnown' /\ WithdrawingKnown' /\ StagingKnown' /\ LinkingKnown'
        BY <3>1 DEF UndoingKnown, Restoring, WithdrawingKnown, Withdrawing, StagingKnown, Staging,
                    LinkingKnown, Linking
    <3>4. \A j \in Ours : public'[j] = before[j]
      <4> SUFFICES ASSUME NEW j \in Ours PROVE public'[j] = before[j] OBVIOUS
      <4>1. before[j] = Nil /\ Placed(j)' BY <2>2, <2>7 DEF PublicationInv, AsideKnown, Ours
      <4> QED BY <1>1, <1>2, <4>1 DEF Placed
    <3>5. FinalsKnown' BY <1>1, <1>3, <3>1, <3>4 DEF FinalsKnown
    <3> QED BY <1>4, <1>7, <3>2, <3>3, <3>5 DEF PublicationInv
  <2>8. i = 1 \/ i > 1 OBVIOUS
  <2> QED BY <2>1, <2>4, <2>5, <2>6, <2>7, <2>8 DEF Precedes, Undoes
<1> QED BY <1>13, <1>14, <1>15

(* What a step that leaves the current item, put back or not, goes on to.        *)
LEMMA RestorationGoesOn ==
    ASSUME PublicationInv, NEW i \in Item, step.what \in Restoring, step.item = i,
           NextRestored(i), blocked' \in BOOLEAN, blocked => blocked',
           UNCHANGED <<force, before, seen, movedAside, linked, intrusions>>,
           public' \in [Item -> Artifact \cup {Nil}], aside' \in [Item -> Artifact \cup {Nil}],
           \A j \in Ours : Placed(j)',
           \A j \in Item : aside'[j] \in {aside[j], Nil},
           ~blocked' => aside'[i] = Nil,
           DiscardedKnown'
    PROVE  PublicationInv'
<1> USE ItemsOrdered, ArtifactsDiffer, StepNames
<1>1. step' = Precedes("restore", i, IF blocked' THEN Then("recovery") ELSE Then("clean"))
    BY DEF NextRestored
<1>2. ~blocked => \A j \in Item : j > i => aside[j] = Nil
    BY DEF PublicationInv, UndoingKnown
<1>3. AsideKnown' BY DEF PublicationInv, AsideKnown, Restoring
<1>4. Ours' = Ours BY DEF Ours
<1>5. ~blocked' => \A j \in Item : j = i \/ j > i => aside'[j] = Nil BY <1>2
<1>6. CASE i > 1 /\ step' = At("restore", i - 1)
  <2>1. i - 1 \in Item /\ \A j \in Item : j > i - 1 => j = i \/ j > i BY <1>6 DEF Item
  <2>2. PublicationShapes'
      BY <1>6, <2>1 DEF PublicationInv, PublicationShapes, Doing
  <2>3. FinalsKnown' /\ WithdrawingKnown' /\ StagingKnown' /\ LinkingKnown'
      BY <1>6 DEF FinalsKnown, WithdrawingKnown, Withdrawing, StagingKnown, Staging,
                  LinkingKnown, Linking
  <2>4. step'.what = "restore" /\ step'.item = i - 1 BY <1>6
  <2>5. UndoingKnown' BY <1>4, <1>5, <2>1, <2>4 DEF UndoingKnown
  <2> QED BY <1>3, <2>2, <2>3, <2>5 DEF PublicationInv
<1>7. CASE i = 1 /\ blocked' /\ step' = Then("recovery")
  <2>1. PublicationShapes' BY <1>7 DEF PublicationInv, PublicationShapes, Doing, Finals
  <2>2. UndoingKnown' /\ WithdrawingKnown' /\ StagingKnown' /\ LinkingKnown'
      BY <1>7 DEF UndoingKnown, Restoring, WithdrawingKnown, Withdrawing, StagingKnown, Staging,
                  LinkingKnown, Linking
  <2>3. \A j \in Ours : before'[j] \in {Nil, public'[j], aside'[j]}
    <3> SUFFICES ASSUME NEW j \in Ours PROVE before'[j] \in {Nil, public'[j], aside'[j]}
        OBVIOUS
    <3>1. aside[j] \in {Nil, before[j]} BY DEF PublicationInv, AsideKnown, Ours
    <3> QED BY <3>1 DEF Placed, Ours
  <2>4. FinalsKnown' BY <1>4, <1>7, <2>3 DEF FinalsKnown
  <2> QED BY <1>3, <2>1, <2>2, <2>4 DEF PublicationInv
<1>8. CASE i = 1 /\ ~blocked' /\ step' = Then("clean")
  <2>1. PublicationShapes' BY <1>8 DEF PublicationInv, PublicationShapes, Doing
  <2>2. FinalsKnown' /\ WithdrawingKnown' /\ StagingKnown' /\ LinkingKnown'
      BY <1>8 DEF FinalsKnown, WithdrawingKnown, Withdrawing, StagingKnown, Staging,
                  LinkingKnown, Linking
  <2>3. \A j \in Item : j = i \/ j > i BY <1>8
  <2>4. UndoingKnown' BY <1>4, <1>5, <1>8, <2>3 DEF UndoingKnown, Restoring
  <2> QED BY <1>3, <2>1, <2>2, <2>4 DEF PublicationInv
<1> QED BY <1>1, <1>6, <1>7, <1>8 DEF Precedes

(* A step within one item.                                                       *)
LEMMA RestorationProceeds ==
    ASSUME PublicationInv, NEW i \in Item, step.what \in {"restore", "return"}, step.item = i,
           NEW w \in {"return", "confirm"}, step' = At(w, i),
           UNCHANGED <<force, before, seen, movedAside, linked, blocked, intrusions, late>>,
           public' \in [Item -> Artifact \cup {Nil}], aside' \in [Item -> Artifact \cup {Nil}],
           \A j \in Ours : Placed(j)',
           \A j \in Item : aside'[j] \in {aside[j], Nil},
           w = "return" => public'[i] = Nil,
           w = "confirm" => aside'[i] = Nil,
           DiscardedKnown'
    PROVE  PublicationInv'
<1> USE ItemsOrdered, ArtifactsDiffer, StepNames
<1>1. step'.what = w /\ step'.item = i OBVIOUS
<1>2. PublicationShapes' BY <1>1 DEF PublicationInv, PublicationShapes, Doing
<1>3. AsideKnown' BY <1>1 DEF PublicationInv, AsideKnown
<1>4. FinalsKnown' /\ WithdrawingKnown' /\ StagingKnown' /\ LinkingKnown'
    BY <1>1 DEF FinalsKnown, WithdrawingKnown, Withdrawing, StagingKnown, Staging,
                LinkingKnown, Linking
<1>5. ~blocked => \A j \in Item : j > i => aside[j] = Nil
    BY DEF PublicationInv, UndoingKnown, Restoring
<1>6. Ours' = Ours BY DEF Ours
<1>7. UndoingKnown' BY <1>1, <1>5, <1>6 DEF UndoingKnown
<1> QED BY <1>2, <1>3, <1>4, <1>7 DEF PublicationInv

LEMMA RestorationKeeps ==
    ASSUME PublicationInv, NEW i \in Item,
           RestoreMoved(i) \/ ReturnMoved(i) \/ ConfirmReturned(i)
    PROVE  PublicationInv'
<1> USE ItemsOrdered, ArtifactsDiffer, StepNames
<1>1. /\ step.what \in Restoring /\ step.item = i
      /\ UNCHANGED <<force, before, seen, movedAside, linked, intrusions, late>>
    BY DEF RestoreMoved, ReturnMoved, ConfirmReturned, given, Restoring
<1>2. /\ blocked' \in BOOLEAN /\ (blocked => blocked')
      /\ public \in [Item -> Artifact \cup {Nil}] /\ aside \in [Item -> Artifact \cup {Nil}]
    BY DEF RestoreMoved, ReturnMoved, ConfirmReturned, PublicationInv, PublicationShapes
<1>3. /\ \A j \in Ours : Placed(j)
      /\ step.what = "confirm" /\ ~blocked => aside[i] = Nil
      /\ step.what = "return" =>
            public[i] = Nil \/ (public[i] = Foreign(i) /\ i \in late)
    BY <1>1 DEF PublicationInv, UndoingKnown
<1>4. ASSUME UNCHANGED <<public, aside, discarded>>
      PROVE  (\A j \in Ours : Placed(j)') /\ (step'.what # "published" => DiscardedKnown')
  <2>1. \A j \in Item : Old(j) \notin discarded
      BY <1>1 DEF PublicationInv, DiscardedKnown, Restoring
  <2>2. step'.what # "published" => DiscardedKnown'
      BY <1>1, <1>4, <2>1 DEF PublicationInv, DiscardedKnown
  <2> QED BY <1>1, <1>3, <1>4, <2>2 DEF Placed
<1>5. NextRestored(i) => step'.what # "published" BY DEF NextRestored, Precedes
<1>6. CASE RestoreMoved(i) \/ ConfirmReturned(i)
  <2>1. UNCHANGED <<public, aside, discarded>>
      BY <1>6 DEF RestoreMoved, ConfirmReturned, paths
  <2>2. CASE NextRestored(i)
    <3>1. ~blocked' => aside[i] = Nil
      <4>1. CASE RestoreMoved(i)
        <5>1. step.what = "restore" /\ (~blocked' => i \notin movedAside)
            BY <2>2, <4>1 DEF RestoreMoved, NextRestored, Precedes
        <5> QED BY <5>1 DEF PublicationInv, AsideKnown
      <4>2. CASE ConfirmReturned(i)
        <5>1. step.what = "confirm" BY <4>2 DEF ConfirmReturned
        <5> QED BY <1>2, <1>3, <5>1
      <4> QED BY <1>6, <4>1, <4>2
    <3> QED BY <1>1, <1>2, <1>4, <1>5, <2>1, <2>2, <3>1, RestorationGoesOn
  <2>3. CASE RestoreMoved(i) /\ step' = At("return", i) /\ ~NextRestored(i)
    <3>1. step.what = "restore" /\ public[i] = Nil /\ blocked' = blocked
        BY <2>3 DEF RestoreMoved, Restorable
    <3>2. step'.what = "return" BY <2>3
    <3> QED BY <1>1, <1>2, <1>4, <2>1, <2>3, <3>1, <3>2, RestorationProceeds
  <2> QED BY <1>6, <2>2, <2>3 DEF RestoreMoved, ConfirmReturned
<1>7. CASE ReturnMoved(i)
  <2>1. step.what = "return" BY <1>7 DEF ReturnMoved
  <2>2. CASE NextRestored(i) /\ blocked' = TRUE /\ UNCHANGED <<public, aside, discarded>>
      BY <1>1, <1>2, <1>4, <1>5, <2>2, RestorationGoesOn
  <2>3. CASE /\ public' = [public EXCEPT ![i] = aside[i]]
             /\ aside' = [aside EXCEPT ![i] = Nil]
             /\ discarded' = discarded \cup ({public[i]} \ {Nil})
             /\ step' = At("confirm", i) /\ blocked' = blocked
    <3>1. /\ public'[i] = aside[i] /\ aside'[i] = Nil
          /\ \A j \in Item \ {i} : public'[j] = public[j] /\ aside'[j] = aside[j]
          /\ public' \in [Item -> Artifact \cup {Nil}] /\ aside' \in [Item -> Artifact \cup {Nil}]
        BY <1>2, <2>3
    <3>2. \A j \in Ours : Placed(j)'
      <4> SUFFICES ASSUME NEW j \in Ours PROVE Placed(j)' OBVIOUS
      <4>1. Placed(j) /\ j \in Item BY <1>3 DEF Ours
      <4>2. CASE j # i BY <1>1, <3>1, <4>1, <4>2 DEF Placed
      <4>3. CASE j = i
        <5>1. /\ aside[i] \in {Nil, before[i]} /\ before[i] \in {Nil, Old(i)}
            BY DEF PublicationInv, AsideKnown
        <5>2. public[i] = Nil \/ public[i] = Foreign(i) BY <1>3, <2>1
        <5> QED BY <1>1, <3>1, <4>1, <4>3, <5>1, <5>2 DEF Placed
      <4> QED BY <4>2, <4>3
    <3>3. DiscardedKnown'
      <4>1. \A j \in Item : Old(j) \notin discarded
          BY <2>1 DEF PublicationInv, DiscardedKnown
      <4>2. \A j \in Item : Old(j) \notin discarded' BY <1>3, <2>1, <2>3, <4>1
      <4>3. \A j \in Item : Foreign(j) \in discarded' => j \in late
          BY <1>3, <2>1, <2>3 DEF PublicationInv, DiscardedKnown
      <4> QED BY <1>1, <4>2, <4>3 DEF DiscardedKnown
    <3> QED BY <1>1, <2>1, <2>3, <3>1, <3>2, <3>3, RestorationProceeds
  <2> QED BY <1>7, <2>2, <2>3 DEF ReturnMoved
<1> QED BY <1>6, <1>7

(* After a rollback nothing is aside; a published set has replaced what was.     *)
LEMMA RemovalKeeps ==
    ASSUME PublicationInv, CleanRollback
    PROVE  PublicationInv'
<1> USE ItemsOrdered, ArtifactsDiffer, StepNames
<1>1. /\ step.what \in {"clean", "retire"}
      /\ UNCHANGED <<force, before, public, seen, movedAside, linked, blocked, intrusions, late>>
      /\ step' = IF step.what = "retire" THEN Then("published")
                 ELSE IF aside' = aside /\ discarded' = discarded /\ step' = Then("recovery")
                 THEN Then("recovery")
                 ELSE IF keptAside # {} THEN Then("preserved") ELSE Then("refused")
      /\ \/ aside' = [j \in Item |-> Nil] /\ discarded' = discarded \cup Kept
         \/ UNCHANGED <<aside, discarded>>
    BY DEF CleanRollback, given, work
<1>2. Ours' = Ours BY <1>1 DEF Ours
<1>3. \A j \in Item : aside'[j] \in {aside[j], Nil} BY <1>1
<1>4. /\ aside' \in [Item -> Artifact \cup {Nil}]
      /\ \A j \in Item : aside'[j] # Nil => aside'[j] = aside[j]
    BY <1>1, <1>3 DEF PublicationInv, PublicationShapes
<1>5. AsideKnown' BY <1>1, <1>4 DEF PublicationInv, AsideKnown
<1>6. step'.what \in {"published", "recovery", "preserved", "refused"} /\ step' = At(step'.what, 0)
    BY <1>1
<1>7. PublicationShapes' BY <1>1, <1>4, <1>6 DEF PublicationInv, PublicationShapes, Doing, Finals
<1>8. UndoingKnown' /\ WithdrawingKnown' /\ StagingKnown' /\ LinkingKnown'
    BY <1>6 DEF UndoingKnown, Restoring, WithdrawingKnown, Withdrawing, StagingKnown, Staging,
                LinkingKnown, Linking
<1>9. \A j \in Item : aside[j] = Nil \/ aside[j] = Old(j) BY DEF PublicationInv, AsideKnown
<1>10. \A j \in Item : Foreign(j) \notin Kept BY <1>9 DEF Kept
<1>11. CASE step.what = "retire"
  <2>1. linked = Item /\ \A j \in Ours : public[j] = New(j)
      BY <1>11 DEF PublicationInv, LinkingKnown, Linking, Ours
  <2>2. step'.what = "published" BY <1>1, <1>11
  <2>3. FinalsKnown' BY <1>1, <1>2, <2>1, <2>2 DEF FinalsKnown
  <2>4. DiscardedKnown' BY <1>1, <1>10, <2>2 DEF PublicationInv, DiscardedKnown
  <2> QED BY <1>5, <1>7, <1>8, <2>3, <2>4 DEF PublicationInv
<1>12. CASE step.what = "clean"
  <2>1. \A j \in Item : aside[j] = Nil BY <1>12 DEF PublicationInv, UndoingKnown, Restoring
  <2>2. \A j \in Ours : public[j] = before[j]
      BY <1>12, <2>1 DEF PublicationInv, UndoingKnown, Restoring, Placed, Ours
  <2>3. discarded' = discarded
    <3>1. Kept = {} BY <2>1 DEF Kept
    <3>2. discarded \cup {} = discarded OBVIOUS
    <3> QED BY <1>1, <3>1, <3>2
  <2>4. \A j \in Item : Old(j) \notin discarded BY <1>12 DEF PublicationInv, DiscardedKnown
  <2>5. DiscardedKnown' BY <1>1, <2>3, <2>4 DEF PublicationInv, DiscardedKnown
  <2>6. step'.what # "published" BY <1>1, <1>12
  <2>7. FinalsKnown' BY <1>1, <1>2, <2>2, <2>6 DEF FinalsKnown
  <2> QED BY <1>5, <1>7, <1>8, <2>5, <2>7 DEF PublicationInv
<1> QED BY <1>1, <1>11, <1>12

(* Others move nothing that is aside, and what they touch is no longer ours.     *)
LEMMA OthersKeep ==
    ASSUME PublicationInv, StagingDisturbed = FALSE, NEW i \in Item, Intrudes(i) \/ Writes(i)
    PROVE  PublicationInv'
<1> USE ItemsOrdered, ArtifactsDiffer, StepNames
<1>1. /\ step.what \notin Staging /\ step.what \notin Finals
      /\ UNCHANGED <<force, before, step, aside, seen, movedAside, linked, blocked, discarded>>
      /\ intrusions' = intrusions \cup {i}
      /\ \/ public' = public /\ late' = late
         \/ /\ public' = [public EXCEPT ![i] = Foreign(i)]
            /\ late' = IF step = At("return", i) THEN late \cup {i} ELSE late
    BY DEF Intrudes, Writes, Disturbable, Staging, given, work, paths
<1>2. /\ public' \in [Item -> Artifact \cup {Nil}]
      /\ \A j \in Item \ {i} : public'[j] = public[j]
    BY <1>1 DEF PublicationInv, PublicationShapes
<1>3. \A j \in Ours' : j \in Ours /\ public'[j] = public[j] /\ (Placed(j) => Placed(j)')
    BY <1>1, <1>2 DEF Ours, Placed
<1>4. \A j : Processed(j)' <=> Processed(j) BY <1>1 DEF Processed
<1>5. PublicationShapes' BY <1>1, <1>2 DEF PublicationInv, PublicationShapes
<1>6. AsideKnown' /\ DiscardedKnown' BY <1>1 DEF PublicationInv, AsideKnown, DiscardedKnown
<1>7. FinalsKnown' BY <1>1 DEF FinalsKnown, Finals
<1>8. StagingKnown' BY <1>1 DEF StagingKnown
<1>9. LinkingKnown' BY <1>1, <1>3 DEF PublicationInv, LinkingKnown
<1>10. WithdrawingKnown' BY <1>1, <1>3, <1>4 DEF PublicationInv, WithdrawingKnown
<1>11. UndoingKnown'
  <2> SUFFICES ASSUME step.what \in Restoring \cup {"clean"} PROVE UndoingKnown'
      BY <1>1 DEF UndoingKnown
  <2>1. UndoingKnown BY DEF PublicationInv
  <2>2. step.what = "return" =>
            \/ public'[step.item] = Nil
            \/ public'[step.item] = Foreign(step.item) /\ step.item \in late'
    <3> SUFFICES ASSUME step.what = "return"
                 PROVE  \/ public'[step.item] = Nil
                        \/ public'[step.item] = Foreign(step.item) /\ step.item \in late'
        OBVIOUS
    <3>1. step = At("return", step.item) /\ step.item \in Item
        BY DEF PublicationInv, PublicationShapes, Doing
    <3>2. late \subseteq late' BY <1>1
    <3>3. \/ public[step.item] = Nil
          \/ public[step.item] = Foreign(step.item) /\ step.item \in late
        BY <2>1 DEF UndoingKnown
    <3>4. CASE step.item # i BY <1>2, <3>1, <3>2, <3>3, <3>4
    <3>5. CASE step.item = i /\ public' = [public EXCEPT ![i] = Foreign(i)]
        BY <1>1, <3>1, <3>3, <3>5 DEF PublicationInv, PublicationShapes
    <3>6. CASE public' = public BY <3>2, <3>3, <3>6
    <3> QED BY <1>1, <3>4, <3>5, <3>6
  <2> QED BY <1>1, <1>3, <2>1, <2>2 DEF UndoingKnown
<1> QED BY <1>5, <1>6, <1>7, <1>8, <1>9, <1>10, <1>11 DEF PublicationInv

LEMMA PublicationSteps ==
    ASSUME PublicationInv, StagingDisturbed = FALSE, [PublicationNext]_publicationVars
    PROVE  PublicationInv'
<1>1. CASE UNCHANGED publicationVars
  <2>1. UNCHANGED <<force, before, step, public, aside, seen, rewritten, movedAside, linked,
                    blocked, discarded, intrusions, late>>
      BY <1>1 DEF publicationVars, given, paths, work, bounds
  <2>2. Ours' = Ours BY <2>1 DEF Ours
  <2>3. \A j : (Placed(j)' <=> Placed(j)) /\ (Processed(j)' <=> Processed(j))
               /\ (Untouched(j)' <=> Untouched(j))
      BY <2>1 DEF Placed, Processed, Untouched
  <2>4. PublicationShapes' /\ AsideKnown' /\ DiscardedKnown'
      BY <2>1 DEF PublicationInv, PublicationShapes, AsideKnown, DiscardedKnown
  <2>5. FinalsKnown' /\ LinkingKnown'
      BY <2>1, <2>2, <2>3 DEF PublicationInv, FinalsKnown, LinkingKnown
  <2>6. WithdrawingKnown' /\ UndoingKnown'
      BY <2>1, <2>2, <2>3 DEF PublicationInv, WithdrawingKnown, UndoingKnown
  <2>7. StagingKnown' BY <2>1, <2>3 DEF PublicationInv, StagingKnown
  <2> QED BY <2>4, <2>5, <2>6, <2>7 DEF PublicationInv
<1>2. CASE PublicationNext
    BY <1>2, StagingKeeps, LinkingKeeps, VerificationKeeps, WithdrawalKeeps, RestorationKeeps,
       RemovalKeeps, OthersKeep
    DEF PublicationNext
<1> QED BY <1>1, <1>2

LEMMA PublicationHolds == PublicationInv => AllOrNothing
<1> SUFFICES ASSUME PublicationInv PROVE AllOrNothing OBVIOUS
<1> USE ItemsOrdered, ArtifactsDiffer, StepNames
<1>1. PriorRecoverable
  <2> SUFFICES ASSUME NEW i \in Item, Old(i) \in discarded
               PROVE  linked = Item /\ step = Then("published")
      BY DEF PriorRecoverable
  <2>1. step.what = "published" BY DEF PublicationInv, DiscardedKnown
  <2>2. step = At("published", 0) BY <2>1 DEF PublicationInv, PublicationShapes, Doing
  <2> QED BY <2>1, <2>2 DEF PublicationInv, FinalsKnown
<1>2. \A i \in Item : Foreign(i) \in discarded => i \in late BY DEF PublicationInv, DiscardedKnown
<1>3. \A i \in Item : i \notin intrusions =>
          /\ step.what \in {"refused", "preserved"} => public[i] = before[i]
          /\ step.what \in Finals \ {"published"} => before[i] \in {Nil, public[i], aside[i]}
          /\ step.what = "published" => public[i] = New(i)
    BY DEF PublicationInv, FinalsKnown, Ours, Finals
<1> QED BY <1>1, <1>2, <1>3 DEF AllOrNothing

(* A publication replaces every file or none, and removes no artifact of another *)
(* process, except one that comes to a path between the roll-back's look at it   *)
(* and its rename: publishPrivateFiles, restoreMovedArtifacts and                *)
(* quarantineOwnedArtifact, for any number of files, intrusions and failing      *)
(* calls, when nobody disturbs the moving aside itself.                          *)
THEOREM PublishedWholly ==
    ASSUME StagingDisturbed = FALSE
    PROVE  PublicationSpec => []AllOrNothing
<1>1. PublicationInit => PublicationInv BY PublicationStarts
<1>2. PublicationInv /\ [PublicationNext]_publicationVars => PublicationInv'
    BY PublicationSteps
<1>3. PublicationInv => AllOrNothing BY PublicationHolds
<1> QED BY <1>1, <1>2, <1>3, PTL DEF PublicationSpec

(* A step of the publication that is not the discarding of what it removed.     *)
Elsewhere ==
    [what : Doing \ {"discard"}, item : Item]
    \cup [what : {"verify", "current", "retire", "clean"} \cup Finals, item : {0}]

LEMMA StepsElsewhere ==
    ASSUME NEW s \in Elsewhere
    PROVE  /\ s.what # "discard"
           /\ s \in [what : Doing, item : Item]
                     \cup [what : {"verify", "current", "retire", "clean"} \cup Finals, item : {0}]
BY DEF Elsewhere, Doing, Finals

LEMMA ElsewhereAre ==
    /\ \A what \in Doing \ {"discard"} : \A i \in Item : At(what, i) \in Elsewhere
    /\ \A what \in {"verify", "current", "retire", "clean"} \cup Finals : Then(what) \in Elsewhere
    /\ Undoes \in Elsewhere /\ Withdraws \in Elsewhere /\ Collides \in Elsewhere
    /\ Committed \in Elsewhere
<1>1. \A what \in Doing \ {"discard"} : \A i \in Item : At(what, i) \in Elsewhere
    BY DEF Elsewhere, At
<1>2. \A what \in {"verify", "current", "retire", "clean"} \cup Finals : Then(what) \in Elsewhere
    BY DEF Elsewhere, Then, At
<1>3. /\ "restore" \in Doing \ {"discard"} /\ "remove" \in Doing \ {"discard"}
      /\ "collide" \in Doing \ {"discard"} /\ "published" \in Finals
    BY DEF Doing, Finals
<1> QED BY <1>1, <1>2, <1>3, ItemsOrdered DEF Undoes, Withdraws, Collides, Committed

LEMMA NextItems ==
    ASSUME NEW what \in Doing \ {"discard"}, NEW i \in Item, NEW next \in Elsewhere
    PROVE  /\ Follows(what, i, next) \in Elsewhere
           /\ Precedes(what, i, next) \in Elsewhere
<1>1. i < Artifacts => i + 1 \in Item BY PublicationAssumption DEF Item
<1>2. i > 1 => i - 1 \in Item BY PublicationAssumption DEF Item
<1> QED BY <1>1, <1>2, ElsewhereAre DEF Follows, Precedes

(* What a publication removes from a path is an artifact until it is discarded. *)
PublicationTyped ==
    PublicationTypes /\ (step.what = "discard" => quarantine \in Artifact)

LEMMA PublicationStartsTyped == PublicationInit => PublicationTyped
<1> SUFFICES ASSUME PublicationInit PROVE PublicationTyped OBVIOUS
<1>1. step \in Elsewhere
  <2>1. At("inspect", 1) \in Elsewhere /\ At("link", 1) \in Elsewhere
    BY ElsewhereAre, ItemsOrdered DEF Doing
  <2> QED BY <2>1 DEF PublicationInit
<1>2. step.what # "discard" BY <1>1, StepsElsewhere
<1>3. /\ public \in [Item -> Artifact \cup {Nil}] /\ before = public
      /\ aside \in [Item -> Artifact \cup {Nil}] /\ seen \in [Item -> Artifact \cup {Nil}]
  BY DEF PublicationInit
<1>4. errors \in 0..MaxErrors BY PublicationAssumption DEF PublicationInit
<1>5. /\ force \in BOOLEAN /\ blocked \in BOOLEAN
      /\ rewritten = {} /\ movedAside = {} /\ linked = {} /\ keptAside = {}
      /\ quarantine = Nil /\ discarded = {} /\ intrusions = {} /\ late = {}
  BY DEF PublicationInit
<1> QED BY <1>1, <1>2, <1>3, <1>4, <1>5, StepsElsewhere DEF PublicationTypes, PublicationTyped

LEMMA StagingTyped ==
    ASSUME PublicationTyped, NEW i \in Item,
           InspectExisting(i) \/ MoveAside(i) \/ CheckMoved(i)
    PROVE  PublicationTyped'
<1> USE DEF given, paths, work, Fine, Errs
<1>1. step' \in Elsewhere
  <2>1. /\ Follows("inspect", i, At("link", 1)) \in Elsewhere
        /\ At("move", i) \in Elsewhere /\ At("check", i) \in Elsewhere
        /\ Undoes \in Elsewhere
    BY ElsewhereAre, NextItems, ItemsOrdered DEF Doing
  <2> QED BY <2>1 DEF InspectExisting, MoveAside, CheckMoved
<1>2. step'.what # "discard" BY <1>1, StepsElsewhere
<1>3. CASE InspectExisting(i)
  BY <1>1, <1>2, <1>3, StepsElsewhere, PublicationAssumption
     DEF InspectExisting, PublicationTypes, PublicationTyped
<1>4. CASE MoveAside(i)
  BY <1>1, <1>2, <1>4, StepsElsewhere, PublicationAssumption
     DEF MoveAside, PublicationTypes, PublicationTyped
<1>5. CASE CheckMoved(i)
  BY <1>1, <1>2, <1>5, StepsElsewhere, PublicationAssumption
     DEF CheckMoved, PublicationTypes, PublicationTyped
<1> QED BY <1>3, <1>4, <1>5

LEMMA LinkingTyped ==
    ASSUME PublicationTyped,
           \/ \E i \in Item : LinkStaged(i) \/ CompareLinked(i) \/ SettleLinked(i)
           \/ VerifyPublished \/ AssertCurrent \/ CleanRollback
    PROVE  PublicationTyped'
<1> USE DEF given, paths, work, Fine, Errs
<1>0. Withdraws \in Elsewhere /\ Committed \in Elsewhere
    /\ Then("verify") \in Elsewhere /\ Then("current") \in Elsewhere
    /\ Then("published") \in Elsewhere /\ Then("preserved") \in Elsewhere
    /\ Then("refused") \in Elsewhere /\ Then("recovery") \in Elsewhere
  BY ElsewhereAre DEF Finals
<1>1. ASSUME NEW good, NEW next \in Elsewhere, Expects(good, next) PROVE PublicationTyped'
  <2>1. step' \in Elsewhere BY <1>0, <1>1 DEF Expects
  <2>2. step'.what # "discard" BY <2>1, StepsElsewhere
  <2>3. UNCHANGED <<given, paths, seen, rewritten, work, discarded, intrusions, late>>
        /\ errors' \in 0..MaxErrors
    BY <1>1, PublicationAssumption DEF Expects, PublicationTyped, PublicationTypes
  <2> QED BY <2>1, <2>2, <2>3, StepsElsewhere DEF PublicationTyped, PublicationTypes
<1>2. ASSUME NEW i \in Item, LinkStaged(i) PROVE PublicationTyped'
  <2>1. At("compare", i) \in Elsewhere BY ElsewhereAre DEF Doing
  <2>2. step' \in Elsewhere BY <1>0, <1>2, <2>1 DEF LinkStaged
  <2>3. step'.what # "discard" BY <2>2, StepsElsewhere
  <2>4. New(i) \in Artifact BY DEF New, Artifact
  <2> QED
    BY <1>2, <2>2, <2>3, <2>4, StepsElsewhere, PublicationAssumption
       DEF LinkStaged, PublicationTypes, PublicationTyped
<1>3. ASSUME NEW i \in Item, CompareLinked(i) PROVE PublicationTyped'
  <2>1. At("settle", i) \in Elsewhere BY ElsewhereAre DEF Doing
  <2> QED BY <1>1, <1>3, <2>1 DEF CompareLinked
<1>4. ASSUME NEW i \in Item, SettleLinked(i) PROVE PublicationTyped'
  <2>1. Follows("link", i, Then("verify")) \in Elsewhere BY <1>0, NextItems DEF Doing
  <2> QED BY <1>1, <1>4, <2>1 DEF SettleLinked
<1>5. CASE VerifyPublished BY <1>0, <1>1, <1>5 DEF VerifyPublished
<1>6. CASE AssertCurrent BY <1>0, <1>1, <1>6 DEF AssertCurrent
<1>7. CASE CleanRollback
  <2>1. step' \in Elsewhere BY <1>0, <1>7 DEF CleanRollback
  <2>2. step'.what # "discard" BY <2>1, StepsElsewhere
  <2>3. Kept \subseteq Artifact BY DEF Kept, PublicationTyped, PublicationTypes
  <2> QED
    BY <1>7, <2>1, <2>2, <2>3, StepsElsewhere, PublicationAssumption
       DEF CleanRollback, PublicationTypes, PublicationTyped
<1> QED BY <1>2, <1>3, <1>4, <1>5, <1>6, <1>7

LEMMA WithdrawalTyped ==
    ASSUME PublicationTyped, NEW i \in Item,
           QuarantineLinked(i) \/ DiscardLinked(i) \/ SetCollisionAside(i)
    PROVE  PublicationTyped'
<1> USE DEF given, paths, work, Fine, Errs
<1>0. /\ Then("recovery") \in Elsewhere /\ Then("clean") \in Elsewhere
      /\ Then("preserved") \in Elsewhere /\ Then("refused") \in Elsewhere
      /\ Undoes \in Elsewhere /\ Collides \in Elsewhere
  BY ElsewhereAre DEF Finals
<1>1. \A next \in Elsewhere : /\ Precedes("remove", i, next) \in Elsewhere
                             /\ Precedes("collide", i, next) \in Elsewhere
  BY NextItems DEF Doing
<1>2. public[i] \in Artifact \cup {Nil} /\ aside[i] \in Artifact \cup {Nil}
  BY DEF PublicationTyped, PublicationTypes
<1>3. CASE QuarantineLinked(i)
  <2>1. CASE step' \in Elsewhere /\ UNCHANGED quarantine
    <3>1. step'.what # "discard" BY <2>1, StepsElsewhere
    <3>2. /\ public' \in {public, [public EXCEPT ![i] = Nil]} /\ blocked' \in {blocked, TRUE}
      BY <1>3 DEF QuarantineLinked
    <3>3. errors' \in 0..MaxErrors
      BY <1>3, PublicationAssumption DEF QuarantineLinked, PublicationTyped, PublicationTypes
    <3>4. UNCHANGED <<given, aside, keptAside, seen, rewritten, movedAside, linked,
                      discarded, intrusions, late>>
      BY <1>3 DEF QuarantineLinked
    <3>5. public' \in [Item -> Artifact \cup {Nil}] /\ blocked' \in BOOLEAN
      BY <3>2 DEF PublicationTyped, PublicationTypes
    <3> QED
      BY <2>1, <3>1, <3>3, <3>4, <3>5, StepsElsewhere DEF PublicationTyped, PublicationTypes
  <2>2. CASE /\ step' = At("discard", i) /\ quarantine' = public[i] /\ public[i] # Nil
             /\ public' = [public EXCEPT ![i] = Nil] /\ UNCHANGED <<blocked, errors>>
    <3>1. step' \in [what : Doing, item : Item] BY <2>2 DEF At, Doing
    <3>2. quarantine' \in Artifact BY <1>2, <2>2
    <3>3. UNCHANGED <<given, aside, keptAside, seen, rewritten, movedAside, linked,
                      discarded, intrusions, late>>
      BY <1>3 DEF QuarantineLinked
    <3> QED BY <2>2, <3>1, <3>2, <3>3 DEF PublicationTyped, PublicationTypes
  <2> QED BY <1>0, <1>1, <1>3, <2>1, <2>2 DEF QuarantineLinked
<1>4. CASE DiscardLinked(i)
  <2>1. step' \in Elsewhere BY <1>0, <1>1, <1>4 DEF DiscardLinked
  <2>2. step'.what # "discard" BY <2>1, StepsElsewhere
  <2>3. quarantine \in Artifact BY <1>4 DEF DiscardLinked, At, PublicationTyped
  <2> QED
    BY <1>4, <2>1, <2>2, <2>3, StepsElsewhere, PublicationAssumption
       DEF DiscardLinked, PublicationTyped, PublicationTypes
<1>5. CASE SetCollisionAside(i)
  <2>1. step' \in Elsewhere
    <3>1. step' = Precedes("collide", i, IF blocked' THEN Then("recovery")
                                         ELSE IF force THEN Undoes
                                         ELSE IF keptAside' # {} THEN Then("preserved")
                                         ELSE Then("refused"))
      BY <1>5 DEF SetCollisionAside
    <3> QED BY <1>0, <1>1, <3>1
  <2>2. step'.what # "discard" BY <2>1, StepsElsewhere
  <2>3. \/ /\ public' = [public EXCEPT ![i] = Nil]
           /\ keptAside' = keptAside \cup {public[i]} /\ public[i] # Nil
        \/ UNCHANGED <<public, keptAside>>
    BY <1>5 DEF SetCollisionAside
  <2>4. UNCHANGED <<given, aside, seen, rewritten, movedAside, linked, quarantine,
                    discarded, intrusions, late>>
    BY <1>5 DEF SetCollisionAside
  <2>5. public' \in [Item -> Artifact \cup {Nil}] /\ keptAside' \subseteq Artifact
    BY <1>2, <2>3 DEF PublicationTyped, PublicationTypes
  <2>6. blocked' \in {blocked, TRUE} BY <1>5 DEF SetCollisionAside
  <2>7. errors' \in 0..MaxErrors
    BY <1>5, PublicationAssumption DEF SetCollisionAside, PublicationTyped, PublicationTypes
  <2> QED
    BY <2>1, <2>2, <2>4, <2>5, <2>6, <2>7, StepsElsewhere DEF PublicationTyped, PublicationTypes
<1> QED BY <1>3, <1>4, <1>5

LEMMA RestorationTyped ==
    ASSUME PublicationTyped, NEW i \in Item,
           RestoreMoved(i) \/ ReturnMoved(i) \/ ConfirmReturned(i)
    PROVE  PublicationTyped'
<1> USE DEF given, paths, work, Fine, Errs
<1>1. step' \in Elsewhere
  <2>1. Then("recovery") \in Elsewhere /\ Then("clean") \in Elsewhere
      BY ElsewhereAre DEF Finals
  <2>2. NextRestored(i) => step' \in Elsewhere
      BY <2>1, NextItems DEF NextRestored, Doing
  <2>3. At("return", i) \in Elsewhere /\ At("confirm", i) \in Elsewhere
      BY ElsewhereAre DEF Doing
  <2> QED BY <2>2, <2>3 DEF RestoreMoved, ReturnMoved, ConfirmReturned
<1>2. step'.what # "discard" BY <1>1, StepsElsewhere
<1>3. /\ public \in [Item -> Artifact \cup {Nil}] /\ aside \in [Item -> Artifact \cup {Nil}]
      /\ public[i] \in Artifact \cup {Nil} /\ aside[i] \in Artifact \cup {Nil}
      /\ blocked \in BOOLEAN /\ errors \in 0..MaxErrors /\ discarded \subseteq Artifact
    BY DEF PublicationTyped, PublicationTypes
<1>4. /\ \/ UNCHANGED <<public, aside, discarded>>
         \/ /\ public' = [public EXCEPT ![i] = aside[i]] /\ aside' = [aside EXCEPT ![i] = Nil]
            /\ discarded' = discarded \cup ({public[i]} \ {Nil})
      /\ blocked' \in {blocked, TRUE}
      /\ UNCHANGED <<given, keptAside, seen, rewritten, movedAside, linked, quarantine,
                     intrusions, late>>
    BY DEF RestoreMoved, ReturnMoved, ConfirmReturned
<1>5. /\ public' \in [Item -> Artifact \cup {Nil}] /\ aside' \in [Item -> Artifact \cup {Nil}]
      /\ discarded' \subseteq Artifact /\ blocked' \in BOOLEAN
    BY <1>3, <1>4
<1>6. errors' \in 0..MaxErrors
    BY <1>3, PublicationAssumption DEF RestoreMoved, ReturnMoved, ConfirmReturned
<1> QED BY <1>1, <1>2, <1>4, <1>5, <1>6, StepsElsewhere DEF PublicationTyped, PublicationTypes

LEMMA OthersTyped ==
    ASSUME PublicationTyped, NEW i \in Item, Intrudes(i) \/ Writes(i)
    PROVE  PublicationTyped'
<1>1. Foreign(i) \in Artifact BY DEF Foreign, Artifact
<1> QED
  BY <1>1 DEF Intrudes, Writes, given, paths, work, PublicationTyped, PublicationTypes

(* A publication keeps its state well formed, disturbed or not.                  *)
LEMMA PublicationStaysTyped == PublicationSpec => []PublicationTypes
<1>1. PublicationTyped /\ [PublicationNext]_publicationVars => PublicationTyped'
  <2> SUFFICES ASSUME PublicationTyped, [PublicationNext]_publicationVars PROVE PublicationTyped'
      OBVIOUS
  <2>1. CASE UNCHANGED publicationVars
    BY <2>1 DEF publicationVars, given, paths, work, bounds, PublicationTyped, PublicationTypes
  <2> QED
    BY <2>1, StagingTyped, LinkingTyped, WithdrawalTyped, RestorationTyped, OthersTyped
       DEF PublicationNext
<1>2. PublicationTyped => PublicationTypes BY DEF PublicationTyped
<1> QED BY <1>1, <1>2, PublicationStartsTyped, PTL DEF PublicationSpec

------------------------------------------------------------------------------
(* The Postgres bridge *)

(* The statement of the call the program waits for, and what it was told of it.  *)
Own(i) == running[i].seq = callSeq
Told(ok) == \E i \in DOMAIN replies : replies[i].seq = callSeq /\ replies[i].ok = ok

Ending == {"commit", "rollback"}

BridgeShapes ==
    /\ callSeq \in 0..LastCall /\ caller \in Caller
    /\ replies \in Seq([seq : Call, ok : BOOLEAN]) /\ running \in Seq(Statement)
    /\ session \in [open : BOOLEAN, failed : BOOLEAN, writes : SUBSET Call]
    /\ generation \in 0..(MaxLosses + 1) /\ txGeneration \in 0..generation
    /\ client \in {0, generation} /\ connecting \in BOOLEAN
    /\ table \subseteq Call /\ stray \in BOOLEAN
    /\ reported \in [committed : SUBSET Call, rolledBack : SUBSET Call, single : SUBSET Call]

(* The worker's queue is in the order of the calls, and Postgres runs it in that *)
(* order; a reply to the last call means that nothing is left of earlier ones.   *)
QueueKnown ==
    /\ \A i \in DOMAIN running : running[i].seq <= callSeq /\ running[i].on = client
    /\ \A i, j \in DOMAIN running :
          i < j => running[i].seq < running[j].seq /\ (running[j].done => running[i].done)
    /\ \A i \in DOMAIN replies : replies[i].seq <= callSeq
    /\ \A w \in table \cup session.writes : w <= callSeq
    /\ caller.waits =>
          /\ Told(TRUE) => running = <<>>
          /\ Told(FALSE) => ~Told(TRUE) /\ \A i \in DOMAIN running : ~Own(i)
          /\ \A i \in DOMAIN running : Own(i) => running[i].kind = caller.kind

SessionKnown ==
    /\ connecting => client = 0
    /\ client = 0 => ~session.open
    /\ ~session.open => session = NoTx

CallerKnown ==
    /\ ~caller.inTx => /\ caller.tried = {} /\ caller.acked = {}
                       /\ ~caller.commitTried /\ ~caller.mustRollBack
                       /\ caller.waits => caller.kind \in {"begin", "write"}
    /\ caller.inTx /\ caller.waits =>
          /\ caller.kind # "begin"
          /\ caller.mustRollBack => caller.kind = "rollback"
          /\ caller.kind = "commit" => caller.commitTried
    /\ caller.commitTried /\ ~caller.mustRollBack => caller.waits /\ caller.kind = "commit"
    /\ \A w \in caller.tried \cup reported.rolledBack : w <= callSeq

(* The program is in a transaction it has not begun to end: its connection is    *)
(* the one it began on, with an open session, or it is lost with all its work.   *)
InTransaction == caller.inTx /\ ~caller.commitTried /\ ~(caller.waits /\ caller.kind = "rollback")

TxKnown ==
    /\ caller.inTx /\ ~(caller.waits /\ caller.mustRollBack) =>
          /\ Len(running) <= 1
          /\ ~caller.mustRollBack => \A i \in DOMAIN running : caller.waits /\ Own(i)
    /\ InTransaction =>
          /\ \A i \in DOMAIN running : running[i].kind = "write"
          /\ txGeneration # 0 /\ caller.tried \cap table = {}
          /\ client = txGeneration => session.open
          /\ client # txGeneration => ~session.open /\ running = <<>>

(* What the program was told is what it may build on: its acknowledged writes    *)
(* are in the session, and its committed ones in the table.                      *)
Acknowledged ==
    /\ InTransaction /\ ~caller.mustRollBack /\ client = txGeneration =>
          /\ caller.acked \subseteq session.writes
          /\ ~caller.waits => ~session.failed
          /\ caller.waits =>
                /\ \A i \in DOMAIN running :
                      /\ ~running[i].done => ~session.failed
                      /\ running[i].done /\ running[i].ok =>
                            ~session.failed /\ callSeq \in session.writes
                /\ Told(TRUE) => ~session.failed /\ callSeq \in session.writes
    /\ caller.waits /\ caller.kind = "commit" =>
          /\ \A i \in DOMAIN running :
                IF running[i].done THEN caller.acked \subseteq table
                ELSE session.open /\ ~session.failed /\ caller.acked \subseteq session.writes
          /\ Told(TRUE) => caller.acked \subseteq table
    /\ caller.waits /\ caller.kind = "begin" =>
          /\ \A i \in DOMAIN running :
                Own(i) /\ running[i].done /\ running[i].ok => session.open /\ ~session.failed
          /\ Told(TRUE) =>
                /\ txGeneration # 0
                /\ IF client = txGeneration THEN session.open /\ ~session.failed
                   ELSE ~session.open
    /\ caller.waits /\ ~caller.inTx /\ caller.kind = "write" /\ ~stray =>
          /\ \A i \in DOMAIN running :
                Own(i) /\ running[i].done /\ running[i].ok => callSeq \in table
          /\ Told(TRUE) => callSeq \in table

(* A write of a transaction that is being, or was, rolled back never gets into   *)
(* the table: it is gone, or a ROLLBACK comes behind it before any COMMIT.       *)
ComesTo(w) == w \in session.writes \/ \E i \in DOMAIN running : ~running[i].done /\ running[i].seq = w

RollsBack(w) ==
    /\ session.open
    /\ \E k \in DOMAIN running :
          /\ running[k].kind = "rollback" /\ ~running[k].done
          /\ \A j \in DOMAIN running : IF j < k THEN running[j].kind = "write"
                                       ELSE running[j].seq # w

Given(w) == w \notin table /\ (ComesTo(w) => RollsBack(w))

TakenBack ==
    /\ \A w \in reported.rolledBack : Given(w)
    /\ caller.inTx /\ caller.waits /\ caller.kind = "rollback" /\ ~caller.commitTried =>
          \A w \in caller.tried : Given(w)

(* While no BEGIN has timed out, a session is open only for the transaction the  *)
(* program is in or on the way to its end.                                       *)
SessionsEnd ==
    ~stray =>
        /\ \A i \in DOMAIN running :
              running[i].kind = "begin" => caller.waits /\ caller.kind = "begin" /\ Own(i)
        /\ session.open =>
              \/ \E k \in DOMAIN running : running[k].kind \in Ending /\ ~running[k].done
              \/ caller.inTx /\ ~(caller.waits /\ caller.kind \in Ending)
              \/ /\ caller.waits /\ caller.kind = "begin"
                 /\ \/ Told(TRUE)
                    \/ \E i \in DOMAIN running : Own(i) /\ running[i].done /\ running[i].ok

BridgeInv ==
    /\ BridgeShapes /\ QueueKnown /\ SessionKnown /\ CallerKnown /\ TxKnown /\ Acknowledged
    /\ TakenBack /\ SessionsEnd /\ ReportsAreTrue

(* How the worker's queue changes.                                               *)
LEMMA QueueDomain ==
    ASSUME NEW q \in Seq(Statement)
    PROVE  /\ Len(q) \in Nat /\ DOMAIN q = 1..Len(q)
           /\ \A i \in DOMAIN q : q[i] \in Statement /\ i \in Nat \ {0} /\ i <= Len(q)
OBVIOUS

LEMMA CallAppended ==
    ASSUME NEW q \in Seq(Statement), NEW s \in Statement
    PROVE  /\ Append(q, s) \in Seq(Statement)
           /\ DOMAIN Append(q, s) = DOMAIN q \cup {Len(q) + 1}
           /\ Append(q, s)[Len(q) + 1] = s
           /\ \A i \in DOMAIN q : Append(q, s)[i] = q[i]
           /\ \A i \in DOMAIN q : i < Len(q) + 1
           /\ Len(Append(q, s)) = Len(q) + 1
BY AppendProperties

LEMMA CallAnswered ==
    ASSUME NEW q \in Seq(Statement), q # <<>>
    PROVE  /\ Head(q) = q[1] /\ q[1] \in Statement /\ 1 \in DOMAIN q
           /\ Tail(q) \in Seq(Statement) /\ Len(Tail(q)) = Len(q) - 1
           /\ \A i \in DOMAIN Tail(q) : /\ i + 1 \in DOMAIN q /\ i + 1 > 1
                                        /\ Tail(q)[i] = q[i + 1]
           /\ \A j \in DOMAIN q : j # 1 => j - 1 \in DOMAIN Tail(q) /\ Tail(q)[j - 1] = q[j]
<1>1. Len(q) \in Nat \ {0} BY EmptySeq
<1>2. /\ Head(q) = q[1] /\ Tail(q) \in Seq(Statement) /\ Len(Tail(q)) = Len(q) - 1
      /\ \A i \in 1..Len(Tail(q)) : Tail(q)[i] = q[i + 1]
    BY HeadTailProperties
<1> DEFINE r == Tail(q)
<1> HIDE DEF r
<1>3. DOMAIN r = 1..Len(r) /\ DOMAIN q = 1..Len(q) BY <1>2 DEF r
<1>4. \A i \in DOMAIN r : i + 1 \in DOMAIN q /\ i + 1 > 1 /\ r[i] = q[i + 1]
    BY <1>1, <1>2, <1>3 DEF r
<1>5. \A j \in DOMAIN q : j # 1 => j - 1 \in DOMAIN r /\ r[j - 1] = q[j]
  <2> SUFFICES ASSUME NEW j \in 1..Len(q), j # 1 PROVE j - 1 \in DOMAIN r /\ r[j - 1] = q[j]
      BY <1>3
  <2>1. j - 1 \in 1..Len(r) /\ (j - 1) + 1 = j BY <1>1, <1>2 DEF r
  <2> QED BY <1>2, <1>3, <2>1 DEF r
<1>6. q[1] \in Statement /\ 1 \in DOMAIN q BY <1>1, <1>3
<1> QED BY <1>2, <1>4, <1>5, <1>6 DEF r

(* A statement that was run is the same statement.                               *)
Ran(q, r, i, ok) ==
    /\ r \in Seq(Statement) /\ DOMAIN r = DOMAIN q
    /\ \A j \in DOMAIN q : r[j].seq = q[j].seq /\ r[j].kind = q[j].kind /\ r[j].on = q[j].on
    /\ \A j \in DOMAIN q : j # i => r[j].done = q[j].done /\ r[j].ok = q[j].ok
    /\ r[i].done = TRUE /\ r[i].ok = ok

LEMMA CallRuns ==
    ASSUME NEW q \in Seq(Statement), NEW i \in DOMAIN q, NEW ok \in BOOLEAN
    PROVE  Ran(q, [q EXCEPT ![i].done = TRUE, ![i].ok = ok], i, ok)
<1> DEFINE s == [q[i] EXCEPT !.done = TRUE, !.ok = ok]
           r == [q EXCEPT ![i] = s]
<1>1. q[i] \in Statement OBVIOUS
<1>2. /\ s \in Statement /\ s.seq = q[i].seq /\ s.kind = q[i].kind /\ s.on = q[i].on
      /\ s.done = TRUE /\ s.ok = ok
    BY <1>1 DEF Statement
<1>3. [q EXCEPT ![i].done = TRUE, ![i].ok = ok] = r OBVIOUS
<1> HIDE DEF s
<1>4. r \in Seq(Statement) /\ DOMAIN r = DOMAIN q /\ r[i] = s
      /\ \A j \in DOMAIN q : j # i => r[j] = q[j]
    BY <1>2
<1> HIDE DEF r
<1>5. Ran(q, r, i, ok) BY <1>2, <1>4 DEF Ran
<1> QED BY <1>3, <1>5

LEMMA ReplyKnown ==
    ASSUME NEW q \in Seq([seq : Call, ok : BOOLEAN])
    PROVE  /\ Len(q) \in Nat /\ DOMAIN q = 1..Len(q)
           /\ \A i \in DOMAIN q : q[i].seq \in Call /\ q[i].ok \in BOOLEAN
<1> DEFINE Reply == [seq : Call, ok : BOOLEAN]
<1>1. \A r \in Reply : r.seq \in Call /\ r.ok \in BOOLEAN OBVIOUS
<1> HIDE DEF Reply
<1>2. q \in Seq(Reply) BY DEF Reply
<1>3. Len(q) \in Nat /\ DOMAIN q = 1..Len(q) /\ \A i \in DOMAIN q : q[i] \in Reply BY <1>2
<1> QED BY <1>1, <1>3

(* What a call and its return leave of the caller.                               *)
LEMMA CallerFields ==
    ASSUME NEW c \in Caller
    PROVE  /\ c.waits \in BOOLEAN /\ c.inTx \in BOOLEAN /\ c.mustRollBack \in BOOLEAN
           /\ c.commitTried \in BOOLEAN
           /\ c.kind \in Kind /\ c.acked \subseteq Call /\ c.tried \subseteq Call
BY DEF Caller

CalledAs(c, kind, n) ==
    [c EXCEPT !.waits = TRUE, !.kind = kind, !.commitTried = @ \/ kind = "commit",
              !.tried = IF c.inTx /\ kind = "write" THEN @ \cup {n} ELSE @]

CallNoted(c, kind, n, d) ==
    /\ d \in Caller /\ d.waits /\ d.kind = kind
    /\ d.inTx = c.inTx /\ d.mustRollBack = c.mustRollBack /\ d.acked = c.acked
    /\ d.commitTried = (c.commitTried \/ kind = "commit")
    /\ d.tried = IF c.inTx /\ kind = "write" THEN c.tried \cup {n} ELSE c.tried

LEMMA CallerCalls ==
    ASSUME NEW c \in Caller, NEW kind \in Kind, NEW n \in Call
    PROVE  CallNoted(c, kind, n, CalledAs(c, kind, n))
<1> DEFINE b == c.commitTried \/ kind = "commit"
           s == IF c.inTx /\ kind = "write" THEN c.tried \cup {n} ELSE c.tried
           d == CalledAs(c, kind, n)
<1>1. b \in BOOLEAN BY Zenon
<1>2. s \subseteq Call BY DEF Caller
<1>3. d = [c EXCEPT !.waits = TRUE, !.kind = kind, !.commitTried = b, !.tried = s]
    BY DEF CalledAs
<1> HIDE DEF b, s, d
<1>4. /\ d \in Caller /\ d.waits = TRUE /\ d.kind = kind
      /\ d.inTx = c.inTx /\ d.mustRollBack = c.mustRollBack /\ d.acked = c.acked
      /\ d.commitTried = b /\ d.tried = s
    BY <1>1, <1>2, <1>3 DEF Caller
<1>5. CallNoted(c, kind, n, d) BY <1>4 DEF CallNoted, b, s
<1> QED BY <1>5 DEF d

LEMMA CallerEnds ==
    ASSUME NEW c \in Caller, NEW d,
           d = [c EXCEPT !.waits = FALSE, !.inTx = FALSE, !.mustRollBack = FALSE,
                         !.commitTried = FALSE, !.acked = {}, !.tried = {}]
    PROVE  /\ d \in Caller /\ ~d.waits /\ ~d.inTx /\ ~d.mustRollBack /\ ~d.commitTried
           /\ d.kind = c.kind /\ d.acked = {} /\ d.tried = {}
BY DEF Caller

(* The program calls: the worker refuses at once or queues the statement.        *)
LEMMA CallsKeep == ASSUME BridgeInv, NEW kind \in Kind, Calls(kind) PROVE BridgeInv'
<1> DEFINE n == callSeq + 1
           s == [seq |-> n, kind |-> kind, on |-> client, done |-> FALSE, ok |-> FALSE]
           refused == kind \in {"write", "commit"} /\ LostMidTx
<1> USE PgBridgeAssumption
<1>1. /\ BridgeShapes /\ QueueKnown /\ SessionKnown /\ CallerKnown /\ TxKnown
      /\ Acknowledged /\ TakenBack /\ SessionsEnd /\ ReportsAreTrue
    BY DEF BridgeInv
<1>2. /\ ~caller.waits /\ callSeq < LastCall /\ callSeq' = n
      /\ UNCHANGED <<client, generation, session, table, reported, stray>>
    BY DEF Calls
<1>3. /\ callSeq \in Nat /\ n \in Call /\ n > callSeq /\ n \in 0..LastCall
      /\ caller \in Caller /\ running \in Seq(Statement)
      /\ replies \in Seq([seq : Call, ok : BOOLEAN])
    BY <1>1, <1>2 DEF BridgeShapes, Call
<1>4. /\ kind = "begin" => ~caller.inTx
      /\ kind = "write" => ~caller.mustRollBack
      /\ kind = "commit" => caller.inTx /\ ~caller.mustRollBack
      /\ kind = "rollback" => caller.inTx
    BY DEF Calls, MayCall
<1>5. /\ caller' \in Caller /\ caller'.waits /\ caller'.kind = kind
      /\ caller'.inTx = caller.inTx /\ caller'.mustRollBack = caller.mustRollBack
      /\ caller'.acked = caller.acked
      /\ caller'.commitTried = (caller.commitTried \/ kind = "commit")
      /\ caller'.tried = IF caller.inTx /\ kind = "write" THEN caller.tried \cup {n}
                         ELSE caller.tried
  <2>1. caller' = CalledAs(caller, kind, n) BY DEF Calls, CalledAs
  <2>2. CallNoted(caller, kind, n, CalledAs(caller, kind, n))
    <3> HIDE DEF n
    <3> QED BY <1>3, CallerCalls
  <2>3. CallNoted(caller, kind, n, caller') BY <2>1, <2>2
  <2> QED BY <2>3 DEF CallNoted
<1>6. /\ txGeneration' \in {0, txGeneration}
      /\ kind \in {"begin", "write"} => txGeneration' = txGeneration
    BY DEF Calls, RunQuery
<1>7. /\ refused => /\ replies' = Append(replies, [seq |-> n, ok |-> FALSE])
                    /\ running' = running /\ connecting' = connecting
      /\ ~refused => /\ running' = Append(running, s)
                     /\ connecting' = (connecting \/ client = 0) /\ replies' = replies
    BY DEF Calls, RunQuery
<1>8. LostMidTx => client # txGeneration
    BY <1>1 DEF LostMidTx, BridgeShapes
<1>9. ~LostMidTx /\ txGeneration # 0 => client = txGeneration
    BY <1>1 DEF LostMidTx, BridgeShapes
<1>10. s \in Statement
  <2>1. client \in 0..(MaxLosses + 1) BY <1>1 DEF BridgeShapes
  <2> QED BY <1>3, <2>1 DEF Statement
<1> HIDE DEF LostMidTx
<1>11. /\ running' \in Seq(Statement)
       /\ \A i \in DOMAIN running : i \in DOMAIN running' /\ running'[i] = running[i]
       /\ refused => running' = running
       /\ ~refused => /\ DOMAIN running' = DOMAIN running \cup {Len(running) + 1}
                      /\ running'[Len(running) + 1] = s
                      /\ Len(running') = Len(running) + 1
                      /\ \A i \in DOMAIN running : i < Len(running) + 1
  <2>1. CASE refused BY <1>3, <1>7, <2>1
  <2>2. CASE ~refused
    <3>1. running' = Append(running, s) BY <1>7, <2>2
    <3> HIDE DEF s
    <3>2. /\ running' \in Seq(Statement) /\ DOMAIN running' = DOMAIN running \cup {Len(running) + 1}
          /\ running'[Len(running) + 1] = s /\ Len(running') = Len(running) + 1
          /\ \A i \in DOMAIN running : running'[i] = running[i] /\ i < Len(running) + 1
        BY <1>3, <1>10, <3>1, CallAppended
    <3> HIDE DEF refused
    <3> QED BY <2>2, <3>2
  <2> QED BY <2>1, <2>2
<1>12. s.seq = n /\ s.kind = kind /\ s.on = client /\ s.done = FALSE OBVIOUS
<1> HIDE DEF s
<1>13. /\ replies' \in Seq([seq : Call, ok : BOOLEAN])
       /\ \A i \in DOMAIN replies' : replies'[i].seq <= n
       /\ ~Told(TRUE)'
       /\ ~refused => ~Told(FALSE)'
  <2> DEFINE r == [seq |-> n, ok |-> FALSE]
  <2>1. r \in [seq : Call, ok : BOOLEAN] /\ r.seq = n /\ r.ok = FALSE BY <1>3
  <2> HIDE DEF r
  <2>2. \A i \in DOMAIN replies : replies[i].seq <= callSeq /\ replies[i].seq \in Int
    <3>1. \A i \in DOMAIN replies : replies[i].seq \in Call BY <1>3, ReplyKnown
    <3> QED BY <1>1, <3>1 DEF QueueKnown, Call
  <2>3. CASE ~refused BY <1>2, <1>3, <1>7, <2>2, <2>3 DEF Told
  <2>4. CASE refused
    <3>1. replies' = Append(replies, r) BY <1>7, <2>4 DEF r
    <3>2. /\ replies' \in Seq([seq : Call, ok : BOOLEAN])
          /\ \A i \in DOMAIN replies' : (i \in DOMAIN replies /\ replies'[i] = replies[i])
                                        \/ replies'[i] = r
        BY <1>3, <2>1, <3>1, AppendProperties
    <3> QED BY <1>2, <1>3, <2>1, <2>2, <2>4, <3>2 DEF Told
  <2> QED BY <2>3, <2>4
<1> HIDE DEF n
<1>14. /\ \A i \in DOMAIN running : running[i] \in Statement /\ running[i].seq \in Int
       /\ \A i \in DOMAIN running : i \in Nat
       /\ Len(running) \in Nat /\ n \in Int
  <2>1. \A i \in DOMAIN running : running[i] \in Statement /\ i \in Nat
      BY <1>3, QueueDomain
  <2>2. \A i \in DOMAIN running : running[i].seq \in Int BY <2>1 DEF Statement, Call
  <2>3. Len(running) \in Nat /\ n \in Int BY <1>3, QueueDomain DEF Call
  <2> QED BY <2>1, <2>2, <2>3
<1>15. BridgeShapes'
  <2>1. connecting' \in BOOLEAN
    <3>1. CASE refused BY <1>1, <1>7, <3>1 DEF BridgeShapes
    <3>2. CASE ~refused BY <1>7, <3>2, Zenon
    <3> QED BY <3>1, <3>2
  <2>2. txGeneration' \in 0..generation' BY <1>1, <1>2, <1>6 DEF BridgeShapes
  <2> QED BY <1>1, <1>2, <1>3, <1>5, <1>11, <1>13, <2>1, <2>2 DEF BridgeShapes
<1>16. \A i \in DOMAIN running : running[i].seq <= callSeq /\ running[i].seq # n
    BY <1>1, <1>3, <1>14 DEF QueueKnown
<1>17. QueueKnown'
  <2>1. \A i \in DOMAIN running' : running'[i].seq <= n /\ running'[i].on = client
    <3> SUFFICES ASSUME NEW i \in DOMAIN running'
                 PROVE  running'[i].seq <= n /\ running'[i].on = client
        OBVIOUS
    <3>1. CASE i \in DOMAIN running
        BY <1>1, <1>3, <1>11, <1>14, <1>16, <3>1 DEF QueueKnown
    <3>2. CASE i \notin DOMAIN running
      <4>1. running'[i] = s BY <1>11, <3>2
      <4> QED BY <1>12, <1>14, <4>1
    <3> QED BY <3>1, <3>2
  <2>2. ASSUME NEW i \in DOMAIN running', NEW j \in DOMAIN running', i < j
        PROVE  running'[i].seq < running'[j].seq /\ (running'[j].done => running'[i].done)
    <3>1. CASE j \in DOMAIN running
      <4>1. i \in DOMAIN running BY <1>11, <1>14, <2>2, <3>1
      <4> QED BY <1>1, <1>11, <2>2, <3>1, <4>1 DEF QueueKnown
    <3>2. CASE j \notin DOMAIN running
      <4>1. running'[j] = s /\ j = Len(running) + 1 BY <1>11, <3>2
      <4>2. i \in DOMAIN running BY <1>11, <1>14, <2>2, <4>1
      <4> QED BY <1>3, <1>11, <1>12, <1>14, <1>16, <4>1, <4>2
    <3> QED BY <3>1, <3>2
  <2>3. \A w \in table' \cup session'.writes : w <= callSeq'
    <3>1. \A w \in table \cup session.writes : w <= callSeq /\ w \in Int
        BY <1>1 DEF QueueKnown, BridgeShapes, Call
    <3> QED BY <1>2, <1>3, <1>14, <3>1
  <2>4. \A i \in DOMAIN running' : Own(i)' => ~refused /\ running'[i].kind = caller'.kind
    <3> SUFFICES ASSUME NEW i \in DOMAIN running', running'[i].seq = n
                 PROVE  ~refused /\ running'[i].kind = kind
        BY <1>2, <1>5 DEF Own
    <3>1. i \notin DOMAIN running BY <1>11, <1>16
    <3>2. ~refused /\ running'[i] = s BY <1>11, <3>1
    <3> QED BY <1>12, <3>2
  <2>5. Told(FALSE)' => \A i \in DOMAIN running' : ~Own(i)' BY <1>13, <2>4
  <2> QED BY <1>2, <1>13, <2>1, <2>2, <2>3, <2>4, <2>5 DEF QueueKnown
<1>18. SessionKnown'
  <2>1. connecting' => client = 0
    <3>1. CASE refused BY <1>1, <1>7, <3>1 DEF SessionKnown
    <3>2. CASE ~refused BY <1>1, <1>7, <3>2 DEF SessionKnown
    <3> QED BY <3>1, <3>2
  <2> QED BY <1>1, <1>2, <2>1 DEF SessionKnown, NoTx
<1>19. CallerKnown'
  <2>1. \A w \in caller.tried \cup reported.rolledBack : w <= n
    <3>1. \A w \in caller.tried \cup reported.rolledBack : w <= callSeq /\ w \in Int
        BY <1>1 DEF CallerKnown, BridgeShapes, Caller, Call
    <3> QED BY <1>3, <1>14, <3>1
  <2>2. n <= n BY <1>14
  <2> QED BY <1>1, <1>2, <1>4, <1>5, <2>1, <2>2 DEF CallerKnown, Kind
\* The statement that is queued is the last.
<1>20. \A i \in DOMAIN running' :
          /\ Own(i)' <=> running'[i] = s
          /\ ~Own(i)' => i \in DOMAIN running
          /\ Own(i)' => ~refused /\ i = Len(running) + 1
  <2> SUFFICES ASSUME NEW i \in DOMAIN running'
               PROVE  /\ running'[i].seq = n <=> running'[i] = s
                      /\ running'[i].seq # n => i \in DOMAIN running
                      /\ running'[i].seq = n => ~refused /\ i = Len(running) + 1
      BY <1>2 DEF Own
  <2>1. CASE i \in DOMAIN running BY <1>11, <1>12, <1>16, <2>1
  <2>2. CASE i \notin DOMAIN running BY <1>11, <1>12, <2>2
  <2> QED BY <2>1, <2>2
\* A program in a transaction it may go on with has an idle worker.
<1>21. caller.inTx /\ ~caller.mustRollBack =>
          /\ running = <<>> /\ ~caller.commitTried
          /\ InTransaction /\ DOMAIN running = {}
  <2> SUFFICES ASSUME caller.inTx, ~caller.mustRollBack
               PROVE  /\ running = <<>> /\ ~caller.commitTried
                      /\ InTransaction /\ DOMAIN running = {}
      OBVIOUS
  <2>1. DOMAIN running = {} BY <1>1, <1>2 DEF TxKnown
  <2>2. running = <<>> BY <1>3, <2>1, QueueDomain, EmptySeq
  <2>3. ~caller.commitTried BY <1>1, <1>2 DEF CallerKnown
  <2> QED BY <1>2, <2>1, <2>2, <2>3 DEF InTransaction
<1>22. InTransaction' => InTransaction /\ kind = "write" /\ ~caller.mustRollBack
    BY <1>2, <1>4, <1>5, <1>21 DEF InTransaction, Kind
<1>23. InTransaction => /\ txGeneration # 0 /\ caller.tried \cap table = {}
                        /\ client = txGeneration => session.open
                        /\ client # txGeneration => ~session.open /\ running = <<>>
                        /\ \A i \in DOMAIN running : running[i].kind = "write"
    BY <1>1 DEF TxKnown
<1>24. InTransaction /\ kind \in {"write", "commit"} => (refused <=> client # txGeneration)
    BY <1>8, <1>9, <1>23
<1>25. TxKnown'
  <2>1. CASE caller.inTx /\ ~caller.mustRollBack
    <3>1. \A i \in DOMAIN running' : Own(i)' BY <1>20, <1>21, <2>1
    <3>2. Len(running') <= 1
      <4>1. Len(running) = 0 BY <1>3, <1>21, <2>1, EmptySeq
      <4> QED BY <1>11, <4>1
    <3>3. InTransaction' =>
            /\ \A i \in DOMAIN running' : running'[i].kind = "write"
            /\ txGeneration' # 0 /\ caller'.tried \cap table' = {}
            /\ client' = txGeneration' => session'.open
            /\ client' # txGeneration' => ~session'.open /\ running' = <<>>
      <4> SUFFICES ASSUME InTransaction'
            PROVE  /\ \A i \in DOMAIN running' : running'[i].kind = "write"
                   /\ txGeneration' # 0 /\ caller'.tried \cap table' = {}
                   /\ client' = txGeneration' => session'.open
                   /\ client' # txGeneration' => ~session'.open /\ running' = <<>>
          OBVIOUS
      <4>1. kind = "write" /\ InTransaction /\ txGeneration' = txGeneration BY <1>6, <1>22
      <4>2. n \notin table BY <1>1, <1>3, <1>14 DEF QueueKnown
      <4>3. \A i \in DOMAIN running' : running'[i].kind = "write"
          BY <1>12, <1>20, <3>1, <4>1
      <4> QED BY <1>2, <1>5, <1>11, <1>21, <1>23, <1>24, <2>1, <4>1, <4>2, <4>3
    <3> QED BY <1>5, <2>1, <3>1, <3>2, <3>3 DEF TxKnown
  <2>2. CASE ~(caller.inTx /\ ~caller.mustRollBack)
    <3>1. ~InTransaction'
      <4>1. InTransaction' => caller.inTx BY <1>5 DEF InTransaction
      <4> QED BY <1>22, <2>2, <4>1
    <3> QED BY <1>5, <2>2, <3>1 DEF TxKnown
  <2> QED BY <2>1, <2>2
<1>26. Acknowledged'
  <2>1. InTransaction' /\ client' = txGeneration' =>
            /\ caller'.acked \subseteq session'.writes
            /\ ~session'.failed
      BY <1>1, <1>2, <1>5, <1>6, <1>22 DEF Acknowledged
  <2>2. \A i \in DOMAIN running' : Own(i)' => ~running'[i].done BY <1>12, <1>20
  <2>3. InTransaction' => \A i \in DOMAIN running' : ~running'[i].done
      BY <1>20, <1>21, <1>22, <2>2 DEF InTransaction
  <2>4. kind = "commit" => \A i \in DOMAIN running' :
            /\ ~running'[i].done
            /\ session.open /\ ~session.failed /\ caller.acked \subseteq session.writes
    <3> SUFFICES ASSUME kind = "commit", NEW i \in DOMAIN running'
                 PROVE  /\ ~running'[i].done
                        /\ session.open /\ ~session.failed /\ caller.acked \subseteq session.writes
        OBVIOUS
    <3>1. caller.inTx /\ ~caller.mustRollBack BY <1>4
    <3>2. Own(i)' BY <1>20, <1>21, <3>1
    <3>3. client = txGeneration BY <1>20, <1>21, <1>24, <3>1, <3>2
    <3> QED BY <1>1, <1>2, <1>21, <1>23, <2>2, <3>1, <3>2, <3>3 DEF Acknowledged
  <2> QED BY <1>2, <1>5, <1>13, <2>1, <2>2, <2>3, <2>4 DEF Acknowledged
<1>27. TakenBack'
  <2>1. \A w : w <= callSeq => w # n BY <1>3
  <2>2. \A w \in Int : (w <= callSeq /\ ComesTo(w)') => ComesTo(w)
    <3> SUFFICES ASSUME NEW w \in Int, w <= callSeq, ComesTo(w)', w \notin session.writes
                 PROVE  ComesTo(w)
        BY DEF ComesTo
    <3>1. PICK i \in DOMAIN running' : ~running'[i].done /\ running'[i].seq = w
        BY <1>2 DEF ComesTo
    <3>2. i \in DOMAIN running BY <1>3, <1>12, <1>20, <3>1
    <3> QED BY <1>11, <3>1, <3>2 DEF ComesTo
  <2>3. \A w \in Int : (w <= callSeq /\ RollsBack(w)) => RollsBack(w)'
    <3> SUFFICES ASSUME NEW w \in Int, w <= callSeq, RollsBack(w) PROVE RollsBack(w)' OBVIOUS
    <3>1. PICK k \in DOMAIN running :
             /\ running[k].kind = "rollback" /\ ~running[k].done
             /\ \A j \in DOMAIN running : IF j < k THEN running[j].kind = "write"
                                          ELSE running[j].seq # w
        BY DEF RollsBack
    <3>2. k \in DOMAIN running' /\ running'[k] = running[k] BY <1>11
    <3>3. ASSUME NEW j \in DOMAIN running'
          PROVE  IF j < k THEN running'[j].kind = "write" ELSE running'[j].seq # w
      <4>1. CASE j \in DOMAIN running BY <1>11, <3>1, <4>1
      <4>2. CASE j \notin DOMAIN running
        <5>1. running'[j].seq = n /\ j = Len(running) + 1 BY <1>12, <1>20, <4>2
        <5>2. ~(j < k) BY <1>11, <1>14, <1>20, <4>2, <5>1
        <5> QED BY <1>3, <5>1, <5>2
      <4> QED BY <4>1, <4>2
    <3>4. session.open BY DEF RollsBack
    <3> QED BY <1>2, <3>1, <3>2, <3>3, <3>4 DEF RollsBack
  <2>4. ASSUME NEW w \in reported.rolledBack PROVE Given(w)'
    <3>1. w \in Int /\ w <= callSeq /\ Given(w)
        BY <1>1 DEF CallerKnown, TakenBack, BridgeShapes, Call
    <3> QED BY <1>2, <2>2, <2>3, <3>1 DEF Given
  <2>5. ASSUME kind = "rollback", ~caller.commitTried, NEW w \in caller.tried PROVE Given(w)'
    <3>1. InTransaction BY <1>2, <1>4, <2>5 DEF InTransaction
    <3>2. w \notin table BY <1>23, <3>1
    <3>3. w \in Int /\ w <= callSeq BY <1>1 DEF CallerKnown, BridgeShapes, Caller, Call
    <3>4. ComesTo(w)' => session.open
      <4>1. CASE w \in session.writes BY <1>1, <4>1 DEF SessionKnown, NoTx
      <4>2. CASE w \notin session.writes
        <5>1. ComesTo(w)' => \E i \in DOMAIN running : TRUE
            BY <2>2, <3>3, <4>2 DEF ComesTo
        <5>2. running = <<>> => DOMAIN running = {} BY <1>3, QueueDomain, EmptySeq
        <5> QED BY <1>23, <3>1, <5>1, <5>2
      <4> QED BY <4>1, <4>2
    <3>5. session.open => RollsBack(w)'
      <4> DEFINE k == Len(running) + 1
      <4>1. ~refused BY <2>5
      <4>2. k \in DOMAIN running' /\ running'[k] = s BY <1>11, <4>1
      <4>3. ASSUME NEW j \in DOMAIN running'
            PROVE  IF j < k THEN running'[j].kind = "write" ELSE running'[j].seq # w
        <5>1. CASE j \in DOMAIN running BY <1>11, <1>23, <3>1, <4>1, <5>1
        <5>2. CASE j \notin DOMAIN running
          <6>1. j = k /\ running'[j].seq = n BY <1>12, <1>20, <5>2
          <6>2. k \in Int BY <1>14
          <6> QED BY <1>3, <3>3, <6>1, <6>2
        <5> QED BY <5>1, <5>2
      <4> QED BY <1>2, <1>12, <2>5, <4>2, <4>3 DEF RollsBack
    <3> QED BY <1>2, <3>2, <3>4, <3>5 DEF Given
  <2> QED BY <1>2, <1>5, <2>4, <2>5 DEF TakenBack
<1>28. SessionsEnd'
  <2> SUFFICES ASSUME ~stray PROVE SessionsEnd' BY <1>2 DEF SessionsEnd
  <2>1. \A i \in DOMAIN running' : running'[i].kind = "begin" => kind = "begin" /\ Own(i)'
    <3>1. \A i \in DOMAIN running : running[i].kind # "begin"
        BY <1>1, <1>2 DEF SessionsEnd
    <3> QED BY <1>11, <1>12, <1>20, <3>1
  <2>2. session.open =>
           \/ \E k \in DOMAIN running' : running'[k].kind \in Ending /\ ~running'[k].done
           \/ caller.inTx /\ kind \notin Ending
    <3> SUFFICES ASSUME session.open
                 PROVE  \/ \E k \in DOMAIN running' :
                              running'[k].kind \in Ending /\ ~running'[k].done
                        \/ caller.inTx /\ kind \notin Ending
        OBVIOUS
    <3>1. CASE \E k \in DOMAIN running : running[k].kind \in Ending /\ ~running[k].done
        BY <1>11, <3>1
    <3>2. CASE caller.inTx /\ kind \in Ending
      <4>1. ~refused BY <1>4, <1>21, <1>23, <1>24, <3>2 DEF Ending
      <4> QED BY <1>11, <1>12, <3>2, <4>1
    <3> QED BY <1>1, <1>2, <3>1, <3>2 DEF SessionsEnd
  <2> QED BY <1>2, <1>5, <2>1, <2>2 DEF SessionsEnd
<1>29. ReportsAreTrue' BY <1>1, <1>2 DEF ReportsAreTrue
<1> QED BY <1>15, <1>17, <1>18, <1>19, <1>25, <1>26, <1>27, <1>28, <1>29 DEF BridgeInv

(* What a call that comes back leaves of the caller.                             *)
Over(c, ok) == (c.kind = "commit" /\ ok) \/ c.kind = "rollback"

ReturnedAs(c, ok, n) ==
    CASE c.kind = "begin" /\ ok -> [c EXCEPT !.waits = FALSE, !.inTx = TRUE]
      [] c.kind = "write" /\ ok /\ c.inTx -> [c EXCEPT !.waits = FALSE, !.acked = @ \cup {n}]
      [] c.kind \in {"write", "commit"} /\ ~ok /\ c.inTx ->
            [c EXCEPT !.waits = FALSE, !.mustRollBack = TRUE]
      [] (c.kind = "commit" /\ ok) \/ c.kind = "rollback" ->
            [c EXCEPT !.waits = FALSE, !.inTx = FALSE, !.mustRollBack = FALSE,
                      !.commitTried = FALSE, !.acked = {}, !.tried = {}]
      [] OTHER -> [c EXCEPT !.waits = FALSE]

ReturnNoted(c, ok, n, d) ==
    /\ d \in Caller /\ ~d.waits /\ d.kind = c.kind
    /\ Over(c, ok) => /\ ~d.inTx /\ ~d.mustRollBack /\ ~d.commitTried
                      /\ d.acked = {} /\ d.tried = {}
    /\ ~Over(c, ok) =>
          /\ d.inTx <=> c.inTx \/ (c.kind = "begin" /\ ok)
          /\ d.mustRollBack <=> c.mustRollBack \/ (c.kind \in {"write", "commit"} /\ ~ok /\ c.inTx)
          /\ d.commitTried <=> c.commitTried
          /\ d.acked = c.acked \cup (IF c.kind = "write" /\ ok /\ c.inTx THEN {n} ELSE {})
          /\ d.tried = c.tried

LEMMA CallerReturns ==
    ASSUME NEW c \in Caller, NEW ok \in BOOLEAN, NEW n, ok => n \in Call
    PROVE  ReturnNoted(c, ok, n, ReturnedAs(c, ok, n))
<1> DEFINE d == ReturnedAs(c, ok, n)
<1>1. c.kind \in Kind /\ c.inTx \in BOOLEAN BY CallerFields
<1>2. CASE c.kind = "begin" /\ ok
  <2>1. d = [c EXCEPT !.waits = FALSE, !.inTx = TRUE] BY <1>2 DEF ReturnedAs
  <2> HIDE DEF d
  <2>2. /\ d \in Caller /\ ~d.waits /\ d.inTx /\ d.kind = c.kind
        /\ d.mustRollBack = c.mustRollBack /\ d.commitTried = c.commitTried
        /\ d.acked = c.acked /\ d.tried = c.tried
      BY <2>1 DEF Caller
  <2>3. ReturnNoted(c, ok, n, d) BY <1>2, <2>2 DEF ReturnNoted, Over
  <2> QED BY <2>3 DEF d
<1>3. CASE c.kind = "write" /\ ok /\ c.inTx
  <2>1. d = [c EXCEPT !.waits = FALSE, !.acked = @ \cup {n}] BY <1>3 DEF ReturnedAs
  <2> HIDE DEF d
  <2>2. /\ d \in Caller /\ ~d.waits /\ d.inTx = c.inTx /\ d.kind = c.kind
        /\ d.mustRollBack = c.mustRollBack /\ d.commitTried = c.commitTried
        /\ d.acked = c.acked \cup {n} /\ d.tried = c.tried
      BY <1>3, <2>1 DEF Caller
  <2>3. ReturnNoted(c, ok, n, d) BY <1>3, <2>2 DEF ReturnNoted, Over
  <2> QED BY <2>3 DEF d
<1>4. CASE c.kind \in {"write", "commit"} /\ ~ok /\ c.inTx
  <2>1. d = [c EXCEPT !.waits = FALSE, !.mustRollBack = TRUE] BY <1>4 DEF ReturnedAs
  <2> HIDE DEF d
  <2>2. /\ d \in Caller /\ ~d.waits /\ d.inTx = c.inTx /\ d.kind = c.kind
        /\ d.mustRollBack /\ d.commitTried = c.commitTried
        /\ d.acked = c.acked /\ d.tried = c.tried
      BY <2>1 DEF Caller
  <2>3. ReturnNoted(c, ok, n, d) BY <1>4, <2>2 DEF ReturnNoted, Over
  <2> QED BY <2>3 DEF d
<1>5. CASE Over(c, ok)
  <2>1. d = [c EXCEPT !.waits = FALSE, !.inTx = FALSE, !.mustRollBack = FALSE,
                      !.commitTried = FALSE, !.acked = {}, !.tried = {}]
      BY <1>5 DEF ReturnedAs, Over
  <2> HIDE DEF d
  <2>2. ReturnNoted(c, ok, n, d) BY <1>5, <2>1, CallerEnds DEF ReturnNoted
  <2> QED BY <2>2 DEF d
<1>6. CASE ~(c.kind = "begin" /\ ok) /\ ~Over(c, ok) /\ ~(c.kind \in {"write", "commit"} /\ c.inTx)
  <2>1. d = [c EXCEPT !.waits = FALSE] BY <1>6 DEF ReturnedAs, Over
  <2> HIDE DEF d
  <2>2. /\ d \in Caller /\ ~d.waits /\ d.inTx = c.inTx /\ d.kind = c.kind
        /\ d.mustRollBack = c.mustRollBack /\ d.commitTried = c.commitTried
        /\ d.acked = c.acked /\ d.tried = c.tried
      BY <2>1 DEF Caller
  <2>3. ReturnNoted(c, ok, n, d) BY <1>6, <2>2 DEF ReturnNoted
  <2> QED BY <2>3 DEF d
<1> QED BY <1>1, <1>2, <1>3, <1>4, <1>5, <1>6 DEF Kind, Over

(* A call comes back: with a reply, or with a timeout.                           *)
LEMMA ReturnKeeps ==
    ASSUME BridgeInv, NEW ok \in BOOLEAN, caller.waits, Returns(ok),
           UNCHANGED <<callSeq, client, connecting, generation, txGeneration, running, session,
                       table>>,
           replies' \in Seq([seq : Call, ok : BOOLEAN]),
           \A i \in DOMAIN replies' : replies'[i].seq <= callSeq,
           ok => Told(TRUE), caller.kind = "begin" => ok \/ Told(FALSE) \/ stray',
           stray => stray', stray' \in BOOLEAN
    PROVE  BridgeInv'
<1> DEFINE over == Over(caller, ok)
<1>1. /\ BridgeShapes /\ QueueKnown /\ SessionKnown /\ CallerKnown /\ TxKnown
      /\ Acknowledged /\ TakenBack /\ SessionsEnd /\ ReportsAreTrue
    BY DEF BridgeInv
<1>2. caller \in Caller /\ running \in Seq(Statement) /\ caller.kind \in Kind
      /\ replies \in Seq([seq : Call, ok : BOOLEAN])
    BY <1>1, CallerFields DEF BridgeShapes
<1>3. ok => callSeq \in Call BY <1>2, ReplyKnown DEF Told
<1>4. caller' = ReturnedAs(caller, ok, callSeq) BY DEF Returns, ReturnedAs
<1>5. ReturnNoted(caller, ok, callSeq, caller') BY <1>2, <1>3, <1>4, CallerReturns
<1>6. /\ caller' \in Caller /\ ~caller'.waits /\ caller'.kind = caller.kind
      /\ over => /\ ~caller'.inTx /\ ~caller'.mustRollBack /\ ~caller'.commitTried
                 /\ caller'.acked = {} /\ caller'.tried = {}
      /\ ~over =>
          /\ caller'.inTx <=> caller.inTx \/ (caller.kind = "begin" /\ ok)
          /\ caller'.mustRollBack <=> caller.mustRollBack
                                      \/ (caller.kind \in {"write", "commit"} /\ ~ok /\ caller.inTx)
          /\ caller'.commitTried <=> caller.commitTried
          /\ caller'.acked = caller.acked \cup (IF caller.kind = "write" /\ ok /\ caller.inTx
                                                THEN {callSeq} ELSE {})
          /\ caller'.tried = caller.tried
    BY <1>5 DEF ReturnNoted
<1>7. /\ reported' \in [committed : SUBSET Call, rolledBack : SUBSET Call, single : SUBSET Call]
      /\ reported'.committed = reported.committed \cup
               (IF caller.kind = "commit" /\ ok THEN caller.acked ELSE {})
      /\ reported'.rolledBack = reported.rolledBack \cup
               (IF caller.kind = "rollback" /\ ~caller.commitTried THEN caller.tried ELSE {})
      /\ reported'.single = reported.single \cup
               (IF caller.kind = "write" /\ ok /\ ~caller.inTx THEN {callSeq} ELSE {})
  <2> DEFINE a == reported.committed \cup
                    (IF caller.kind = "commit" /\ ok THEN caller.acked ELSE {})
             b == reported.rolledBack \cup
                    (IF caller.kind = "rollback" /\ ~caller.commitTried THEN caller.tried ELSE {})
             c == reported.single \cup
                    (IF caller.kind = "write" /\ ok /\ ~caller.inTx THEN {callSeq} ELSE {})
  <2>1. reported' = [committed |-> a, rolledBack |-> b, single |-> c] BY DEF Returns
  <2>2. /\ caller.acked \subseteq Call /\ caller.tried \subseteq Call
        /\ reported.committed \subseteq Call /\ reported.rolledBack \subseteq Call
        /\ reported.single \subseteq Call
      BY <1>1, <1>2, CallerFields DEF BridgeShapes
  <2>3. a \subseteq Call /\ b \subseteq Call /\ c \subseteq Call BY <1>3, <2>2
  <2> HIDE DEF a, b, c
  <2>4. /\ reported' \in [committed : SUBSET Call, rolledBack : SUBSET Call, single : SUBSET Call]
        /\ reported'.committed = a /\ reported'.rolledBack = b /\ reported'.single = c
      BY <2>1, <2>3
  <2> QED BY <2>4 DEF a, b, c
<1>8. over <=> (caller.kind = "commit" /\ ok) \/ caller.kind = "rollback" BY DEF Over
<1> HIDE DEF over
<1>9. ok => Told(TRUE) /\ running = <<>> /\ DOMAIN running = {} /\ Len(running) <= 1
  <2>1. Told(TRUE) => running = <<>> BY <1>1 DEF QueueKnown
  <2>2. running = <<>> => DOMAIN running = {} /\ Len(running) <= 1
      BY <1>2, QueueDomain, EmptySeq
  <2> QED BY <2>1, <2>2
\* In a transaction the call was a write, or its end.
<1>10. caller.inTx => /\ caller.kind # "begin"
                      /\ caller.mustRollBack => caller.kind = "rollback"
                      /\ caller.kind = "commit" => caller.commitTried
    BY <1>1 DEF CallerKnown
<1>11. ~caller.inTx => /\ caller.tried = {} /\ caller.acked = {} /\ ~caller.commitTried
                       /\ ~caller.mustRollBack /\ caller.kind \in {"begin", "write"}
    BY <1>1 DEF CallerKnown
<1>12. BridgeShapes' BY <1>1, <1>6, <1>7 DEF BridgeShapes
<1>13. QueueKnown' BY <1>1, <1>6 DEF QueueKnown
<1>14. SessionKnown' BY <1>1 DEF SessionKnown, NoTx
<1>15. CallerKnown'
  <2>1. ~caller'.inTx => /\ caller'.tried = {} /\ caller'.acked = {}
                         /\ ~caller'.commitTried /\ ~caller'.mustRollBack
      BY <1>6, <1>11
  <2>2. ~(caller'.commitTried /\ ~caller'.mustRollBack)
    <3> SUFFICES ASSUME caller'.commitTried, ~caller'.mustRollBack PROVE FALSE OBVIOUS
    <3>1. ~over /\ caller.commitTried /\ ~caller.mustRollBack BY <1>6
    <3>2. caller.kind = "commit" /\ caller.inTx BY <1>1, <1>11, <3>1 DEF CallerKnown
    <3> QED BY <1>6, <1>8, <3>1, <3>2
  <2>3. \A w \in caller'.tried \cup reported'.rolledBack : w <= callSeq
      BY <1>1, <1>6, <1>7 DEF CallerKnown
  <2> QED BY <1>6, <2>1, <2>2, <2>3 DEF CallerKnown
\* What is still a transaction was one, or its BEGIN has worked.
<1>16. caller'.inTx => \/ caller.kind = "begin" /\ ok /\ ~caller.inTx
                       \/ caller.inTx /\ caller.kind \in {"write", "commit"} /\ ~caller.mustRollBack
    BY <1>2, <1>6, <1>8, <1>10 DEF Kind
<1>17. InTransaction' => \/ caller.kind = "begin" /\ ok /\ ~caller.inTx
                         \/ InTransaction /\ caller.kind = "write" /\ ~caller.mustRollBack
  <2> SUFFICES ASSUME InTransaction', ~(caller.kind = "begin" /\ ok /\ ~caller.inTx)
               PROVE  InTransaction /\ caller.kind = "write" /\ ~caller.mustRollBack
      OBVIOUS
  <2>1. caller'.inTx /\ ~caller'.commitTried BY DEF InTransaction
  <2>2. caller.inTx /\ caller.kind \in {"write", "commit"} /\ ~caller.mustRollBack BY <1>16, <2>1
  <2>3. ~over /\ ~caller.commitTried BY <1>6, <2>1
  <2> QED BY <1>10, <2>2, <2>3 DEF InTransaction
<1>18. ok /\ caller.kind = "begin" =>
          /\ txGeneration # 0
          /\ client = txGeneration => session.open /\ ~session.failed
          /\ client # txGeneration => ~session.open
    BY <1>1, <1>9 DEF Acknowledged
<1>19. TxKnown'
  <2>1. caller'.inTx => Len(running) <= 1 /\ (~caller'.mustRollBack => DOMAIN running = {})
    <3> SUFFICES ASSUME caller'.inTx, ~ok
                 PROVE  Len(running) <= 1 /\ caller'.mustRollBack
        BY <1>9
    <3>1. caller.inTx /\ caller.kind \in {"write", "commit"} /\ ~caller.mustRollBack BY <1>16
    <3> QED BY <1>1, <1>6, <1>8, <3>1 DEF TxKnown
  <2>2. InTransaction' =>
            /\ \A i \in DOMAIN running : running[i].kind = "write"
            /\ txGeneration # 0 /\ caller'.tried \cap table = {}
            /\ client = txGeneration => session.open
            /\ client # txGeneration => ~session.open /\ running = <<>>
    <3> SUFFICES ASSUME InTransaction'
                 PROVE  /\ \A i \in DOMAIN running : running[i].kind = "write"
                        /\ txGeneration # 0 /\ caller'.tried \cap table = {}
                        /\ client = txGeneration => session.open
                        /\ client # txGeneration => ~session.open /\ running = <<>>
        OBVIOUS
    <3>1. CASE caller.kind = "begin" /\ ok /\ ~caller.inTx
        BY <1>6, <1>8, <1>9, <1>11, <1>18, <3>1
    <3>2. CASE InTransaction /\ caller.kind = "write" /\ ~caller.mustRollBack
        BY <1>1, <1>6, <1>8, <3>2 DEF TxKnown
    <3> QED BY <1>17, <3>1, <3>2
  <2> QED BY <1>6, <2>1, <2>2 DEF TxKnown
<1>20. Acknowledged'
  <2>1. ASSUME InTransaction', ~caller'.mustRollBack, client = txGeneration
        PROVE  caller'.acked \subseteq session.writes /\ ~session.failed
    <3>1. CASE caller.kind = "begin" /\ ok /\ ~caller.inTx
        BY <1>6, <1>8, <1>11, <1>18, <2>1, <3>1
    <3>2. CASE InTransaction /\ caller.kind = "write" /\ ~caller.mustRollBack
      <4>1. caller.inTx /\ ~over BY <1>8, <3>2 DEF InTransaction
      <4>2. ok BY <1>6, <2>1, <3>2, <4>1
      <4>3. /\ caller.acked \subseteq session.writes
            /\ ~session.failed /\ callSeq \in session.writes
          BY <1>1, <1>9, <2>1, <3>2, <4>2 DEF Acknowledged
      <4> QED BY <1>6, <4>1, <4>3
    <3> QED BY <1>17, <2>1, <3>1, <3>2
  <2> QED BY <1>6, <2>1 DEF Acknowledged
<1>21. \A w : Given(w)' <=> Given(w) BY DEF Given, ComesTo, RollsBack
<1>22. TakenBack'
  <2>1. \A w \in reported'.rolledBack : Given(w) BY <1>1, <1>7, <1>11 DEF TakenBack
  <2> QED BY <1>6, <1>21, <2>1 DEF TakenBack
<1>23. SessionsEnd'
  <2> SUFFICES ASSUME ~stray' PROVE SessionsEnd' BY DEF SessionsEnd
  <2>1. /\ \A i \in DOMAIN running :
               running[i].kind = "begin" => caller.kind = "begin" /\ Own(i)
        /\ session.open =>
              \/ \E k \in DOMAIN running : running[k].kind \in Ending /\ ~running[k].done
              \/ caller.inTx /\ caller.kind \notin Ending
              \/ caller.kind = "begin"
                 /\ (Told(TRUE) \/ \E i \in DOMAIN running : Own(i))
      BY <1>1 DEF SessionsEnd
  <2>2. caller.kind = "begin" /\ ~ok => ~Told(TRUE) /\ \A i \in DOMAIN running : ~Own(i)
      BY <1>1 DEF QueueKnown
  <2>3. \A i \in DOMAIN running : running[i].kind # "begin" BY <1>9, <2>1, <2>2
  <2>4. session.open => \/ \E k \in DOMAIN running : running[k].kind \in Ending /\ ~running[k].done
                        \/ caller'.inTx
    <3>1. caller.inTx /\ caller.kind \notin Ending => caller'.inTx
        BY <1>6, <1>8 DEF Ending
    <3>2. caller.kind = "begin" /\ ok => caller'.inTx BY <1>6, <1>8
    <3> QED BY <2>1, <2>2, <3>1, <3>2
  <2> QED BY <1>6, <2>3, <2>4 DEF SessionsEnd
<1>24. ReportsAreTrue'
  <2>1. caller.kind = "commit" /\ ok => caller.acked \subseteq table
      BY <1>1, <1>9 DEF Acknowledged
  <2>2. ~stray /\ caller.kind = "write" /\ ok /\ ~caller.inTx => callSeq \in table
      BY <1>1, <1>9 DEF Acknowledged
  <2>3. caller.kind = "rollback" /\ ~caller.commitTried => caller.tried \cap table = {}
      BY <1>1, <1>11 DEF TakenBack, Given
  <2> QED BY <1>1, <1>7, <2>1, <2>2, <2>3 DEF ReportsAreTrue
<1> QED BY <1>12, <1>13, <1>14, <1>15, <1>19, <1>20, <1>22, <1>23, <1>24 DEF BridgeInv

LEMMA TakesReplyKeeps == ASSUME BridgeInv, TakesReply PROVE BridgeInv'
<1>1. PICK i \in DOMAIN replies :
         /\ caller.waits /\ Mine(replies[i])
         /\ replies' = SubSeq(replies, i + 1, Len(replies))
         /\ Returns(replies[i].ok)
         /\ UNCHANGED <<callSeq, client, connecting, generation, txGeneration, running, session,
                        table, stray>>
    BY DEF TakesReply
<1> DEFINE ok == replies[i].ok
<1>2. /\ replies \in Seq([seq : Call, ok : BOOLEAN]) /\ stray \in BOOLEAN
      /\ \A j \in DOMAIN replies : replies[j].seq <= callSeq
    BY DEF BridgeInv, BridgeShapes, QueueKnown
<1>3. Len(replies) \in Nat /\ DOMAIN replies = 1..Len(replies) /\ ok \in BOOLEAN
    BY <1>2, ReplyKnown
<1>4. Told(ok) BY <1>1 DEF Mine, Told
<1> HIDE DEF ok
<1>5. /\ replies' \in Seq([seq : Call, ok : BOOLEAN])
      /\ \A j \in DOMAIN replies' : replies'[j].seq <= callSeq
  <2> DEFINE Reply == [seq : Call, ok : BOOLEAN]
  <2> HIDE DEF Reply
  <2>1. replies \in Seq(Reply) BY <1>2 DEF Reply
  <2>2. i + 1 \in 1..(Len(replies) + 1) BY <1>3
  <2>3. /\ replies' \in Seq(Reply)
        /\ \A j \in DOMAIN replies' : i + j \in DOMAIN replies /\ replies'[j] = replies[i + j]
    <3>1. replies' \in Seq(Reply) BY <1>1, <1>3, <2>1, <2>2, SubSeqProperties
    <3>2. Len(replies') = Len(replies) - i
        BY <1>1, <1>3, <2>1, <2>2, SubSeqProperties
    <3>3. \A j \in 1..Len(replies') : replies'[j] = replies[i + j]
        BY <1>1, <1>3, <2>1, <2>2, <3>2, SubSeqProperties
    <3>4. DOMAIN replies' = 1..Len(replies') BY <3>1
    <3> QED BY <1>3, <3>1, <3>2, <3>3, <3>4
  <2> QED BY <1>2, <2>3 DEF Reply
<1>6. Returns(ok) BY <1>1 DEF ok
<1>7. (ok => Told(TRUE)) /\ (ok \/ Told(FALSE))
  <2>1. CASE ok = TRUE BY <1>4, <2>1
  <2>2. CASE ok = FALSE BY <1>4, <2>2
  <2> QED BY <1>3, <2>1, <2>2
<1> QED BY <1>1, <1>2, <1>3, <1>5, <1>6, <1>7, ReturnKeeps

LEMMA TimesOutKeeps == ASSUME BridgeInv, TimesOut PROVE BridgeInv'
<1>1. /\ caller.waits /\ replies' = <<>> /\ stray' = (stray \/ caller.kind = "begin")
      /\ Returns(FALSE)
      /\ UNCHANGED <<callSeq, client, connecting, generation, txGeneration, running, session,
                     table>>
    BY DEF TimesOut
<1>2. stray' \in BOOLEAN BY <1>1, Zenon
<1>3. /\ replies' \in Seq([seq : Call, ok : BOOLEAN])
      /\ \A i \in DOMAIN replies' : replies'[i].seq <= callSeq
    BY <1>1
<1>4. (stray => stray') /\ (caller.kind = "begin" => stray') BY <1>1
<1> QED BY <1>1, <1>2, <1>3, <1>4, ReturnKeeps

(* The worker connects: nothing of the old connection is left to be seen.        *)
LEMMA ConnectsKeeps == ASSUME BridgeInv, Connects PROVE BridgeInv'
<1>1. /\ BridgeShapes /\ QueueKnown /\ SessionKnown /\ CallerKnown /\ TxKnown
      /\ Acknowledged /\ TakenBack /\ SessionsEnd /\ ReportsAreTrue
    BY DEF BridgeInv
<1>2. /\ connecting /\ generation <= MaxLosses /\ connecting' = FALSE
      /\ generation' = generation + 1 /\ client' = generation + 1 /\ session' = NoTx
      /\ running' = [i \in DOMAIN running |-> [running[i] EXCEPT !.on = generation + 1]]
      /\ UNCHANGED <<callSeq, caller, reported, stray, replies, txGeneration, table>>
    BY DEF Connects, Main
<1>3. generation' \in 0..(MaxLosses + 1) /\ txGeneration \in 0..generation'
      /\ client' # txGeneration /\ client' # 0
    BY <1>1, <1>2, PgBridgeAssumption DEF BridgeShapes
<1>4. running \in Seq(Statement) BY <1>1 DEF BridgeShapes
<1>5. /\ running' \in Seq(Statement) /\ DOMAIN running' = DOMAIN running
      /\ \A i \in DOMAIN running :
            /\ running'[i].on = client' /\ running'[i].seq = running[i].seq
            /\ running'[i].kind = running[i].kind /\ running'[i].done = running[i].done
            /\ running'[i].ok = running[i].ok
  <2>1. running' = [i \in DOMAIN running |-> [running[i] EXCEPT !.on = client']] BY <1>2
  <2>2. client' \in 0..(MaxLosses + 1) BY <1>2, <1>3
  <2>3. ASSUME NEW i \in DOMAIN running
        PROVE  /\ running'[i] \in Statement
               /\ running'[i].on = client' /\ running'[i].seq = running[i].seq
               /\ running'[i].kind = running[i].kind /\ running'[i].done = running[i].done
               /\ running'[i].ok = running[i].ok
    <3>1. running'[i] = [running[i] EXCEPT !.on = client'] BY <2>1
    <3>2. running[i] \in Statement BY <1>4
    <3> QED BY <2>2, <3>1, <3>2 DEF Statement
  <2>4. DOMAIN running' = DOMAIN running BY <2>1
  <2>5. running' \in Seq(Statement) BY <1>4, <2>1, <2>3
  <2> QED BY <2>3, <2>4, <2>5
<1>6. Len(running') = Len(running) /\ (running = <<>> => running' = <<>>)
  <2>1. Len(running) \in Nat /\ Len(running') \in Nat /\ 1..Len(running) = 1..Len(running')
      BY <1>4, <1>5, QueueDomain
  <2>2. Len(running') = Len(running) BY <2>1
  <2> QED BY <1>4, <1>5, <2>2, EmptySeq
<1>7. client = 0 /\ session = NoTx /\ ~session.open /\ UNCHANGED session
    BY <1>1, <1>2 DEF SessionKnown
<1>8. (Told(TRUE)' <=> Told(TRUE)) /\ (Told(FALSE)' <=> Told(FALSE)) BY <1>2 DEF Told
<1>9. InTransaction' <=> InTransaction BY <1>2 DEF InTransaction
<1>10. InTransaction => running = <<>> /\ client # txGeneration
    BY <1>1, <1>7 DEF TxKnown
<1>11. BridgeShapes' BY <1>1, <1>2, <1>3, <1>5, <1>7 DEF BridgeShapes
<1>12. \A i \in DOMAIN running : Own(i)' <=> Own(i) BY <1>2, <1>5 DEF Own
<1>13. QueueKnown'
  <2>1. \A i \in DOMAIN running' : running'[i].seq <= callSeq /\ running'[i].on = client'
      BY <1>1, <1>5 DEF QueueKnown
  <2>2. \A i, j \in DOMAIN running' :
           i < j => running'[i].seq < running'[j].seq /\ (running'[j].done => running'[i].done)
      BY <1>1, <1>5 DEF QueueKnown
  <2>3. \A w \in table \cup session.writes : w <= callSeq BY <1>1 DEF QueueKnown
  <2>4. caller.waits =>
          /\ Told(TRUE) => running' = <<>>
          /\ Told(FALSE) => ~Told(TRUE) /\ \A i \in DOMAIN running' : ~Own(i)'
          /\ \A i \in DOMAIN running' : Own(i)' => running'[i].kind = caller.kind
      BY <1>1, <1>5, <1>6, <1>12 DEF QueueKnown
  <2> QED BY <1>1, <1>2, <1>7, <1>8, <2>1, <2>2, <2>3, <2>4 DEF QueueKnown
<1>14. SessionKnown' BY <1>2, <1>3, <1>7 DEF SessionKnown
<1>15. CallerKnown' BY <1>1, <1>2 DEF CallerKnown
<1>16. TxKnown'
    BY <1>1, <1>2, <1>3, <1>5, <1>6, <1>7, <1>9, <1>10, <1>12 DEF TxKnown
<1>17. Acknowledged'
  <2>1. caller.waits /\ caller.kind = "commit" =>
          /\ \A i \in DOMAIN running' : running'[i].done /\ caller.acked \subseteq table
          /\ Told(TRUE) => caller.acked \subseteq table
      BY <1>1, <1>5, <1>7 DEF Acknowledged
  <2>2. caller.waits /\ caller.kind = "begin" =>
          /\ \A i \in DOMAIN running' : ~(Own(i)' /\ running'[i].done /\ running'[i].ok)
          /\ Told(TRUE) => txGeneration # 0
      BY <1>1, <1>5, <1>7, <1>12 DEF Acknowledged
  <2>3. caller.waits /\ ~caller.inTx /\ caller.kind = "write" /\ ~stray =>
          /\ \A i \in DOMAIN running' :
                Own(i)' /\ running'[i].done /\ running'[i].ok => callSeq \in table
          /\ Told(TRUE) => callSeq \in table
      BY <1>1, <1>5, <1>12 DEF Acknowledged
  <2> QED BY <1>2, <1>3, <1>7, <1>8, <2>1, <2>2, <2>3 DEF Acknowledged
<1>18. \A w : Given(w) => Given(w)'
  <2> SUFFICES ASSUME NEW w, Given(w) PROVE Given(w)' OBVIOUS
  <2>1. ~RollsBack(w) BY <1>7 DEF RollsBack
  <2>2. ~ComesTo(w) /\ w \notin table BY <2>1 DEF Given
  <2>3. ~ComesTo(w)' BY <1>5, <1>7, <2>2 DEF ComesTo
  <2> QED BY <1>2, <2>2, <2>3 DEF Given
<1>19. TakenBack' BY <1>1, <1>2, <1>18 DEF TakenBack
<1>20. SessionsEnd' BY <1>1, <1>2, <1>5, <1>7, <1>12 DEF SessionsEnd
<1>21. ReportsAreTrue' BY <1>1, <1>2 DEF ReportsAreTrue
<1> QED BY <1>11, <1>13, <1>14, <1>15, <1>16, <1>17, <1>19, <1>20, <1>21 DEF BridgeInv

(* The worker is without a connection, and refuses what it had taken.            *)
LEMMA RefusalKeeps ==
    ASSUME BridgeInv, client' = 0, session' = NoTx, running' = <<>>, connecting' \in BOOLEAN,
           replies' = replies \o [i \in DOMAIN running |-> Refused(running[i])],
           UNCHANGED <<callSeq, caller, reported, stray, generation, txGeneration, table>>
    PROVE  BridgeInv'
<1>1. /\ BridgeShapes /\ QueueKnown /\ SessionKnown /\ CallerKnown /\ TxKnown
      /\ Acknowledged /\ TakenBack /\ SessionsEnd /\ ReportsAreTrue
    BY DEF BridgeInv
<1>2. /\ running \in Seq(Statement) /\ replies \in Seq([seq : Call, ok : BOOLEAN])
    BY <1>1 DEF BridgeShapes
<1>3. /\ replies' \in Seq([seq : Call, ok : BOOLEAN])
      /\ \A j \in DOMAIN replies' :
            \/ \E i \in DOMAIN replies : replies'[j] = replies[i]
            \/ \E i \in DOMAIN running : replies'[j].seq = running[i].seq /\ replies'[j].ok = FALSE
      /\ \A i \in DOMAIN replies : i \in DOMAIN replies' /\ replies'[i] = replies[i]
  <2> DEFINE Reply == [seq : Call, ok : BOOLEAN]
             r == [i \in DOMAIN running |-> Refused(running[i])]
  <2>1. \A i \in DOMAIN running : running[i].seq \in Call
      BY <1>2, QueueDomain DEF Statement
  <2>2. \A i \in DOMAIN running : /\ Refused(running[i]) \in Reply
                                  /\ Refused(running[i]).seq = running[i].seq
                                  /\ Refused(running[i]).ok = FALSE
      BY <2>1 DEF Refused
  <2> HIDE DEF Reply
  <2>3. DOMAIN running = 1..Len(running) /\ Len(running) \in Nat BY <1>2, QueueDomain
  <2>4. r \in Seq(Reply) /\ Len(r) = Len(running) BY <2>2, <2>3
  <2>5. \A i \in DOMAIN running : r[i].seq = running[i].seq /\ r[i].ok = FALSE BY <2>2
  <2> HIDE DEF r
  <2>6. replies \in Seq(Reply) /\ replies' = replies \o r BY <1>2 DEF Reply, r
  <2>7. /\ replies' \in Seq(Reply) /\ Len(replies') = Len(replies) + Len(r)
        /\ \A j \in 1..(Len(replies) + Len(r)) :
              replies'[j] = IF j <= Len(replies) THEN replies[j] ELSE r[j - Len(replies)]
    <3> DEFINE z == replies \o r
    <3>1. /\ z \in Seq(Reply) /\ Len(z) = Len(replies) + Len(r)
          /\ \A j \in 1..(Len(replies) + Len(r)) :
                z[j] = IF j <= Len(replies) THEN replies[j] ELSE r[j - Len(replies)]
        BY <2>4, <2>6, ConcatProperties
    <3>2. replies' = z BY <2>6
    <3> HIDE DEF z
    <3> QED BY <3>1, <3>2
  <2>8. /\ DOMAIN replies' = 1..Len(replies') /\ DOMAIN replies = 1..Len(replies)
        /\ Len(replies) \in Nat
      BY <2>6, <2>7
  <2>9. ASSUME NEW j \in DOMAIN replies', j > Len(replies)
        PROVE  \E i \in DOMAIN running : replies'[j].seq = running[i].seq /\ replies'[j].ok = FALSE
    <3>1. j - Len(replies) \in DOMAIN running BY <2>3, <2>4, <2>7, <2>8, <2>9
    <3>2. replies'[j] = r[j - Len(replies)] BY <2>7, <2>8, <2>9
    <3> QED BY <2>5, <3>1, <3>2
  <2>10. \A j \in DOMAIN replies' : j <= Len(replies) =>
             j \in DOMAIN replies /\ replies'[j] = replies[j]
      BY <2>3, <2>4, <2>7, <2>8
  <2>11. \A i \in DOMAIN replies : i \in DOMAIN replies' /\ replies'[i] = replies[i]
      BY <2>3, <2>4, <2>7, <2>8
  <2>12. \A j \in DOMAIN replies' : j <= Len(replies) \/ j > Len(replies) BY <2>8
  <2> QED BY <2>7, <2>9, <2>10, <2>11, <2>12 DEF Reply
<1>4. DOMAIN running' = {} /\ Len(running') = 0 /\ running' \in Seq(Statement) OBVIOUS
<1>5. Told(TRUE)' <=> Told(TRUE)
  <2>1. Told(TRUE) => Told(TRUE)' BY <1>3 DEF Told
  <2>2. ASSUME NEW j \in DOMAIN replies', replies'[j].seq = callSeq, replies'[j].ok = TRUE
        PROVE  Told(TRUE)
    <3>1. PICK i \in DOMAIN replies : replies'[j] = replies[i] BY <1>3, <2>2
    <3> QED BY <2>2, <3>1 DEF Told
  <2>3. Told(TRUE)' => Told(TRUE) BY <2>2 DEF Told
  <2> QED BY <2>1, <2>3
<1>6. Told(FALSE)' => Told(FALSE) \/ \E i \in DOMAIN running : Own(i)
    BY <1>3 DEF Told, Own
<1>7. Told(TRUE) => DOMAIN running = {} \/ ~caller.waits
  <2>1. running = <<>> => DOMAIN running = {} BY <1>2, QueueDomain, EmptySeq
  <2> QED BY <1>1, <2>1 DEF QueueKnown
<1>8. ~session'.open /\ session'.writes = {} /\ session' = NoTx BY DEF NoTx
<1>9. InTransaction' <=> InTransaction BY DEF InTransaction
<1>10. BridgeShapes' BY <1>1, <1>3, <1>4 DEF BridgeShapes, NoTx
<1>11. \A j \in DOMAIN replies' : replies'[j].seq <= callSeq
    BY <1>1, <1>3 DEF QueueKnown
<1>12. QueueKnown' BY <1>1, <1>4, <1>5, <1>6, <1>7, <1>8, <1>11 DEF QueueKnown
<1>13. SessionKnown' BY <1>8 DEF SessionKnown
<1>14. CallerKnown' BY <1>1 DEF CallerKnown
<1>15. TxKnown' BY <1>1, <1>4, <1>8, <1>9 DEF TxKnown
<1>16. Acknowledged'
    BY <1>1, <1>4, <1>5, <1>8, <1>9 DEF Acknowledged, TxKnown
<1>17. \A w : Given(w) => Given(w)' BY <1>4, <1>8 DEF Given, ComesTo
<1>18. TakenBack' BY <1>1, <1>17 DEF TakenBack
<1>19. SessionsEnd' BY <1>4, <1>8 DEF SessionsEnd
<1>20. ReportsAreTrue' BY <1>1 DEF ReportsAreTrue
<1> QED BY <1>10, <1>12, <1>13, <1>14, <1>15, <1>16, <1>18, <1>19, <1>20 DEF BridgeInv

LEMMA LossKeeps == ASSUME BridgeInv, ConnectFails \/ ConnectionLost PROVE BridgeInv'
<1>1. connecting \in BOOLEAN /\ SessionKnown BY DEF BridgeInv, BridgeShapes
<1>2. CASE ConnectFails
  <2>1. client = 0 /\ session = NoTx BY <1>1, <1>2 DEF ConnectFails, SessionKnown
  <2> QED BY <1>2, <2>1, RefusalKeeps DEF ConnectFails, Main
<1>3. CASE ConnectionLost BY <1>1, <1>3, RefusalKeeps DEF ConnectionLost, Main
<1> QED BY <1>2, <1>3

(* What Postgres makes of statement i, which comes out as ok.                    *)
Began(i, ok) ==
    /\ running[i].kind = "begin" /\ (ok <=> ~session.failed) /\ UNCHANGED table
    /\ session' = IF session.open THEN session ELSE [NoTx EXCEPT !.open = TRUE]

TxEnded(i, ok) ==
    /\ running[i].kind \in Ending /\ ok /\ session' = NoTx
    /\ table' = IF running[i].kind = "commit" /\ ~session.failed
                THEN table \cup session.writes ELSE table

Written(i, ok) ==
    /\ running[i].kind = "write" /\ ok /\ ~session.failed
    /\ IF session.open
       THEN /\ session' = [session EXCEPT !.writes = @ \cup {running[i].seq}]
            /\ UNCHANGED table
       ELSE table' = table \cup {running[i].seq} /\ UNCHANGED session

NotWritten(i, ok) ==
    /\ running[i].kind = "write" /\ ~ok /\ UNCHANGED table
    /\ IF session.open THEN session' \in {session, [session EXCEPT !.failed = TRUE]}
       ELSE UNCHANGED session

Effect(i, ok) == Began(i, ok) \/ TxEnded(i, ok) \/ Written(i, ok) \/ NotWritten(i, ok)

LEMMA StatementRuns ==
    ASSUME BridgeShapes, NEW i \in DOMAIN running, PostgresRuns(i) \/ StatementFails(i)
    PROVE  /\ Sent(i)
           /\ \E ok \in BOOLEAN : Ran(running, running', i, ok) /\ Effect(i, ok)
           /\ UNCHANGED <<Main, replies, client, connecting, generation, txGeneration>>
<1>1. /\ running \in Seq(Statement)
      /\ session \in [open : BOOLEAN, failed : BOOLEAN, writes : SUBSET Call]
    BY DEF BridgeShapes
<1>2. running[i] \in Statement BY <1>1, QueueDomain
<1>3. running[i].kind \in Kind BY <1>2 DEF Statement
<1>4. ASSUME NEW ok \in BOOLEAN, Runs(i, ok) PROVE Ran(running, running', i, ok)
    BY <1>1, <1>4, CallRuns DEF Runs
<1>5. CASE StatementFails(i)
  <2>1. Runs(i, FALSE) /\ NotWritten(i, FALSE) BY <1>5 DEF StatementFails, NotWritten
  <2>2. Ran(running, running', i, FALSE) BY <1>4, <2>1
  <2> QED BY <1>5, <2>1, <2>2 DEF StatementFails, Effect
<1>6. CASE PostgresRuns(i)
  <2>1. Sent(i) /\ UNCHANGED <<Main, replies, client, connecting, generation, txGeneration>>
      BY <1>6 DEF PostgresRuns
  <2>2. \E ok \in BOOLEAN : Runs(i, ok) /\ Effect(i, ok)
    <3>1. CASE running[i].kind = "begin"
      <4>1. (~session.failed) \in BOOLEAN BY Zenon
      <4>2. Runs(i, ~session.failed) BY <1>6, <3>1 DEF PostgresRuns
      <4>3. Began(i, ~session.failed) BY <1>6, <3>1 DEF PostgresRuns, Began
      <4> QED BY <4>1, <4>2, <4>3 DEF Effect
    <3>2. CASE running[i].kind = "commit"
      <4>1. Runs(i, TRUE) /\ TxEnded(i, TRUE) BY <1>6, <3>2 DEF PostgresRuns, TxEnded, Ending
      <4> QED BY <4>1 DEF Effect
    <3>3. CASE running[i].kind = "rollback"
      <4>1. Runs(i, TRUE) /\ TxEnded(i, TRUE) BY <1>6, <3>3 DEF PostgresRuns, TxEnded, Ending
      <4> QED BY <4>1 DEF Effect
    <3>4. CASE running[i].kind = "write" /\ ~session.failed
      <4>1. Runs(i, TRUE) /\ Written(i, TRUE) BY <1>6, <3>4 DEF PostgresRuns, Written
      <4> QED BY <4>1 DEF Effect
    <3>5. CASE running[i].kind = "write" /\ session.failed
      <4>1. Runs(i, FALSE) /\ NotWritten(i, FALSE)
          BY <1>6, <3>5 DEF PostgresRuns, NotWritten
      <4> QED BY <4>1 DEF Effect
    <3> QED BY <1>3, <3>1, <3>2, <3>3, <3>4, <3>5 DEF Kind
  <2> QED BY <1>4, <2>1, <2>2
<1> QED BY <1>5, <1>6

LEMMA SessionChanges ==
    ASSUME BridgeShapes, SessionKnown, NEW i \in DOMAIN running, NEW ok \in BOOLEAN,
           Effect(i, ok)
    PROVE  /\ session' \in [open : BOOLEAN, failed : BOOLEAN, writes : SUBSET Call]
           /\ ~session'.open => session' = NoTx
           /\ table \subseteq table' /\ table' \subseteq Call
           /\ \A w \in table' \cup session'.writes :
                 w \in table \cup session.writes \cup {running[i].seq}
<1>1. /\ session \in [open : BOOLEAN, failed : BOOLEAN, writes : SUBSET Call]
      /\ table \subseteq Call /\ running[i].seq \in Call
      /\ ~session.open => session = NoTx
  <2>1. running[i] \in Statement BY QueueDomain DEF BridgeShapes
  <2> QED BY <2>1 DEF BridgeShapes, SessionKnown, Statement
<1>2. CASE Began(i, ok) BY <1>1, <1>2 DEF Began, NoTx
<1>3. CASE TxEnded(i, ok) BY <1>1, <1>3 DEF TxEnded, NoTx
<1>4. CASE Written(i, ok) BY <1>1, <1>4 DEF Written
<1>5. CASE NotWritten(i, ok) BY <1>1, <1>5 DEF NotWritten
<1> QED BY <1>2, <1>3, <1>4, <1>5 DEF Effect

(* Postgres runs a statement.                                                    *)
LEMMA StatementKeeps ==
    ASSUME BridgeInv, NEW i \in DOMAIN running, PostgresRuns(i) \/ StatementFails(i)
    PROVE  BridgeInv'
<1>1. /\ BridgeShapes /\ QueueKnown /\ SessionKnown /\ CallerKnown /\ TxKnown
      /\ Acknowledged /\ TakenBack /\ SessionsEnd /\ ReportsAreTrue
    BY DEF BridgeInv
<1>2. /\ Sent(i)
      /\ UNCHANGED <<callSeq, caller, reported, stray, replies, client, connecting, generation,
                     txGeneration>>
    BY <1>1, StatementRuns DEF Main
<1>3. PICK ok \in BOOLEAN : Ran(running, running', i, ok) /\ Effect(i, ok)
    BY <1>1, StatementRuns
<1>4. /\ running' \in Seq(Statement) /\ DOMAIN running' = DOMAIN running
      /\ \A j \in DOMAIN running : /\ running'[j].seq = running[j].seq
                                   /\ running'[j].kind = running[j].kind
                                   /\ running'[j].on = running[j].on
      /\ \A j \in DOMAIN running : j # i => /\ running'[j].done = running[j].done
                                            /\ running'[j].ok = running[j].ok
      /\ running'[i].done = TRUE /\ running'[i].ok = ok
    BY <1>3 DEF Ran
<1>5. running \in Seq(Statement) BY <1>1 DEF BridgeShapes
<1>6. /\ Len(running) \in Nat /\ Len(running') = Len(running) /\ running # <<>>
      /\ \A j \in DOMAIN running : /\ j \in Nat \ {0} /\ j <= Len(running)
                                   /\ running[j] \in Statement /\ running[j].seq \in Int
  <2>1. /\ Len(running) \in Nat /\ Len(running') \in Nat /\ 1..Len(running) = 1..Len(running')
        /\ \A j \in DOMAIN running : /\ j \in Nat \ {0} /\ j <= Len(running)
                                     /\ running[j] \in Statement
      BY <1>4, <1>5, QueueDomain
  <2>2. Len(running') = Len(running) BY <2>1
  <2>3. \A j \in DOMAIN running : running[j].seq \in Int BY <2>1 DEF Statement, Call
  <2>4. running # <<>>
    <3>1. Len(running) # 0 BY <2>1
    <3> QED BY <1>5, <3>1, EmptySeq
  <2> QED BY <2>1, <2>2, <2>3, <2>4
\* Postgres takes the statements in order.
<1>7. /\ ~running[i].done
      /\ \A j \in DOMAIN running : (j < i => running[j].done) /\ (i < j => ~running[j].done)
  <2>1. ~running[i].done /\ \A j \in 1..(i - 1) : running[j].done BY <1>2 DEF Sent
  <2>2. \A j \in DOMAIN running : j < i => j \in 1..(i - 1) BY <1>6
  <2>3. \A j \in DOMAIN running : i < j => ~running[j].done BY <1>1, <2>1 DEF QueueKnown
  <2> QED BY <2>1, <2>2, <2>3
<1>8. client # 0 /\ ~connecting
  <2>1. running[i].on # 0 /\ running[i].on = client BY <1>1, <1>2 DEF Sent, QueueKnown
  <2> QED BY <1>1, <2>1 DEF SessionKnown
<1>9. /\ callSeq \in Int
      /\ \A j, k \in DOMAIN running : j < k => running[j].seq < running[k].seq
      /\ \A j \in DOMAIN running : running[j].seq <= callSeq
    BY <1>1 DEF QueueKnown, BridgeShapes
\* The program's own statement is the last: it is i, or it has not been run.
<1>10. /\ \A j \in DOMAIN running : Own(j) => j = i \/ (i < j /\ ~running[j].done)
       /\ \A j \in DOMAIN running : Own(i) => j = i \/ j < i
  <2>1. ASSUME NEW j \in DOMAIN running, NEW k \in DOMAIN running, Own(j) PROVE ~(j < k)
      BY <1>6, <1>9, <2>1 DEF Own
  <2> QED BY <1>6, <1>7, <2>1
<1>11. caller.waits => ~Told(TRUE) BY <1>1, <1>6 DEF QueueKnown
<1>12. /\ \A j \in DOMAIN running : Own(j)' <=> Own(j)
       /\ Told(TRUE)' <=> Told(TRUE)
       /\ Told(FALSE)' <=> Told(FALSE)
       /\ InTransaction' <=> InTransaction
    BY <1>2, <1>4 DEF Own, Told, InTransaction
<1>13. /\ session' \in [open : BOOLEAN, failed : BOOLEAN, writes : SUBSET Call]
       /\ ~session'.open => session' = NoTx
       /\ table \subseteq table' /\ table' \subseteq Call
       /\ \A w \in table' \cup session'.writes :
             w \in table \cup session.writes \cup {running[i].seq}
    BY <1>1, <1>3, SessionChanges
<1>14. BridgeShapes' BY <1>1, <1>2, <1>4, <1>13 DEF BridgeShapes
<1>15. QueueKnown'
  <2>1. \A j \in DOMAIN running' : running'[j].seq <= callSeq /\ running'[j].on = client
      BY <1>1, <1>4 DEF QueueKnown
  <2>2. ASSUME NEW j \in DOMAIN running', NEW k \in DOMAIN running', j < k
        PROVE  running'[j].seq < running'[k].seq /\ (running'[k].done => running'[j].done)
      BY <1>1, <1>4, <1>7, <2>2 DEF QueueKnown
  <2>3. \A w \in table' \cup session'.writes : w <= callSeq BY <1>1, <1>9, <1>13 DEF QueueKnown
  <2>4. caller.waits =>
          /\ Told(FALSE) => ~Told(TRUE) /\ \A j \in DOMAIN running : ~Own(j)
          /\ \A j \in DOMAIN running : Own(j) => running[j].kind = caller.kind
      BY <1>1 DEF QueueKnown
  <2> QED BY <1>1, <1>2, <1>4, <1>11, <1>12, <2>1, <2>2, <2>3, <2>4 DEF QueueKnown
<1>16. SessionKnown' BY <1>2, <1>8, <1>13 DEF SessionKnown
<1>17. CallerKnown' BY <1>1, <1>2 DEF CallerKnown
\* In a transaction the statement is one of its writes.
<1>18. InTransaction => /\ running[i].kind = "write" /\ client = txGeneration /\ session.open
                        /\ txGeneration # 0 /\ caller.tried \cap table = {}
    BY <1>1, <1>6 DEF TxKnown
<1>19. InTransaction => Written(i, ok) \/ NotWritten(i, ok)
    BY <1>3, <1>18 DEF Effect, Began, TxEnded, Ending
<1>20. InTransaction => table' = table /\ session'.open
    BY <1>1, <1>18, <1>19 DEF Written, NotWritten, BridgeShapes
<1>21. TxKnown'
    BY <1>1, <1>2, <1>4, <1>6, <1>12, <1>18, <1>20 DEF TxKnown
<1>22. /\ session \in [open : BOOLEAN, failed : BOOLEAN, writes : SUBSET Call]
       /\ ~session.open => session = NoTx
    BY <1>1 DEF BridgeShapes, SessionKnown
<1>23. Acknowledged'
  <2>1. ASSUME InTransaction, ~caller.mustRollBack, client = txGeneration
        PROVE  /\ caller.acked \subseteq session'.writes
               /\ caller.waits /\ DOMAIN running = {i}
               /\ ok => ~session'.failed /\ callSeq \in session'.writes
    <3>1. caller.inTx /\ caller.waits /\ Own(i) /\ DOMAIN running = {i}
      <4>1. caller.inTx /\ ~(caller.waits /\ caller.mustRollBack) BY <2>1 DEF InTransaction
      <4>2. Len(running) <= 1 /\ caller.waits /\ Own(i) BY <1>1, <2>1, <4>1 DEF TxKnown
      <4>3. \A j \in DOMAIN running : j = i BY <1>6, <4>2
      <4> QED BY <4>1, <4>2, <4>3
    <3>2. caller.acked \subseteq session.writes BY <1>1, <2>1 DEF Acknowledged
    <3>3. CASE Written(i, ok)
      <4>1. /\ session' = [session EXCEPT !.writes = @ \cup {running[i].seq}]
            /\ ~session.failed
          BY <1>18, <2>1, <3>3 DEF Written
      <4>2. session'.writes = session.writes \cup {callSeq} /\ ~session'.failed
          BY <1>22, <3>1, <4>1 DEF Own
      <4> QED BY <3>1, <3>2, <4>2
    <3>4. CASE NotWritten(i, ok)
      <4>1. session'.writes = session.writes /\ ~ok BY <1>22, <3>4 DEF NotWritten
      <4> QED BY <3>1, <3>2, <4>1
    <3> QED BY <1>19, <2>1, <3>3, <3>4
  <2>2. ASSUME caller.waits, caller.kind = "commit", NEW j \in DOMAIN running
        PROVE  running'[j].done /\ caller.acked \subseteq table'
    <3>1. caller.inTx /\ ~caller.mustRollBack BY <1>1, <2>2 DEF CallerKnown
    <3>2. Len(running) <= 1 /\ Own(i) BY <1>1, <3>1 DEF TxKnown
    <3>3. i = j /\ running[i].kind = "commit" BY <1>1, <1>6, <2>2, <3>2 DEF QueueKnown
    <3>4. ~session.failed /\ caller.acked \subseteq session.writes
        BY <1>1, <1>7, <2>2 DEF Acknowledged
    <3>5. table' = table \cup session.writes
        BY <1>3, <3>3, <3>4 DEF Effect, Began, TxEnded, Written, NotWritten
    <3> QED BY <1>4, <3>3, <3>4, <3>5
  <2>3. ASSUME caller.waits, caller.kind = "begin", NEW j \in DOMAIN running, Own(j),
               running'[j].done, running'[j].ok
        PROVE  session'.open /\ ~session'.failed
    <3>1. j = i BY <1>4, <1>6, <1>10, <2>3
    <3>2. running[i].kind = "begin" /\ ok BY <1>1, <1>4, <2>3, <3>1 DEF QueueKnown
    <3>3. ~session.failed
          /\ session' = IF session.open THEN session ELSE [NoTx EXCEPT !.open = TRUE]
        BY <1>3, <3>2 DEF Effect, Began, TxEnded, Ending, Written, NotWritten
    <3> QED BY <3>3 DEF NoTx
  <2>4. ASSUME caller.waits, ~caller.inTx, caller.kind = "write", ~stray,
               NEW j \in DOMAIN running, Own(j), running'[j].done, running'[j].ok
        PROVE  callSeq \in table'
    <3>1. j = i BY <1>4, <1>6, <1>10, <2>4
    <3>2. running[i].kind = "write" /\ ok BY <1>1, <1>4, <2>4, <3>1 DEF QueueKnown
    <3>3. ~session.open
      <4> SUFFICES ASSUME session.open PROVE FALSE OBVIOUS
      <4>1. PICK k \in DOMAIN running : running[k].kind \in Ending /\ ~running[k].done
          BY <1>1, <2>4 DEF SessionsEnd
      <4>2. k = i \/ k < i BY <1>10, <2>4, <3>1
      <4> QED BY <1>7, <3>2, <4>1, <4>2 DEF Ending
    <3>4. table' = table \cup {running[i].seq}
        BY <1>3, <3>2, <3>3 DEF Effect, Began, TxEnded, Ending, Written, NotWritten
    <3> QED BY <2>4, <3>1, <3>4 DEF Own
  <2>5. InTransaction /\ ~caller.mustRollBack /\ client = txGeneration =>
          /\ caller.acked \subseteq session'.writes
          /\ caller.waits
          /\ \A j \in DOMAIN running' :
                /\ running'[j].done
                /\ running'[j].ok => ~session'.failed /\ callSeq \in session'.writes
      BY <1>4, <2>1
  <2> QED BY <1>2, <1>4, <1>11, <1>12, <2>2, <2>3, <2>4, <2>5 DEF Acknowledged
<1>24. ASSUME NEW w, Given(w) PROVE Given(w)'
  <2>1. ASSUME RollsBack(w)
        PROVE  \E k \in DOMAIN running :
                  /\ running[k].kind = "rollback" /\ (k = i \/ i < k)
                  /\ i < k => running[i].kind = "write"
                  /\ \A j \in DOMAIN running : IF j < k THEN running[j].kind = "write"
                                               ELSE running[j].seq # w
    <3>1. PICK k \in DOMAIN running :
             /\ running[k].kind = "rollback" /\ ~running[k].done
             /\ \A j \in DOMAIN running : IF j < k THEN running[j].kind = "write"
                                          ELSE running[j].seq # w
        BY <2>1 DEF RollsBack
    <3>2. k = i \/ i < k BY <1>6, <1>7, <3>1
    <3> QED BY <3>1, <3>2
  <2>2. \A j \in DOMAIN running' : ~running'[j].done /\ running'[j].seq = w =>
           /\ j # i /\ ~running[j].done /\ running[j].seq = w
           /\ ComesTo(w)
      BY <1>4 DEF ComesTo
  <2>3. w \notin table /\ (ComesTo(w) => RollsBack(w)) BY <1>24 DEF Given
  <2>4. CASE Began(i, ok)
    <3>1. ~RollsBack(w) BY <2>1, <2>4 DEF Began
    <3>2. session'.writes = session.writes /\ table' = table
        BY <1>22, <2>4 DEF Began, NoTx
    <3> QED BY <2>2, <2>3, <3>1, <3>2 DEF Given, ComesTo
  <2>5. CASE TxEnded(i, ok) /\ running[i].kind = "commit"
    <3>1. ~RollsBack(w) BY <2>1, <2>5
    <3>2. w \notin session.writes BY <2>3, <3>1 DEF ComesTo
    <3>3. session'.writes = {} /\ table' \subseteq table \cup session.writes
        BY <2>5 DEF TxEnded, NoTx
    <3> QED BY <2>2, <2>3, <3>1, <3>2, <3>3 DEF Given, ComesTo
  <2>6. CASE TxEnded(i, ok) /\ running[i].kind = "rollback"
    <3>1. session'.writes = {} /\ table' = table BY <2>6 DEF TxEnded, NoTx
    <3>2. \A j \in DOMAIN running : ~running[j].done /\ j # i /\ RollsBack(w) => running[j].seq # w
      <4> SUFFICES ASSUME NEW j \in DOMAIN running, ~running[j].done, j # i, RollsBack(w)
                   PROVE  running[j].seq # w
          OBVIOUS
      <4>1. \A m \in DOMAIN running : IF m < i THEN running[m].kind = "write"
                                      ELSE running[m].seq # w
          BY <2>1, <2>6
      <4>2. ~(j < i) BY <1>7
      <4> QED BY <4>1, <4>2
    <3>3. ASSUME NEW j \in DOMAIN running', ~running'[j].done, running'[j].seq = w PROVE FALSE
      <4>1. j # i /\ ~running[j].done /\ running[j].seq = w /\ RollsBack(w)
          BY <2>2, <2>3, <3>3
      <4> QED BY <1>4, <3>2, <4>1
    <3>4. ~ComesTo(w)' BY <3>1, <3>3 DEF ComesTo
    <3> QED BY <2>3, <3>1, <3>4 DEF Given
  <2>7. CASE Written(i, ok) \/ NotWritten(i, ok)
    <3>1. running[i].kind = "write" BY <2>7 DEF Written, NotWritten
    <3>2. RollsBack(w) => RollsBack(w)'
      <4> SUFFICES ASSUME RollsBack(w) PROVE RollsBack(w)' OBVIOUS
      <4>1. PICK k \in DOMAIN running :
               /\ running[k].kind = "rollback" /\ ~running[k].done
               /\ \A j \in DOMAIN running : IF j < k THEN running[j].kind = "write"
                                            ELSE running[j].seq # w
          BY DEF RollsBack
      <4>2. k # i BY <3>1, <4>1
      <4>3. session.open BY DEF RollsBack
      <4>4. session'.open BY <1>22, <2>7, <4>3 DEF Written, NotWritten
      <4> QED BY <1>4, <4>1, <4>2, <4>4 DEF RollsBack
    <3>3. running[i].seq = w => ComesTo(w) BY <1>7 DEF ComesTo
    <3>4. ComesTo(w) => session.open BY <2>3 DEF RollsBack
    <3>5. /\ session'.writes \subseteq session.writes \cup {running[i].seq}
          /\ table' = table \/ (~session.open /\ table' = table \cup {running[i].seq})
        BY <1>22, <2>7 DEF Written, NotWritten
    <3>6. w \notin table' BY <2>3, <3>3, <3>4, <3>5
    <3>7. ComesTo(w)' => ComesTo(w)
      <4>1. w \in session'.writes => ComesTo(w) BY <3>3, <3>5 DEF ComesTo
      <4> QED BY <2>2, <4>1 DEF ComesTo
    <3> QED BY <2>3, <3>2, <3>6, <3>7 DEF Given
  <2> QED BY <1>3, <2>4, <2>5, <2>6, <2>7 DEF Effect, TxEnded, Ending
<1>25. TakenBack' BY <1>1, <1>2, <1>24 DEF TakenBack
<1>26. SessionsEnd'
  <2> SUFFICES ASSUME ~stray PROVE SessionsEnd' BY <1>2 DEF SessionsEnd
  <2>1. \A j \in DOMAIN running :
           running[j].kind = "begin" => caller.waits /\ caller.kind = "begin" /\ Own(j)
      BY <1>1 DEF SessionsEnd
  <2>2. ASSUME session'.open
        PROVE  \/ \E k \in DOMAIN running : running[k].kind \in Ending /\ ~running'[k].done
               \/ caller.inTx /\ ~(caller.waits /\ caller.kind \in Ending)
               \/ /\ caller.waits /\ caller.kind = "begin"
                  /\ \/ Told(TRUE)
                     \/ \E j \in DOMAIN running : Own(j) /\ running'[j].done /\ running'[j].ok
    <3>1. ~TxEnded(i, ok) BY <2>2 DEF TxEnded, NoTx
    <3>2. running[i].kind \notin Ending
        BY <1>3, <3>1 DEF Effect, Began, Written, NotWritten, Ending
    <3>3. session.open =>
             \/ \E k \in DOMAIN running : running[k].kind \in Ending /\ ~running'[k].done
             \/ caller.inTx /\ ~(caller.waits /\ caller.kind \in Ending)
             \/ /\ caller.waits /\ caller.kind = "begin"
                /\ \E j \in DOMAIN running : Own(j) /\ running[j].done
        BY <1>1, <1>4, <1>11, <3>2 DEF SessionsEnd
    <3>4. ~\E j \in DOMAIN running : Own(j) /\ running[j].done BY <1>6, <1>7, <1>10
    <3>5. CASE session.open BY <3>3, <3>4, <3>5
    <3>6. CASE ~session.open
      <4>1. ~session.failed BY <1>22, <3>6 DEF NoTx
      <4>2. Began(i, ok)
          BY <1>3, <2>2, <3>1, <3>6 DEF Effect, Written, NotWritten
      <4>3. running[i].kind = "begin" /\ ok BY <4>1, <4>2 DEF Began
      <4> QED BY <1>4, <2>1, <4>3
    <3> QED BY <3>5, <3>6
  <2>3. \A k \in DOMAIN running' : running'[k].kind = running[k].kind BY <1>4
  <2> QED BY <1>2, <1>4, <1>12, <2>1, <2>2, <2>3 DEF SessionsEnd
<1>27. ReportsAreTrue'
  <2>1. \A w \in reported.rolledBack : w \notin table' BY <1>2, <1>25 DEF TakenBack, Given
  <2> QED BY <1>1, <1>2, <1>13, <2>1 DEF ReportsAreTrue
<1> QED BY <1>14, <1>15, <1>16, <1>17, <1>21, <1>23, <1>25, <1>26, <1>27 DEF BridgeInv

(* The worker answers the first call of its queue.                               *)
LEMMA RepliesKeeps == ASSUME BridgeInv, Replies PROVE BridgeInv'
<1> DEFINE h == running[1]
<1>1. /\ BridgeShapes /\ QueueKnown /\ SessionKnown /\ CallerKnown /\ TxKnown
      /\ Acknowledged /\ TakenBack /\ SessionsEnd /\ ReportsAreTrue
    BY DEF BridgeInv
<1>2. running \in Seq(Statement) /\ replies \in Seq([seq : Call, ok : BOOLEAN]) /\ running # <<>>
    BY <1>1 DEF BridgeShapes, Replies
<1>3. /\ Head(running) = h /\ h \in Statement /\ 1 \in DOMAIN running
      /\ Tail(running) \in Seq(Statement) /\ Len(Tail(running)) = Len(running) - 1
      /\ \A j \in DOMAIN Tail(running) : /\ j + 1 \in DOMAIN running /\ j + 1 > 1
                                         /\ Tail(running)[j] = running[j + 1]
      /\ \A j \in DOMAIN running :
            j # 1 => j - 1 \in DOMAIN Tail(running) /\ Tail(running)[j - 1] = running[j]
    BY <1>2, CallAnswered
<1> HIDE DEF h
<1>4. /\ h.done /\ running' = Tail(running)
      /\ replies' = Append(replies, [seq |-> h.seq, ok |-> h.ok])
      /\ txGeneration' = IF h.kind = "begin" /\ h.ok THEN generation ELSE txGeneration
      /\ UNCHANGED <<callSeq, caller, reported, stray, client, connecting, generation, session,
                     table>>
    BY <1>3 DEF Replies, Main
<1>5. /\ running' \in Seq(Statement) /\ Len(running') = Len(running) - 1
      /\ \A j \in DOMAIN running' : /\ j + 1 \in DOMAIN running /\ j + 1 > 1
                                    /\ running'[j] = running[j + 1]
      /\ \A j \in DOMAIN running :
            j # 1 => j - 1 \in DOMAIN running' /\ running'[j - 1] = running[j]
    BY <1>3, <1>4
<1>6. /\ Len(running) \in Nat
      /\ \A j \in DOMAIN running : j \in Nat \ {0} /\ j <= Len(running)
      /\ \A j \in DOMAIN running : running[j].seq \in Int
      /\ \A j \in DOMAIN running' : j \in Nat \ {0}
      /\ h.seq \in Call /\ h.ok \in BOOLEAN /\ h.kind \in Kind /\ callSeq \in Int
      /\ DOMAIN running = 1..Len(running)
  <2>1. /\ Len(running) \in Nat /\ DOMAIN running = 1..Len(running)
        /\ \A j \in DOMAIN running : /\ j \in Nat \ {0} /\ j <= Len(running)
                                     /\ running[j] \in Statement
        /\ \A j \in DOMAIN running' : j \in Nat \ {0}
      BY <1>2, <1>5, QueueDomain
  <2>2. \A j \in DOMAIN running : running[j].seq \in Int BY <2>1 DEF Statement, Call
  <2>3. h.seq \in Call /\ h.ok \in BOOLEAN /\ h.kind \in Kind BY <1>3 DEF Statement
  <2> QED BY <1>1, <2>1, <2>2, <2>3 DEF BridgeShapes
<1>7. /\ \A j \in DOMAIN running : running[j].seq <= callSeq /\ running[j].on = client
      /\ \A j, k \in DOMAIN running :
            j < k => running[j].seq < running[k].seq /\ (running[k].done => running[j].done)
    BY <1>1 DEF QueueKnown
\* If the answer is the one the program waits for, nothing is left of the queue.
<1>8. h.seq = callSeq => DOMAIN running = {1} /\ running' = <<>>
  <2> SUFFICES ASSUME h.seq = callSeq PROVE DOMAIN running = {1} /\ running' = <<>> OBVIOUS
  <2>1. ASSUME NEW j \in DOMAIN running, j # 1 PROVE FALSE
    <3>1. 1 < j /\ running[1].seq < running[j].seq BY <1>3, <1>6, <1>7, <2>1
    <3> QED BY <1>6, <1>7, <3>1 DEF h
  <2>2. DOMAIN running = {1} BY <1>3, <2>1
  <2>3. Len(running) = 1
    <3>1. 1 <= Len(running) BY <1>3, <1>6
    <3>2. Len(running) \in DOMAIN running BY <1>6, <3>1
    <3> QED BY <2>2, <3>2
  <2> QED BY <1>5, <2>2, <2>3, EmptySeq
<1>9. /\ replies' \in Seq([seq : Call, ok : BOOLEAN])
      /\ \A j \in DOMAIN replies' : replies'[j].seq <= callSeq
      /\ Told(TRUE)' <=> Told(TRUE) \/ (h.seq = callSeq /\ h.ok)
      /\ Told(FALSE)' <=> Told(FALSE) \/ (h.seq = callSeq /\ ~h.ok)
  <2> DEFINE Reply == [seq : Call, ok : BOOLEAN]
             r == [seq |-> h.seq, ok |-> h.ok]
  <2>1. r \in Reply /\ r.seq = h.seq /\ r.ok = h.ok BY <1>6
  <2> HIDE DEF Reply, r
  <2>2. replies \in Seq(Reply) /\ replies' = Append(replies, r) BY <1>2, <1>4 DEF Reply, r
  <2>3. /\ replies' \in Seq(Reply) /\ Len(replies') = Len(replies) + 1
        /\ \A j \in 1..Len(replies) : replies'[j] = replies[j]
        /\ replies'[Len(replies) + 1] = r
      BY <2>1, <2>2, AppendProperties
  <2>4. /\ DOMAIN replies' = 1..(Len(replies) + 1) /\ DOMAIN replies = 1..Len(replies)
        /\ Len(replies) \in Nat
      BY <2>2, <2>3
  <2>5. /\ \A j \in DOMAIN replies : j \in DOMAIN replies' /\ replies'[j] = replies[j]
        /\ Len(replies) + 1 \in DOMAIN replies'
        /\ \A j \in DOMAIN replies' : j \in DOMAIN replies \/ j = Len(replies) + 1
      BY <2>3, <2>4
  <2>6. \A j \in DOMAIN replies' : replies'[j].seq <= callSeq
    <3>1. \A j \in DOMAIN replies : replies[j].seq <= callSeq BY <1>1 DEF QueueKnown
    <3>2. h.seq <= callSeq BY <1>3, <1>7 DEF h
    <3> QED BY <2>1, <2>3, <2>5, <3>1, <3>2
  <2>7. Told(TRUE)' <=> Told(TRUE) \/ (h.seq = callSeq /\ h.ok)
      BY <1>4, <1>6, <2>1, <2>3, <2>5 DEF Told
  <2>8. Told(FALSE)' <=> Told(FALSE) \/ (h.seq = callSeq /\ ~h.ok)
      BY <1>4, <1>6, <2>1, <2>3, <2>5 DEF Told
  <2> QED BY <2>3, <2>6, <2>7, <2>8 DEF Reply
<1>10. caller.waits => ~Told(TRUE) BY <1>1, <1>2 DEF QueueKnown
<1>11. h.seq = callSeq <=> Own(1) BY DEF h, Own
<1>12. InTransaction' <=> InTransaction BY <1>4 DEF InTransaction
<1>13. \A j \in DOMAIN running' : Own(j)' <=> Own(j + 1) BY <1>4, <1>5 DEF Own
<1>14. BridgeShapes' BY <1>1, <1>4, <1>5, <1>9 DEF BridgeShapes
<1>15. QueueKnown'
  <2>1. \A j \in DOMAIN running' : running'[j].seq <= callSeq /\ running'[j].on = client
      BY <1>5, <1>7
  <2>2. ASSUME NEW j \in DOMAIN running', NEW k \in DOMAIN running', j < k
        PROVE  running'[j].seq < running'[k].seq /\ (running'[k].done => running'[j].done)
    <3>1. j + 1 < k + 1 BY <1>6, <2>2
    <3> QED BY <1>5, <1>7, <3>1
  <2>3. \A w \in table \cup session.writes : w <= callSeq BY <1>1 DEF QueueKnown
  <2>4. ASSUME caller.waits, Told(FALSE)'
        PROVE  ~Told(TRUE)' /\ \A j \in DOMAIN running' : ~Own(j)'
    <3>1. CASE Told(FALSE)
      <4>1. \A j \in DOMAIN running : ~Own(j) BY <1>1, <2>4, <3>1 DEF QueueKnown
      <4> QED BY <1>3, <1>5, <1>9, <1>10, <1>11, <1>13, <2>4, <4>1
    <3>2. CASE h.seq = callSeq /\ ~h.ok
      <4>1. DOMAIN running' = {} BY <1>8, <3>2
      <4> QED BY <1>9, <1>10, <2>4, <3>2, <4>1
    <3> QED BY <1>9, <2>4, <3>1, <3>2
  <2>5. caller.waits => \A j \in DOMAIN running' : Own(j)' => running'[j].kind = caller.kind
      BY <1>1, <1>5, <1>13 DEF QueueKnown
  <2>6. caller.waits /\ Told(TRUE)' => running' = <<>> BY <1>8, <1>9, <1>10
  <2> QED BY <1>4, <1>9, <2>1, <2>2, <2>3, <2>4, <2>5, <2>6 DEF QueueKnown
<1>16. SessionKnown' BY <1>1, <1>4 DEF SessionKnown, NoTx
<1>17. CallerKnown' BY <1>1, <1>4 DEF CallerKnown
<1>18. InTransaction => /\ txGeneration' = txGeneration /\ client = txGeneration
                        /\ session.open
  <2> SUFFICES ASSUME InTransaction
               PROVE  txGeneration' = txGeneration /\ client = txGeneration /\ session.open
      OBVIOUS
  <2>1. h.kind = "write" BY <1>1, <1>3 DEF TxKnown, h
  <2> QED BY <1>1, <1>2, <1>4, <2>1 DEF TxKnown
<1>19. TxKnown'
  <2>1. caller.inTx /\ ~(caller.waits /\ caller.mustRollBack) =>
          /\ Len(running') <= 1
          /\ ~caller.mustRollBack => \A j \in DOMAIN running' : caller.waits /\ Own(j)'
      BY <1>1, <1>5, <1>6, <1>13 DEF TxKnown
  <2>2. InTransaction =>
          /\ \A j \in DOMAIN running' : running'[j].kind = "write"
          /\ txGeneration' # 0 /\ caller.tried \cap table = {}
      BY <1>1, <1>5, <1>18 DEF TxKnown
  <2> QED BY <1>4, <1>12, <1>18, <2>1, <2>2 DEF TxKnown
<1>20. Acknowledged'
  <2>1. ASSUME InTransaction, ~caller.mustRollBack
        PROVE  /\ caller.acked \subseteq session.writes
               /\ caller.waits /\ DOMAIN running' = {}
               /\ Told(TRUE)' => ~session.failed /\ callSeq \in session.writes
    <3>1. caller.inTx /\ ~(caller.waits /\ caller.mustRollBack) BY <2>1 DEF InTransaction
    <3>2. caller.waits /\ Own(1) BY <1>1, <1>3, <2>1, <3>1 DEF TxKnown
    <3>3. DOMAIN running' = {} BY <1>8, <1>11, <3>2
    <3>4. h.ok => ~session.failed /\ callSeq \in session.writes
        BY <1>1, <1>3, <1>4, <1>18, <2>1, <3>2 DEF Acknowledged, h
    <3>5. caller.acked \subseteq session.writes BY <1>1, <1>18, <2>1 DEF Acknowledged
    <3> QED BY <1>9, <1>10, <3>2, <3>3, <3>4, <3>5
  <2>2. ASSUME caller.waits, caller.kind = "commit"
        PROVE  /\ \A j \in DOMAIN running' :
                    IF running'[j].done THEN caller.acked \subseteq table
                    ELSE session.open /\ ~session.failed /\ caller.acked \subseteq session.writes
               /\ Told(TRUE)' => caller.acked \subseteq table
    <3>1. \A j \in DOMAIN running :
             IF running[j].done THEN caller.acked \subseteq table
             ELSE session.open /\ ~session.failed /\ caller.acked \subseteq session.writes
        BY <1>1, <2>2 DEF Acknowledged
    <3>2. caller.acked \subseteq table BY <1>3, <1>4, <3>1 DEF h
    <3> QED BY <1>5, <3>1, <3>2
  <2>3. ASSUME caller.waits, caller.kind = "begin"
        PROVE  /\ \A j \in DOMAIN running' :
                     Own(j)' /\ running'[j].done /\ running'[j].ok =>
                        session.open /\ ~session.failed
               /\ Told(TRUE)' => /\ txGeneration' # 0 /\ client = txGeneration'
                                 /\ session.open /\ ~session.failed
    <3>1. \A j \in DOMAIN running :
             Own(j) /\ running[j].done /\ running[j].ok => session.open /\ ~session.failed
        BY <1>1, <2>3 DEF Acknowledged
    <3>2. ASSUME Told(TRUE)'
          PROVE  txGeneration' # 0 /\ client = txGeneration' /\ session.open /\ ~session.failed
      <4>1. Own(1) /\ h.ok BY <1>9, <1>10, <1>11, <2>3, <3>2
      <4>2. session.open /\ ~session.failed BY <1>3, <1>4, <3>1, <4>1 DEF h
      <4>3. h.kind = "begin" BY <1>1, <1>3, <2>3, <4>1 DEF QueueKnown, h
      <4>4. client # 0 /\ client = generation
          BY <1>1, <4>2 DEF SessionKnown, BridgeShapes
      <4> QED BY <1>4, <4>1, <4>2, <4>3, <4>4
    <3> QED BY <1>5, <1>13, <3>1, <3>2
  <2>4. ASSUME caller.waits, ~caller.inTx, caller.kind = "write", ~stray
        PROVE  /\ \A j \in DOMAIN running' :
                     Own(j)' /\ running'[j].done /\ running'[j].ok => callSeq \in table
               /\ Told(TRUE)' => callSeq \in table
    <3>1. \A j \in DOMAIN running :
             Own(j) /\ running[j].done /\ running[j].ok => callSeq \in table
        BY <1>1, <2>4 DEF Acknowledged
    <3>2. Told(TRUE)' => callSeq \in table
        BY <1>3, <1>4, <1>9, <1>10, <1>11, <2>4, <3>1 DEF h
    <3> QED BY <1>5, <1>13, <3>1, <3>2
  <2> QED BY <1>4, <1>12, <2>1, <2>2, <2>3, <2>4 DEF Acknowledged
<1>21. ASSUME NEW w, Given(w) PROVE Given(w)'
  <2>1. ComesTo(w)' => ComesTo(w) BY <1>4, <1>5 DEF ComesTo
  <2>2. ASSUME RollsBack(w) PROVE RollsBack(w)'
    <3>1. PICK k \in DOMAIN running :
             /\ running[k].kind = "rollback" /\ ~running[k].done
             /\ \A j \in DOMAIN running : IF j < k THEN running[j].kind = "write"
                                          ELSE running[j].seq # w
        BY <2>2 DEF RollsBack
    <3>2. k # 1 BY <1>4, <3>1 DEF h
    <3>3. k - 1 \in DOMAIN running' /\ running'[k - 1] = running[k] BY <1>5, <3>2
    <3>4. ASSUME NEW j \in DOMAIN running'
          PROVE  IF j < k - 1 THEN running'[j].kind = "write" ELSE running'[j].seq # w
      <4>1. j < k - 1 <=> j + 1 < k BY <1>6
      <4> QED BY <1>5, <3>1, <4>1
    <3>5. session'.open BY <1>4, <2>2 DEF RollsBack
    <3> QED BY <3>1, <3>3, <3>4, <3>5 DEF RollsBack
  <2> QED BY <1>4, <1>21, <2>1, <2>2 DEF Given
<1>22. TakenBack' BY <1>1, <1>4, <1>21 DEF TakenBack
<1>23. SessionsEnd'
  <2> SUFFICES ASSUME ~stray PROVE SessionsEnd' BY <1>4 DEF SessionsEnd
  <2>1. \A j \in DOMAIN running' :
           running'[j].kind = "begin" => caller.waits /\ caller.kind = "begin" /\ Own(j)'
      BY <1>1, <1>5, <1>13 DEF SessionsEnd
  <2>2. ASSUME session.open
        PROVE  \/ \E k \in DOMAIN running' : running'[k].kind \in Ending /\ ~running'[k].done
               \/ caller.inTx /\ ~(caller.waits /\ caller.kind \in Ending)
               \/ /\ caller.waits /\ caller.kind = "begin"
                  /\ \/ Told(TRUE)'
                     \/ \E j \in DOMAIN running' : Own(j)' /\ running'[j].done /\ running'[j].ok
    <3>1. CASE \E k \in DOMAIN running : running[k].kind \in Ending /\ ~running[k].done
      <4>1. PICK k \in DOMAIN running : running[k].kind \in Ending /\ ~running[k].done
          BY <3>1
      <4>2. k # 1 BY <1>4, <4>1 DEF h
      <4> QED BY <1>5, <4>1, <4>2
    <3>2. CASE /\ caller.waits /\ caller.kind = "begin"
               /\ \E j \in DOMAIN running : Own(j) /\ running[j].done /\ running[j].ok
      <4>1. PICK j \in DOMAIN running : Own(j) /\ running[j].done /\ running[j].ok BY <3>2
      <4>2. CASE j = 1 BY <1>9, <1>11, <3>2, <4>1, <4>2 DEF h
      <4>3. CASE j # 1
        <5>1. j - 1 \in DOMAIN running' /\ running'[j - 1] = running[j] BY <1>5, <4>3
        <5>2. Own(j - 1)' BY <1>4, <4>1, <5>1 DEF Own
        <5> QED BY <3>2, <4>1, <5>1, <5>2
      <4> QED BY <4>2, <4>3
    <3> QED BY <1>1, <1>10, <2>2, <3>1, <3>2 DEF SessionsEnd
  <2> QED BY <1>4, <2>1, <2>2 DEF SessionsEnd
<1>24. ReportsAreTrue' BY <1>1, <1>4 DEF ReportsAreTrue
<1> QED BY <1>14, <1>15, <1>16, <1>17, <1>19, <1>20, <1>22, <1>23, <1>24 DEF BridgeInv

LEMMA BridgeStutters == BridgeInv /\ UNCHANGED bridgeVars => BridgeInv'
BY DEF BridgeInv, BridgeShapes, QueueKnown, SessionKnown, CallerKnown, TxKnown, Acknowledged,
       TakenBack, SessionsEnd, ReportsAreTrue, Own, Told, InTransaction, Given, ComesTo, RollsBack,
       NoTx, bridgeVars

LEMMA BridgeStarts == PgBridgeInit => BridgeInv
<1> SUFFICES ASSUME PgBridgeInit PROVE BridgeInv OBVIOUS
<1> USE PgBridgeAssumption DEF PgBridgeInit
<1>1. caller \in Caller /\ ~caller.inTx /\ ~caller.waits /\ ~caller.commitTried
      /\ ~caller.mustRollBack /\ caller.acked = {} /\ caller.tried = {}
    BY DEF Caller, Kind
<1>2. /\ running \in Seq(Statement) /\ DOMAIN running = {}
      /\ replies \in Seq([seq : Call, ok : BOOLEAN]) /\ DOMAIN replies = {}
    OBVIOUS
<1>3. ~session.open /\ session.writes = {} /\ session = NoTx BY DEF NoTx
<1>4. BridgeShapes
  <2>1. session \in [open : BOOLEAN, failed : BOOLEAN, writes : SUBSET Call] BY DEF NoTx
  <2>2. reported \in [committed : SUBSET Call, rolledBack : SUBSET Call, single : SUBSET Call]
      OBVIOUS
  <2>3. /\ 0 \in 0..LastCall /\ 0 \in 0..(MaxLosses + 1) /\ 0 \in 0..0
        /\ TRUE \in BOOLEAN /\ FALSE \in BOOLEAN
      OBVIOUS
  <2> QED BY <1>1, <1>2, <2>1, <2>2, <2>3 DEF BridgeShapes
<1>5. QueueKnown BY <1>1, <1>2, <1>3 DEF QueueKnown
<1>6. SessionKnown BY <1>3 DEF SessionKnown
<1>7. CallerKnown BY <1>1 DEF CallerKnown
<1>8. TxKnown BY <1>1 DEF TxKnown, InTransaction
<1>9. Acknowledged BY <1>1 DEF Acknowledged, InTransaction
<1>10. TakenBack BY <1>1 DEF TakenBack
<1>11. SessionsEnd BY <1>2, <1>3 DEF SessionsEnd
<1>12. ReportsAreTrue BY DEF ReportsAreTrue
<1> QED BY <1>4, <1>5, <1>6, <1>7, <1>8, <1>9, <1>10, <1>11, <1>12 DEF BridgeInv

LEMMA BridgeSteps == BridgeInv /\ [PgBridgeNext]_bridgeVars => BridgeInv'
<1> SUFFICES ASSUME BridgeInv, [PgBridgeNext]_bridgeVars PROVE BridgeInv' OBVIOUS
<1>1. ASSUME NEW k \in Kind, Calls(k) PROVE BridgeInv' BY <1>1, CallsKeep
<1>2. CASE TakesReply BY <1>2, TakesReplyKeeps
<1>3. CASE TimesOut BY <1>3, TimesOutKeeps
<1>4. CASE Connects BY <1>4, ConnectsKeeps
<1>5. CASE ConnectFails \/ ConnectionLost BY <1>5, LossKeeps
<1>6. ASSUME NEW i \in DOMAIN running, PostgresRuns(i) \/ StatementFails(i) PROVE BridgeInv'
    BY <1>6, StatementKeeps
<1>7. CASE Replies BY <1>7, RepliesKeeps
<1>8. CASE UNCHANGED bridgeVars BY <1>8, BridgeStutters
<1> QED BY <1>1, <1>2, <1>3, <1>4, <1>5, <1>6, <1>7, <1>8 DEF PgBridgeNext

(* Whatever the program was told of its writes is what became of them: a        *)
(* transaction whose COMMIT was acknowledged is in the table whole, one rolled   *)
(* back before COMMIT left nothing, and a single write that was acknowledged is  *)
(* there unless a BEGIN has timed out (pg-driver.js, call and transaction;       *)
(* pg-worker.js, runQuery), for any number of calls, timeouts and losses.        *)
THEOREM ReportsStayTrue == PgBridgeSpec => []ReportsAreTrue
<1>1. BridgeInv => ReportsAreTrue BY DEF BridgeInv
<1> QED BY BridgeStarts, BridgeSteps, <1>1, PTL DEF PgBridgeSpec

(* The bridge keeps its state well formed: what is queued, answered and reported *)
(* are calls that were made, on connections that were opened.                    *)
MishapsBounded == timeouts \in 0..MaxTimeouts /\ losses \in 0..MaxLosses

LEMMA BridgeTyped == PgBridgeSpec => []PgBridgeTypes
<1>1. PgBridgeInit => MishapsBounded
  BY PgBridgeAssumption DEF PgBridgeInit, MishapsBounded
<1>2. MishapsBounded /\ [PgBridgeNext]_bridgeVars => MishapsBounded'
  <2> SUFFICES ASSUME MishapsBounded, [PgBridgeNext]_bridgeVars PROVE MishapsBounded'
      OBVIOUS
  <2> USE PgBridgeAssumption DEF MishapsBounded, Main
  <2>1. ASSUME NEW k \in Kind, Calls(k) PROVE MishapsBounded' BY <2>1 DEF Calls
  <2>2. CASE TakesReply BY <2>2 DEF TakesReply
  <2>3. CASE TimesOut BY <2>3 DEF TimesOut
  <2>4. CASE Connects \/ Replies BY <2>4 DEF Connects, Replies
  <2>5. CASE ConnectFails \/ ConnectionLost BY <2>5 DEF ConnectFails, ConnectionLost
  <2>6. ASSUME NEW i \in DOMAIN running, PostgresRuns(i) \/ StatementFails(i)
        PROVE  MishapsBounded'
    <3>1. CASE PostgresRuns(i)
      <4>1. UNCHANGED <<timeouts, losses>> BY <3>1 DEF PostgresRuns
      <4> QED BY <4>1
    <3>2. CASE StatementFails(i) BY <3>2 DEF StatementFails
    <3> QED BY <2>6, <3>1, <3>2
  <2>7. CASE UNCHANGED bridgeVars BY <2>7 DEF bridgeVars
  <2> QED BY <2>1, <2>2, <2>3, <2>4, <2>5, <2>6, <2>7 DEF PgBridgeNext
<1>3. BridgeInv /\ MishapsBounded => PgBridgeTypes
  <2> SUFFICES ASSUME BridgeInv, MishapsBounded PROVE PgBridgeTypes OBVIOUS
  <2>1. BridgeShapes BY DEF BridgeInv
  <2>2. client \in 0..generation
      BY <2>1, PgBridgeAssumption DEF BridgeShapes
  <2> QED BY <2>1, <2>2 DEF BridgeShapes, MishapsBounded, PgBridgeTypes
<1> QED BY <1>1, <1>2, <1>3, BridgeStarts, BridgeSteps, PTL DEF PgBridgeSpec

=============================================================================
