------------------------- MODULE ArtifactPublication -------------------------
(* How backups and restores put a set of files at their public paths            *)
(* (publishPrivateFiles in scripts/backup-store.js): what is there already is    *)
(* moved aside, the staged files are linked in, read back and verified, and      *)
(* when anything fails the paths get back what they held.  Everything is         *)
(* synchronous, but other processes use the same directories, every call may     *)
(* fail, and the process may die between any two of them.                        *)
EXTENDS Integers, FiniteSets

CONSTANTS
    Artifacts,        \* how many files a set has: they are published in this order
    Nil,              \* no artifact at a path
    StagingDisturbed, \* whether others, or errors, disturb the moving aside as well
    MaxIntrusions,    \* bound: how often others touch a path
    MaxErrors         \* bound: calls that fail

ASSUME PublicationAssumption ==
    /\ Artifacts \in Nat \ {0} /\ StagingDisturbed \in BOOLEAN
    /\ MaxIntrusions \in Nat /\ MaxErrors \in Nat

VARIABLES
    force,       \* --force
    step,        \* what publishPrivateFiles does next, and for which item
    before,      \* ghost: what was at each target path when it began
    public,      \* the artifact at each target path
    aside,       \* what the rollback directory holds of each item
    seen,        \* the identity of each existing artifact (assertExistingArtifactType)
    rewritten,   \* items whose existing artifact was written since then
    movedAside,  \* state.moved
    linked,      \* published
    blocked,     \* a path could not be cleared, or a prior artifact not be restored
    keptAside,   \* artifacts retained beside their path, and reported
    quarantine,  \* the artifact being removed from a path
    discarded,   \* ghost: artifacts the publication removed, or renamed another over
    intrusions, errors, \* ghosts: what the bounds count
    late         \* ghost: paths taken between restoreMovedArtifacts' look and its rename

work == <<movedAside, linked, blocked, quarantine>>
paths == <<public, aside, keptAside>>
bounds == <<intrusions, errors>>
given == <<force, before>>
publicationVars == <<given, step, paths, seen, rewritten, work, discarded, bounds, late>>

Item == 1..Artifacts

Old(i) == [from |-> "prior", item |-> i]
New(i) == [from |-> "staged", item |-> i]
Foreign(i) == [from |-> "others", item |-> i]
Artifact == [from : {"prior", "staged", "others"}, item : Item]

ASSUME NilIsNoArtifact == Nil \notin Artifact

Finals == {"published", "refused", "preserved", "recovery"}

Doing == {"inspect", "move", "check", "link", "compare", "settle", "remove", "discard",
          "collide", "restore", "return", "confirm"}

At(what, i) == [what |-> what, item |-> i]
Then(what) == At(what, 0)

PublicationTypes ==
    /\ force \in BOOLEAN
    /\ step \in [what : Doing, item : Item]
                \cup [what : {"verify", "current", "retire", "clean"} \cup Finals, item : {0}]
    /\ before \in [Item -> Artifact \cup {Nil}]
    /\ public \in [Item -> Artifact \cup {Nil}] /\ aside \in [Item -> Artifact \cup {Nil}]
    /\ seen \in [Item -> Artifact \cup {Nil}]
    /\ rewritten \subseteq Item /\ movedAside \subseteq Item /\ linked \subseteq Item
    /\ blocked \in BOOLEAN /\ keptAside \subseteq Artifact
    /\ quarantine \in Artifact \cup {Nil}
    /\ discarded \subseteq Artifact
    /\ intrusions \subseteq Item /\ errors \in 0..MaxErrors /\ late \subseteq Item

PublicationInit ==
    /\ force \in BOOLEAN
    /\ public \in [Item -> Artifact \cup {Nil}]
    /\ \A i \in Item : public[i] \in {Old(i), Nil}
    \* assertWritable
    /\ force \/ \A i \in Item : public[i] = Nil
    /\ before = public
    /\ step = IF force THEN At("inspect", 1) ELSE At("link", 1)
    /\ aside = [i \in Item |-> Nil] /\ seen = [i \in Item |-> Nil]
    /\ rewritten = {} /\ movedAside = {} /\ linked = {} /\ blocked = FALSE
    /\ keptAside = {} /\ quarantine = Nil /\ discarded = {}
    /\ intrusions = {} /\ errors = 0 /\ late = {}

Errs == errors < MaxErrors /\ errors' = errors + 1

Fine == UNCHANGED errors

Follows(what, i, next) == IF i < Artifacts THEN At(what, i + 1) ELSE next

Precedes(what, i, next) == IF i > 1 THEN At(what, i - 1) ELSE next

------------------------------------------------------------------------------
(* Other processes *)

Disturbable == StagingDisturbed \/ step.what \notin {"inspect", "move", "check"}

\* Another process renames its own file to a path.
Intrudes(i) ==
    /\ Disturbable /\ step.what \notin Finals
    /\ Cardinality(intrusions) < MaxIntrusions /\ i \notin intrusions
    /\ intrusions' = intrusions \cup {i}
    /\ public' = [public EXCEPT ![i] = Foreign(i)]
    /\ late' = IF step = At("return", i) THEN late \cup {i} ELSE late
    /\ UNCHANGED <<given, step, aside, keptAside, seen, rewritten, work, discarded, errors>>

\* A database that is still open is written, wherever its file is moved.
Writes(i) ==
    /\ Disturbable /\ step.what \notin Finals
    /\ Cardinality(intrusions) < MaxIntrusions /\ i \notin intrusions
    /\ seen[i] # Nil /\ (public[i] = seen[i] \/ aside[i] = seen[i])
    /\ intrusions' = intrusions \cup {i}
    /\ rewritten' = rewritten \cup {i}
    /\ UNCHANGED <<given, step, paths, seen, work, discarded, errors, late>>

------------------------------------------------------------------------------
(* stageExistingArtifacts *)

\* The rollback restores the last artifact that was moved first.
Undoes == At("restore", Artifacts)

InspectExisting(i) ==
    /\ step = At("inspect", i)
    /\ IF public[i] = Nil
       THEN /\ step' = Follows("inspect", i, At("link", 1))
            /\ UNCHANGED <<seen, rewritten, errors>>
       ELSE \/ /\ seen' = [seen EXCEPT ![i] = public[i]]
               /\ rewritten' = rewritten \ {i}
               /\ step' = At("move", i) /\ Fine
            \* An artifact with another link is refused where it is.
            \/ step' = Undoes /\ Errs /\ UNCHANGED <<seen, rewritten>>
    /\ UNCHANGED <<given, paths, work, discarded, intrusions, late>>

\* The rename takes whatever is at the path by now.
MoveAside(i) ==
    /\ step = At("move", i)
    /\ \/ /\ aside' = [aside EXCEPT ![i] = public[i]]
          /\ public' = [public EXCEPT ![i] = Nil]
          /\ step' = At("check", i) /\ Fine
       \/ step' = Undoes /\ Errs /\ UNCHANGED <<aside, public>>
    /\ UNCHANGED <<given, keptAside, seen, rewritten, work, discarded, intrusions, late>>

Untouched(i) == aside[i] = seen[i] /\ i \notin rewritten

\* Only an artifact that passes is entered into state.moved.
CheckMoved(i) ==
    /\ step = At("check", i)
    /\ \/ /\ Untouched(i) /\ Fine
          /\ movedAside' = movedAside \cup {i}
          /\ step' = Follows("inspect", i, At("link", 1))
       \* restrictPath
       \/ Untouched(i) /\ Errs /\ movedAside' = movedAside \cup {i} /\ step' = Undoes
       \/ ~Untouched(i) /\ step' = Undoes /\ Fine /\ UNCHANGED movedAside
       \/ StagingDisturbed /\ Errs /\ step' = Undoes /\ UNCHANGED movedAside
    /\ UNCHANGED <<given, paths, linked, blocked, quarantine, seen, rewritten, discarded,
                   intrusions, late>>

------------------------------------------------------------------------------
(* publishStagedFiles, the verification and assertPublishedArtifactsCurrent *)

Withdraws == At("remove", Artifacts)

\* link(2) does not replace, and neither does the rename of a directory.
PathVacant(i) == public[i] = Nil

LinkStaged(i) ==
    /\ step = At("link", i)
    /\ \/ /\ PathVacant(i) /\ Fine
          /\ public' = [public EXCEPT ![i] = New(i)]
          /\ linked' = linked \cup {i}
          /\ step' = At("compare", i)
       \/ ~PathVacant(i) /\ step' = Withdraws /\ Fine /\ UNCHANGED <<public, linked>>
       \/ step' = Withdraws /\ Errs /\ UNCHANGED <<public, linked>>
    /\ UNCHANGED <<given, aside, keptAside, seen, rewritten, movedAside, blocked, quarantine,
                   discarded, intrusions, late>>

\* Goes on to `next' when what the call looks at is there, and withdraws if not.
Expects(good, next) ==
    /\ \/ good /\ step' = next /\ Fine
       \/ ~good /\ step' = Withdraws /\ Fine
       \/ step' = Withdraws /\ Errs
    /\ UNCHANGED <<given, paths, seen, rewritten, work, discarded, intrusions, late>>

\* The target is read back, the staged link removed, the target hardened,
\* flushed and read once more.
CompareLinked(i) ==
    step = At("compare", i) /\ Expects(public[i] = New(i), At("settle", i))

SettleLinked(i) ==
    /\ step = At("settle", i)
    /\ Expects(public[i] = New(i), Follows("link", i, Then("verify")))

AllNew == \A i \in Item : public[i] = New(i)

\* verifyBackup reads the files by their public paths.
VerifyPublished == step = Then("verify") /\ Expects(AllNew, Then("current"))

Committed == IF force THEN Then("retire") ELSE Then("published")

AssertCurrent == step = Then("current") /\ Expects(AllNew, Committed)

------------------------------------------------------------------------------
(* removePublishedArtifacts, quarantineRollbackCollisions *)

Collides == At("collide", Artifacts)

\* Whatever is at the path is renamed away before it is looked at.
QuarantineLinked(i) ==
    /\ step = At("remove", i)
    /\ \/ /\ i \notin linked \/ public[i] = Nil
          /\ step' = Precedes("remove", i, Collides) /\ Fine
          /\ UNCHANGED <<public, quarantine, blocked>>
       \/ /\ i \in linked /\ public[i] # Nil /\ Fine
          /\ quarantine' = public[i]
          /\ public' = [public EXCEPT ![i] = Nil]
          /\ step' = At("discard", i) /\ UNCHANGED blocked
       \/ /\ i \in linked /\ public[i] # Nil /\ Errs
          /\ blocked' = TRUE
          /\ step' = Precedes("remove", i, Collides) /\ UNCHANGED <<public, quarantine>>
    /\ UNCHANGED <<given, aside, keptAside, seen, rewritten, movedAside, linked,
                   discarded, intrusions, late>>

\* Mutant: what was moved away is removed unseen.
Owned_Assumed(i) == TRUE

\* quarantinedArtifactMatchesPublication
Owned(i) == quarantine = New(i)

DiscardLinked(i) ==
    /\ step = At("discard", i)
    /\ \/ Owned(i) /\ Fine /\ discarded' = discarded \cup {quarantine} /\ UNCHANGED keptAside
       \/ ~Owned(i) /\ Fine /\ keptAside' = keptAside \cup {quarantine} /\ UNCHANGED discarded
       \/ Errs /\ keptAside' = keptAside \cup {quarantine} /\ UNCHANGED discarded
    /\ quarantine' = Nil
    /\ step' = Precedes("remove", i, Collides)
    /\ UNCHANGED <<given, public, aside, seen, rewritten, movedAside, linked, blocked,
                   intrusions, late>>

\* A newcomer at the path of a moved artifact is kept beside it, unless a path
\* is blocked already: then nothing is restored.
SetCollisionAside(i) ==
    LET collision == force /\ ~blocked /\ i \in movedAside /\ public[i] # Nil IN
    /\ step = At("collide", i)
    /\ \/ /\ collision /\ Fine
          /\ keptAside' = keptAside \cup {public[i]}
          /\ public' = [public EXCEPT ![i] = Nil] /\ UNCHANGED blocked
       \/ collision /\ Errs /\ blocked' = TRUE /\ UNCHANGED <<keptAside, public>>
       \/ ~collision /\ Fine /\ UNCHANGED <<keptAside, public, blocked>>
    /\ step' = Precedes("collide", i, IF blocked' THEN Then("recovery")
                                      ELSE IF force THEN Undoes
                                      ELSE IF keptAside' # {} THEN Then("preserved")
                                      ELSE Then("refused"))
    /\ UNCHANGED <<given, aside, seen, rewritten, movedAside, linked, quarantine,
                   discarded, intrusions, late>>

------------------------------------------------------------------------------
(* restoreMovedArtifacts, cleanupRollbackDirs *)

\* An artifact that cannot be restored does not keep the others from it.
NextRestored(i) ==
    step' = Precedes("restore", i, IF blocked' THEN Then("recovery") ELSE Then("clean"))

Restorable(i) == public[i] = Nil /\ Untouched(i)

\* The path is looked at, and the artifact aside compared with what was moved.
RestoreMoved(i) ==
    /\ step = At("restore", i)
    /\ \/ i \notin movedAside /\ Fine /\ UNCHANGED blocked /\ NextRestored(i)
       \/ i \in movedAside /\ Restorable(i) /\ Fine /\ UNCHANGED blocked /\ step' = At("return", i)
       \/ i \in movedAside /\ ~Restorable(i) /\ Fine /\ blocked' = TRUE /\ NextRestored(i)
       \/ i \in movedAside /\ Errs /\ blocked' = TRUE /\ NextRestored(i)
    /\ UNCHANGED <<given, paths, seen, rewritten, movedAside, linked, quarantine, discarded,
                   intrusions, late>>

\* rename(2) replaces what came to the path since then.
ReturnMoved(i) ==
    /\ step = At("return", i)
    /\ \/ /\ public' = [public EXCEPT ![i] = aside[i]]
          /\ aside' = [aside EXCEPT ![i] = Nil]
          /\ discarded' = discarded \cup ({public[i]} \ {Nil})
          /\ step' = At("confirm", i) /\ Fine /\ UNCHANGED blocked
       \/ Errs /\ blocked' = TRUE /\ NextRestored(i) /\ UNCHANGED <<public, aside, discarded>>
    /\ UNCHANGED <<given, keptAside, seen, rewritten, movedAside, linked, quarantine,
                   intrusions, late>>

\* It is read back, and gets its permissions back.
ConfirmReturned(i) ==
    /\ step = At("confirm", i)
    /\ \/ public[i] = seen[i] /\ i \notin rewritten /\ Fine /\ UNCHANGED blocked
       \/ (public[i] # seen[i] \/ i \in rewritten) /\ Fine /\ blocked' = TRUE
       \/ Errs /\ blocked' = TRUE
    /\ NextRestored(i)
    /\ UNCHANGED <<given, paths, seen, rewritten, movedAside, linked, quarantine, discarded,
                   intrusions, late>>

Kept == {aside[i] : i \in Item} \ {Nil}

\* The directory is removed with everything that is in it: after a rollback, and
\* once the new files are verified, when its failure is a warning only.
CleanRollback ==
    /\ step.what \in {"clean", "retire"}
    /\ \/ /\ discarded' = discarded \cup Kept
          /\ aside' = [i \in Item |-> Nil]
          /\ step' = IF step.what = "retire" THEN Then("published")
                     ELSE IF keptAside # {} THEN Then("preserved") ELSE Then("refused")
          /\ Fine
       \/ /\ step' = IF step.what = "retire" THEN Then("published") ELSE Then("recovery")
          /\ Errs /\ UNCHANGED <<aside, discarded>>
    /\ UNCHANGED <<given, public, keptAside, seen, rewritten, work, intrusions, late>>

------------------------------------------------------------------------------

PublicationNext ==
    \/ \E i \in Item :
          \/ InspectExisting(i) \/ MoveAside(i) \/ CheckMoved(i)
          \/ LinkStaged(i) \/ CompareLinked(i) \/ SettleLinked(i)
          \/ QuarantineLinked(i) \/ DiscardLinked(i) \/ SetCollisionAside(i)
          \/ RestoreMoved(i) \/ ReturnMoved(i) \/ ConfirmReturned(i)
          \/ Intrudes(i) \/ Writes(i)
    \/ VerifyPublished \/ AssertCurrent \/ CleanRollback

PublicationSpec == PublicationInit /\ [][PublicationNext]_publicationVars

------------------------------------------------------------------------------
(* Properties *)

\* "the prior artifact set remains recoverable until target-layout verification
\* succeeds" (docs/deployment/DEPLOYMENT.md): whenever the process may die, what
\* was moved aside has not been removed, unless the new files are verified.
PriorRecoverable ==
    \A i \in Item : Old(i) \in discarded => linked = Item /\ step = Then("published")

\* A publication replaces every file or none.  One that fails without a word of
\* recovery leaves each path that nobody else touched as it was; one that reports
\* recovery state has kept every prior artifact; and no artifact of another
\* process is removed, except one that takes a path after the roll-back found it
\* vacant and before it renames the prior artifact to it (publishPrivateFiles,
\* restoreMovedArtifacts, quarantineOwnedArtifact).
AllOrNothing ==
    /\ PriorRecoverable
    /\ \A i \in Item :
          /\ Foreign(i) \in discarded => i \in late
          /\ step.what \in {"refused", "preserved"} /\ i \notin intrusions => public[i] = before[i]
          /\ step.what \in Finals \ {"published"} /\ i \notin intrusions =>
                before[i] \in {Nil, public[i], aside[i]}
          /\ step.what = "published" /\ i \notin intrusions => public[i] = New(i)
=============================================================================
