--------------------------- MODULE FileMutationLock ---------------------------
(***************************************************************************)
(* The cross-process file lock of server/file-mutation-lock.js, at the     *)
(* granularity of its file system calls.  It guards the audit anchor's     *)
(* sidecars on SQLite, policy and license files, signing keys and gateway  *)
(* tokens.                                                                 *)
(*                                                                         *)
(* The lock is a directory renamed into place with one file that names its *)
(* owner.  Whoever finds the path taken may prove the owner dead, read it  *)
(* again, rename the directory to a private quarantine name, look at what  *)
(* it renamed, and only then delete.                                       *)
(*                                                                         *)
(* Abstractions.  A directory is its owner record: tokens are unguessable  *)
(* and unique, so two directories are the same exactly when their records  *)
(* are; inode and time comparisons add nothing.  Empty is the one owner-   *)
(* less directory a crash of an older version may have left.  The repeated *)
(* readings of one function that have nothing between them but other       *)
(* readings are one step, the last of them.  Each process runs one caller  *)
(* at a time: acquisition and release are synchronous inside a process.    *)
(***************************************************************************)
EXTENDS Integers

CONSTANTS
    Proc,          \* processes that use the lock, one pid each
    Host,          \* Host[p]: the lock hostname p was configured with
    Absent,        \* no directory at the path
    Empty,         \* the orphaned empty directory
    StartsEmpty,   \* TRUE: the orphan may be there at the beginning
    EmptyBlocks,   \* TRUE: a rename onto an empty directory fails (Windows)
    PidReuse,      \* TRUE: a dead owner's pid may be taken by another program
    MaxTokens,     \* bound on acquisitions
    MaxCrashes     \* bound on crashes

Owner == [token : Nat, proc : Proc, inc : Nat]

ASSUME ConstantsAssumption ==
    /\ Absent # Empty /\ Absent \notin Owner /\ Empty \notin Owner
    /\ StartsEmpty \in BOOLEAN /\ EmptyBlocks \in BOOLEAN
    /\ PidReuse \in BOOLEAN
    /\ MaxTokens \in Nat /\ MaxCrashes \in Nat

VARIABLES
    dir,        \* the directory at the lock path
    pc,         \* where each process is
    mode,       \* why it quarantines: "reclaim", "empty", "release", "abandon"
    mine,       \* the directory its last acquisition published
    expected,   \* the directory it means to remove
    moved,      \* the directory its last rename put into quarantine
    remembered, \* releasedOwnerTokens
    inc,        \* the incarnation of each process (processStart)
    lastToken,  \* the last token drawn
    crashes,    \* ghost: crashes so far, the one that left an orphan included
    deleted,    \* ghost: owner directories that were unlinked
    stranded    \* ghost: owners left at the path with no record of them kept

files  == <<dir, deleted, stranded>>
local  == <<pc, mode, mine, expected, moved, remembered>>
vars   == <<files, local, inc, lastToken, crashes>>

Stages == {"down", "idle", "try", "inspect", "hold", "contend", "empty", "wait",
           "confirm", "rename", "moved"}
Dir == Owner \union {Absent, Empty}

TypeOK ==
    /\ dir \in Dir
    /\ pc \in [Proc -> Stages]
    /\ mode \in [Proc -> {"reclaim", "empty", "release", "abandon"}]
    /\ mine \in [Proc -> Owner \union {Absent}]
    /\ expected \in [Proc -> Dir]
    /\ moved \in [Proc -> Dir]
    /\ remembered \in [Proc -> SUBSET Owner]
    /\ inc \in [Proc -> Nat]
    /\ lastToken \in Nat /\ crashes \in Nat
    /\ deleted \subseteq Owner /\ stranded \subseteq Owner

Init ==
    /\ dir \in IF StartsEmpty THEN {Absent, Empty} ELSE {Absent}
    /\ pc = [p \in Proc |-> "idle"]
    /\ mode = [p \in Proc |-> "reclaim"]
    /\ mine = [p \in Proc |-> Absent]
    /\ expected = [p \in Proc |-> Absent]
    /\ moved = [p \in Proc |-> Absent]
    /\ remembered = [p \in Proc |-> {}]
    /\ inc = [p \in Proc |-> 0]
    /\ lastToken = 0 /\ crashes = IF dir = Empty THEN 1 ELSE 0
    /\ deleted = {} /\ stranded = {}

Goto(p, stage) == pc' = [pc EXCEPT ![p] = stage]

------------------------------------------------------------------------------
(* tryAcquire *)

Start(p) ==
    /\ pc[p] = "idle"
    /\ Goto(p, "try")
    /\ UNCHANGED <<files, mode, mine, expected, moved, remembered, inc, lastToken, crashes>>

Vacant == dir = Absent \/ (dir = Empty /\ ~EmptyBlocks)

\* The complete temporary directory is renamed onto the lock path.
Publish(p) ==
    /\ pc[p] = "try"
    /\ Vacant
    /\ lastToken < MaxTokens
    /\ lastToken' = lastToken + 1
    /\ dir' = [token |-> lastToken + 1, proc |-> p, inc |-> inc[p]]
    /\ mine' = [mine EXCEPT ![p] = dir']
    /\ Goto(p, "inspect")
    /\ UNCHANGED <<mode, expected, moved, remembered, inc, crashes, deleted, stranded>>

\* The rename found the path taken; the temporary directory is removed, or
\* could not be, which ends the acquisition.
PublishBlocked(p) ==
    /\ pc[p] = "try"
    /\ ~Vacant
    /\ \E stage \in {"contend", "idle"} : Goto(p, stage)
    /\ UNCHANGED <<files, mode, mine, expected, moved, remembered, inc, lastToken, crashes>>

\* The directory that was published is still there when it has been opened.
Inspected(p) ==
    /\ pc[p] = "inspect"
    /\ dir = mine[p]
    /\ Goto(p, "hold")
    /\ UNCHANGED <<files, mode, mine, expected, moved, remembered, inc, lastToken, crashes>>

\* It is not, and the error names it; or a system call failed, and the
\* directory is removed again.
InspectFailed(p) ==
    /\ pc[p] = "inspect"
    /\ \/ dir # mine[p] /\ Goto(p, "idle") /\ UNCHANGED <<mode, expected>>
       \/ dir = mine[p] /\ Goto(p, "confirm")
          /\ mode' = [mode EXCEPT ![p] = "abandon"]
          /\ expected' = [expected EXCEPT ![p] = mine[p]]
    /\ UNCHANGED <<files, mine, moved, remembered, inc, lastToken, crashes>>

------------------------------------------------------------------------------
(* Contention *)

Alive(o) == pc[o.proc] # "down" /\ o.inc = inc[o.proc]

\* Mutant: the start time of the process is not compared.
ProvablyDead_PidOnly(p, o) ==
    /\ Host[o.proc] = Host[p]
    /\ \/ o \in remembered[p]
       \/ pc[o.proc] = "down"

\* ownerDefinitelyDead may return TRUE.
ProvablyDead(p, o) ==
    /\ Host[o.proc] = Host[p]
    /\ \/ o \in remembered[p]
       \/ ~Alive(o)

\* ownerDefinitelyDead may return FALSE.
MaybeAlive(p, o) ==
    \/ ~ProvablyDead(p, o)
    \/ PidReuse /\ o.proc # p

\* Mutant: liveness is decided by the host name alone.
ProveDead_HostOnly(p) ==
    /\ pc[p] = "contend"
    /\ dir \in Owner /\ dir.proc # p /\ Host[dir.proc] = Host[p]
    /\ expected' = [expected EXCEPT ![p] = dir]
    /\ mode' = [mode EXCEPT ![p] = "reclaim"]
    /\ Goto(p, "confirm")
    /\ UNCHANGED <<files, mine, moved, remembered, inc, lastToken, crashes>>

\* reclaimDeadOwner reads the owner and proves it dead.
ProveDead(p) ==
    /\ pc[p] = "contend"
    /\ dir \in Owner /\ ProvablyDead(p, dir)
    /\ expected' = [expected EXCEPT ![p] = dir]
    /\ mode' = [mode EXCEPT ![p] = "reclaim"]
    /\ Goto(p, "confirm")
    /\ UNCHANGED <<files, mine, moved, remembered, inc, lastToken, crashes>>

\* Nobody is proven dead; reclaimEmptyLockDirectory is next.
NotProven(p) ==
    /\ pc[p] = "contend"
    /\ dir \in Owner => MaybeAlive(p, dir)
    /\ Goto(p, "empty")
    /\ UNCHANGED <<files, mode, mine, expected, moved, remembered, inc, lastToken, crashes>>

\* reclaimEmptyLockDirectory finds an empty directory ...
EmptySeen(p) ==
    /\ pc[p] = "empty"
    /\ dir = Empty
    /\ expected' = [expected EXCEPT ![p] = Empty]
    /\ mode' = [mode EXCEPT ![p] = "empty"]
    /\ Goto(p, "confirm")
    /\ UNCHANGED <<files, mine, moved, remembered, inc, lastToken, crashes>>

\* ... or does not.
EmptyNotSeen(p) ==
    /\ pc[p] = "empty"
    /\ dir # Empty
    /\ Goto(p, "wait")
    /\ UNCHANGED <<files, mode, mine, expected, moved, remembered, inc, lastToken, crashes>>

\* After a sleep the acquisition is tried again, or has timed out.
Retry(p) ==
    /\ pc[p] = "wait"
    /\ \E stage \in {"try", "idle"} : Goto(p, stage)
    /\ UNCHANGED <<files, mode, mine, expected, moved, remembered, inc, lastToken, crashes>>

------------------------------------------------------------------------------
(* Quarantine and removal, for all four reasons *)

\* A release is over; an abandoned acquisition throws, or counts as contention
\* when the error that made it give up is one an existing lock causes.
Ended(p) == IF mode[p] = "abandon" THEN {"idle", "contend"} ELSE {"idle"}

\* Where a caller goes when something else is at the path ...
Proceed(p) ==
    CASE mode[p] = "reclaim" -> {"try", "empty"}
      [] mode[p] = "empty"   -> {"wait"}
      [] OTHER               -> Ended(p)

\* ... and when it has removed what was there.
Removed(p) == IF mode[p] \in {"reclaim", "empty"} THEN {"try"} ELSE Ended(p)

Forget(p, o) == remembered' = [remembered EXCEPT ![p] = @ \ {o}]

\* The last reading before the rename.
Confirm(p) ==
    /\ pc[p] = "confirm"
    /\ \/ dir = expected[p] /\ Goto(p, "rename")
       \/ dir # expected[p] /\ \E stage \in Proceed(p) : Goto(p, stage)
    /\ UNCHANGED <<files, mode, mine, expected, moved, remembered, inc, lastToken, crashes>>

\* The rename moves whatever directory is at the path by now.
RenameAway(p) ==
    /\ pc[p] = "rename"
    /\ dir # Absent
    /\ moved' = [moved EXCEPT ![p] = dir]
    /\ dir' = Absent
    /\ Goto(p, "moved")
    /\ UNCHANGED <<mode, mine, expected, remembered, inc, lastToken, crashes, deleted, stranded>>

\* The path is gone (ENOENT): somebody else has removed the directory.
RenameMissed(p) ==
    /\ pc[p] = "rename"
    /\ dir = Absent
    /\ Forget(p, expected[p])
    /\ \E stage \in IF mode[p] = "reclaim" THEN {"try"} ELSE Proceed(p) : Goto(p, stage)
    /\ UNCHANGED <<files, mode, mine, expected, moved, inc, lastToken, crashes>>

\* What a release that failed knows of its owner, which is at the path or in
\* quarantine: it reads once more and remembers the token it finds there; when
\* this reading fails as well, the token is forgotten.
ReleaseFails(p, there) ==
    \E read \in BOOLEAN :
        /\ remembered' = [remembered EXCEPT ![p] =
               IF read /\ there = mine[p] THEN @ \union {mine[p]} ELSE @ \ {mine[p]}]
        /\ stranded' = IF read THEN stranded ELSE stranded \union ({mine[p]} \intersect {dir})

\* A system call of the removal failed with the directory still at the path.
\* An acquisition that is given up throws and leaves it there; reclaiming an
\* owner throws; an empty directory is left to the next turn.
CleanupFails(p) ==
    /\ Goto(p, IF mode[p] = "empty" THEN "wait" ELSE "idle")
    /\ \/ mode[p] = "release" /\ ReleaseFails(p, dir)
       \/ /\ mode[p] = "abandon"
          /\ stranded' = stranded \union ({mine[p]} \intersect {dir})
          /\ UNCHANGED remembered
       \/ mode[p] \in {"reclaim", "empty"} /\ UNCHANGED <<remembered, stranded>>

\* The last reading before the rename fails.
ConfirmFailed(p) ==
    /\ pc[p] = "confirm"
    /\ CleanupFails(p)
    /\ UNCHANGED <<dir, deleted, mode, mine, expected, moved, inc, lastToken, crashes>>

\* Mutant: a release that could not clean up is not remembered.
RenameFailed_NotRemembered(p) ==
    /\ pc[p] = "rename"
    /\ Goto(p, IF mode[p] = "empty" THEN "wait" ELSE "idle")
    /\ UNCHANGED <<files, mode, mine, expected, moved, remembered, inc, lastToken, crashes>>

\* Mutant: a release remembers whatever is at the path.
RenameFailed_RemembersPath(p) ==
    /\ pc[p] = "rename"
    /\ remembered' = [remembered EXCEPT ![p] =
           IF mode[p] = "release" THEN @ \union {dir} ELSE @]
    /\ Goto(p, IF mode[p] = "empty" THEN "wait" ELSE "idle")
    /\ UNCHANGED <<files, mode, mine, expected, moved, inc, lastToken, crashes>>

\* The rename kept failing.
RenameFailed(p) ==
    /\ pc[p] = "rename"
    /\ CleanupFails(p)
    /\ UNCHANGED <<dir, deleted, mode, mine, expected, moved, inc, lastToken, crashes>>

\* What was moved is what was meant: it is deleted.
Remove(p) ==
    /\ pc[p] = "moved"
    /\ moved[p] = expected[p]
    /\ deleted' = deleted \union ({moved[p]} \ {Empty})
    /\ Forget(p, expected[p])
    /\ \E stage \in Removed(p) : Goto(p, stage)
    /\ moved' = [moved EXCEPT ![p] = Absent]
    /\ UNCHANGED <<dir, mode, mine, expected, inc, lastToken, crashes, stranded>>

\* It is something else, or could not be read or deleted: it is kept in quarantine
\* and reported, and a release remembers an owner of its own it can read there.
Retain(p) ==
    /\ pc[p] = "moved"
    /\ \/ mode[p] = "release" /\ ReleaseFails(p, moved[p])
       \/ mode[p] # "release" /\ UNCHANGED <<remembered, stranded>>
    /\ Goto(p, "idle")
    /\ moved' = [moved EXCEPT ![p] = Absent]
    /\ UNCHANGED <<dir, deleted, mode, mine, expected, inc, lastToken, crashes>>

------------------------------------------------------------------------------
(* releaseFileMutationLock *)

\* The owner is still there and is removed.
Release(p) ==
    /\ pc[p] = "hold"
    /\ dir = mine[p]
    /\ expected' = [expected EXCEPT ![p] = mine[p]]
    /\ mode' = [mode EXCEPT ![p] = "release"]
    /\ Goto(p, "confirm")
    /\ UNCHANGED <<files, mine, moved, remembered, inc, lastToken, crashes>>

\* Somebody else's lock, or none: there is nothing to remove.
ReleaseReplaced(p) ==
    /\ pc[p] = "hold"
    /\ dir # mine[p]
    /\ Forget(p, mine[p])
    /\ Goto(p, "idle")
    /\ UNCHANGED <<files, mode, mine, expected, moved, inc, lastToken, crashes>>

\* Its own lock cannot be read.
ReleaseFailed(p) ==
    /\ pc[p] = "hold"
    /\ ReleaseFails(p, dir)
    /\ Goto(p, "idle")
    /\ UNCHANGED <<dir, deleted, mode, mine, expected, moved, inc, lastToken, crashes>>

------------------------------------------------------------------------------
(* The environment *)

Crash(p) ==
    /\ pc[p] # "down"
    /\ crashes < MaxCrashes
    /\ crashes' = crashes + 1
    /\ Goto(p, "down")
    /\ mine' = [mine EXCEPT ![p] = Absent]
    /\ expected' = [expected EXCEPT ![p] = Absent]
    /\ moved' = [moved EXCEPT ![p] = Absent]
    /\ remembered' = [remembered EXCEPT ![p] = {}]
    /\ UNCHANGED <<files, mode, inc, lastToken>>

\* The process is started again, with the same pid and a later start time.
Restart(p) ==
    /\ pc[p] = "down"
    /\ inc' = [inc EXCEPT ![p] = @ + 1]
    /\ Goto(p, "idle")
    /\ UNCHANGED <<files, mode, mine, expected, moved, remembered, lastToken, crashes>>

\* The steps of a call in progress.
Continue(p) ==
    \/ Publish(p) \/ PublishBlocked(p) \/ Inspected(p) \/ InspectFailed(p)
    \/ ProveDead(p) \/ NotProven(p) \/ EmptySeen(p) \/ EmptyNotSeen(p) \/ Retry(p)
    \/ Confirm(p) \/ ConfirmFailed(p) \/ RenameAway(p) \/ RenameMissed(p) \/ RenameFailed(p)
    \/ Remove(p) \/ Retain(p)
    \/ Release(p) \/ ReleaseReplaced(p) \/ ReleaseFailed(p)

Next == \E p \in Proc : Start(p) \/ Continue(p) \/ Crash(p) \/ Restart(p)

SafetySpec == Init /\ [][Next]_vars

\* Calls are synchronous and time out, and a supervisor restarts what died.  A
\* reading, a rename or an unlink that is retried forever does not fail every time.
Fairness ==
    \A p \in Proc : /\ WF_vars(Continue(p)) /\ WF_vars(Restart(p))
                    /\ SF_vars(RenameAway(p)) /\ SF_vars(ProveDead(p))
                    /\ SF_vars(Confirm(p))
                    /\ SF_vars(PublishBlocked(p) /\ pc'[p] = "contend")

Spec == SafetySpec /\ Fairness

------------------------------------------------------------------------------
(* Properties *)

\* At most one process is in its callback.
MutualExclusion == \A p, q \in Proc : pc[p] = "hold" /\ pc[q] = "hold" => p = q

\* That is so until a process dies: while all of them live, a removal that comes
\* late, and a leftover that could not be removed, let nobody in beside a holder.
ExclusiveUntilCrash == crashes = 0 => MutualExclusion

\* Nobody deletes the owner directory of a process that is in its callback,
\* however late a reclaimer or a releaser comes: at worst it is moved away and
\* kept in quarantine.
LiveOwnerKept == \A p \in Proc : pc[p] = "hold" => mine[p] \notin deleted

\* A directory at the path that names a live process is one this process is
\* acquiring, holding or removing, or one it remembers to be its leftover, so that
\* it is not in everybody's way until the process exits.  Two failures in a row
\* are the exception (stranded): a release that cannot read its lock again after
\* it failed, and an acquisition that fails together with its cleanup.
LeftoversRemembered ==
    dir \in Owner /\ Alive(dir) =>
        LET p == dir.proc
        IN  \/ dir = mine[p] /\ pc[p] \in {"inspect", "hold"}
            \/ dir = mine[p] /\ pc[p] \in {"confirm", "rename"} /\ mode[p] \in {"release", "abandon"}
            \/ dir \in remembered[p]
            \/ dir \in stranded

\* Both together: whatever owner a lock names, a live one keeps its evidence and, but
\* for those two failures, can still take its lock away
\* (quarantineAndRemoveOwnerDirectory, releaseFileMutationLock).
LiveOwnersAccounted == LiveOwnerKept /\ LeftoversRemembered

\* A lock whose owner is dead, or has left it behind and remembers it, goes away
\* if a process of the same host that can prove it keeps asking for the lock.  A
\* stranded one goes away once its process has exited.
DeadOwnerReclaimed ==
    (\A p \in Proc : []<>(pc[p] = "try")) =>
        \A t \in 1 .. MaxTokens :
            (dir \in Owner /\ dir.token = t) ~>
                \/ ~(dir \in Owner /\ dir.token = t)
                \/ dir \in stranded /\ Alive(dir)
=============================================================================
