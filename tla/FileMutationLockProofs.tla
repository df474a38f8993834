------------------------ MODULE FileMutationLockProofs ------------------------
(* Mutual exclusion of the file lock while no process dies, and what becomes   *)
(* of live owners when processes do, for every number of processes and         *)
(* acquisitions.                                                               *)
EXTENDS FileMutationLock, TLAPS

USE DEF files, local

------------------------------------------------------------------------------
(* Without crashes and orphans nobody is ever proven dead but oneself *)

\* The path holds nothing, or the lock of a process that is alive.
PathInv ==
    /\ \A p \in Proc : pc[p] # "down"
    /\ dir = Absent \/ (dir \in Owner /\ dir.inc = inc[dir.proc])

\* What a process remembers and what it published is its own.
OwnInv ==
    \A p \in Proc : /\ \A o \in remembered[p] : o.proc = p
                    /\ mine[p] \in Owner => mine[p].proc = p

\* Who holds the lock is the one the path names.
HolderInv ==
    \A p \in Proc :
        pc[p] \in {"inspect", "hold"} => mine[p] \in Owner /\ dir = mine[p]

\* Who is about to rename the path away means to remove a lock of its own, and
\* that is what is there.
RemovalInv ==
    \A p \in Proc :
        /\ pc[p] \in {"confirm", "rename"} => expected[p] \in Owner /\ expected[p].proc = p
        /\ pc[p] = "rename" => dir = expected[p]
        /\ pc[p] = "moved" => moved[p] \in Owner
        /\ pc[p] \in {"confirm", "rename", "moved"} /\ mode[p] \in {"release", "abandon"} =>
               mine[p] \in Owner

ExclusionInv == TypeOK /\ PathInv /\ OwnInv /\ HolderInv /\ RemovalInv

\* What a removal that failed does to the records of its process, ...
RecordsKept(p) ==
    /\ remembered' \in [Proc -> SUBSET Owner] /\ stranded' \subseteq Owner
    /\ stranded \subseteq stranded'
    /\ \A q \in Proc \ {p} : remembered'[q] = remembered[q]
    /\ remembered'[p] \subseteq remembered[p] \union {mine[p]}
    /\ remembered[p] \ {mine[p]} \subseteq remembered'[p]

\* ... which in the end hold its own lock if that is still at the path.
OwnRecorded(p) == dir = mine[p] => mine[p] \in remembered'[p] \/ mine[p] \in stranded'

LEMMA ReleaseFailure ==
    ASSUME TypeOK, NEW p \in Proc, mine[p] \in Owner, NEW there, ReleaseFails(p, there)
    PROVE  RecordsKept(p) /\ (there = dir => OwnRecorded(p))
<1>1. PICK read \in BOOLEAN :
         /\ remembered' = [remembered EXCEPT ![p] =
                IF read /\ there = mine[p] THEN @ \union {mine[p]} ELSE @ \ {mine[p]}]
         /\ stranded' = IF read THEN stranded ELSE stranded \union ({mine[p]} \intersect {dir})
    BY DEF ReleaseFails
<1>2. remembered \in [Proc -> SUBSET Owner] /\ stranded \subseteq Owner
    BY DEF TypeOK
<1> QED BY <1>1, <1>2 DEF RecordsKept, OwnRecorded

LEMMA CleanupFailure ==
    ASSUME TypeOK, NEW p \in Proc, CleanupFails(p),
           mode[p] \in {"release", "abandon"} => mine[p] \in Owner
    PROVE  /\ RecordsKept(p)
           /\ mode[p] \in {"release", "abandon"} => OwnRecorded(p)
           /\ mode[p] \notin {"release", "abandon"} => UNCHANGED remembered
           /\ \E s \in {"wait", "idle"} : pc' = [pc EXCEPT ![p] = s]
<1>1. \E s \in {"wait", "idle"} : pc' = [pc EXCEPT ![p] = s]
    BY DEF CleanupFails, Goto
<1>2. CASE mode[p] = "release"
    BY <1>1, <1>2, ReleaseFailure DEF CleanupFails
<1>3. CASE mode[p] = "abandon"
  <2>1. stranded' = stranded \union ({mine[p]} \intersect {dir}) /\ UNCHANGED remembered
      BY <1>3 DEF CleanupFails
  <2> QED BY <1>1, <1>3, <2>1 DEF RecordsKept, OwnRecorded, TypeOK
<1>4. CASE mode[p] \in {"reclaim", "empty"}
    BY <1>1, <1>4 DEF CleanupFails, RecordsKept, TypeOK
<1> QED BY <1>2, <1>3, <1>4 DEF TypeOK

\* The lock is published where nothing was.
LEMMA PublishStep ==
    ASSUME ExclusionInv, NEW p \in Proc, Publish(p)
    PROVE  ExclusionInv'
<1> DEFINE own == [token |-> lastToken + 1, proc |-> p, inc |-> inc[p]]
<1>1. own \in Owner /\ own.proc = p /\ own.inc = inc[p]
    BY DEF ExclusionInv, TypeOK, Owner
<1>2. /\ pc[p] = "try" /\ lastToken' = lastToken + 1 /\ dir' = own
      /\ mine' = [mine EXCEPT ![p] = own] /\ pc' = [pc EXCEPT ![p] = "inspect"]
      /\ UNCHANGED <<mode, expected, moved, remembered, inc, crashes, deleted, stranded>>
    BY DEF Publish, Goto
<1>3. dir = Absent
    BY ConstantsAssumption DEF Publish, Vacant, ExclusionInv, PathInv
<1>4. TypeOK'
    BY <1>1, <1>2 DEF ExclusionInv, TypeOK, Dir, Stages
<1>5. PathInv'
    BY <1>1, <1>2 DEF ExclusionInv, TypeOK, PathInv
<1>6. OwnInv'
    BY <1>1, <1>2 DEF ExclusionInv, TypeOK, OwnInv
<1>7. HolderInv'
    BY <1>1, <1>2, <1>3, ConstantsAssumption DEF ExclusionInv, TypeOK, HolderInv
<1>8. RemovalInv'
    BY <1>2, <1>3, ConstantsAssumption DEF ExclusionInv, TypeOK, RemovalInv
<1> QED
    BY <1>4, <1>5, <1>6, <1>7, <1>8 DEF ExclusionInv

\* Steps that only move on, or decide what to remove.
LEMMA DecideStep ==
    ASSUME ExclusionInv, NEW p \in Proc,
           \/ Start(p) \/ PublishBlocked(p) \/ Inspected(p) \/ InspectFailed(p)
           \/ ProveDead(p) \/ NotProven(p) \/ EmptySeen(p) \/ EmptyNotSeen(p)
           \/ Retry(p) \/ Confirm(p) \/ Release(p)
    PROVE  ExclusionInv'
<1> USE DEF Goto
<1>1. UNCHANGED <<dir, deleted, stranded, mine, moved, remembered, inc, lastToken, crashes>>
    BY DEF Start, PublishBlocked, Inspected, InspectFailed, ProveDead, NotProven,
           EmptySeen, EmptyNotSeen, Retry, Confirm, Release
<1>2. TypeOK'
    BY DEF ExclusionInv, TypeOK, Stages, Dir, Proceed, Ended, Start, PublishBlocked,
           Inspected, InspectFailed, ProveDead, NotProven, EmptySeen, EmptyNotSeen,
           Retry, Confirm, Release
<1>3. ~EmptySeen(p)
    BY ConstantsAssumption DEF EmptySeen, ExclusionInv, PathInv
<1>4. \A q \in Proc \ {p} : pc'[q] = pc[q] /\ expected'[q] = expected[q]
    BY DEF ExclusionInv, TypeOK, Start, PublishBlocked, Inspected, InspectFailed,
           ProveDead, NotProven, EmptySeen, EmptyNotSeen, Retry, Confirm, Release
<1>5. pc'[p] \in {"idle", "try", "hold", "contend", "empty", "wait", "confirm", "rename"}
    BY <1>3 DEF ExclusionInv, TypeOK, Proceed, Ended, Start, PublishBlocked, Inspected,
           InspectFailed, ProveDead, NotProven, EmptyNotSeen, Retry, Confirm, Release
<1>6. pc'[p] = "hold" => pc[p] = "inspect"
    BY <1>3 DEF ExclusionInv, TypeOK, Proceed, Ended, Start, PublishBlocked, Inspected,
           InspectFailed, ProveDead, NotProven, EmptyNotSeen, Retry, Confirm, Release
<1>7. pc'[p] = "rename" => pc[p] = "confirm" /\ dir = expected[p] /\ expected'[p] = expected[p]
    BY <1>3 DEF ExclusionInv, TypeOK, Proceed, Ended, Start, PublishBlocked, Inspected,
           InspectFailed, ProveDead, NotProven, EmptyNotSeen, Retry, Confirm, Release
<1>8. pc'[p] = "confirm" => expected'[p] \in Owner /\ expected'[p].proc = p
    <2>1. CASE ProveDead(p)
        <3>1. dir \in Owner /\ ProvablyDead(p, dir) /\ expected'[p] = dir
            BY <2>1 DEF ProveDead, ExclusionInv, TypeOK
        <3>2. Alive(dir)
            BY <3>1, ConstantsAssumption DEF ExclusionInv, PathInv, Alive, Owner
        <3>3. dir \in remembered[p]
            BY <3>1, <3>2 DEF ProvablyDead
        <3> QED BY <3>1, <3>3 DEF ExclusionInv, OwnInv
    <2>2. CASE InspectFailed(p) \/ Release(p)
        BY <2>2 DEF InspectFailed, Release, ExclusionInv, TypeOK, HolderInv, OwnInv
    <2>3. CASE \/ Start(p) \/ PublishBlocked(p) \/ Inspected(p) \/ NotProven(p)
               \/ EmptyNotSeen(p) \/ Retry(p) \/ Confirm(p)
        BY <2>3 DEF ExclusionInv, TypeOK, Proceed, Ended, Start, PublishBlocked,
           Inspected, NotProven, EmptyNotSeen, Retry, Confirm
    <2> QED BY <1>3, <2>1, <2>2, <2>3
<1>12. \A q \in Proc : pc'[q] \in {"confirm", "rename", "moved"}
                            /\ mode'[q] \in {"release", "abandon"} => mine[q] \in Owner
    BY <1>3 DEF ExclusionInv, TypeOK, HolderInv, RemovalInv, Proceed, Ended, Start,
           PublishBlocked, Inspected, InspectFailed, ProveDead, NotProven, EmptyNotSeen,
           Retry, Confirm, Release
<1>9. PathInv' /\ OwnInv'
    BY <1>1, <1>4, <1>5 DEF ExclusionInv, PathInv, OwnInv
<1>10. HolderInv'
    BY <1>1, <1>4, <1>5, <1>6 DEF ExclusionInv, HolderInv
<1>11. RemovalInv'
    BY <1>1, <1>4, <1>5, <1>7, <1>8, <1>12 DEF ExclusionInv, RemovalInv
<1> QED
    BY <1>2, <1>9, <1>10, <1>11 DEF ExclusionInv

\* Steps of a removal, and the release of a lock that is not there.
LEMMA RemovalStep ==
    ASSUME ExclusionInv, NEW p \in Proc,
           \/ ConfirmFailed(p) \/ RenameAway(p) \/ RenameMissed(p) \/ RenameFailed(p)
           \/ Remove(p) \/ Retain(p) \/ ReleaseReplaced(p) \/ ReleaseFailed(p)
    PROVE  ExclusionInv'
<1> USE DEF Goto, Forget
<1>1. UNCHANGED <<mine, mode, expected, inc, lastToken, crashes>>
    BY DEF ConfirmFailed, RenameAway, RenameMissed, RenameFailed, Remove, Retain,
           ReleaseReplaced, ReleaseFailed
<1>2. /\ pc[p] \in {"confirm", "rename", "moved", "hold"}
      /\ pc[p] = "rename" => dir \in Owner
      /\ pc[p] = "moved" => moved[p] \in Owner
      /\ pc[p] = "hold" \/ mode[p] \in {"release", "abandon"} => mine[p] \in Owner
    BY DEF ExclusionInv, HolderInv, RemovalInv, ConfirmFailed, RenameAway, RenameMissed,
           RenameFailed, Remove, Retain, ReleaseReplaced, ReleaseFailed
<1>3. /\ remembered' \in [Proc -> SUBSET Owner] /\ stranded' \subseteq Owner
      /\ remembered'[p] \subseteq remembered[p] \union {mine[p]}
      /\ \A q \in Proc \ {p} : remembered'[q] = remembered[q]
    <2>1. CASE ConfirmFailed(p) \/ RenameFailed(p)
        BY <1>2, <2>1, CleanupFailure DEF ConfirmFailed, RenameFailed, RecordsKept, ExclusionInv
    <2>2. CASE Retain(p) \/ ReleaseFailed(p)
        <3>1. CASE UNCHANGED <<remembered, stranded>> BY <3>1 DEF ExclusionInv, TypeOK
        <3>2. CASE mine[p] \in Owner /\ \E there : ReleaseFails(p, there)
            BY <3>2, ReleaseFailure DEF ExclusionInv, RecordsKept
        <3> QED BY <1>2, <2>2, <3>1, <3>2 DEF Retain, ReleaseFailed
    <2>3. CASE RenameAway(p) \/ RenameMissed(p) \/ Remove(p) \/ ReleaseReplaced(p)
        BY <2>3 DEF RenameAway, RenameMissed, Remove, ReleaseReplaced, ExclusionInv, TypeOK
    <2> QED BY <2>1, <2>2, <2>3
<1>4. \E s \in {"idle", "try", "contend", "empty", "wait", "moved"} : pc' = [pc EXCEPT ![p] = s]
    BY DEF Proceed, Removed, Ended, CleanupFails, ConfirmFailed, RenameAway, RenameMissed,
           RenameFailed, Remove, Retain, ReleaseReplaced, ReleaseFailed
<1>5. /\ pc' \in [Proc -> Stages]
      /\ pc'[p] \in {"idle", "try", "contend", "empty", "wait", "moved"}
      /\ \A q \in Proc \ {p} : pc'[q] = pc[q]
    BY <1>4 DEF ExclusionInv, TypeOK, Stages
<1>6. dir' = dir \/ (dir' = Absent /\ dir \in Owner /\ dir.proc = p)
    BY DEF ExclusionInv, RemovalInv, ConfirmFailed, RenameAway, RenameMissed, RenameFailed,
           Remove, Retain, ReleaseReplaced, ReleaseFailed
<1>7. PathInv'
    BY <1>1, <1>5, <1>6 DEF ExclusionInv, PathInv
<1>8. OwnInv'
    BY <1>1, <1>3 DEF ExclusionInv, OwnInv, TypeOK
<1>9. HolderInv'
    BY <1>1, <1>5, <1>6 DEF ExclusionInv, HolderInv, OwnInv
<1>10. moved' \in [Proc -> Dir] /\ deleted' \subseteq Owner
    BY <1>2 DEF ExclusionInv, TypeOK, Dir, ConfirmFailed, RenameAway, RenameMissed,
           RenameFailed, Remove, Retain, ReleaseReplaced, ReleaseFailed
<1>11. TypeOK'
    BY <1>1, <1>3, <1>5, <1>6, <1>10 DEF ExclusionInv, TypeOK, Dir
<1>12. /\ \A q \in Proc \ {p} : moved'[q] = moved[q]
       /\ pc'[p] = "moved" => moved'[p] \in Owner
    <2>1. CASE RenameAway(p) BY <1>2, <2>1 DEF ExclusionInv, TypeOK, RenameAway
    <2>2. CASE ~RenameAway(p)
      <3>1. \A q \in Proc \ {p} : moved'[q] = moved[q]
          BY <2>2 DEF ExclusionInv, TypeOK, ConfirmFailed, RenameMissed, RenameFailed, Remove,
             Retain, ReleaseReplaced, ReleaseFailed
      <3>2. \E s \in {"idle", "try", "contend", "empty", "wait"} : pc' = [pc EXCEPT ![p] = s]
          BY <2>2 DEF Proceed, Removed, Ended, CleanupFails, ConfirmFailed, RenameMissed,
             RenameFailed, Remove, Retain, ReleaseReplaced, ReleaseFailed
      <3> QED BY <3>1, <3>2 DEF ExclusionInv, TypeOK
    <2> QED BY <2>1, <2>2
<1>13. RemovalInv'
    <2>1. pc'[p] = "moved" => pc[p] = "rename"
        BY <1>5 DEF ExclusionInv, TypeOK, Proceed, Removed, Ended, CleanupFails, ConfirmFailed,
           RenameAway, RenameMissed, RenameFailed, Remove, Retain, ReleaseReplaced, ReleaseFailed
    <2> QED BY <1>1, <1>5, <1>6, <1>12, <2>1 DEF ExclusionInv, RemovalInv
<1> QED
    BY <1>7, <1>8, <1>9, <1>11, <1>13 DEF ExclusionInv

\* Nothing but a crash counts as one.
LEMMA CrashesGrow ==
    ASSUME crashes \in Nat, [Next]_vars
    PROVE  crashes' \in Nat /\ (crashes' = 0 => crashes = 0)
<1> SUFFICES crashes' = crashes \/ crashes' = crashes + 1
    OBVIOUS
<1>1. CASE UNCHANGED vars
    BY <1>1 DEF vars
<1>2. ASSUME NEW p \in Proc, Start(p) \/ Continue(p) \/ Crash(p) \/ Restart(p)
      PROVE  crashes' = crashes \/ crashes' = crashes + 1
    BY <1>2 DEF Start, Continue, Crash, Restart, Publish, PublishBlocked, Inspected,
       InspectFailed, ProveDead, NotProven, EmptySeen, EmptyNotSeen, Retry, Confirm,
       ConfirmFailed, RenameAway, RenameMissed, RenameFailed, Remove, Retain, Release,
       ReleaseReplaced, ReleaseFailed
<1> QED BY <1>1, <1>2 DEF Next

\* At most one process is in its callback until one of them dies (after one
\* crash the run lock_reclaim_race finds two; an orphaned directory is the work of
\* an earlier one): nobody ever removes the directory of somebody else.
THEOREM ExclusiveWithoutCrashes == SafetySpec => []ExclusiveUntilCrash
<1> DEFINE IInv == crashes \in Nat /\ (crashes = 0 => ExclusionInv)
<1>1. Init => IInv
    <2> SUFFICES ASSUME Init, crashes = 0 PROVE ExclusionInv
        BY DEF Init
    <2>1. TypeOK
        BY DEF Init, TypeOK, Dir, Stages, ConstantsAssumption
    <2>2. PathInv
        BY ConstantsAssumption DEF Init, PathInv
    <2> QED BY <2>1, <2>2, ConstantsAssumption DEF Init, ExclusionInv, OwnInv, HolderInv, RemovalInv
<1>2. IInv /\ [Next]_vars => IInv'
    <2> SUFFICES ASSUME IInv, [Next]_vars, crashes' = 0 PROVE ExclusionInv'
        BY CrashesGrow
    <2>1. ExclusionInv
        BY CrashesGrow
    <2>2. CASE UNCHANGED vars
        BY <2>1, <2>2 DEF vars, ExclusionInv, TypeOK, PathInv, OwnInv, HolderInv, RemovalInv
    <2>3. ASSUME NEW p \in Proc, Start(p) \/ Continue(p) \/ Crash(p) \/ Restart(p)
          PROVE  ExclusionInv'
        <3>1. ~Crash(p) /\ ~Restart(p)
            BY <2>1 DEF Crash, Restart, ExclusionInv, TypeOK, PathInv
        <3> QED
            BY <2>1, <2>3, <3>1, PublishStep, DecideStep, RemovalStep DEF Continue
    <2> QED BY <2>2, <2>3 DEF Next
<1>3. IInv => ExclusiveUntilCrash
    BY DEF ExclusionInv, HolderInv, OwnInv, MutualExclusion, ExclusiveUntilCrash
<1> QED
    BY <1>1, <1>2, <1>3, PTL DEF SafetySpec

------------------------------------------------------------------------------
(* With crashes: the owners that a lock names *)

(* Every owner that was ever named has a token that was drawn and an incarnation *)
(* that was reached.                                                             *)
Drawn(o) == o.token <= lastToken /\ o.inc <= inc[o.proc]

NamedKnown ==
    /\ dir \in Owner => Drawn(dir)
    /\ \A o \in deleted : Drawn(o)
    /\ \A p \in Proc : /\ mine[p] \in Owner => mine[p].proc = p
                       /\ expected[p] \in Owner => Drawn(expected[p])
                       /\ \A o \in remembered[p] : o.proc = p

HoldersKnown ==
    \A p \in Proc : pc[p] \in {"inspect", "hold"} =>
        /\ mine[p] \in Owner /\ mine[p].inc = inc[p] /\ Drawn(mine[p])
        /\ mine[p] \notin deleted

(* Who removes a directory means its own, an empty one, or one whose owner is    *)
(* dead and stays so; and once it has moved something the one it meant is gone.  *)
Gone(p, o) == o.proc = p \/ ~Alive(o)

RemoversKnown ==
    \A p \in Proc :
        /\ pc[p] \in {"confirm", "rename", "moved"} =>
              /\ mode[p] \in {"release", "abandon"} => mine[p] \in Owner /\ expected[p] = mine[p]
              /\ mode[p] = "empty" => expected[p] = Empty
              /\ mode[p] = "reclaim" => expected[p] \in Owner /\ Gone(p, expected[p])
        /\ pc[p] = "moved" => moved[p] # Absent /\ (expected[p] \in Owner => dir # expected[p])

AccountInv ==
    TypeOK /\ NamedKnown /\ HoldersKnown /\ RemoversKnown /\ LeftoversRemembered

(* How a live process accounts for an owner of its own at the path.              *)
Claimed(p, o) ==
    \/ o = mine[p] /\ pc[p] \in {"inspect", "hold"}
    \/ o = mine[p] /\ pc[p] \in {"confirm", "rename"} /\ mode[p] \in {"release", "abandon"}
    \/ o \in remembered[p]
    \/ o \in stranded

LEMMA Leftovers == LeftoversRemembered <=> (dir \in Owner /\ Alive(dir) => Claimed(dir.proc, dir))
BY DEF LeftoversRemembered, Claimed

LEMMA OwnersAreOwners ==
    /\ \A o \in Owner : o \in Dir /\ o.token \in Nat /\ o.proc \in Proc /\ o.inc \in Nat
    /\ Absent \in Dir /\ Empty \in Dir /\ Absent # Empty /\ Absent \notin Owner /\ Empty \notin Owner
BY ConstantsAssumption DEF Owner, Dir

Decides(p) ==
    \/ Start(p) \/ PublishBlocked(p) \/ Inspected(p) \/ InspectFailed(p)
    \/ ProveDead(p) \/ NotProven(p) \/ EmptySeen(p) \/ EmptyNotSeen(p)
    \/ Retry(p) \/ Confirm(p) \/ Release(p)

Removes(p) ==
    \/ ConfirmFailed(p) \/ RenameAway(p) \/ RenameMissed(p) \/ RenameFailed(p)
    \/ Remove(p) \/ Retain(p) \/ ReleaseReplaced(p) \/ ReleaseFailed(p)

(* What a step of a live process leaves alone.                                   *)
LEMMA StepsAreLocal ==
    ASSUME AccountInv, NEW p \in Proc, Decides(p) \/ Removes(p)
    PROVE  /\ UNCHANGED <<mine, inc, lastToken>>
           /\ dir' = dir \/ dir' = Absent
           /\ pc[p] # "down" /\ pc'[p] # "down"
           /\ \A q \in Proc \ {p} : /\ pc'[q] = pc[q] /\ mode'[q] = mode[q]
                                    /\ expected'[q] = expected[q] /\ moved'[q] = moved[q]
                                    /\ remembered'[q] = remembered[q]
           /\ \A o \in Owner : (Alive(o)' <=> Alive(o)) /\ (Drawn(o)' <=> Drawn(o))
<1> USE DEF Goto, Forget, Decides, Removes
<1>1. UNCHANGED <<mine, inc, lastToken>> /\ (dir' = dir \/ dir' = Absent)
    BY DEF Start, PublishBlocked, Inspected, InspectFailed, ProveDead, NotProven, EmptySeen,
           EmptyNotSeen, Retry, Confirm, Release, ConfirmFailed, RenameAway, RenameMissed,
           RenameFailed, Remove, Retain, ReleaseReplaced, ReleaseFailed
<1>2. pc[p] # "down"
    BY DEF Start, PublishBlocked, Inspected, InspectFailed, ProveDead, NotProven, EmptySeen,
           EmptyNotSeen, Retry, Confirm, Release, ConfirmFailed, RenameAway, RenameMissed,
           RenameFailed, Remove, Retain, ReleaseReplaced, ReleaseFailed
<1>3. \E s \in Stages \ {"down"} : pc' = [pc EXCEPT ![p] = s]
  <2>1. CASE Decides(p)
      BY <2>1 DEF Stages, Proceed, Ended, Start, PublishBlocked, Inspected, InspectFailed,
             ProveDead, NotProven, EmptySeen, EmptyNotSeen, Retry, Confirm, Release
  <2>2. CASE Removes(p)
      BY <2>2 DEF Stages, Proceed, Removed, Ended, CleanupFails, ConfirmFailed, RenameAway,
             RenameMissed, RenameFailed, Remove, Retain, ReleaseReplaced, ReleaseFailed
  <2> QED BY <2>1, <2>2
<1>4. pc'[p] # "down" /\ \A q \in Proc \ {p} : pc'[q] = pc[q]
    BY <1>3 DEF AccountInv, TypeOK
<1>5. \A q \in Proc \ {p} : mode'[q] = mode[q] /\ expected'[q] = expected[q]
    BY DEF AccountInv, TypeOK, Start, PublishBlocked, Inspected, InspectFailed, ProveDead, NotProven, EmptySeen,
           EmptyNotSeen, Retry, Confirm, Release, ConfirmFailed, RenameAway, RenameMissed,
           RenameFailed, Remove, Retain, ReleaseReplaced, ReleaseFailed
<1>6. \A q \in Proc \ {p} : moved'[q] = moved[q] /\ remembered'[q] = remembered[q]
    BY DEF AccountInv, TypeOK, CleanupFails, ReleaseFails, Start, PublishBlocked, Inspected, InspectFailed, ProveDead, NotProven, EmptySeen,
           EmptyNotSeen, Retry, Confirm, Release, ConfirmFailed, RenameAway, RenameMissed,
           RenameFailed, Remove, Retain, ReleaseReplaced, ReleaseFailed
<1>7. \A o \in Owner : Alive(o)' <=> Alive(o)
    BY <1>1, <1>2, <1>4, OwnersAreOwners DEF Alive
<1>8. \A o \in Owner : Drawn(o)' <=> Drawn(o) BY <1>1 DEF Drawn
<1> QED BY <1>1, <1>2, <1>4, <1>5, <1>6, <1>7, <1>8

(* What a step that decides does to its process.                                 *)
LEMMA DecisionsKnown ==
    ASSUME AccountInv, NEW p \in Proc, Decides(p)
    PROVE  /\ UNCHANGED <<dir, deleted, stranded, moved, remembered>>
           /\ pc' \in [Proc -> Stages] /\ expected' \in [Proc -> Dir]
           /\ mode' \in [Proc -> {"reclaim", "empty", "release", "abandon"}]
           /\ pc'[p] \notin {"inspect", "moved"}
           /\ pc'[p] = "hold" => pc[p] = "inspect"
           /\ expected'[p] \in Owner => Drawn(expected'[p])
           /\ pc'[p] \in {"confirm", "rename"} =>
                 /\ mode'[p] \in {"release", "abandon"} =>
                        mine[p] \in Owner /\ expected'[p] = mine[p]
                 /\ mode'[p] = "empty" => expected'[p] = Empty
                 /\ mode'[p] = "reclaim" => expected'[p] \in Owner /\ Gone(p, expected'[p])
           /\ \A o \in Owner : dir = o /\ Claimed(p, o) => Claimed(p, o)'
<1> USE DEF Goto
<1>1. UNCHANGED <<dir, deleted, stranded, moved, remembered, mine, inc>>
    BY DEF Decides, Start, PublishBlocked, Inspected, InspectFailed, ProveDead, NotProven,
           EmptySeen, EmptyNotSeen, Retry, Confirm, Release
<1>2. /\ pc \in [Proc -> Stages] /\ expected \in [Proc -> Dir]
      /\ mode \in [Proc -> {"reclaim", "empty", "release", "abandon"}]
      /\ dir \in Dir /\ mine \in [Proc -> Owner \union {Absent}]
    BY DEF AccountInv, TypeOK
<1>3. CASE \/ Start(p) \/ PublishBlocked(p) \/ NotProven(p) \/ EmptyNotSeen(p) \/ Retry(p)
  <2>1. /\ UNCHANGED <<mode, expected>>
        /\ pc[p] \in {"idle", "try", "contend", "empty", "wait"}
        /\ \E s \in {"try", "contend", "idle", "empty", "wait"} : pc' = [pc EXCEPT ![p] = s]
      BY <1>3 DEF Start, PublishBlocked, NotProven, EmptyNotSeen, Retry
  <2>2. pc' \in [Proc -> Stages] /\ pc'[p] \in {"try", "contend", "idle", "empty", "wait"}
      BY <1>2, <2>1 DEF Stages
  <2> QED BY <1>1, <1>2, <2>1, <2>2 DEF AccountInv, NamedKnown, Claimed
<1>4. CASE Inspected(p)
  <2>1. /\ pc[p] = "inspect" /\ pc' = [pc EXCEPT ![p] = "hold"]
        /\ UNCHANGED <<mode, expected>>
      BY <1>4 DEF Inspected
  <2>2. pc' \in [Proc -> Stages] /\ pc'[p] = "hold" BY <1>2, <2>1 DEF Stages
  <2> QED BY <1>1, <1>2, <2>1, <2>2 DEF AccountInv, NamedKnown, Claimed
<1>5. CASE InspectFailed(p) /\ dir # mine[p]
  <2>1. /\ pc[p] = "inspect" /\ pc' = [pc EXCEPT ![p] = "idle"]
        /\ UNCHANGED <<mode, expected>>
      BY <1>5 DEF InspectFailed
  <2>2. pc' \in [Proc -> Stages] /\ pc'[p] = "idle" BY <1>2, <2>1 DEF Stages
  <2> QED BY <1>1, <1>2, <1>5, <2>1, <2>2 DEF AccountInv, NamedKnown, Claimed
<1>6. CASE (InspectFailed(p) /\ dir = mine[p]) \/ Release(p)
  <2>1. /\ pc[p] \in {"inspect", "hold"} /\ pc' = [pc EXCEPT ![p] = "confirm"]
        /\ expected' = [expected EXCEPT ![p] = mine[p]]
        /\ mode' = [mode EXCEPT ![p] = "abandon"] \/ mode' = [mode EXCEPT ![p] = "release"]
      BY <1>6 DEF InspectFailed, Release
  <2>2. mine[p] \in Owner /\ Drawn(mine[p]) BY <2>1 DEF AccountInv, HoldersKnown
  <2>3. /\ pc' \in [Proc -> Stages] /\ pc'[p] = "confirm"
        /\ expected' \in [Proc -> Dir] /\ expected'[p] = mine[p]
        /\ mode' \in [Proc -> {"reclaim", "empty", "release", "abandon"}]
        /\ mode'[p] \in {"release", "abandon"}
      BY <1>2, <2>1, <2>2, OwnersAreOwners DEF Stages
  <2> QED BY <1>1, <2>1, <2>2, <2>3 DEF Claimed
<1>7. CASE ProveDead(p)
  <2>1. /\ pc[p] = "contend" /\ dir \in Owner /\ ProvablyDead(p, dir)
        /\ pc' = [pc EXCEPT ![p] = "confirm"] /\ expected' = [expected EXCEPT ![p] = dir]
        /\ mode' = [mode EXCEPT ![p] = "reclaim"]
      BY <1>7 DEF ProveDead
  <2>2. Gone(p, dir) /\ Drawn(dir)
      BY <2>1 DEF ProvablyDead, Gone, AccountInv, NamedKnown
  <2>3. /\ pc' \in [Proc -> Stages] /\ pc'[p] = "confirm"
        /\ expected' \in [Proc -> Dir] /\ expected'[p] = dir
        /\ mode' \in [Proc -> {"reclaim", "empty", "release", "abandon"}]
        /\ mode'[p] = "reclaim"
      BY <1>2, <2>1 DEF Stages
  <2> QED BY <1>1, <2>1, <2>2, <2>3 DEF Claimed
<1>8. CASE EmptySeen(p)
  <2>1. /\ pc[p] = "empty" /\ dir = Empty
        /\ pc' = [pc EXCEPT ![p] = "confirm"] /\ expected' = [expected EXCEPT ![p] = Empty]
        /\ mode' = [mode EXCEPT ![p] = "empty"]
      BY <1>8 DEF EmptySeen
  <2>2. /\ pc' \in [Proc -> Stages] /\ pc'[p] = "confirm"
        /\ expected' \in [Proc -> Dir] /\ expected'[p] = Empty
        /\ mode' \in [Proc -> {"reclaim", "empty", "release", "abandon"}]
        /\ mode'[p] = "empty"
      BY <1>2, <2>1, OwnersAreOwners DEF Stages
  <2> QED BY <1>1, <2>1, <2>2, OwnersAreOwners
<1>9. CASE Confirm(p)
  <2>1. /\ pc[p] = "confirm" /\ UNCHANGED <<mode, expected>>
        /\ \/ dir = expected[p] /\ pc' = [pc EXCEPT ![p] = "rename"]
           \/ dir # expected[p] /\ \E s \in Proceed(p) : pc' = [pc EXCEPT ![p] = s]
      BY <1>9 DEF Confirm
  <2>2. Proceed(p) \subseteq {"try", "empty", "wait", "idle", "contend"} BY DEF Proceed, Ended
  <2>3. pc' \in [Proc -> Stages]
        /\ \/ dir = expected[p] /\ pc'[p] = "rename"
           \/ dir # expected[p] /\ pc'[p] \in {"try", "empty", "wait", "idle", "contend"}
      BY <1>2, <2>1, <2>2 DEF Stages
  <2>4. /\ mode[p] \in {"release", "abandon"} => mine[p] \in Owner /\ expected[p] = mine[p]
        /\ mode[p] = "empty" => expected[p] = Empty
        /\ mode[p] = "reclaim" => expected[p] \in Owner /\ Gone(p, expected[p])
      BY <2>1 DEF AccountInv, RemoversKnown
  <2> QED BY <1>1, <1>2, <2>1, <2>3, <2>4 DEF AccountInv, NamedKnown, Claimed
<1> QED BY <1>3, <1>4, <1>5, <1>6, <1>7, <1>8, <1>9 DEF Decides

(* What a step that removes, or finds nothing to remove, does to its process.    *)
LEMMA RemovalsKnown ==
    ASSUME AccountInv, NEW p \in Proc, Removes(p)
    PROVE  /\ UNCHANGED <<mode, expected>>
           /\ pc' \in [Proc -> Stages] /\ moved' \in [Proc -> Dir]
           /\ remembered' \in [Proc -> SUBSET Owner] /\ deleted' \subseteq Owner
           /\ stranded' \subseteq Owner /\ stranded \subseteq stranded'
           /\ pc'[p] \in {"idle", "try", "contend", "empty", "wait", "moved"}
           /\ pc'[p] = "moved" => /\ moved'[p] # Absent /\ dir' = Absent
                                  /\ pc[p] = "rename" /\ deleted' = deleted
           /\ deleted' = deleted \/ /\ pc[p] = "moved"
                                    /\ deleted' = deleted \union ({expected[p]} \ {Empty})
           /\ \A o \in remembered'[p] : o.proc = p
           /\ \A o \in Owner : dir' = o /\ Claimed(p, o) => Claimed(p, o)'
<1> USE DEF Goto, Forget
<1>1. /\ UNCHANGED <<mode, expected, mine>>
      /\ pc[p] \in {"confirm", "rename", "moved", "hold"}
    BY DEF Removes, ConfirmFailed, RenameAway, RenameMissed, RenameFailed, Remove, Retain,
           ReleaseReplaced, ReleaseFailed
<1>2. /\ pc \in [Proc -> Stages] /\ expected \in [Proc -> Dir] /\ moved \in [Proc -> Dir]
      /\ remembered \in [Proc -> SUBSET Owner] /\ deleted \subseteq Owner
      /\ stranded \subseteq Owner
      /\ mode \in [Proc -> {"reclaim", "empty", "release", "abandon"}]
      /\ dir \in Dir /\ mine \in [Proc -> Owner \union {Absent}]
    BY DEF AccountInv, TypeOK
<1>3. /\ \A o \in remembered[p] : o.proc = p
      /\ mine[p] \in Owner => mine[p].proc = p
    BY DEF AccountInv, NamedKnown
<1>4. pc[p] \in {"confirm", "rename", "moved"} =>
          /\ mode[p] \in {"release", "abandon"} => mine[p] \in Owner /\ expected[p] = mine[p]
          /\ mode[p] = "empty" => expected[p] = Empty
          /\ mode[p] = "reclaim" => expected[p] \in Owner
    BY DEF AccountInv, RemoversKnown
<1>5. pc[p] = "moved" => moved[p] # Absent /\ (expected[p] \in Owner => dir # expected[p])
    BY DEF AccountInv, RemoversKnown
<1>6. CASE RenameAway(p)
  <2>1. /\ pc[p] = "rename" /\ dir # Absent /\ dir' = Absent
        /\ moved' = [moved EXCEPT ![p] = dir] /\ pc' = [pc EXCEPT ![p] = "moved"]
        /\ UNCHANGED <<remembered, deleted, stranded>>
      BY <1>6 DEF RenameAway
  <2>2. /\ pc' \in [Proc -> Stages] /\ pc'[p] = "moved"
        /\ moved' \in [Proc -> Dir] /\ moved'[p] = dir
      BY <1>2, <2>1 DEF Stages
  <2> QED BY <1>1, <1>2, <1>3, <2>1, <2>2, OwnersAreOwners
<1>7. CASE RenameMissed(p)
  <2>1. /\ pc[p] = "rename" /\ dir = Absent
        /\ remembered' = [remembered EXCEPT ![p] = @ \ {expected[p]}]
        /\ \E s \in {"try", "empty", "wait", "idle", "contend"} : pc' = [pc EXCEPT ![p] = s]
        /\ UNCHANGED <<dir, moved, deleted, stranded>>
      BY <1>7 DEF RenameMissed, Proceed, Ended
  <2>2. /\ pc' \in [Proc -> Stages] /\ pc'[p] \in {"try", "empty", "wait", "idle", "contend"}
        /\ remembered' \in [Proc -> SUBSET Owner] /\ remembered'[p] \subseteq remembered[p]
      BY <1>2, <2>1 DEF Stages
  <2> QED BY <1>1, <1>2, <1>3, <2>1, <2>2, OwnersAreOwners
<1>8. CASE ConfirmFailed(p) \/ RenameFailed(p)
  <2>1. /\ pc[p] \in {"confirm", "rename"} /\ CleanupFails(p)
        /\ UNCHANGED <<dir, moved, deleted>>
      BY <1>8 DEF ConfirmFailed, RenameFailed
  <2>2. /\ RecordsKept(p)
        /\ mode[p] \in {"release", "abandon"} => OwnRecorded(p)
        /\ mode[p] \notin {"release", "abandon"} => UNCHANGED remembered
        /\ \E s \in {"wait", "idle"} : pc' = [pc EXCEPT ![p] = s]
      BY <1>4, <2>1, CleanupFailure DEF AccountInv
  <2>3. pc' \in [Proc -> Stages] /\ pc'[p] \in {"wait", "idle"}
      BY <1>2, <2>2 DEF Stages
  <2>4. \A o \in remembered'[p] : o.proc = p
      BY <1>2, <1>3, <1>4, <2>1, <2>2 DEF RecordsKept
  <2>5. \A o \in Owner : dir' = o /\ Claimed(p, o) => o \in remembered'[p] \/ o \in stranded'
      BY <2>1, <2>2 DEF Claimed, RecordsKept, OwnRecorded
  <2> QED BY <1>1, <1>2, <2>1, <2>2, <2>3, <2>4, <2>5 DEF Claimed, RecordsKept
<1>9. CASE Remove(p)
  <2>1. /\ pc[p] = "moved" /\ moved[p] = expected[p]
        /\ deleted' = deleted \union ({expected[p]} \ {Empty})
        /\ remembered' = [remembered EXCEPT ![p] = @ \ {expected[p]}]
        /\ \E s \in {"try", "idle", "contend"} : pc' = [pc EXCEPT ![p] = s]
        /\ moved' = [moved EXCEPT ![p] = Absent] /\ UNCHANGED <<dir, stranded>>
      BY <1>9 DEF Remove, Removed, Ended
  <2>2. /\ pc' \in [Proc -> Stages] /\ pc'[p] \in {"try", "idle", "contend"}
        /\ remembered' \in [Proc -> SUBSET Owner] /\ remembered'[p] = remembered[p] \ {expected[p]}
        /\ moved' \in [Proc -> Dir]
      BY <1>2, <2>1, OwnersAreOwners DEF Stages
  <2>3. deleted' \subseteq Owner BY <1>2, <1>5, <2>1 DEF Dir
  <2>4. ASSUME NEW o \in Owner, dir' = o, Claimed(p, o)
        PROVE  o \in remembered'[p] \/ o \in stranded'
    <3>1. o \in remembered[p] \/ o \in stranded BY <2>1, <2>4 DEF Claimed
    <3>2. o # expected[p] BY <1>5, <2>1, <2>4
    <3> QED BY <2>1, <2>2, <3>1, <3>2
  <2> QED BY <1>1, <1>2, <1>3, <2>1, <2>2, <2>3, <2>4 DEF Claimed
<1>10. CASE Retain(p)
  <2>1. /\ pc[p] = "moved"
        /\ \/ mode[p] = "release" /\ ReleaseFails(p, moved[p])
           \/ mode[p] # "release" /\ UNCHANGED <<remembered, stranded>>
        /\ pc' = [pc EXCEPT ![p] = "idle"] /\ moved' = [moved EXCEPT ![p] = Absent]
        /\ UNCHANGED <<dir, deleted>>
      BY <1>10 DEF Retain
  <2>2. /\ pc' \in [Proc -> Stages] /\ pc'[p] = "idle" /\ moved' \in [Proc -> Dir]
      BY <1>2, <2>1, OwnersAreOwners DEF Stages
  <2>3. /\ RecordsKept(p)
        /\ mode[p] # "release" => UNCHANGED remembered
    <3>1. CASE mode[p] = "release"
        BY <1>4, <2>1, <3>1, ReleaseFailure DEF AccountInv
    <3>2. CASE mode[p] # "release"
        BY <1>2, <2>1, <3>2 DEF RecordsKept
    <3> QED BY <3>1, <3>2
  <2>4. \A o \in remembered'[p] : o.proc = p
      BY <1>2, <1>3, <1>4, <2>1, <2>3 DEF RecordsKept
  <2>5. mode[p] = "release" => dir # mine[p] BY <1>4, <1>5, <2>1
  <2>6. \A o \in Owner : dir' = o /\ Claimed(p, o) => o \in remembered'[p] \/ o \in stranded'
      BY <2>1, <2>3, <2>5 DEF Claimed, RecordsKept
  <2> QED BY <1>1, <1>2, <2>1, <2>2, <2>3, <2>4, <2>6 DEF Claimed, RecordsKept
<1>11. CASE ReleaseReplaced(p)
  <2>1. /\ pc[p] = "hold" /\ dir # mine[p]
        /\ remembered' = [remembered EXCEPT ![p] = @ \ {mine[p]}]
        /\ pc' = [pc EXCEPT ![p] = "idle"]
        /\ UNCHANGED <<dir, moved, deleted, stranded>>
      BY <1>11 DEF ReleaseReplaced
  <2>2. /\ pc' \in [Proc -> Stages] /\ pc'[p] = "idle"
        /\ remembered' \in [Proc -> SUBSET Owner] /\ remembered'[p] = remembered[p] \ {mine[p]}
      BY <1>2, <2>1 DEF Stages
  <2>3. \A o \in Owner : dir' = o /\ Claimed(p, o) => o \in remembered'[p] \/ o \in stranded'
      BY <2>1, <2>2 DEF Claimed
  <2> QED BY <1>1, <1>2, <1>3, <2>1, <2>2, <2>3 DEF Claimed
<1>12. CASE ReleaseFailed(p)
  <2>1. /\ pc[p] = "hold" /\ ReleaseFails(p, dir)
        /\ pc' = [pc EXCEPT ![p] = "idle"]
        /\ UNCHANGED <<dir, moved, deleted>>
      BY <1>12 DEF ReleaseFailed
  <2>2. pc' \in [Proc -> Stages] /\ pc'[p] = "idle"
      BY <1>2, <2>1 DEF Stages
  <2>3. mine[p] \in Owner BY <2>1 DEF AccountInv, HoldersKnown
  <2>4. RecordsKept(p) /\ OwnRecorded(p) BY <2>1, <2>3, ReleaseFailure DEF AccountInv
  <2>5. \A o \in remembered'[p] : o.proc = p BY <1>2, <1>3, <2>3, <2>4 DEF RecordsKept
  <2>6. \A o \in Owner : dir' = o /\ Claimed(p, o) => o \in remembered'[p] \/ o \in stranded'
      BY <2>1, <2>4 DEF Claimed, RecordsKept, OwnRecorded
  <2> QED BY <1>1, <1>2, <2>1, <2>2, <2>4, <2>5, <2>6 DEF Claimed, RecordsKept
<1> QED BY <1>6, <1>7, <1>8, <1>9, <1>10, <1>11, <1>12 DEF Removes

(* A step of one process disturbs the account of no other one.                   *)
LEMMA StepsAccounted ==
    ASSUME AccountInv, NEW p \in Proc, Decides(p) \/ Removes(p)
    PROVE  AccountInv'
<1>1. /\ UNCHANGED <<mine, inc, lastToken>>
      /\ dir' = dir \/ dir' = Absent
      /\ pc[p] # "down" /\ pc'[p] # "down"
      /\ \A q \in Proc \ {p} : /\ pc'[q] = pc[q] /\ mode'[q] = mode[q]
                               /\ expected'[q] = expected[q] /\ moved'[q] = moved[q]
                               /\ remembered'[q] = remembered[q]
    BY StepsAreLocal
<1>2. \A o \in Owner : (Alive(o)' <=> Alive(o)) /\ (Drawn(o)' <=> Drawn(o)) BY StepsAreLocal
<1>3. \A o \in Owner : (pc'[o.proc] # "down" /\ o.inc = inc'[o.proc])
                        <=> (pc[o.proc] # "down" /\ o.inc = inc[o.proc])
    BY <1>2 DEF Alive
<1>4. /\ dir \in Dir /\ mine \in [Proc -> Owner \union {Absent}]
      /\ expected \in [Proc -> Dir] /\ inc \in [Proc -> Nat] /\ lastToken \in Nat
      /\ crashes \in Nat /\ deleted \subseteq Owner /\ moved \in [Proc -> Dir]
      /\ stranded \subseteq Owner
      /\ remembered \in [Proc -> SUBSET Owner]
      /\ mode \in [Proc -> {"reclaim", "empty", "release", "abandon"}]
    BY DEF AccountInv, TypeOK
<1>5. crashes' = crashes
    BY DEF Decides, Removes, Start, PublishBlocked, Inspected, InspectFailed, ProveDead, NotProven, EmptySeen,
           EmptyNotSeen, Retry, Confirm, Release, ConfirmFailed, RenameAway, RenameMissed,
           RenameFailed, Remove, Retain, ReleaseReplaced, ReleaseFailed
<1>6. ASSUME stranded \subseteq stranded', NEW q \in Proc \ {p}, NEW o \in Owner, Claimed(q, o)
      PROVE  Claimed(q, o)'
    BY <1>1, <1>6 DEF Claimed
\* What is left to show of the process itself.
<1>7. ASSUME /\ pc' \in [Proc -> Stages] /\ expected' \in [Proc -> Dir] /\ moved' \in [Proc -> Dir]
             /\ mode' \in [Proc -> {"reclaim", "empty", "release", "abandon"}]
             /\ remembered' \in [Proc -> SUBSET Owner] /\ deleted' \subseteq Owner
             /\ stranded' \subseteq Owner /\ stranded \subseteq stranded',
             \A o \in deleted' : Drawn(o),
             expected'[p] \in Owner => Drawn(expected'[p]),
             \A o \in remembered'[p] : o.proc = p,
             pc'[p] \in {"inspect", "hold"} => pc[p] = "inspect",
             \A q \in Proc : pc'[q] \in {"inspect", "hold"} => mine[q] \notin deleted',
             pc'[p] \in {"confirm", "rename", "moved"} =>
                 /\ mode'[p] \in {"release", "abandon"} =>
                        mine[p] \in Owner /\ expected'[p] = mine[p]
                 /\ mode'[p] = "empty" => expected'[p] = Empty
                 /\ mode'[p] = "reclaim" => expected'[p] \in Owner /\ Gone(p, expected'[p]),
             pc'[p] = "moved" => moved'[p] # Absent /\ dir' = Absent,
             \A o \in Owner : dir' = o /\ Claimed(p, o) => Claimed(p, o)'
      PROVE  AccountInv'
  <2>1. TypeOK' BY <1>1, <1>4, <1>5, <1>7, OwnersAreOwners DEF TypeOK
  <2>2. NamedKnown'
    <3>1. dir' \in Owner => Drawn(dir)'
      <4>1. dir' \in Owner => dir' = dir BY <1>1, OwnersAreOwners
      <4> QED BY <1>1, <4>1 DEF AccountInv, NamedKnown, Drawn
    <3>2. \A o \in deleted' : Drawn(o)' BY <1>2, <1>7
    <3>3. ASSUME NEW q \in Proc
          PROVE  /\ mine'[q] \in Owner => mine'[q].proc = q
                 /\ expected'[q] \in Owner => Drawn(expected[q])'
                 /\ \A o \in remembered'[q] : o.proc = q
      <4>1. CASE q = p BY <1>1, <1>7, <4>1 DEF AccountInv, NamedKnown, Drawn
      <4>2. CASE q # p BY <1>1, <4>2 DEF AccountInv, NamedKnown, Drawn
      <4> QED BY <4>1, <4>2
    <3> QED BY <3>1, <3>2, <3>3 DEF NamedKnown
  <2>3. HoldersKnown'
    <3> SUFFICES ASSUME NEW q \in Proc, pc'[q] \in {"inspect", "hold"}
                 PROVE  /\ mine'[q] \in Owner /\ mine'[q].inc = inc'[q] /\ Drawn(mine[q])'
                        /\ mine'[q] \notin deleted'
        BY DEF HoldersKnown
    <3>1. pc[q] \in {"inspect", "hold"} BY <1>1, <1>7
    <3> QED BY <1>1, <1>7, <3>1 DEF AccountInv, HoldersKnown, Drawn
  <2>4. RemoversKnown'
    <3>1. ASSUME NEW q \in Proc, pc'[q] \in {"confirm", "rename", "moved"}
          PROVE  /\ mode'[q] \in {"release", "abandon"} =>
                        mine'[q] \in Owner /\ expected'[q] = mine'[q]
                 /\ mode'[q] = "empty" => expected'[q] = Empty
                 /\ mode'[q] = "reclaim" => expected'[q] \in Owner /\ Gone(q, expected[q])'
      <4>1. CASE q = p BY <1>1, <1>3, <1>7, <3>1, <4>1 DEF Gone, Alive
      <4>2. CASE q # p BY <1>1, <1>3, <3>1, <4>2 DEF AccountInv, RemoversKnown, Gone, Alive
      <4> QED BY <4>1, <4>2
    <3>2. ASSUME NEW q \in Proc, pc'[q] = "moved"
          PROVE  moved'[q] # Absent /\ (expected'[q] \in Owner => dir' # expected'[q])
      <4>1. CASE q = p BY <1>7, <3>2, <4>1, OwnersAreOwners
      <4>2. CASE q # p BY <1>1, <3>2, <4>2, OwnersAreOwners DEF AccountInv, RemoversKnown
      <4> QED BY <4>1, <4>2
    <3> QED BY <3>1, <3>2 DEF RemoversKnown
  <2>5. LeftoversRemembered'
    <3> SUFFICES ASSUME dir' \in Owner, Alive(dir)' PROVE Claimed(dir.proc, dir)'
        BY DEF LeftoversRemembered, Claimed
    <3>1. dir' = dir /\ dir \in Owner /\ dir.proc \in Proc BY <1>1, OwnersAreOwners
    <3>2. Alive(dir) BY <1>3, <3>1 DEF Alive
    <3>3. Claimed(dir.proc, dir) BY <3>1, <3>2, Leftovers DEF AccountInv
    <3>4. PICK o \in Owner : o = dir /\ o = dir' BY <3>1
    <3>5. Claimed(o.proc, o) BY <3>3, <3>4
    <3>6. Claimed(o.proc, o)'
      <4>1. CASE o.proc = p BY <1>7, <3>4, <3>5, <4>1
      <4>2. CASE o.proc # p BY <1>6, <1>7, <3>1, <3>4, <3>5, <4>2
      <4> QED BY <4>1, <4>2
    <3> QED BY <3>4, <3>6 DEF Claimed
  <2> QED BY <2>1, <2>2, <2>3, <2>4, <2>5 DEF AccountInv
<1>8. CASE Decides(p)
  <2>1. /\ UNCHANGED <<dir, deleted, stranded, moved, remembered>>
        /\ pc' \in [Proc -> Stages] /\ expected' \in [Proc -> Dir]
        /\ mode' \in [Proc -> {"reclaim", "empty", "release", "abandon"}]
        /\ pc'[p] \notin {"inspect", "moved"}
        /\ pc'[p] = "hold" => pc[p] = "inspect"
        /\ expected'[p] \in Owner => Drawn(expected'[p])
        /\ pc'[p] \in {"confirm", "rename"} =>
              /\ mode'[p] \in {"release", "abandon"} =>
                     mine[p] \in Owner /\ expected'[p] = mine[p]
              /\ mode'[p] = "empty" => expected'[p] = Empty
              /\ mode'[p] = "reclaim" => expected'[p] \in Owner /\ Gone(p, expected'[p])
      BY <1>8, DecisionsKnown
  <2>2. \A o \in Owner : dir = o /\ Claimed(p, o) => Claimed(p, o)' BY <1>8, DecisionsKnown
  <2>3. /\ \A o \in deleted : Drawn(o)
        /\ \A o \in remembered[p] : o.proc = p
      BY DEF AccountInv, NamedKnown
  <2>4. \A q \in Proc : pc'[q] \in {"inspect", "hold"} => pc[q] \in {"inspect", "hold"}
      BY <1>1, <2>1
  <2>5. \A q \in Proc : pc'[q] \in {"inspect", "hold"} => mine[q] \notin deleted
      BY <2>4 DEF AccountInv, HoldersKnown
  <2> QED BY <1>4, <1>7, <2>1, <2>2, <2>3, <2>5
<1>9. CASE Removes(p)
  <2>1. /\ UNCHANGED <<mode, expected>>
        /\ pc' \in [Proc -> Stages] /\ moved' \in [Proc -> Dir]
        /\ remembered' \in [Proc -> SUBSET Owner] /\ deleted' \subseteq Owner
        /\ stranded' \subseteq Owner /\ stranded \subseteq stranded'
        /\ pc'[p] \in {"idle", "try", "contend", "empty", "wait", "moved"}
        /\ pc'[p] = "moved" => moved'[p] # Absent /\ dir' = Absent /\ pc[p] = "rename"
        /\ \A o \in remembered'[p] : o.proc = p
      BY <1>9, RemovalsKnown
  <2>2. deleted' = deleted \/ /\ pc[p] = "moved"
                              /\ deleted' = deleted \union ({expected[p]} \ {Empty})
      BY <1>9, RemovalsKnown
  <2>3. \A o \in Owner : dir' = o /\ Claimed(p, o) => Claimed(p, o)' BY <1>9, RemovalsKnown
  <2>4. /\ \A o \in deleted : Drawn(o)
        /\ expected[p] \in Owner => Drawn(expected[p])
      BY DEF AccountInv, NamedKnown
  <2>5. \A o \in deleted' : Drawn(o) BY <2>1, <2>2, <2>4
  <2>6. pc[p] \in {"rename", "moved"} =>
            /\ mode[p] \in {"release", "abandon"} => mine[p] \in Owner /\ expected[p] = mine[p]
            /\ mode[p] = "empty" => expected[p] = Empty
            /\ mode[p] = "reclaim" => expected[p] \in Owner /\ Gone(p, expected[p])
      BY DEF AccountInv, RemoversKnown
  \* What is deleted names nobody who holds the lock.
  <2>7. ASSUME NEW q \in Proc, pc'[q] \in {"inspect", "hold"} PROVE mine[q] \notin deleted'
    <3>1. q # p BY <2>1, <2>7
    <3>2. pc[q] \in {"inspect", "hold"} BY <1>1, <2>7, <3>1
    <3>3. /\ mine[q] \in Owner /\ mine[q].inc = inc[q] /\ mine[q] \notin deleted
          /\ mine[q].proc = q
        BY <3>2 DEF AccountInv, HoldersKnown, NamedKnown
    <3>4. Alive(mine[q]) BY <3>2, <3>3 DEF Alive
    <3>5. ~Gone(p, mine[q]) BY <3>1, <3>3, <3>4 DEF Gone
    <3>6. mine[p] \in Owner => mine[p].proc = p BY DEF AccountInv, NamedKnown
    <3>7. pc[p] = "moved" => expected[p] = Empty \/ expected[p] # mine[q]
      <4> SUFFICES ASSUME pc[p] = "moved" PROVE expected[p] = Empty \/ expected[p] # mine[q]
          OBVIOUS
      <4>1. mode[p] \in {"reclaim", "empty", "release", "abandon"} BY <1>4
      <4> QED BY <2>6, <3>1, <3>3, <3>5, <3>6, <4>1
    <3> QED BY <2>2, <3>3, <3>7, OwnersAreOwners
  <2> QED BY <1>4, <1>7, <2>1, <2>3, <2>4, <2>5, <2>6, <2>7
<1> QED BY <1>8, <1>9

(* A new owner has a token that nobody means to remove.                          *)
LEMMA PublicationAccounted ==
    ASSUME AccountInv, NEW p \in Proc, Publish(p)
    PROVE  AccountInv'
<1> DEFINE own == [token |-> lastToken + 1, proc |-> p, inc |-> inc[p]]
<1> HIDE DEF own
<1>1. /\ pc \in [Proc -> Stages] /\ mine \in [Proc -> Owner \union {Absent}]
      /\ inc \in [Proc -> Nat] /\ lastToken \in Nat
    BY DEF AccountInv, TypeOK
<1>2. own \in Owner /\ own.proc = p /\ own.inc = inc[p] /\ own.token = lastToken + 1
    BY <1>1 DEF own, Owner
<1>3. /\ pc[p] = "try" /\ lastToken' = lastToken + 1 /\ dir' = own
      /\ mine' = [mine EXCEPT ![p] = own] /\ pc' = [pc EXCEPT ![p] = "inspect"]
      /\ UNCHANGED <<mode, expected, moved, remembered, inc, crashes, deleted, stranded>>
    BY DEF Publish, Goto, own
<1>4. /\ pc' \in [Proc -> Stages] /\ mine' \in [Proc -> Owner \union {Absent}]
      /\ pc'[p] = "inspect" /\ mine'[p] = own /\ lastToken' \in Nat
      /\ \A q \in Proc \ {p} : pc'[q] = pc[q] /\ mine'[q] = mine[q]
    BY <1>1, <1>2, <1>3 DEF Stages
<1>5. \A o \in Owner : /\ (pc'[o.proc] # "down") <=> (pc[o.proc] # "down")
                       /\ o.token \in Nat /\ (Drawn(o) => o # own)
                       /\ o.token <= lastToken => o.token <= lastToken'
    BY <1>1, <1>2, <1>3, <1>4, OwnersAreOwners DEF Drawn
<1>6. TypeOK' BY <1>2, <1>3, <1>4, OwnersAreOwners DEF AccountInv, TypeOK
<1>7. NamedKnown'
  <2>1. Drawn(dir)' BY <1>1, <1>2, <1>3 DEF Drawn
  <2>2. \A o \in deleted' : Drawn(o)'
      BY <1>3, <1>5 DEF AccountInv, TypeOK, NamedKnown, Drawn
  <2>3. ASSUME NEW q \in Proc
        PROVE  /\ mine'[q] \in Owner => mine'[q].proc = q
               /\ expected'[q] \in Owner => Drawn(expected[q])'
               /\ \A o \in remembered'[q] : o.proc = q
    <3>1. mine'[q] \in Owner => mine'[q].proc = q
        BY <1>2, <1>4 DEF AccountInv, NamedKnown
    <3> QED BY <1>3, <1>5, <3>1 DEF AccountInv, NamedKnown, Drawn
  <2> QED BY <2>1, <2>2, <2>3 DEF NamedKnown
<1>8. HoldersKnown'
  <2> SUFFICES ASSUME NEW q \in Proc, pc'[q] \in {"inspect", "hold"}
               PROVE  /\ mine'[q] \in Owner /\ mine'[q].inc = inc'[q] /\ Drawn(mine[q])'
                      /\ mine'[q] \notin deleted'
      BY DEF HoldersKnown
  <2>1. CASE q = p
    <3>1. own \notin deleted BY <1>5 DEF AccountInv, TypeOK, NamedKnown
    <3> QED BY <1>1, <1>2, <1>3, <1>4, <2>1, <3>1 DEF Drawn
  <2>2. CASE q # p BY <1>3, <1>4, <1>5, <2>2 DEF AccountInv, HoldersKnown, Drawn
  <2> QED BY <2>1, <2>2
<1>9. RemoversKnown'
  <2>1. ASSUME NEW q \in Proc, pc'[q] \in {"confirm", "rename", "moved"}
        PROVE  /\ mode'[q] \in {"release", "abandon"} =>
                      mine'[q] \in Owner /\ expected'[q] = mine'[q]
               /\ mode'[q] = "empty" => expected'[q] = Empty
               /\ mode'[q] = "reclaim" => expected'[q] \in Owner /\ Gone(q, expected[q])'
               /\ pc'[q] = "moved" => /\ moved'[q] # Absent
                                      /\ expected'[q] \in Owner => dir' # expected'[q]
    <3>1. q # p BY <1>4, <2>1
    <3>2. pc[q] = pc'[q] /\ mine'[q] = mine[q] BY <1>4, <3>1
    <3>3. expected[q] \in Owner => expected[q] # own
        BY <1>5 DEF AccountInv, NamedKnown
    <3> QED BY <1>3, <1>5, <2>1, <3>2, <3>3 DEF AccountInv, RemoversKnown, Gone, Alive
  <2> QED BY <2>1 DEF RemoversKnown
<1>10. LeftoversRemembered'
    BY <1>2, <1>3, <1>4 DEF LeftoversRemembered
<1> QED BY <1>6, <1>7, <1>8, <1>9, <1>10 DEF AccountInv

(* A dead owner stays dead: a restarted process is a later incarnation.          *)
LEMMA CrashesAccounted ==
    ASSUME AccountInv, NEW p \in Proc, Crash(p) \/ Restart(p)
    PROVE  AccountInv'
<1>1. /\ pc \in [Proc -> Stages] /\ mine \in [Proc -> Owner \union {Absent}]
      /\ inc \in [Proc -> Nat] /\ lastToken \in Nat /\ dir \in Dir /\ crashes \in Nat
      /\ expected \in [Proc -> Dir] /\ moved \in [Proc -> Dir] /\ deleted \subseteq Owner
      /\ stranded \subseteq Owner
      /\ remembered \in [Proc -> SUBSET Owner]
      /\ mode \in [Proc -> {"reclaim", "empty", "release", "abandon"}]
    BY DEF AccountInv, TypeOK
<1>2. UNCHANGED <<dir, deleted, stranded, mode, lastToken>> BY DEF Crash, Restart
<1>3. /\ pc' \in [Proc -> Stages] /\ pc'[p] \in {"down", "idle"}
      /\ pc'[p] = "idle" => pc[p] = "down" /\ inc' = [inc EXCEPT ![p] = @ + 1]
      /\ pc'[p] = "down" => inc' = inc
      /\ \A q \in Proc \ {p} : pc'[q] = pc[q]
    BY <1>1 DEF Crash, Restart, Goto, Stages
<1>4. /\ inc' \in [Proc -> Nat]
      /\ inc'[p] \in Nat /\ inc[p] \in Nat /\ inc'[p] >= inc[p]
      /\ pc'[p] = "idle" => inc'[p] = inc[p] + 1
      /\ \A q \in Proc \ {p} : inc'[q] = inc[q]
    BY <1>1, <1>3
<1>5. /\ mine' \in [Proc -> Owner \union {Absent}] /\ expected' \in [Proc -> Dir]
      /\ moved' \in [Proc -> Dir] /\ remembered' \in [Proc -> SUBSET Owner]
      /\ crashes' \in Nat
      /\ mine'[p] \in {mine[p], Absent} /\ expected'[p] \in {expected[p], Absent}
      /\ remembered'[p] \subseteq remembered[p]
      /\ \A q \in Proc \ {p} : /\ mine'[q] = mine[q] /\ expected'[q] = expected[q]
                               /\ moved'[q] = moved[q] /\ remembered'[q] = remembered[q]
  <2>1. CASE Crash(p)
    <3>1. /\ mine' = [mine EXCEPT ![p] = Absent] /\ expected' = [expected EXCEPT ![p] = Absent]
          /\ moved' = [moved EXCEPT ![p] = Absent] /\ remembered' = [remembered EXCEPT ![p] = {}]
          /\ crashes' = crashes + 1
        BY <2>1 DEF Crash
    <3> QED BY <1>1, <3>1, OwnersAreOwners
  <2>2. CASE Restart(p)
    <3>1. UNCHANGED <<mine, expected, moved, remembered, crashes>> BY <2>2 DEF Restart
    <3> QED BY <1>1, <3>1
  <2> QED BY <2>1, <2>2
<1>6. \A o \in Owner : Drawn(o) =>
          /\ Drawn(o)'
          /\ pc'[o.proc] # "down" /\ o.inc = inc'[o.proc] =>
                o.proc # p /\ pc[o.proc] # "down" /\ o.inc = inc[o.proc]
  <2> SUFFICES ASSUME NEW o \in Owner, Drawn(o)
      PROVE  /\ o.token <= lastToken' /\ o.inc <= inc'[o.proc]
             /\ pc'[o.proc] # "down" /\ o.inc = inc'[o.proc] =>
                   o.proc # p /\ pc[o.proc] # "down" /\ o.inc = inc[o.proc]
      BY DEF Drawn
  <2>1. o.proc \in Proc /\ o.inc \in Nat /\ o.inc <= inc[o.proc] /\ o.token <= lastToken
      BY OwnersAreOwners DEF Drawn
  <2>2. CASE o.proc = p BY <1>2, <1>3, <1>4, <2>1, <2>2
  <2>3. CASE o.proc # p BY <1>2, <1>3, <1>4, <2>1, <2>3
  <2> QED BY <2>2, <2>3
<1>7. TypeOK' BY <1>1, <1>2, <1>3, <1>4, <1>5 DEF TypeOK
<1>8. NamedKnown'
  <2>1. dir' \in Owner => Drawn(dir)'
      BY <1>2, <1>6 DEF AccountInv, NamedKnown, Drawn
  <2>2. \A o \in deleted' : Drawn(o)'
      BY <1>1, <1>2, <1>6 DEF AccountInv, NamedKnown
  <2>3. ASSUME NEW q \in Proc
        PROVE  /\ mine'[q] \in Owner => mine'[q].proc = q
               /\ expected'[q] \in Owner => Drawn(expected[q])'
               /\ \A o \in remembered'[q] : o.proc = q
    <3>1. mine'[q] \in {mine[q], Absent} /\ expected'[q] \in {expected[q], Absent}
          /\ remembered'[q] \subseteq remembered[q]
        BY <1>5
    <3> QED BY <1>6, <3>1, OwnersAreOwners DEF AccountInv, NamedKnown, Drawn
  <2> QED BY <2>1, <2>2, <2>3 DEF NamedKnown
<1>9. HoldersKnown'
  <2> SUFFICES ASSUME NEW q \in Proc, pc'[q] \in {"inspect", "hold"}
               PROVE  /\ mine'[q] \in Owner /\ mine'[q].inc = inc'[q] /\ Drawn(mine[q])'
                      /\ mine'[q] \notin deleted'
      BY DEF HoldersKnown
  <2>1. q # p BY <1>3
  <2>2. pc[q] \in {"inspect", "hold"} /\ mine'[q] = mine[q] /\ inc'[q] = inc[q]
      BY <1>3, <1>4, <1>5, <2>1
  <2> QED BY <1>2, <1>6, <2>2 DEF AccountInv, HoldersKnown, Drawn
<1>10. RemoversKnown'
  <2>1. ASSUME NEW q \in Proc, pc'[q] \in {"confirm", "rename", "moved"}
        PROVE  /\ mode'[q] \in {"release", "abandon"} =>
                      mine'[q] \in Owner /\ expected'[q] = mine'[q]
               /\ mode'[q] = "empty" => expected'[q] = Empty
               /\ mode'[q] = "reclaim" => expected'[q] \in Owner /\ Gone(q, expected[q])'
               /\ pc'[q] = "moved" => /\ moved'[q] # Absent
                                      /\ expected'[q] \in Owner => dir' # expected'[q]
    <3>1. q # p BY <1>3, <2>1
    <3>2. /\ pc'[q] = pc[q] /\ mine'[q] = mine[q] /\ expected'[q] = expected[q]
          /\ moved'[q] = moved[q] /\ mode' = mode /\ dir' = dir
        BY <1>2, <1>3, <1>5, <3>1
    <3>3. expected[q] \in Owner => Drawn(expected[q]) BY DEF AccountInv, NamedKnown
    <3> QED BY <1>6, <2>1, <3>2, <3>3 DEF AccountInv, RemoversKnown, Gone, Alive
  <2> QED BY <2>1 DEF RemoversKnown
<1>11. LeftoversRemembered'
  <2> SUFFICES ASSUME dir' \in Owner, Alive(dir)' PROVE Claimed(dir.proc, dir)'
      BY DEF LeftoversRemembered, Claimed
  <2>1. dir' = dir /\ dir \in Owner /\ Drawn(dir) /\ dir.proc \in Proc
      BY <1>2, OwnersAreOwners DEF AccountInv, NamedKnown
  <2>2. dir.proc # p /\ Alive(dir) BY <1>6, <2>1 DEF Alive
  <2>3. Claimed(dir.proc, dir) BY <2>1, <2>2, Leftovers DEF AccountInv
  <2> QED BY <1>2, <1>3, <1>5, <2>1, <2>2, <2>3 DEF Claimed
<1> QED BY <1>7, <1>8, <1>9, <1>10, <1>11 DEF AccountInv

(* However processes die and come back, nobody deletes the owner directory of a  *)
(* process that holds the lock, and an owner at the path that names a live       *)
(* process is one this process knows of (quarantineAndRemoveOwnerDirectory,      *)
(* releaseFileMutationLock), for any number of processes, hosts and crashes.     *)
(* Left out are the owners in stranded: those of a release whose second reading  *)
(* failed as its removal had, and of an acquisition that failed with its cleanup.*)
THEOREM LiveOwnersKept == SafetySpec => []LiveOwnersAccounted
<1>1. Init => AccountInv
  <2> SUFFICES ASSUME Init PROVE AccountInv OBVIOUS
  <2>1. TypeOK BY OwnersAreOwners DEF Init, TypeOK, Stages
  <2>2. dir \notin Owner BY OwnersAreOwners DEF Init
  <2>3. \A p \in Proc : pc[p] = "idle" /\ mine[p] = Absent /\ expected[p] = Absent
                        /\ remembered[p] = {}
      BY DEF Init
  <2>4. NamedKnown BY <2>2, <2>3, OwnersAreOwners DEF Init, NamedKnown
  <2>5. HoldersKnown /\ RemoversKnown BY <2>3 DEF HoldersKnown, RemoversKnown
  <2>6. LeftoversRemembered BY <2>2 DEF LeftoversRemembered
  <2> QED BY <2>1, <2>4, <2>5, <2>6 DEF AccountInv
<1>2. AccountInv /\ [Next]_vars => AccountInv'
  <2> SUFFICES ASSUME AccountInv, [Next]_vars PROVE AccountInv' OBVIOUS
  <2>1. CASE UNCHANGED vars
      BY <2>1 DEF vars, AccountInv, TypeOK, NamedKnown, Drawn, HoldersKnown, RemoversKnown,
             Gone, Alive, LeftoversRemembered
  <2>2. ASSUME NEW p \in Proc, Start(p) \/ Continue(p) \/ Crash(p) \/ Restart(p)
        PROVE  AccountInv'
    <3>1. Decides(p) \/ Removes(p) \/ Publish(p) \/ Crash(p) \/ Restart(p)
        BY <2>2 DEF Continue, Decides, Removes
    <3> QED BY <3>1, StepsAccounted, PublicationAccounted, CrashesAccounted
  <2> QED BY <2>1, <2>2 DEF Next
<1>3. AccountInv => LiveOwnersAccounted
    BY DEF AccountInv, HoldersKnown, LiveOwnerKept, LiveOwnersAccounted
<1> QED BY <1>1, <1>2, <1>3, PTL DEF SafetySpec

------------------------------------------------------------------------------
(* Types *)

(* Who is past its publication has one; who removes its own has one to remember; *)
(* and what was renamed into quarantine was a directory.                         *)
OwnPublished ==
    \A p \in Proc :
        /\ pc[p] \in {"inspect", "hold"} => mine[p] \in Owner
        /\ pc[p] \in {"confirm", "rename", "moved"} /\ mode[p] \in {"release", "abandon"} =>
               mine[p] \in Owner
        /\ pc[p] = "moved" => moved[p] # Absent

LockKept == TypeOK /\ OwnPublished

LEMMA DecisionsTyped ==
    ASSUME LockKept, NEW p \in Proc, Decides(p)
    PROVE  LockKept'
<1> USE DEF Goto, Decides
<1>1. UNCHANGED <<dir, deleted, stranded, moved, remembered, mine, inc, lastToken, crashes>>
  BY DEF Start, PublishBlocked, Inspected, InspectFailed, ProveDead, NotProven, EmptySeen,
         EmptyNotSeen, Retry, Confirm, Release
<1>2. \E s \in Stages, e \in Dir, m \in {"reclaim", "empty", "release", "abandon"} :
         /\ pc' = [pc EXCEPT ![p] = s] /\ expected' = [expected EXCEPT ![p] = e]
         /\ mode' = [mode EXCEPT ![p] = m]
         /\ s # "moved"
         /\ s \in {"inspect", "hold"} => mine[p] \in Owner
         /\ s \in {"confirm", "rename"} /\ m \in {"release", "abandon"} => mine[p] \in Owner
  <2>1. /\ mine[p] \in Dir /\ dir \in Dir /\ expected[p] \in Dir
        /\ mode[p] \in {"reclaim", "empty", "release", "abandon"}
        /\ expected = [expected EXCEPT ![p] = expected[p]]
        /\ mode = [mode EXCEPT ![p] = mode[p]]
    BY OwnersAreOwners DEF LockKept, TypeOK, Dir
  <2>2. CASE Start(p) \/ PublishBlocked(p) \/ NotProven(p) \/ EmptyNotSeen(p) \/ Retry(p)
    BY <2>1, <2>2 DEF Stages, Start, PublishBlocked, NotProven, EmptyNotSeen, Retry
  <2>3. CASE Inspected(p) \/ Release(p)
    BY <2>1, <2>3 DEF Stages, Inspected, Release, LockKept, OwnPublished
  <2>4. CASE InspectFailed(p)
    BY <2>1, <2>4 DEF Stages, InspectFailed, LockKept, OwnPublished
  <2>5. CASE ProveDead(p) \/ EmptySeen(p)
    BY <2>1, <2>5, OwnersAreOwners DEF Stages, ProveDead, EmptySeen
  <2>6. CASE Confirm(p)
    BY <2>1, <2>6 DEF Stages, Confirm, Proceed, Ended, LockKept, OwnPublished
  <2> QED BY <2>2, <2>3, <2>4, <2>5, <2>6
<1>3. TypeOK' BY <1>1, <1>2 DEF LockKept, TypeOK
<1>4. OwnPublished' BY <1>1, <1>2 DEF LockKept, TypeOK, OwnPublished
<1> QED BY <1>3, <1>4 DEF LockKept

LEMMA RemovalsTyped ==
    ASSUME LockKept, NEW p \in Proc, Removes(p)
    PROVE  LockKept'
<1> USE DEF Goto, Removes, Forget
<1>1. UNCHANGED <<mode, mine, expected, inc, lastToken, crashes>> /\ dir' \in Dir
  BY OwnersAreOwners DEF LockKept, TypeOK, ConfirmFailed, RenameAway, RenameMissed, RenameFailed,
         Remove, Retain, ReleaseReplaced, ReleaseFailed
<1>2. \E s \in Stages, d \in Dir :
         /\ pc' = [pc EXCEPT ![p] = s] /\ moved' = [moved EXCEPT ![p] = d]
         /\ s \notin {"inspect", "hold", "confirm", "rename"} /\ (s = "moved" => d # Absent)
         /\ s = "moved" /\ mode[p] \in {"release", "abandon"} => mine[p] \in Owner
  <2>1. /\ moved[p] \in Dir /\ dir \in Dir /\ Absent \in Dir
        /\ moved = [moved EXCEPT ![p] = moved[p]]
    BY OwnersAreOwners DEF LockKept, TypeOK
  <2>2. CASE RenameAway(p)
    BY <2>1, <2>2 DEF Stages, RenameAway, LockKept, OwnPublished
  <2>3. CASE RenameMissed(p)
    <3>1. mode[p] # "reclaim" => Proceed(p) \subseteq {"wait", "idle", "contend"}
      BY DEF Proceed, Ended, LockKept, TypeOK
    <3>2. PICK s \in {"try", "wait", "idle", "contend"} : pc' = [pc EXCEPT ![p] = s]
      BY <2>3, <3>1 DEF RenameMissed
    <3> QED BY <2>1, <2>3, <3>2 DEF Stages, RenameMissed
  <2>4. CASE ConfirmFailed(p) \/ RenameFailed(p)
    BY <2>1, <2>4 DEF Stages, ConfirmFailed, RenameFailed, CleanupFails
  <2>5. CASE Remove(p)
    BY <2>1, <2>5 DEF Stages, Remove, Removed, Ended
  <2>6. CASE Retain(p)
    BY <2>1, <2>6 DEF Stages, Retain
  <2>7. CASE ReleaseReplaced(p) \/ ReleaseFailed(p)
    BY <2>1, <2>7 DEF Stages, ReleaseReplaced, ReleaseFailed
  <2> QED BY <2>2, <2>3, <2>4, <2>5, <2>6, <2>7
<1>3. deleted' \subseteq Owner
  <2>1. CASE Remove(p)
    <3>1. moved[p] \in Dir /\ moved[p] # Absent
      BY <2>1 DEF Remove, LockKept, TypeOK, OwnPublished
    <3> QED BY <2>1, <3>1 DEF Remove, Dir, LockKept, TypeOK
  <2>2. CASE ~Remove(p)
    BY <2>2 DEF ConfirmFailed, RenameAway, RenameMissed, RenameFailed, Retain, ReleaseReplaced,
         ReleaseFailed, LockKept, TypeOK
  <2> QED BY <2>1, <2>2
<1>6. remembered' \in [Proc -> SUBSET Owner] /\ stranded' \subseteq Owner
  <2>1. CASE ConfirmFailed(p) \/ RenameFailed(p)
    <3>1. mode[p] \in {"release", "abandon"} => mine[p] \in Owner
      BY <2>1 DEF ConfirmFailed, RenameFailed, LockKept, OwnPublished
    <3> QED BY <2>1, <3>1, CleanupFailure DEF ConfirmFailed, RenameFailed, RecordsKept, LockKept
  <2>2. CASE (Retain(p) /\ mode[p] = "release") \/ ReleaseFailed(p)
    <3>1. mine[p] \in Owner /\ \E there : ReleaseFails(p, there)
      BY <2>2 DEF Retain, ReleaseFailed, LockKept, OwnPublished
    <3> QED BY <3>1, ReleaseFailure DEF RecordsKept, LockKept
  <2>3. CASE \/ RenameAway(p) \/ RenameMissed(p) \/ Remove(p) \/ ReleaseReplaced(p)
             \/ (Retain(p) /\ mode[p] # "release")
    BY <2>3 DEF RenameAway, RenameMissed, Remove, Retain, ReleaseReplaced, LockKept, TypeOK
  <2> QED BY <2>1, <2>2, <2>3
<1> HIDE DEF Goto, Removes, Forget
<1>4. TypeOK'
  <2>1. pc' \in [Proc -> Stages] /\ moved' \in [Proc -> Dir]
    BY <1>2 DEF LockKept, TypeOK
  <2> QED BY <1>1, <1>3, <1>6, <2>1 DEF LockKept, TypeOK
<1>5. OwnPublished' BY <1>1, <1>2 DEF LockKept, TypeOK, OwnPublished
<1> QED BY <1>4, <1>5 DEF LockKept

LEMMA OthersTyped ==
    ASSUME LockKept, NEW p \in Proc, Publish(p) \/ Crash(p) \/ Restart(p)
    PROVE  LockKept'
<1>1. CASE Publish(p)
  <2> DEFINE own == [token |-> lastToken + 1, proc |-> p, inc |-> inc[p]]
  <2>1. own \in Owner BY DEF LockKept, TypeOK, Owner
  <2>2. /\ lastToken' = lastToken + 1 /\ dir' = own
        /\ mine' = [mine EXCEPT ![p] = own] /\ pc' = [pc EXCEPT ![p] = "inspect"]
        /\ UNCHANGED <<mode, expected, moved, remembered, inc, crashes, deleted, stranded>>
    BY <1>1 DEF Publish, Goto
  <2> HIDE DEF own
  <2>3. TypeOK' BY <2>1, <2>2 DEF LockKept, TypeOK, Dir, Stages
  <2>4. OwnPublished' BY <2>1, <2>2 DEF LockKept, TypeOK, OwnPublished
  <2> QED BY <2>3, <2>4 DEF LockKept
<1>2. CASE Crash(p)
  <2>1. TypeOK' BY <1>2, OwnersAreOwners DEF Crash, Goto, LockKept, TypeOK, Stages
  <2>2. OwnPublished' BY <1>2 DEF Crash, Goto, LockKept, TypeOK, OwnPublished
  <2> QED BY <2>1, <2>2 DEF LockKept
<1>3. CASE Restart(p)
  <2>1. TypeOK' BY <1>3 DEF Restart, Goto, LockKept, TypeOK, Stages
  <2>2. OwnPublished' BY <1>3 DEF Restart, Goto, LockKept, TypeOK, OwnPublished
  <2> QED BY <2>1, <2>2 DEF LockKept
<1> QED BY <1>1, <1>2, <1>3

(* The lock keeps its state well formed, whatever dies or fails: in particular   *)
(* only owners are deleted and remembered, never an empty or a missing directory.*)
THEOREM LockTyped == SafetySpec => []TypeOK
<1>1. Init => LockKept
  <2> SUFFICES ASSUME Init PROVE LockKept OBVIOUS
  <2>1. TypeOK BY OwnersAreOwners DEF Init, TypeOK, Stages
  <2>2. \A p \in Proc : pc[p] = "idle" BY DEF Init
  <2> QED BY <2>1, <2>2 DEF LockKept, OwnPublished
<1>2. LockKept /\ [Next]_vars => LockKept'
  <2> SUFFICES ASSUME LockKept, [Next]_vars PROVE LockKept' OBVIOUS
  <2>1. CASE UNCHANGED vars BY <2>1 DEF vars, LockKept, TypeOK, OwnPublished
  <2>2. ASSUME NEW p \in Proc, Start(p) \/ Continue(p) \/ Crash(p) \/ Restart(p)
        PROVE  LockKept'
    <3>1. Decides(p) \/ Removes(p) \/ Publish(p) \/ Crash(p) \/ Restart(p)
      BY <2>2 DEF Continue, Decides, Removes
    <3> QED BY <3>1, DecisionsTyped, RemovalsTyped, OthersTyped
  <2> QED BY <2>1, <2>2 DEF Next
<1>3. LockKept => TypeOK BY DEF LockKept
<1> QED BY <1>1, <1>2, <1>3, PTL DEF SafetySpec
=============================================================================
