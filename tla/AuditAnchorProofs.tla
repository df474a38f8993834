-------------------------- MODULE AuditAnchorProofs --------------------------
(* Safety of the audit anchor for every set of processes and every bound. *)
EXTENDS AuditAnchor, SequenceTheorems, TLAPS

USE DEF shared, locks, local, memory

------------------------------------------------------------------------------
(* Type correctness *)

\* The mark of a tail counts its rows.
LEMMA MarkOfTail ==
    ASSUME NEW tail \in Seq(Nat)
    PROVE  MarkOf(tail) \in Mark /\ MarkOf(tail).count = Len(tail)
BY DEF MarkOf, Mark, HeadOf

\* Appending the rows of a transaction gives a table again.
LEMMA Appended ==
    ASSUME NEW tail \in Seq(Nat), NEW more \in Seq(Nat)
    PROVE  /\ tail \o more \in Seq(Nat)
           /\ Len(tail \o more) = Len(tail) + Len(more)
OBVIOUS

\* A verification that fails leaves the memory of the process well formed.
LEMMA RefuseTyped ==
    ASSUME TypeOK, NEW p \in Proc, NEW c, Refuse(p, c),
           pc[p] \notin {"ready", "pending", "prepared", "applied"}
    PROVE  /\ pc' \in [Proc -> {"down", "idle", "open", "ready", "pending", "prepared",
                                "applied", "checkpoint", "clear"}]
           /\ rows' \in [Proc -> Seq(Nat)]
           /\ \A q \in Proc : pc'[q] \notin {"ready", "pending", "prepared", "applied"}
                                 => rows'[q] = <<>>
           /\ lock' \in Proc \union {Absent} /\ writer' \in Proc \union {Absent}
           /\ lastError' \in [Proc -> BOOLEAN]
           /\ requiredCheckpoint' \in [Proc -> Mark \union {Absent}]
<1> USE DEF TypeOK, Goto, Remember, Release
<1>1. CASE c = "start"
    BY <1>1 DEF Refuse
<1>2. CASE c # "start"
    <2>1. EndTransaction(p) /\ Remember(p, TRUE) /\ UNCHANGED requiredCheckpoint
        BY <1>2 DEF Refuse
    <2>2. /\ pc' = [pc EXCEPT ![p] = "idle"] /\ rows' = [rows EXCEPT ![p] = <<>>]
          /\ writer' \in {writer, Absent} /\ lock' \in {lock, Absent}
        BY <2>1 DEF EndTransaction
    <2>3. lastError' \in [Proc -> BOOLEAN]
        BY <2>1
    <2> QED BY <2>1, <2>2, <2>3
<1> QED
    BY <1>1, <1>2

\* Every step of the protocol, in every environment, keeps the variables in
\* their types, and only a transaction past requireMutationReady holds rows.
LEMMA TypeStep == TypeOK /\ [Next]_vars => TypeOK'
<1> SUFFICES ASSUME TypeOK, [Next]_vars PROVE TypeOK'
    OBVIOUS
<1> USE ConstantsAssumption DEF TypeOK, Goto, Remember, Release
<1>1. ASSUME NEW p \in Proc, Begin(p) PROVE TypeOK'
    BY <1>1 DEF Begin
<1>2. ASSUME NEW p \in Proc, AppendRow(p) PROVE TypeOK'
    BY <1>2 DEF AppendRow
<1>3. ASSUME NEW p \in Proc, Crash(p) \/ CrashLinked(p) PROVE TypeOK'
    <2>1. MarkOf(audit) \in Mark /\ MarkOf(audit \o rows[p]) \in Mark
        BY MarkOfTail, Appended
    <2>2. CASE Crash(p)
        BY <2>2 DEF Crash, Dies
    <2>3. CASE CrashLinked(p)
        <3>1. /\ checkpoint' \in Mark \union {Absent} /\ pending' \in Mark \union {Absent}
              /\ twoNames' \subseteq {"checkpoint", "pending"}
            BY <2>3, <2>1 DEF CrashLinked
        <3> QED BY <2>3, <3>1 DEF CrashLinked, Dies
    <2> QED BY <1>3, <2>2, <2>3
<1>4. ASSUME NEW p \in Proc, NEW c \in {"start", "verify", "advance", "tx"},
             VerifyPublishes(p, c)
      PROVE  TypeOK'
    BY <1>4, MarkOfTail DEF VerifyPublishes, MayVerify, Unqueue
<1>5. ASSUME NEW p \in Proc, NEW c \in {"start", "verify", "advance", "tx"},
             VerifyCurrent(p, c)
      PROVE  TypeOK'
    BY <1>5 DEF VerifyCurrent, MayVerify, Unqueue
<1>6. ASSUME NEW p \in Proc, NEW c \in {"start", "verify", "advance", "tx"},
             VerifyRefused(p, c)
      PROVE  TypeOK'
    <2>1. pc[p] \notin {"ready", "pending", "prepared", "applied"} /\ Refuse(p, c)
        BY <1>6 DEF VerifyRefused, MayVerify
    <2>2. scheduled' \in [Proc -> BOOLEAN] /\ UNCHANGED <<shared, ctx, backup>>
        BY <1>6 DEF VerifyRefused, Unqueue
    <2> QED BY <2>1, <2>2, RefuseTyped
<1>7. ASSUME NEW p \in Proc, CheckpointPublished(p) PROVE TypeOK'
    BY <1>7, MarkOfTail DEF CheckpointPublished
<1>8. ASSUME NEW p \in Proc, CheckpointFailed(p) PROVE TypeOK'
    <2>1. /\ checkpoint' \in Mark \union {Absent}
          /\ twoNames' \subseteq {"checkpoint", "pending"}
        BY <1>8, MarkOfTail DEF CheckpointFailed
    <2>2. /\ pc[p] = "checkpoint" /\ Refuse(p, ctx[p])
          /\ backup' = [backup EXCEPT ![p] = Absent]
          /\ UNCHANGED <<audit, history, lastId, pending, ctx, scheduled>>
        BY <1>8 DEF CheckpointFailed
    <2> QED BY <2>1, <2>2, RefuseTyped
<1>9. ASSUME NEW p \in Proc, PendingCleared(p) PROVE TypeOK'
    BY <1>9 DEF PendingCleared
<1>10. ASSUME NEW p \in Proc, PendingClearFailed(p) PROVE TypeOK'
    BY <1>10 DEF PendingClearFailed, Refuse, EndTransaction
<1>11. ASSUME NEW p \in Proc, MutationReady(p) PROVE TypeOK'
    BY <1>11 DEF MutationReady
<1>12. ASSUME NEW p \in Proc, RollBack(p) PROVE TypeOK'
    BY <1>12 DEF RollBack, EndTransaction
<1>13. ASSUME NEW p \in Proc, PrepareCommit(p) PROVE TypeOK'
    BY <1>13 DEF PrepareCommit
<1>14. ASSUME NEW p \in Proc, PrepareRefused(p) PROVE TypeOK'
    BY <1>14 DEF PrepareRefused, EndTransaction
<1>15. ASSUME NEW p \in Proc, PendingPublished(p) PROVE TypeOK'
    <2>1. MarkOf(audit \o rows[p]) \in Mark
        BY MarkOfTail, Appended
    <2> QED BY <1>15, <2>1 DEF PendingPublished
<1>16. ASSUME NEW p \in Proc, PendingFailed(p) PROVE TypeOK'
    <2>1. MarkOf(audit \o rows[p]) \in Mark
        BY MarkOfTail, Appended
    <2>2. pending' \in Mark \union {Absent} /\ twoNames' \subseteq {"checkpoint", "pending"}
        BY <1>16, <2>1 DEF PendingFailed
    <2> QED BY <1>16, <2>2 DEF PendingFailed, EndTransaction
<1>17. ASSUME NEW p \in Proc, CommitApplied(p) PROVE TypeOK'
    <2>1. audit \o rows[p] \in Seq(Nat) /\ history \o rows[p] \in Seq(Nat)
        BY Appended
    <2> QED BY <1>17, <2>1 DEF CommitApplied
<1>18. ASSUME NEW p \in Proc, CommitReturned(p) PROVE TypeOK'
    <2>1. lastError' \in [Proc -> BOOLEAN]
        BY <1>18 DEF CommitReturned
    <2>2. scheduled' \in [Proc -> BOOLEAN]
        BY <1>18 DEF CommitReturned
    <2> QED BY <1>18, <2>1, <2>2 DEF CommitReturned, EndTransaction
<1>19. ASSUME NEW p \in Proc, CommitUncertain(p) PROVE TypeOK'
    BY <1>19 DEF CommitUncertain, EndTransaction
<1>20. CASE LoseTail
    <2>1. PICK n \in 0 .. Len(audit) - 1 : audit' = SubSeq(audit, 1, n)
        BY <1>20 DEF LoseTail
    <2>2. audit' \in Seq(Nat)
        BY <2>1
    <2> QED BY <1>20, <2>2 DEF LoseTail
<1>21. CASE UNCHANGED vars
    BY <1>21 DEF vars
<1> HIDE DEF TypeOK, Goto, Remember, Release
<1>22. ASSUME NEW p \in Proc, NEW c \in {"start", "verify", "advance", "tx"}, Verify(p, c)
       PROVE  TypeOK'
    BY <1>4, <1>5, <1>6, <1>22 DEF Verify
<1>23. ASSUME NEW p \in Proc, Continue(p) PROVE TypeOK'
    BY <1>7, <1>8, <1>9, <1>10, <1>11, <1>12, <1>13, <1>14, <1>15, <1>16, <1>17, <1>18, <1>19,
       <1>22, <1>23 DEF Continue
<1> QED
    BY <1>1, <1>2, <1>3, <1>20, <1>21, <1>22, <1>23 DEF Next

\* The state of the protocol stays well formed whatever fails.
THEOREM TypeCorrect == SafetySpec => []TypeOK
<1>1. Init => TypeOK
    BY ConstantsAssumption DEF Init, TypeOK, Mark
<1>2. TypeOK /\ [Next]_vars => TypeOK'
    BY TypeStep
<1> QED
    BY <1>1, <1>2, PTL DEF SafetySpec

------------------------------------------------------------------------------
(* Lost rows do not go unnoticed, unless a publication is torn *)

\* The counts the marks carry, not the heads, are what the argument needs.
Covers(mark) == mark # Absent /\ mark.count >= Len(history)

\* Who writes sidecars or commits holds the coordination lock.
LockInv ==
    \A p \in Proc :
        pc[p] \in {"checkpoint", "clear", "pending", "prepared", "applied"} => lock = p

\* The table is what was committed, short of a tail.
PrefixInv ==
    /\ Len(audit) <= Len(history)
    /\ \A i \in 1 .. Len(audit) : audit[i] = history[i]

\* A checkpoint is missing only while a new one is being published.
CheckpointInv == checkpoint = Absent => \E p \in Proc : pc[p] = "checkpoint"

\* Between two publications one of the sidecars covers all that was committed;
\* during one, the sidecar that was renamed away may be the one that does.
CoveredInv ==
    \/ Covers(checkpoint) \/ Covers(pending)
    \/ \E p \in Proc : pc[p] \in {"checkpoint", "pending"} /\ Covers(backup[p])

\* What a process that is publishing or committing has established.
PublisherInv(p) ==
    /\ pc[p] \in {"checkpoint", "clear", "pending", "prepared"} => audit = history
    /\ pc[p] = "checkpoint" => checkpoint = Absent /\ backup[p] # Absent
    /\ pc[p] = "clear" => Covers(checkpoint)
    /\ pc[p] = "pending" => pending = Absent
    /\ pc[p] = "prepared" => /\ pending # Absent
                             /\ pending.count = Len(audit) + Len(rows[p])

SidecarInv == CheckpointInv /\ CoveredInv /\ \A p \in Proc : PublisherInv(p)

SafetyInv == TypeOK /\ LockInv /\ PrefixInv /\ SidecarInv

\* A table as long as the history is the history.
LEMMA FullTable ==
    ASSUME TypeOK, PrefixInv, Len(history) <= Len(audit)
    PROVE  audit = history
<1>1. Len(audit) = Len(history)
    BY DEF TypeOK, PrefixInv
<1> QED
    BY <1>1, SeqEqual DEF TypeOK, PrefixInv

\* What a verification accepts under the lock is the whole history.
LEMMA AcceptedIsWhole ==
    ASSUME SafetyInv, lock = Absent, NEW required, TailConsistent(required)
    PROVE  audit = history
<1>1. Covers(checkpoint) \/ Covers(pending)
    BY ConstantsAssumption DEF SafetyInv, LockInv, SidecarInv, CoveredInv
<1>2. checkpoint # Absent /\ checkpoint.count <= Len(audit)
    BY DEF TailConsistent
<1>3. pending # Absent /\ pending.count # 0 => pending.count <= Len(audit)
    BY DEF TailConsistent, RowPresent
<1>4. Len(history) <= Len(audit)
    BY <1>1, <1>2, <1>3 DEF Covers, SafetyInv, TypeOK, Mark
<1> QED
    BY <1>4, FullTable DEF SafetyInv

\* What a commit is prepared on is the whole history.
LEMMA PreparedIsWhole ==
    ASSUME SafetyInv, NEW p \in Proc, pc[p] = "ready",
           lock \in {Absent, p}, PrepareAccepts(p)
    PROVE  audit = history
<1>1. \A q \in Proc : pc[q] \notin {"checkpoint", "pending"}
    BY ConstantsAssumption DEF SafetyInv, LockInv
<1>2. Covers(checkpoint) \/ Covers(pending)
    BY <1>1 DEF SafetyInv, SidecarInv, CoveredInv
<1>3. /\ checkpoint.count <= Len(audit)
      /\ pending # Absent => pending.count <= Len(audit)
    BY DEF PrepareAccepts
<1>4. Len(history) <= Len(audit)
    BY <1>2, <1>3 DEF Covers, SafetyInv, TypeOK, Mark
<1> QED
    BY <1>4, FullTable DEF SafetyInv

\* A step by which one process stops, or goes on outside the coordination lock,
\* and takes at most a covered pending mark with it.
LEMMA QuietStep ==
    ASSUME SafetyInv, TypeOK', NEW p \in Proc,
           pc[p] \notin {"checkpoint", "pending"},
           pc'[p] \in {"down", "idle", "open", "ready"},
           \A q \in Proc \ {p} : /\ pc'[q] = pc[q] /\ rows'[q] = rows[q]
                                 /\ backup'[q] = backup[q],
           UNCHANGED <<audit, history, checkpoint>>,
           pending' = pending \/ pc[p] = "clear",
           lock' = lock \/ (lock = p /\ lock' = Absent)
    PROVE  SafetyInv'
<1>1. LockInv'
    BY DEF SafetyInv, LockInv
<1>2. PrefixInv'
    BY DEF SafetyInv, PrefixInv
<1>3. CheckpointInv'
    BY DEF SafetyInv, SidecarInv, CheckpointInv
<1>4. CoveredInv'
    <2>1. CASE pc[p] = "clear"
        BY <2>1 DEF SafetyInv, SidecarInv, PublisherInv, CoveredInv, Covers
    <2>2. CASE pending' = pending
        BY <2>2 DEF SafetyInv, SidecarInv, CoveredInv, Covers
    <2> QED BY <2>1, <2>2
<1>5. ASSUME NEW q \in Proc PROVE PublisherInv(q)'
    <2>1. CASE q = p
        BY <2>1 DEF PublisherInv
    <2>2. CASE q # p
        \* Whoever is about to clear holds the lock, so q is elsewhere.
        <3>1. pc[q] \in {"pending", "prepared"} => pending' = pending
            BY <2>2 DEF SafetyInv, LockInv
        <3>2. PublisherInv(q) /\ pc'[q] = pc[q] /\ rows'[q] = rows[q] /\ backup'[q] = backup[q]
            BY <2>2 DEF SafetyInv, SidecarInv
        <3> QED BY <3>1, <3>2 DEF PublisherInv, Covers
    <2> QED BY <2>1, <2>2
<1> QED
    BY <1>1, <1>2, <1>3, <1>4, <1>5 DEF SafetyInv, SidecarInv

\* A verification enters the lock with a table it accepted.
LEMMA VerifyEntersSafely ==
    ASSUME SafetyInv, TypeOK', NEW p \in Proc,
           NEW c \in {"start", "verify", "advance", "tx"},
           VerifyPublishes(p, c) \/ VerifyCurrent(p, c)
    PROVE  SafetyInv'
<1>1. lock = Absent /\ Accepts(p, c) /\ lock' = p
    BY DEF VerifyPublishes, VerifyCurrent
<1>2. TailConsistent(requiredCheckpoint[p])
    BY <1>1 DEF Accepts, VerifyAccepts, AdvanceAccepts
<1>3. audit = history /\ checkpoint # Absent
    BY <1>1, <1>2, AcceptedIsWhole DEF TailConsistent
<1>4. \A q \in Proc : pc[q] \notin {"checkpoint", "clear", "pending", "prepared", "applied"}
    BY <1>1, ConstantsAssumption DEF SafetyInv, LockInv
<1>5. UNCHANGED <<audit, history, pending, rows>>
    BY DEF VerifyPublishes, VerifyCurrent, shared
<1>6. PrefixInv'
    BY <1>5 DEF SafetyInv, PrefixInv
<1>7. CASE VerifyPublishes(p, c)
    <2>1. /\ pc' = [pc EXCEPT ![p] = "checkpoint"]
          /\ backup' = [backup EXCEPT ![p] = checkpoint]
          /\ checkpoint' = Absent
        BY <1>7 DEF VerifyPublishes, Goto
    <2>2. LockInv'
        BY <2>1, <1>1, <1>4 DEF SafetyInv, TypeOK, LockInv
    <2>3. CheckpointInv' /\ CoveredInv'
        BY <2>1, <1>4, <1>5 DEF SafetyInv, TypeOK, SidecarInv, CheckpointInv, CoveredInv, Covers
    <2>4. ASSUME NEW q \in Proc PROVE PublisherInv(q)'
        BY <2>1, <1>3, <1>4, <1>5 DEF SafetyInv, TypeOK, PublisherInv
    <2> QED BY <1>6, <2>2, <2>3, <2>4 DEF SafetyInv, SidecarInv
<1>8. CASE VerifyCurrent(p, c)
    <2>1. /\ pc' = [pc EXCEPT ![p] = "clear"]
          /\ UNCHANGED <<checkpoint, backup>>
          /\ checkpoint.count = Len(audit)
        BY <1>8 DEF VerifyCurrent, Goto
    <2>2. LockInv'
        BY <2>1, <1>1, <1>4 DEF SafetyInv, TypeOK, LockInv
    <2>3. Covers(checkpoint)'
        BY <2>1, <1>3, <1>5 DEF SafetyInv, TypeOK, Mark, Covers
    <2>4. CheckpointInv' /\ CoveredInv'
        BY <2>3 DEF CheckpointInv, CoveredInv, Covers
    <2>5. ASSUME NEW q \in Proc PROVE PublisherInv(q)'
        BY <2>1, <2>3, <1>3, <1>4, <1>5 DEF SafetyInv, TypeOK, PublisherInv
    <2> QED BY <1>6, <2>2, <2>4, <2>5 DEF SafetyInv, SidecarInv
<1> QED
    BY <1>7, <1>8

\* A transaction that ends and a verification that fails stop one process only.
LEMMA TransactionEnded ==
    ASSUME TypeOK, NEW p \in Proc, EndTransaction(p)
    PROVE  /\ pc'[p] = "idle"
           /\ \A q \in Proc \ {p} : pc'[q] = pc[q] /\ rows'[q] = rows[q]
           /\ lock' = lock \/ (lock = p /\ lock' = Absent)
BY DEF TypeOK, EndTransaction, Goto, Release

LEMMA RefusalStops ==
    ASSUME TypeOK, NEW p \in Proc, NEW c, Refuse(p, c)
    PROVE  /\ pc'[p] \in {"down", "idle"}
           /\ \A q \in Proc \ {p} : pc'[q] = pc[q] /\ rows'[q] = rows[q]
           /\ lock' = lock \/ (lock = p /\ lock' = Absent)
<1>1. CASE c = "start"
    BY <1>1 DEF TypeOK, Refuse, Goto, Release
<1>2. CASE c # "start"
    BY <1>2, TransactionEnded DEF Refuse
<1> QED
    BY <1>1, <1>2

\* So does a death, within a publication or not.
LEMMA DeathStops ==
    ASSUME TypeOK, NEW p \in Proc, Crash(p) \/ CrashLinked(p)
    PROVE  /\ pc' = [pc EXCEPT ![p] = "down"] /\ backup' = [backup EXCEPT ![p] = Absent]
           /\ \A q \in Proc \ {p} : pc'[q] = pc[q] /\ rows'[q] = rows[q]
           /\ lock' = lock \/ (lock = p /\ lock' = Absent)
           /\ UNCHANGED <<audit, history, lastId>>
BY DEF TypeOK, Crash, CrashLinked, Dies, Goto, Release

\* A publication of the checkpoint ends with the new one or the prior one.
LEMMA CheckpointEndsSafely ==
    ASSUME SafetyInv, TypeOK', TornPublication = FALSE, NEW p \in Proc,
           \/ CheckpointPublished(p) \/ CheckpointFailed(p)
           \/ CrashLinked(p) /\ pc[p] = "checkpoint"
    PROVE  SafetyInv'
<1>1. /\ pc[p] = "checkpoint" /\ lock = p /\ audit = history
      /\ checkpoint = Absent /\ backup[p] # Absent
    BY DEF CheckpointPublished, CheckpointFailed, SafetyInv, LockInv, SidecarInv, PublisherInv
<1>2. \A q \in Proc \ {p} :
          /\ pc[q] \notin {"checkpoint", "clear", "pending", "prepared", "applied"}
          /\ pc'[q] = pc[q]
    <2>1. \A q \in Proc \ {p} :
              pc[q] \notin {"checkpoint", "clear", "pending", "prepared", "applied"}
        BY <1>1 DEF SafetyInv, LockInv
    <2>2. CASE CheckpointPublished(p)
        BY <2>1, <2>2 DEF SafetyInv, TypeOK, CheckpointPublished, Goto
    <2>3. CASE CheckpointFailed(p)
        BY <2>1, <2>3, RefusalStops DEF SafetyInv, CheckpointFailed
    <2>4. CASE CrashLinked(p)
        BY <2>1, <2>4, DeathStops DEF SafetyInv
    <2> QED BY <2>2, <2>3, <2>4
<1>3. UNCHANGED <<audit, history, pending>> /\ backup' = [backup EXCEPT ![p] = Absent]
    BY <1>1, DeathStops DEF CheckpointPublished, CheckpointFailed, CrashLinked, SafetyInv
<1>4. /\ checkpoint' = MarkOf(audit) \/ checkpoint' = backup[p]
      /\ pc'[p] = "clear" => checkpoint' = MarkOf(audit) /\ lock' = p
      /\ pc'[p] \in {"clear", "idle", "down"}
    <2>1. CASE CheckpointPublished(p)
        BY <1>1, <2>1 DEF SafetyInv, TypeOK, CheckpointPublished, Goto
    <2>2. CASE CheckpointFailed(p)
        BY <2>2, RefusalStops DEF SafetyInv, CheckpointFailed
    <2>3. CASE CrashLinked(p)
        BY <1>1, <2>3, DeathStops DEF SafetyInv, TypeOK, CrashLinked
    <2> QED BY <2>1, <2>2, <2>3
<1>5. MarkOf(audit) \in Mark /\ MarkOf(audit).count = Len(audit)
    BY MarkOfTail DEF SafetyInv, TypeOK
<1>6. Covers(MarkOf(audit))
    BY <1>1, <1>5, ConstantsAssumption DEF Covers, SafetyInv, TypeOK
<1>7. Covers(pending) \/ Covers(backup[p])
    BY <1>1, <1>2 DEF SafetyInv, SidecarInv, CoveredInv, Covers
<1>8. Covers(checkpoint)' \/ Covers(pending)'
    BY <1>3, <1>4, <1>6, <1>7 DEF Covers
<1>9. LockInv'
    BY <1>2, <1>4 DEF LockInv
<1>10. PrefixInv'
    BY <1>3 DEF SafetyInv, PrefixInv
<1>11. CheckpointInv' /\ CoveredInv'
    BY <1>1, <1>4, <1>5, <1>8, ConstantsAssumption DEF CheckpointInv, CoveredInv
<1>12. ASSUME NEW q \in Proc PROVE PublisherInv(q)'
    BY <1>1, <1>2, <1>3, <1>4, <1>6 DEF PublisherInv, Covers
<1> QED
    BY <1>9, <1>10, <1>11, <1>12 DEF SafetyInv, SidecarInv

\* The publication of the pending mark ends with the new one or the prior one.
LEMMA PendingEndsSafely ==
    ASSUME SafetyInv, TypeOK', TornPublication = FALSE, NEW p \in Proc,
           \/ PendingPublished(p) \/ PendingFailed(p)
           \/ CrashLinked(p) /\ pc[p] = "pending"
    PROVE  SafetyInv'
<1> DEFINE next == MarkOf(audit \o rows[p])
<1>1. pc[p] = "pending" /\ lock = p /\ audit = history /\ pending = Absent
    BY DEF PendingPublished, PendingFailed, SafetyInv, LockInv, SidecarInv, PublisherInv
<1>2. \A q \in Proc \ {p} :
          pc[q] \notin {"checkpoint", "clear", "pending", "prepared", "applied"}
    BY <1>1 DEF SafetyInv, LockInv
<1>3. \A q \in Proc \ {p} : pc'[q] = pc[q]
    <2>1. CASE PendingPublished(p)
        BY <2>1 DEF SafetyInv, TypeOK, PendingPublished, Goto
    <2>2. CASE PendingFailed(p)
        BY <2>2, TransactionEnded DEF SafetyInv, PendingFailed
    <2>3. CASE CrashLinked(p)
        BY <2>3, DeathStops DEF SafetyInv
    <2> QED BY <2>1, <2>2, <2>3
<1>4. UNCHANGED <<audit, history, checkpoint>> /\ backup' = [backup EXCEPT ![p] = Absent]
    BY <1>1, DeathStops DEF PendingPublished, PendingFailed, CrashLinked, SafetyInv
<1>5. /\ pending' = next \/ pending' = backup[p]
      /\ pc'[p] = "prepared" => pending' = next /\ lock' = p /\ rows' = rows
      /\ pc'[p] \in {"prepared", "idle", "down"}
    <2>1. CASE PendingPublished(p)
        BY <1>1, <2>1 DEF SafetyInv, TypeOK, PendingPublished, Goto, locks
    <2>2. CASE PendingFailed(p)
        BY <2>2, TransactionEnded DEF SafetyInv, PendingFailed
    <2>3. CASE CrashLinked(p)
        BY <1>1, <2>3, DeathStops DEF SafetyInv, TypeOK, CrashLinked
    <2> QED BY <2>1, <2>2, <2>3
<1>6. next \in Mark /\ next.count = Len(audit) + Len(rows[p])
    BY MarkOfTail, Appended DEF SafetyInv, TypeOK
<1>7. Covers(next)
    BY <1>1, <1>6, ConstantsAssumption DEF Covers, SafetyInv, TypeOK
<1>8. Covers(checkpoint) \/ Covers(backup[p])
    BY <1>1, <1>2 DEF SafetyInv, SidecarInv, CoveredInv, Covers
<1>9. Covers(checkpoint)' \/ Covers(pending)'
    BY <1>4, <1>5, <1>7, <1>8 DEF Covers
<1>10. LockInv'
    BY <1>2, <1>3, <1>5 DEF LockInv
<1>11. PrefixInv'
    BY <1>4 DEF SafetyInv, PrefixInv
<1>12. CheckpointInv' /\ CoveredInv'
    BY <1>1, <1>2, <1>4, <1>9 DEF SafetyInv, SidecarInv, CheckpointInv, CoveredInv
<1>13. ASSUME NEW q \in Proc PROVE PublisherInv(q)'
    BY <1>1, <1>2, <1>3, <1>4, <1>5, <1>6, ConstantsAssumption DEF PublisherInv
<1> QED
    BY <1>10, <1>11, <1>12, <1>13 DEF SafetyInv, SidecarInv

\* A commit is prepared on a table that is whole.
LEMMA PrepareSafely ==
    ASSUME SafetyInv, TypeOK', NEW p \in Proc, PrepareCommit(p)
    PROVE  SafetyInv'
<1>1. /\ pc[p] = "ready" /\ lock \in {Absent, p} /\ lock' = p
      /\ pc' = [pc EXCEPT ![p] = "pending"]
      /\ backup' = [backup EXCEPT ![p] = pending] /\ pending' = Absent
      /\ UNCHANGED <<audit, history, checkpoint, rows>>
    BY DEF PrepareCommit, Goto
<1>2. audit = history
    BY <1>1, PreparedIsWhole DEF PrepareCommit
<1>3. \A q \in Proc : pc[q] \notin {"checkpoint", "clear", "pending", "prepared", "applied"}
    BY <1>1, ConstantsAssumption DEF SafetyInv, LockInv
<1>4. LockInv'
    BY <1>1, <1>3 DEF SafetyInv, TypeOK, LockInv
<1>5. PrefixInv'
    BY <1>1 DEF SafetyInv, PrefixInv
<1>6. CheckpointInv' /\ CoveredInv'
    BY <1>1, <1>3 DEF SafetyInv, TypeOK, SidecarInv, CheckpointInv, CoveredInv, Covers
<1>7. ASSUME NEW q \in Proc PROVE PublisherInv(q)'
    BY <1>1, <1>2, <1>3 DEF SafetyInv, TypeOK, PublisherInv
<1> QED
    BY <1>4, <1>5, <1>6, <1>7 DEF SafetyInv, SidecarInv

\* COMMIT makes the pending mark the one that covers.
LEMMA CommitSafely ==
    ASSUME SafetyInv, TypeOK', NEW p \in Proc, CommitApplied(p)
    PROVE  SafetyInv'
<1>1. /\ pc[p] = "prepared" /\ lock = p /\ audit = history
      /\ pending # Absent /\ pending.count = Len(audit) + Len(rows[p])
      /\ audit' = audit \o rows[p] /\ history' = history \o rows[p]
      /\ pc' = [pc EXCEPT ![p] = "applied"]
      /\ UNCHANGED <<checkpoint, pending, lock, backup, rows>>
    BY DEF CommitApplied, Goto, SafetyInv, LockInv, SidecarInv, PublisherInv, locks
<1>2. \A q \in Proc \ {p} :
          pc[q] \notin {"checkpoint", "clear", "pending", "prepared", "applied"}
    BY <1>1 DEF SafetyInv, LockInv
<1>3. audit' = history'
    BY <1>1
<1>4. Covers(pending)'
    <2>1. Len(history') = Len(audit) + Len(rows[p])
        BY <1>1, Appended DEF SafetyInv, TypeOK
    <2>2. pending.count \in Nat
        BY <1>1 DEF SafetyInv, TypeOK, Mark
    <2> QED BY <1>1, <2>1, <2>2 DEF Covers, SafetyInv, TypeOK
<1>5. LockInv'
    BY <1>1, <1>2 DEF SafetyInv, TypeOK, LockInv
<1>6. PrefixInv'
    BY <1>3 DEF PrefixInv, TypeOK
<1>7. CheckpointInv' /\ CoveredInv'
    BY <1>1, <1>2, <1>4 DEF SafetyInv, TypeOK, SidecarInv, CheckpointInv, CoveredInv
<1>8. ASSUME NEW q \in Proc PROVE PublisherInv(q)'
    BY <1>1, <1>2 DEF SafetyInv, TypeOK, PublisherInv
<1> QED
    BY <1>5, <1>6, <1>7, <1>8 DEF SafetyInv, SidecarInv

\* A covered pending mark is removed under the lock.
LEMMA ClearSafely ==
    ASSUME SafetyInv, TypeOK', NEW p \in Proc,
           PendingCleared(p) \/ PendingClearFailed(p)
    PROVE  SafetyInv'
<1>1. pc[p] = "clear" /\ lock = p /\ UNCHANGED <<audit, history, checkpoint, backup>>
    BY DEF PendingCleared, PendingClearFailed, SafetyInv, LockInv
<1>2. /\ pc'[p] \in {"down", "idle", "ready"}
      /\ \A q \in Proc \ {p} : pc'[q] = pc[q] /\ rows'[q] = rows[q]
      /\ lock' = lock \/ (lock = p /\ lock' = Absent)
    <2>1. CASE PendingCleared(p)
        BY <1>1, <2>1 DEF SafetyInv, TypeOK, PendingCleared, Goto
    <2>2. CASE PendingClearFailed(p)
        BY <2>2, RefusalStops DEF SafetyInv, PendingClearFailed
    <2> QED BY <2>1, <2>2
<1> QED
    BY <1>1, <1>2, QuietStep

\* A tail is lost while nobody runs.
LEMMA LossIsSafe ==
    ASSUME SafetyInv, TypeOK', LoseTail
    PROVE  SafetyInv'
<1>1. PICK n \in 0 .. Len(audit) - 1 : audit' = SubSeq(audit, 1, n)
    BY DEF LoseTail
<1>2. \A q \in Proc : pc[q] = "down"
    BY DEF LoseTail
<1>3. UNCHANGED <<history, checkpoint, pending, lock, pc, backup>>
    BY DEF LoseTail, locks, local
<1>4. /\ n \in Nat /\ n <= Len(audit) /\ Len(audit') = n
      /\ \A i \in 1 .. n : audit'[i] = audit[i]
    BY <1>1 DEF SafetyInv, TypeOK
<1>5. PrefixInv'
    <2>1. Len(audit) \in Nat /\ Len(history) \in Nat
        BY DEF SafetyInv, TypeOK
    <2>2. /\ Len(audit) <= Len(history)
          /\ \A i \in 1 .. Len(audit) : audit[i] = history[i]
        BY DEF SafetyInv, PrefixInv
    <2>3. Len(audit') <= Len(history')
        BY <1>3, <1>4, <2>1, <2>2
    <2>4. ASSUME NEW i \in 1 .. Len(audit') PROVE audit'[i] = history'[i]
        BY <1>3, <1>4, <2>1, <2>2
    <2> QED BY <2>3, <2>4 DEF PrefixInv
<1>6. LockInv' /\ CheckpointInv' /\ CoveredInv'
    BY <1>2, <1>3 DEF SafetyInv, SidecarInv, LockInv, CheckpointInv, CoveredInv, Covers
<1>7. ASSUME NEW q \in Proc PROVE PublisherInv(q)'
    BY <1>2, <1>3 DEF PublisherInv
<1> QED
    BY <1>5, <1>6, <1>7 DEF SafetyInv, SidecarInv

\* The steps that leave the sidecars alone and enter no critical stage.
LEMMA OtherStep ==
    ASSUME SafetyInv, TypeOK', TornPublication = FALSE, NEW p \in Proc,
           \/ Begin(p) \/ MutationReady(p) \/ AppendRow(p) \/ Crash(p)
           \/ RollBack(p) \/ PrepareRefused(p) \/ CommitReturned(p) \/ CommitUncertain(p)
           \/ \E c \in {"start", "verify", "advance", "tx"} : VerifyRefused(p, c)
    PROVE  SafetyInv'
<1> USE DEF SafetyInv, TypeOK, Goto
<1>1. CASE Begin(p) \/ MutationReady(p)
    <2>1. /\ pc[p] \in {"idle", "open"} /\ pc'[p] \in {"open", "ready"}
          /\ \A q \in Proc \ {p} : pc'[q] = pc[q]
          /\ UNCHANGED <<shared, lock, rows, backup>>
        BY <1>1 DEF Begin, MutationReady
    <2> QED BY <2>1, QuietStep
<1>2. CASE AppendRow(p)
    BY <1>2, QuietStep DEF AppendRow
<1>3. CASE Crash(p)
    BY <1>3, QuietStep, DeathStops DEF Crash
<1>4. CASE RollBack(p)
    BY <1>4, QuietStep, TransactionEnded DEF RollBack
<1>5. CASE PrepareRefused(p)
    BY <1>5, QuietStep, TransactionEnded DEF PrepareRefused
<1>6. CASE CommitReturned(p)
    BY <1>6, QuietStep, TransactionEnded DEF CommitReturned
<1>7. CASE CommitUncertain(p)
    BY <1>7, QuietStep, TransactionEnded DEF CommitUncertain
<1>8. ASSUME NEW c \in {"start", "verify", "advance", "tx"}, VerifyRefused(p, c)
      PROVE  SafetyInv'
    <2>1. pc[p] \in {"idle", "open"}
        BY <1>8 DEF VerifyRefused, MayVerify
    <2> QED BY <1>8, <2>1, QuietStep, RefusalStops DEF VerifyRefused
<1> QED
    BY <1>1, <1>2, <1>3, <1>4, <1>5, <1>6, <1>7, <1>8

LEMMA SafetyStep ==
    ASSUME TornPublication = FALSE
    PROVE  SafetyInv /\ [Next]_vars => SafetyInv'
<1> SUFFICES ASSUME SafetyInv, [Next]_vars PROVE SafetyInv'
    OBVIOUS
<1>1. TypeOK'
    BY TypeStep DEF SafetyInv
<1>2. CASE UNCHANGED vars
    BY <1>2 DEF vars, SafetyInv, TypeOK, LockInv, PrefixInv, SidecarInv, CheckpointInv,
                CoveredInv, PublisherInv, Covers
<1>3. CASE LoseTail
    BY <1>1, <1>3, LossIsSafe
<1>4. ASSUME NEW p \in Proc,
             \/ Begin(p) \/ AppendRow(p) \/ Crash(p) \/ CrashLinked(p) \/ Continue(p)
             \/ \E c \in {"start", "verify", "advance"} : Verify(p, c)
      PROVE  SafetyInv'
    <2>1. CASE \/ CheckpointPublished(p) \/ CheckpointFailed(p)
               \/ CrashLinked(p) /\ pc[p] = "checkpoint"
        BY <1>1, <2>1, CheckpointEndsSafely
    <2>2. CASE PendingCleared(p) \/ PendingClearFailed(p)
        BY <1>1, <2>2, ClearSafely
    <2>3. CASE PrepareCommit(p)
        BY <1>1, <2>3, PrepareSafely
    <2>4. CASE \/ PendingPublished(p) \/ PendingFailed(p)
               \/ CrashLinked(p) /\ pc[p] = "pending"
        BY <1>1, <2>4, PendingEndsSafely
    <2>5. CASE CommitApplied(p)
        BY <1>1, <2>5, CommitSafely
    <2>6. CASE \E c \in {"start", "verify", "advance", "tx"} :
                   VerifyPublishes(p, c) \/ VerifyCurrent(p, c)
        BY <1>1, <2>6, VerifyEntersSafely
    <2>7. CASE \/ Begin(p) \/ MutationReady(p) \/ AppendRow(p) \/ Crash(p)
               \/ RollBack(p) \/ PrepareRefused(p) \/ CommitReturned(p) \/ CommitUncertain(p)
               \/ \E c \in {"start", "verify", "advance", "tx"} : VerifyRefused(p, c)
        BY <1>1, <2>7, OtherStep
    <2> QED
        BY <1>4, <2>1, <2>2, <2>3, <2>4, <2>5, <2>6, <2>7 DEF Continue, Verify, CrashLinked
<1> QED
    BY <1>2, <1>3, <1>4 DEF Next

LEMMA SafetyHolds ==
    ASSUME TornPublication = FALSE
    PROVE  SafetySpec => []SafetyInv
<1>1. Init => SafetyInv
    <2> SUFFICES ASSUME Init PROVE SafetyInv
        OBVIOUS
    <2>1. TypeOK
        BY ConstantsAssumption DEF Init, TypeOK, Mark
    <2>2. Covers(checkpoint)
        BY ConstantsAssumption DEF Init, Covers, Mark
    <2> QED
        BY <2>1, <2>2 DEF Init, SafetyInv, LockInv, PrefixInv, SidecarInv, CheckpointInv,
                          CoveredInv, PublisherInv, Covers
<1>2. SafetyInv /\ [Next]_vars => SafetyInv'
    BY SafetyStep
<1> QED
    BY <1>1, <1>2, PTL DEF SafetySpec

\* Lost rows are detected, however many processes share the log and whatever
\* crashes, as long as no publication stops between its two renames (after one
\* that does, the run anchor_torn_loss finds an accepted truncation).
THEOREM LossDetected ==
    ASSUME TornPublication = FALSE
    PROVE  SafetySpec => []LostTailDetected
<1>1. SafetyInv => LostTailDetected
    BY AcceptedIsWhole DEF LostTailDetected, VerifyAccepts, AdvanceAccepts
<1> QED
    BY <1>1, SafetyHolds, PTL

------------------------------------------------------------------------------
(* The checkpoint attests committed rows only *)

\* So does the checkpoint that a publication would bring back.
NamesInv ==
    /\ RowPresent(checkpoint, history)
    /\ \A p \in Proc : pc[p] = "checkpoint" => RowPresent(backup[p], history)

\* The mark of the table names a committed row.
LEMMA TableNamed ==
    ASSUME TypeOK, PrefixInv
    PROVE  RowPresent(MarkOf(audit), history)
BY ConstantsAssumption DEF TypeOK, PrefixInv, RowPresent, MarkOf, HeadOf, Mark

\* A named row stays where it is when rows are added.
LEMMA NamedStays ==
    ASSUME NEW mark \in Mark \union {Absent}, NEW tail \in Seq(Nat), NEW more \in Seq(Nat),
           RowPresent(mark, tail)
    PROVE  RowPresent(mark, tail \o more)
BY ConstantsAssumption DEF RowPresent, Mark

LEMMA NamesStep ==
    ASSUME TypeOK, PrefixInv, NamesInv, [Next]_vars
    PROVE  NamesInv'
<1>1. RowPresent(MarkOf(audit), history)
    BY TableNamed
<1>2. ASSUME NEW p \in Proc, CheckpointPublished(p) \/ CheckpointFailed(p)
      PROVE  NamesInv'
    <2>1. /\ pc[p] = "checkpoint" /\ history' = history
          /\ checkpoint' \in {MarkOf(audit), backup[p], Absent}
          /\ backup' = [backup EXCEPT ![p] = Absent]
        BY <1>2 DEF CheckpointPublished, CheckpointFailed
    <2>2. RowPresent(checkpoint, history)'
        BY <2>1, <1>1 DEF NamesInv, RowPresent
    <2>3. ASSUME NEW q \in Proc, pc'[q] = "checkpoint" PROVE RowPresent(backup'[q], history')
        <3>1. CASE q = p
            BY <3>1, <2>1 DEF TypeOK, RowPresent
        <3>2. CASE q # p
            <4>1. pc'[q] = pc[q]
                BY <3>2, <1>2, RefusalStops DEF CheckpointPublished, CheckpointFailed, Goto, TypeOK
            <4> QED BY <4>1, <3>2, <2>1, <2>3 DEF NamesInv, TypeOK
        <3> QED BY <3>1, <3>2
    <2> QED BY <2>2, <2>3 DEF NamesInv
<1>3. ASSUME NEW p \in Proc, NEW c \in {"start", "verify", "advance", "tx"},
             VerifyPublishes(p, c)
      PROVE  NamesInv'
    <2>1. /\ checkpoint' = Absent /\ history' = history
          /\ backup' = [backup EXCEPT ![p] = checkpoint]
          /\ pc' = [pc EXCEPT ![p] = "checkpoint"]
        BY <1>3 DEF VerifyPublishes, Goto
    <2> QED BY <2>1 DEF NamesInv, RowPresent, TypeOK
<1>4. ASSUME NEW p \in Proc, CommitApplied(p) PROVE NamesInv'
    <2>1. /\ history' = history \o rows[p] /\ UNCHANGED <<checkpoint, backup>>
          /\ pc' = [pc EXCEPT ![p] = "applied"]
        BY <1>4 DEF CommitApplied, Goto
    <2>2. RowPresent(checkpoint, history)'
        BY <2>1, NamedStays DEF NamesInv, TypeOK
    <2>3. ASSUME NEW q \in Proc, pc'[q] = "checkpoint" PROVE RowPresent(backup'[q], history')
        BY <2>1, <2>3, NamedStays DEF NamesInv, TypeOK
    <2> QED BY <2>2, <2>3 DEF NamesInv
<1>5. ASSUME UNCHANGED <<checkpoint, history>>,
             \A q \in Proc : pc'[q] = "checkpoint" => pc[q] = "checkpoint" /\ backup'[q] = backup[q]
      PROVE  NamesInv'
    BY <1>5 DEF NamesInv
<1>6. ASSUME NEW p \in Proc, NEW c \in {"start", "verify", "advance", "tx"},
             VerifyCurrent(p, c) \/ VerifyRefused(p, c)
      PROVE  NamesInv'
    <2>1. UNCHANGED <<checkpoint, history, backup>>
        BY <1>6 DEF VerifyCurrent, VerifyRefused
    <2>2. \A q \in Proc : pc'[q] = "checkpoint" => pc[q] = "checkpoint"
        BY <1>6, RefusalStops DEF VerifyCurrent, VerifyRefused, Goto, TypeOK
    <2> QED BY <2>1, <2>2, <1>5
<1>7. ASSUME NEW p \in Proc, Begin(p) \/ MutationReady(p) \/ AppendRow(p) \/ RollBack(p)
                                 \/ PrepareRefused(p) \/ CommitReturned(p) \/ CommitUncertain(p)
      PROVE  NamesInv'
    <2>1. UNCHANGED <<checkpoint, history, backup>>
        BY <1>7 DEF Begin, MutationReady, AppendRow, RollBack, PrepareRefused, CommitReturned,
                    CommitUncertain
    <2>2. \A q \in Proc : pc'[q] = "checkpoint" => pc[q] = "checkpoint"
        BY <1>7, TransactionEnded DEF Begin, MutationReady, AppendRow, RollBack, PrepareRefused,
                           CommitReturned, CommitUncertain, Goto, TypeOK
    <2> QED BY <2>1, <2>2, <1>5
<1>8. ASSUME NEW p \in Proc, Crash(p) \/ CrashLinked(p) PROVE NamesInv'
    <2>1. /\ history' = history /\ backup' = [backup EXCEPT ![p] = Absent]
          /\ pc' = [pc EXCEPT ![p] = "down"]
        BY <1>8, DeathStops
    <2>2. checkpoint' \in {checkpoint, MarkOf(audit)}
        BY <1>8 DEF Crash, CrashLinked
    <2> QED BY <2>1, <2>2, <1>1 DEF NamesInv, TypeOK
<1>9. ASSUME NEW p \in Proc, PrepareCommit(p) \/ PendingPublished(p) \/ PendingFailed(p)
      PROVE  NamesInv'
    <2>1. UNCHANGED <<checkpoint, history>>
        BY <1>9 DEF PrepareCommit, PendingPublished, PendingFailed
    <2>2. /\ pc'[p] # "checkpoint"
          /\ \A q \in Proc \ {p} : pc'[q] = pc[q] /\ backup'[q] = backup[q]
        BY <1>9, TransactionEnded DEF PrepareCommit, PendingPublished, PendingFailed, Goto, TypeOK
    <2> QED BY <2>1, <2>2, <1>5
<1>10. ASSUME NEW p \in Proc, PendingCleared(p) \/ PendingClearFailed(p) PROVE NamesInv'
    <2>1. UNCHANGED <<checkpoint, history, backup>>
        BY <1>10 DEF PendingCleared, PendingClearFailed
    <2>2. \A q \in Proc : pc'[q] = "checkpoint" => pc[q] = "checkpoint"
        BY <1>10, RefusalStops DEF PendingCleared, PendingClearFailed, Goto, TypeOK
    <2> QED BY <2>1, <2>2, <1>5
<1>11. CASE LoseTail
    BY <1>11, <1>5 DEF LoseTail
<1>12. CASE UNCHANGED vars
    BY <1>12, <1>5 DEF vars
<1> QED
    BY <1>2, <1>3, <1>4, <1>6, <1>7, <1>8, <1>9, <1>10, <1>11, <1>12
       DEF Next, Continue, Verify

\* Where no rows are lost, the table is the history.
LEMMA WholeStep ==
    ASSUME TailLoss = FALSE, audit = history, [Next]_vars
    PROVE  audit' = history'
<1>1. ASSUME NEW p \in Proc, CommitApplied(p) PROVE audit' = history'
    BY <1>1 DEF CommitApplied
<1>2. ASSUME NEW p \in Proc, NEW c \in {"start", "verify", "advance", "tx"}, Verify(p, c)
      PROVE  audit' = history'
    BY <1>2 DEF Verify, VerifyPublishes, VerifyCurrent, VerifyRefused
<1>3. ASSUME NEW p \in Proc, \/ Begin(p) \/ AppendRow(p) \/ Crash(p) \/ CrashLinked(p)
                             \/ MutationReady(p)
                             \/ RollBack(p) \/ PrepareCommit(p) \/ PrepareRefused(p)
                             \/ CommitReturned(p) \/ CommitUncertain(p)
      PROVE  audit' = history'
    BY <1>3 DEF Begin, AppendRow, Crash, CrashLinked, MutationReady, RollBack, PrepareCommit,
                PrepareRefused, CommitReturned, CommitUncertain
<1>4. ASSUME NEW p \in Proc, \/ CheckpointPublished(p) \/ CheckpointFailed(p)
                             \/ PendingCleared(p) \/ PendingClearFailed(p)
                             \/ PendingPublished(p) \/ PendingFailed(p)
      PROVE  audit' = history'
    BY <1>4 DEF CheckpointPublished, CheckpointFailed, PendingCleared, PendingClearFailed,
                PendingPublished, PendingFailed
<1>5. ~LoseTail
    BY DEF LoseTail
<1> QED
    BY <1>1, <1>2, <1>3, <1>4, <1>5 DEF Next, Continue, vars

\* A row that was rolled back, or never committed, is never attested: the
\* checkpoint names a committed row, unless publications may be torn and rows
\* lost in the same run (publishCheckpointUnlocked).
THEOREM AttestsCommitted ==
    ASSUME TornPublication = FALSE \/ TailLoss = FALSE
    PROVE  SafetySpec => []CheckpointNamesCommitted
<1>1. Init => NamesInv /\ audit = history
    BY DEF Init, NamesInv, RowPresent
<1>2. NamesInv => CheckpointNamesCommitted
    BY DEF NamesInv, CheckpointNamesCommitted
<1>3. CASE TornPublication = FALSE
    <2>1. SafetySpec => []SafetyInv
        BY <1>3, SafetyHolds
    <2>2. SafetyInv /\ NamesInv /\ [Next]_vars => NamesInv'
        BY NamesStep DEF SafetyInv
    <2> QED BY <1>1, <1>2, <2>1, <2>2, PTL DEF SafetySpec
<1>4. CASE TailLoss = FALSE
    <2>1. audit = history => PrefixInv
        BY DEF PrefixInv
    <2>2. TypeOK /\ audit = history /\ NamesInv /\ [Next]_vars
              => (audit = history)' /\ NamesInv'
        BY <1>4, <2>1, WholeStep, NamesStep
    <2> QED BY <1>1, <1>2, <2>2, TypeCorrect, PTL DEF SafetySpec
<1> QED
    BY <1>3, <1>4

------------------------------------------------------------------------------
(* The protocol does not lock itself out *)

LEMMA WholeTableVerifies ==
    ASSUME SafetyInv, NamesInv
    PROVE  RestartAccepts
<1> SUFFICES ASSUME lock = Absent, audit = history, ~Phantom, twoNames = {}
             PROVE  VerifyAccepts(Absent)
    BY DEF RestartAccepts
<1>1. \A p \in Proc : pc[p] \notin {"checkpoint", "pending", "prepared"}
    BY ConstantsAssumption DEF SafetyInv, LockInv
<1>2. checkpoint # Absent
    BY <1>1 DEF SafetyInv, SidecarInv, CheckpointInv
<1>3. RowPresent(checkpoint, audit) /\ checkpoint.count <= Len(audit)
    BY <1>2 DEF NamesInv, RowPresent, SafetyInv, TypeOK, Mark
<1>4. RowPresent(pending, audit)
    BY <1>1 DEF Phantom, RowPresent
<1>5. NoMissingPending(audit)
    BY <1>1 DEF NoMissingPending, SafetyInv, SidecarInv, CoveredInv, Covers
<1> QED
    BY <1>2, <1>3, <1>4, <1>5 DEF VerifyAccepts, TailConsistent, RowPresent

\* Whatever crashed, failed or was answered too late: while no row is lost, the
\* pending mark names a row that is there and no sidecar was left under two
\* names, a restart verifies (verifyDatabase), as long as no publication stops
\* before the new sidecar is linked.
THEOREM RestartVerifies ==
    ASSUME TornPublication = FALSE
    PROVE  SafetySpec => []RestartAccepts
<1>1. Init => NamesInv
    BY DEF Init, NamesInv, RowPresent
<1>2. SafetyInv /\ NamesInv /\ [Next]_vars => NamesInv'
    BY NamesStep DEF SafetyInv
<1>3. SafetyInv /\ NamesInv => RestartAccepts
    BY WholeTableVerifies
<1> QED
    BY <1>1, <1>2, <1>3, SafetyHolds, PTL DEF SafetySpec

------------------------------------------------------------------------------
(* A mark of a missing row freezes the log *)

IntentStage == {"checkpoint", "clear", "pending", "prepared", "applied"}

\* A verification holds the lock on a table that has the marked row; a
\* publication of the mark has renamed the prior one away.
IntentInv ==
    /\ LockInv
    /\ \A p \in Proc : /\ pc[p] \in {"checkpoint", "clear"} => RowPresent(pending, audit)
                       /\ pc[p] = "pending" => pending = Absent

\* Only one process is in a stage of a publication or a commit.
LEMMA OneStage ==
    ASSUME IntentInv, NEW p \in Proc, NEW q \in Proc, p # q,
           pc[p] \in IntentStage \/ lock \in {p, Absent}
    PROVE  pc[q] \notin IntentStage
BY ConstantsAssumption DEF IntentInv, LockInv, IntentStage

\* A step that takes one process out of its stage, or leaves it outside.
LEMMA LeaveKeepsIntent ==
    ASSUME IntentInv, NEW p \in Proc, audit' = audit, pc'[p] \notin IntentStage,
           \A q \in Proc \ {p} : pc'[q] = pc[q],
           lock' = lock \/ (lock = p /\ lock' = Absent),
           pending' = pending \/ pc[p] \in IntentStage
    PROVE  IntentInv'
<1>1. ASSUME NEW q \in Proc, q # p, pc'[q] \in IntentStage
      PROVE  pc[q] \in IntentStage /\ lock' = q /\ pending' = pending
    <2>1. pc[q] \in IntentStage /\ lock = q
        BY <1>1 DEF IntentInv, LockInv, IntentStage
    <2> QED BY <2>1, <1>1, OneStage
<1>2. LockInv'
    BY <1>1 DEF LockInv, IntentStage
<1> QED
    BY <1>1, <1>2 DEF IntentInv, IntentStage

\* A step of a process that has the lock, or takes it, and stays in a stage.
LEMMA StageKeepsIntent ==
    ASSUME IntentInv, NEW p \in Proc, pc[p] \in IntentStage \/ lock \in {p, Absent},
           lock' = p, \A q \in Proc \ {p} : pc'[q] = pc[q],
           pc'[p] \in {"checkpoint", "clear"} => RowPresent(pending', audit'),
           pc'[p] = "pending" => pending' = Absent
    PROVE  IntentInv'
<1>1. \A q \in Proc \ {p} : pc'[q] \notin IntentStage
    BY OneStage
<1> QED
    BY <1>1 DEF IntentInv, LockInv, IntentStage

LEMMA IntentStep ==
    ASSUME TypeOK, IntentInv, [Next]_vars
    PROVE  IntentInv'
<1>1. ASSUME NEW p \in Proc, NEW c \in {"start", "verify", "advance", "tx"},
             VerifyPublishes(p, c) \/ VerifyCurrent(p, c)
      PROVE  IntentInv'
    <2>1. /\ lock = Absent /\ lock' = p /\ UNCHANGED <<pending, audit>>
          /\ RowPresent(pending, audit)
        BY <1>1 DEF VerifyPublishes, VerifyCurrent, Accepts, VerifyAccepts, AdvanceAccepts,
                    TailConsistent
    <2>2. pc'[p] \in {"checkpoint", "clear"} /\ \A q \in Proc \ {p} : pc'[q] = pc[q]
        BY <1>1 DEF VerifyPublishes, VerifyCurrent, Goto, TypeOK
    <2> QED BY <2>1, <2>2, StageKeepsIntent
<1>2. ASSUME NEW p \in Proc, CheckpointPublished(p) PROVE IntentInv'
    <2>1. /\ pc[p] = "checkpoint" /\ lock' = lock /\ UNCHANGED <<pending, audit>>
          /\ pc'[p] = "clear" /\ \A q \in Proc \ {p} : pc'[q] = pc[q]
        BY <1>2 DEF CheckpointPublished, Goto, TypeOK
    <2>2. lock = p /\ RowPresent(pending, audit)
        BY <2>1 DEF IntentInv, LockInv
    <2> QED BY <2>1, <2>2, StageKeepsIntent
<1>3. ASSUME NEW p \in Proc, PrepareCommit(p) PROVE IntentInv'
    <2>1. /\ lock \in {p, Absent} /\ lock' = p /\ pending' = Absent
          /\ pc'[p] = "pending" /\ \A q \in Proc \ {p} : pc'[q] = pc[q]
        BY <1>3 DEF PrepareCommit, Goto, TypeOK
    <2> QED BY <2>1, StageKeepsIntent
<1>4. ASSUME NEW p \in Proc, PendingPublished(p) \/ CommitApplied(p) PROVE IntentInv'
    <2>1. /\ pc[p] \in {"pending", "prepared"} /\ lock' = lock
          /\ pc'[p] \in {"prepared", "applied"} /\ \A q \in Proc \ {p} : pc'[q] = pc[q]
        BY <1>4 DEF PendingPublished, CommitApplied, Goto, TypeOK
    <2>2. lock' = p /\ pc[p] \in IntentStage
        BY <2>1 DEF IntentInv, LockInv, IntentStage
    <2> QED BY <2>1, <2>2, StageKeepsIntent
<1>5. ASSUME NEW p \in Proc, NEW c \in {"start", "verify", "advance", "tx"},
             VerifyRefused(p, c)
      PROVE  IntentInv'
    <2>1. UNCHANGED <<pending, audit>> /\ Refuse(p, c)
        BY <1>5 DEF VerifyRefused
    <2> QED BY <2>1, RefusalStops, LeaveKeepsIntent DEF IntentStage
<1>6. ASSUME NEW p \in Proc, CheckpointFailed(p) \/ PendingClearFailed(p) PROVE IntentInv'
    <2>1. audit' = audit /\ pc[p] \in IntentStage /\ Refuse(p, ctx[p])
        BY <1>6 DEF CheckpointFailed, PendingClearFailed, IntentStage
    <2> QED BY <2>1, RefusalStops, LeaveKeepsIntent DEF IntentStage
<1>7. ASSUME NEW p \in Proc, PendingCleared(p) PROVE IntentInv'
    <2>1. /\ pc[p] = "clear" /\ audit' = audit /\ lock' \in {lock, Absent}
          /\ pc'[p] \in {"ready", "idle"} /\ \A q \in Proc \ {p} : pc'[q] = pc[q]
        BY <1>7 DEF PendingCleared, Goto, TypeOK
    <2>2. lock = p
        BY <2>1 DEF IntentInv, LockInv
    <2> QED BY <2>1, <2>2, LeaveKeepsIntent DEF IntentStage
<1>8. ASSUME NEW p \in Proc, \/ RollBack(p) \/ PrepareRefused(p) \/ CommitReturned(p)
                             \/ CommitUncertain(p)
      PROVE  IntentInv'
    <2>1. UNCHANGED <<pending, audit>> /\ EndTransaction(p)
        BY <1>8 DEF RollBack, PrepareRefused, CommitReturned, CommitUncertain
    <2> QED BY <2>1, TransactionEnded, LeaveKeepsIntent DEF IntentStage
<1>9. ASSUME NEW p \in Proc, PendingFailed(p) PROVE IntentInv'
    <2>1. audit' = audit /\ pc[p] \in IntentStage /\ EndTransaction(p)
        BY <1>9 DEF PendingFailed, IntentStage
    <2> QED BY <2>1, TransactionEnded, LeaveKeepsIntent DEF IntentStage
<1>10. ASSUME NEW p \in Proc, Begin(p) \/ MutationReady(p) \/ AppendRow(p)
       PROVE  IntentInv'
    <2>1. /\ UNCHANGED <<pending, audit, lock>>
          /\ pc'[p] \notin IntentStage /\ \A q \in Proc \ {p} : pc'[q] = pc[q]
        BY <1>10 DEF Begin, MutationReady, AppendRow, Goto, TypeOK, IntentStage
    <2> QED BY <2>1, LeaveKeepsIntent
<1>11. ASSUME NEW p \in Proc, Crash(p) \/ CrashLinked(p) PROVE IntentInv'
    <2>1. pc'[p] = "down"
        BY <1>11, DeathStops DEF TypeOK
    <2>2. pending' = pending \/ pc[p] \in IntentStage
        BY <1>11 DEF Crash, CrashLinked, IntentStage
    <2> QED BY <1>11, <2>1, <2>2, DeathStops, LeaveKeepsIntent DEF IntentStage
<1>12. CASE LoseTail
    BY <1>12 DEF LoseTail, IntentInv, LockInv
<1>13. CASE UNCHANGED vars
    BY <1>13 DEF vars, IntentInv, LockInv, RowPresent
<1> QED
    BY <1>1, <1>2, <1>3, <1>4, <1>5, <1>6, <1>7, <1>8, <1>9, <1>10, <1>11, <1>12, <1>13
       DEF Next, Continue, Verify

\* A commit is prepared only on a table that has the marked row.
LEMMA PreparedIsPresent ==
    ASSUME TypeOK, NEW p \in Proc, PrepareAccepts(p)
    PROVE  RowPresent(pending, audit)
BY DEF TypeOK, PrepareAccepts, RowPresent, Mark

\* Losing more rows does not bring the marked one back.
LEMMA LossKeepsPhantom ==
    ASSUME TypeOK, Phantom, LoseTail
    PROVE  Phantom' /\ Len(audit') <= Len(audit)
<1>1. PICK n \in 0 .. Len(audit) - 1 : audit' = SubSeq(audit, 1, n)
    BY DEF LoseTail
<1>2. Len(audit') = n /\ \A i \in 1 .. n : audit'[i] = audit[i]
    BY <1>1 DEF TypeOK
<1>3. ~RowPresent(pending, audit')
    BY <1>2 DEF TypeOK, Phantom, RowPresent, Mark
<1> QED
    BY <1>1, <1>2, <1>3 DEF Phantom, LoseTail, TypeOK

LEMMA FreezeStep ==
    ASSUME TypeOK, IntentInv, Phantom, [Next]_vars
    PROVE  Phantom' /\ Len(audit') <= Len(audit)
<1>1. ASSUME UNCHANGED <<pending, audit>>,
             \A q \in Proc : pc'[q] = "prepared" => pc[q] = "prepared"
      PROVE  Phantom' /\ Len(audit') <= Len(audit)
    BY <1>1 DEF Phantom, RowPresent, TypeOK
<1>2. ASSUME NEW p \in Proc
      PROVE  ~ \/ PendingCleared(p) \/ PendingClearFailed(p) \/ PrepareCommit(p)
               \/ PendingPublished(p) \/ PendingFailed(p) \/ CommitApplied(p)
               \/ CrashLinked(p)
    BY PreparedIsPresent DEF PendingCleared, PendingClearFailed, PrepareCommit,
       PendingPublished, PendingFailed, CommitApplied, CrashLinked, Phantom, IntentInv
<1>3. ASSUME NEW p \in Proc, NEW c \in {"start", "verify", "advance", "tx"}, Verify(p, c)
      PROVE  Phantom' /\ Len(audit') <= Len(audit)
    <2>1. UNCHANGED <<pending, audit>>
        BY <1>3 DEF Verify, VerifyPublishes, VerifyCurrent, VerifyRefused
    <2>2. \A q \in Proc : pc'[q] = "prepared" => pc[q] = "prepared"
        BY <1>3, RefusalStops DEF Verify, VerifyPublishes, VerifyCurrent, VerifyRefused, Goto, TypeOK
    <2> QED BY <2>1, <2>2, <1>1
<1>4. ASSUME NEW p \in Proc, \/ Begin(p) \/ AppendRow(p) \/ Crash(p) \/ MutationReady(p)
                             \/ RollBack(p) \/ PrepareRefused(p) \/ CommitReturned(p)
                             \/ CommitUncertain(p)
      PROVE  Phantom' /\ Len(audit') <= Len(audit)
    <2>1. UNCHANGED <<pending, audit>>
        BY <1>4 DEF Begin, AppendRow, Crash, MutationReady, RollBack, PrepareRefused,
                    CommitReturned, CommitUncertain
    <2>2. \A q \in Proc : pc'[q] = "prepared" => pc[q] = "prepared"
        BY <1>4, TransactionEnded, DeathStops DEF Begin, AppendRow, Crash, MutationReady, RollBack, PrepareRefused,
                           CommitReturned, CommitUncertain, Goto, TypeOK
    <2> QED BY <2>1, <2>2, <1>1
<1>5. ASSUME NEW p \in Proc, CheckpointPublished(p) \/ CheckpointFailed(p)
      PROVE  Phantom' /\ Len(audit') <= Len(audit)
    <2>1. pc[p] = "checkpoint"
        BY <1>5 DEF CheckpointPublished, CheckpointFailed
    <2> QED BY <2>1 DEF IntentInv, Phantom
<1>6. CASE UNCHANGED vars
    BY <1>6, <1>1 DEF vars
<1> QED
    BY <1>2, <1>3, <1>4, <1>5, <1>6, LossKeepsPhantom DEF Next, Continue

\* Once the pending mark names a missing row it stays, and no process commits
\* another one, in every environment (prepareTransactionCommit).
THEOREM MissingRowFreezes == SafetySpec => PhantomFreezes
<1>1. Init => IntentInv
    BY DEF Init, IntentInv, LockInv
<1>2. TypeOK /\ IntentInv /\ [Next]_vars => IntentInv'
    BY IntentStep
<1>3. TypeOK /\ IntentInv /\ [Next]_vars
          => [Phantom => Phantom' /\ Len(audit') <= Len(audit)]_vars
    BY FreezeStep
<1> QED
    BY <1>1, <1>2, <1>3, TypeCorrect, PTL DEF SafetySpec, PhantomFreezes
------------------------------------------------------------------------------
(* The protocol implements the ledger *)

\* How many rows the sidecars attest: what the refinement mapping reads.
Attested ==
    IF checkpoint # Absent THEN checkpoint.count
    ELSE IF lock # Absent THEN backup[lock].count ELSE 0

\* A step of a process that is not publishing a checkpoint, and leaves the
\* checkpoint alone, changes nothing that is attested.
LEMMA AttestedStays ==
    ASSUME SafetyInv, NEW p \in Proc, pc[p] # "checkpoint", checkpoint' = checkpoint,
           \A q \in Proc \ {p} : backup'[q] = backup[q],
           lock' = lock \/ lock \in {p, Absent}
    PROVE  Attested' = Attested
<1>1. CASE checkpoint # Absent
    BY <1>1 DEF Attested
<1>2. CASE checkpoint = Absent
    <2>1. PICK q \in Proc : pc[q] = "checkpoint"
        BY <1>2 DEF SafetyInv, SidecarInv, CheckpointInv
    <2>2. q # p /\ lock = q /\ q # Absent
        BY <2>1, ConstantsAssumption DEF SafetyInv, LockInv
    <2> QED BY <1>2, <2>2 DEF Attested
<1> QED
    BY <1>1, <1>2

\* A verification renames the checkpoint away; the mapping still finds it.
LEMMA PublishingIsSilent ==
    ASSUME SafetyInv, NEW p \in Proc, NEW c, VerifyPublishes(p, c)
    PROVE  Attested' = Attested
<1>1. /\ checkpoint # Absent /\ checkpoint' = Absent /\ lock' = p
      /\ backup' = [backup EXCEPT ![p] = checkpoint]
    BY DEF VerifyPublishes, Accepts, VerifyAccepts, AdvanceAccepts, TailConsistent
<1> QED
    BY <1>1, ConstantsAssumption DEF Attested, SafetyInv, TypeOK

\* A publication that ends attests the whole of an intact ledger, or what was
\* attested before.
LEMMA PublicationAttests ==
    ASSUME SafetyInv, TornPublication = FALSE, NEW p \in Proc,
           \/ CheckpointPublished(p) \/ CheckpointFailed(p)
           \/ CrashLinked(p) /\ pc[p] = "checkpoint"
    PROVE  /\ audit = history /\ UNCHANGED <<audit, history>>
           /\ Attested' \in {Len(history), Attested}
<1>1. /\ pc[p] = "checkpoint" /\ lock = p /\ p # Absent /\ audit = history
      /\ checkpoint = Absent /\ backup[p] \in Mark
    BY ConstantsAssumption
       DEF CheckpointPublished, CheckpointFailed, SafetyInv, TypeOK, LockInv, SidecarInv, PublisherInv
<1>2. UNCHANGED <<audit, history>> /\ checkpoint' \in {MarkOf(audit), backup[p]}
    BY <1>1 DEF CheckpointPublished, CheckpointFailed, CrashLinked
<1>3. MarkOf(audit) \in Mark /\ MarkOf(audit).count = Len(audit)
    BY MarkOfTail DEF SafetyInv, TypeOK
<1> QED
    BY <1>1, <1>2, <1>3, ConstantsAssumption DEF Attested

\* COMMIT adds the rows of the transaction to a ledger of which none is missing.
LEMMA CommitCommits ==
    ASSUME SafetyInv, NEW p \in Proc, CommitApplied(p)
    PROVE  /\ audit = history /\ audit' = history' /\ Attested' = Attested
           /\ \/ history' = history
              \/ /\ Len(history') > Len(history)
                 /\ SubSeq(history', 1, Len(history)) = history
<1>1. /\ pc[p] = "prepared" /\ audit = history
      /\ audit' = audit \o rows[p] /\ history' = history \o rows[p]
      /\ UNCHANGED <<checkpoint, lock, backup>>
    BY DEF CommitApplied, SafetyInv, SidecarInv, PublisherInv, locks
<1>2. history \in Seq(Nat) /\ rows[p] \in Seq(Nat)
    BY DEF SafetyInv, TypeOK
<1>3. Attested' = Attested
    BY <1>1 DEF Attested
<1>4. CASE rows[p] = <<>>
    BY <1>1, <1>2, <1>3, <1>4
<1>5. CASE rows[p] # <<>>
    <2>1. Len(history') = Len(history) + Len(rows[p]) /\ Len(rows[p]) > 0
        BY <1>1, <1>2, <1>5, EmptySeq
    <2>2. SubSeq(history', 1, Len(history)) = history
        <3> DEFINE front == SubSeq(history', 1, Len(history))
        <3>1. front \in Seq(Nat) /\ Len(front) = Len(history)
            BY <1>1, <1>2, <2>1
        <3>2. \A i \in 1 .. Len(history) : front[i] = history[i]
            BY <1>1, <1>2, <2>1
        <3> QED BY <1>2, <3>1, <3>2, SeqEqual
    <2>3. Len(history') > Len(history)
        BY <1>2, <2>1
    <2>4. audit' = history'
        BY <1>1
    <2> QED BY <1>1, <1>3, <2>2, <2>3, <2>4
<1> QED
    BY <1>4, <1>5

\* Rows that are lost are missing from then on.
LEMMA LossLoses ==
    ASSUME SafetyInv, LoseTail
    PROVE  audit' # history' /\ history' = history /\ Attested' = Attested
<1>1. PICK n \in 0 .. Len(audit) - 1 : audit' = SubSeq(audit, 1, n)
    BY DEF LoseTail
<1>2. Len(audit') = n /\ n < Len(history)
    BY <1>1 DEF SafetyInv, TypeOK, PrefixInv
<1>3. UNCHANGED <<history, checkpoint, lock, backup>>
    BY DEF LoseTail
<1>4. Len(history) \in Nat
    BY DEF SafetyInv, TypeOK
<1> QED
    BY <1>1, <1>2, <1>3, <1>4 DEF Attested

\* Every other step is silent: no row comes or goes, and none is attested.
LEMMA OtherStepIsSilent ==
    ASSUME SafetyInv, TornPublication = FALSE, NEW p \in Proc,
           \/ Begin(p) \/ MutationReady(p) \/ AppendRow(p) \/ Crash(p)
           \/ RollBack(p) \/ PrepareCommit(p) \/ PrepareRefused(p)
           \/ PendingPublished(p) \/ PendingFailed(p)
           \/ CrashLinked(p) /\ pc[p] = "pending"
           \/ PendingCleared(p) \/ PendingClearFailed(p)
           \/ CommitReturned(p) \/ CommitUncertain(p)
           \/ \E c \in {"start", "verify", "advance", "tx"} :
                  VerifyCurrent(p, c) \/ VerifyRefused(p, c)
    PROVE  UNCHANGED <<audit, history>> /\ Attested' = Attested
<1> USE DEF SafetyInv, TypeOK, Goto
<1>1. CASE Begin(p) \/ MutationReady(p) \/ AppendRow(p) \/ PrepareCommit(p)
    BY <1>1, AttestedStays DEF Begin, MutationReady, AppendRow, PrepareCommit
<1>2. CASE Crash(p)
    BY <1>2, AttestedStays, DeathStops DEF Crash
<1>3. CASE RollBack(p) \/ PrepareRefused(p) \/ CommitReturned(p) \/ CommitUncertain(p)
    BY <1>3, AttestedStays, TransactionEnded DEF RollBack, PrepareRefused, CommitReturned, CommitUncertain
<1>4. CASE PendingPublished(p)
    BY <1>4, AttestedStays DEF PendingPublished
<1>5. CASE PendingFailed(p)
    BY <1>5, AttestedStays, TransactionEnded DEF PendingFailed
<1>6. CASE PendingCleared(p)
    BY <1>6, AttestedStays DEF PendingCleared, LockInv
<1>7. CASE PendingClearFailed(p)
    BY <1>7, AttestedStays, RefusalStops DEF PendingClearFailed
<1>8. ASSUME NEW c \in {"start", "verify", "advance", "tx"}, VerifyCurrent(p, c)
      PROVE  UNCHANGED <<audit, history>> /\ Attested' = Attested
    BY <1>8, AttestedStays DEF VerifyCurrent, MayVerify
<1>9. ASSUME NEW c \in {"start", "verify", "advance", "tx"}, VerifyRefused(p, c)
      PROVE  UNCHANGED <<audit, history>> /\ Attested' = Attested
    <2>1. pc[p] # "checkpoint"
        BY <1>9 DEF VerifyRefused, MayVerify
    <2> QED BY <1>9, <2>1, AttestedStays, RefusalStops DEF VerifyRefused
<1>10. CASE CrashLinked(p) /\ pc[p] = "pending"
    <2>1. /\ pc[p] # "checkpoint" /\ checkpoint' = checkpoint
          /\ UNCHANGED <<audit, history>>
        BY <1>10 DEF CrashLinked
    <2>2. \A q \in Proc \ {p} : backup'[q] = backup[q]
        BY <1>10, DeathStops
    <2>3. lock' = lock \/ lock \in {p, Absent}
        BY <1>10, DeathStops
    <2> QED BY <2>1, <2>2, <2>3, AttestedStays
<1> QED
    BY <1>1, <1>2, <1>3, <1>4, <1>5, <1>6, <1>7, <1>8, <1>9, <1>10

\* A step of the protocol is a step of the ledger, or a silent one.
LEMMA LedgerStep ==
    ASSUME SafetyInv, TornPublication = FALSE, [Next]_vars
    PROVE  [Ledger!Next]_(Ledger!vars)
<1>1. ASSUME UNCHANGED <<audit, history>>, Attested' = Attested
      PROVE  UNCHANGED Ledger!vars
    BY <1>1 DEF Ledger!vars, Attested
<1>2. CASE UNCHANGED vars
    BY <1>2, <1>1 DEF vars, Attested
<1>3. CASE LoseTail
    BY <1>3, LossLoses DEF Ledger!Next, Ledger!Lose, Attested
<1>4. ASSUME NEW p \in Proc,
             \/ Begin(p) \/ AppendRow(p) \/ Crash(p) \/ CrashLinked(p) \/ Continue(p)
             \/ \E c \in {"start", "verify", "advance"} : Verify(p, c)
      PROVE  [Ledger!Next]_(Ledger!vars)
    <2>1. CASE \/ CheckpointPublished(p) \/ CheckpointFailed(p)
               \/ CrashLinked(p) /\ pc[p] = "checkpoint"
        <3>1. CASE Attested' = Len(history)
            BY <2>1, <3>1, PublicationAttests DEF Ledger!Next, Ledger!Attest, Attested
        <3>2. CASE Attested' = Attested
            BY <2>1, <3>2, <1>1, PublicationAttests
        <3> QED BY <2>1, <3>1, <3>2, PublicationAttests
    <2>2. CASE CommitApplied(p)
        <3>1. /\ audit = history /\ audit' = history' /\ Attested' = Attested
              /\ \/ history' = history
                 \/ /\ Len(history') > Len(history)
                    /\ SubSeq(history', 1, Len(history)) = history
            BY <2>2, CommitCommits
        <3>2. CASE history' = history
            BY <3>1, <3>2, <1>1
        <3>3. CASE history' # history
            BY <3>1, <3>3 DEF Ledger!Next, Ledger!Commit, Attested
        <3> QED BY <3>2, <3>3
    <2>3. ASSUME NEW c \in {"start", "verify", "advance", "tx"}, VerifyPublishes(p, c)
          PROVE  UNCHANGED Ledger!vars
        <3>1. UNCHANGED <<audit, history>>
            BY <2>3 DEF VerifyPublishes
        <3> QED BY <2>3, <3>1, <1>1, PublishingIsSilent
    <2>4. CASE \/ Begin(p) \/ MutationReady(p) \/ AppendRow(p) \/ Crash(p)
               \/ RollBack(p) \/ PrepareCommit(p) \/ PrepareRefused(p)
               \/ PendingPublished(p) \/ PendingFailed(p)
               \/ CrashLinked(p) /\ pc[p] = "pending"
               \/ PendingCleared(p) \/ PendingClearFailed(p)
               \/ CommitReturned(p) \/ CommitUncertain(p)
               \/ \E c \in {"start", "verify", "advance", "tx"} :
                      VerifyCurrent(p, c) \/ VerifyRefused(p, c)
        BY <2>4, <1>1, OtherStepIsSilent
    <2> QED
        BY <1>4, <2>1, <2>2, <2>3, <2>4 DEF Continue, Verify, CrashLinked
<1> QED
    BY <1>2, <1>3, <1>4 DEF Next

\* What the sidecars, the locks and the recovery amount to is an append-only
\* ledger: rows are only added while none is missing, and only an intact ledger
\* is attested, as a whole (prepareTransactionCommit, publishCheckpointUnlocked).
THEOREM LedgerImplemented ==
    ASSUME TornPublication = FALSE
    PROVE  SafetySpec => ImplementsLedger
<1>1. Init => Ledger!Init
    BY ConstantsAssumption DEF Init, Ledger!Init, Mark
<1>2. SafetyInv /\ [Next]_vars => [Ledger!Next]_(Ledger!vars)
    BY LedgerStep
<1> QED
    BY <1>1, <1>2, SafetyHolds, PTL DEF SafetySpec, ImplementsLedger, Ledger!Spec
=============================================================================
