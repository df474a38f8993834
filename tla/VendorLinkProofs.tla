-------------------------- MODULE VendorLinkProofs --------------------------
(* Theorems about VendorLink, for every set of replicas, every offset of their *)
(* clocks, every window and skew, and any number of faults and decisions.      *)
EXTENDS VendorLink, TLAPS

\* A contact that was committed: signed by now, and recorded at most the skew
\* ahead of its signature.
SoundContact(c) ==
    c # None => /\ InstalledAt <= c.issuedAt /\ c.issuedAt <= now
                /\ c.contactAt <= c.issuedAt + Skew

\* Nothing was signed later than now, and no replica holds what is ahead of its
\* own clock by more than the skew.
Clocks ==
    /\ SoundContact(shared) /\ \A backup \in saved : SoundContact(backup)
    /\ \A r \in Replica :
          /\ link[r].applied <= now
          /\ pc[r] = "asking" => askedAt[r] <= Clock(r)
          /\ reply[r] # None => InstalledAt <= reply[r].issuedAt /\ reply[r].issuedAt <= now
          /\ cache[r] # None => /\ cache[r].issuedAt <= now
                                /\ cache[r].issuedAt <= Clock(r) + Skew
          /\ pc[r] = "down" => link[r] = Fresh

\* What a replica is ahead of the database was there before the answers that are
\* still on their way: they cannot be overtaken by it.
AheadOfDatabase(r, q) ==
    reply[q] # None =>
        /\ link[r].applied > IssuedAt(shared) => reply[q].issuedAt >= link[r].applied
        /\ IssuedAt(cache[r]) > IssuedAt(shared) => reply[q].issuedAt >= IssuedAt(cache[r])

\* A process that booted with all it had to know.
Informed(l, r) ==
    /\ l.contact <= SignedAt(shared) + Skew
    /\ l.applied >= IssuedAt(cache[r])
    /\ l.applied > IssuedAt(shared) /\ Revoked(shared) => l.revoked
    /\ Revoked(cache[r]) /\ IssuedAt(cache[r]) > IssuedAt(shared) => l.revoked

IInv ==
    /\ TypeOK
    /\ Clocks
    /\ \A r, q \in Replica : AheadOfDatabase(r, q)
    /\ \A r \in Replica \ blind : pc[r] # "down" => Informed(link[r], r)

------------------------------------------------------------------------------
(* What the helpers return *)

\* The link only changes its staleness.
Kept(l, m) == m.applied = l.applied /\ m.contact = l.contact /\ m.revoked = l.revoked

\* The link becomes what the database says, which is not older.
TakenOver(l, m) ==
    /\ shared # None /\ shared.issuedAt >= l.applied
    /\ m.applied = shared.issuedAt /\ m.contact = shared.contactAt
    /\ m.revoked = (shared.status = "revoked")

\* Evaluating staleness decides nothing else (evaluateStaleness).
LEMMA EvaluatedKeeps ==
    ASSUME NEW l \in Link, NEW t
    PROVE  Evaluated(l, t) \in Link /\ Kept(l, Evaluated(l, t))
BY DEF Evaluated, Link, Kept, Stale

\* Failing closed decides nothing else (failClosedSharedState).
LEMMA FailedClosedKeeps ==
    ASSUME NEW l \in Link
    PROVE  FailedClosed(l) \in Link /\ Kept(l, FailedClosed(l))
BY DEF FailedClosed, Link, Kept

\* Taking the overlay of a revocation back changes nothing else
\* (restoreVendorState).
LEMMA TakenBackKeeps ==
    ASSUME NEW l \in Link
    PROVE  /\ [l EXCEPT !.revoked = FALSE] \in Link
           /\ [l EXCEPT !.revoked = FALSE].applied = l.applied
           /\ [l EXCEPT !.revoked = FALSE].contact = l.contact
BY DEF Link

\* Adopting the shared verdict copies it (adoptDurableState).
LEMMA AdoptedTakes ==
    ASSUME shared \in Contact, None \notin Contact, NEW l \in Link, NEW t,
           shared.issuedAt >= l.applied
    PROVE  Adopted(l, shared, t) \in Link /\ TakenOver(l, Adopted(l, shared, t))
BY DEF Adopted, Link, Contact, TakenOver, Stale

\* Reconciling keeps the link or takes the database's verdict over
\* (reconcileSharedState).
LEMMA ReconciledMoves ==
    ASSUME shared \in Contact \union {None}, None \notin Contact, NEW l \in Link, NEW t
    PROVE  /\ Reconciled(l, t) \in Link
           /\ Kept(l, Reconciled(l, t)) \/ TakenOver(l, Reconciled(l, t))
<1>1. CASE shared # None /\ shared.issuedAt >= l.applied
  BY <1>1, AdoptedTakes DEF Reconciled
<1>2. CASE ~(shared # None /\ shared.issuedAt >= l.applied)
  BY <1>2, EvaluatedKeeps DEF Reconciled
<1> QED BY <1>1, <1>2

------------------------------------------------------------------------------
(* Steps *)

\* The invariant survives every step of a running replica that keeps its link or
\* takes the shared verdict over, commits nothing and ends no later than it began.
LEMMA LinkStep ==
    ASSUME ConstantsAssumption, IInv, NEW r \in Replica, pc[r] # "down", NEW m \in Link,
           Kept(link[r], m) \/ TakenOver(link[r], m),
           link' = [link EXCEPT ![r] = m],
           UNCHANGED <<now, shared, saved, cache, blind>>,
           TypeOK',
           \A q \in Replica : (pc'[q] = "down") <=> (pc[q] = "down"),
           \A q \in Replica : reply'[q] \in {reply[q], None},
           \A q \in Replica : pc'[q] = "asking" => askedAt'[q] <= Clock(q)
    PROVE  IInv'
<1> USE DEF IInv
<1>1. m.applied >= link[r].applied /\ m.applied <= now
  BY DEF Kept, TakenOver, Clocks, SoundContact, TypeOK, Link, Contact
<1>2. \A q \in Replica : link'[q] = IF q = r THEN m ELSE link[q]
  BY DEF TypeOK
<1>3. Clocks'
  <2>1. SoundContact(shared)' /\ \A backup \in saved' : SoundContact(backup)'
    BY DEF Clocks, SoundContact
  <2>2. ASSUME NEW q \in Replica
        PROVE  /\ link'[q].applied <= now'
               /\ pc'[q] = "down" => link'[q] = Fresh
    BY <1>1, <1>2 DEF Clocks
  <2>3. ASSUME NEW q \in Replica
        PROVE  /\ pc'[q] = "asking" => askedAt'[q] <= Clock(q)'
               /\ reply'[q] # None => InstalledAt <= reply'[q].issuedAt /\ reply'[q].issuedAt <= now'
               /\ cache'[q] # None => /\ cache'[q].issuedAt <= now'
                                      /\ cache'[q].issuedAt <= Clock(q)' + Skew
    BY DEF Clocks, Clock
  <2> QED BY <2>1, <2>2, <2>3 DEF Clocks
<1>4. ASSUME NEW p \in Replica, NEW q \in Replica
      PROVE  AheadOfDatabase(p, q)'
  <2>1. AheadOfDatabase(p, q) OBVIOUS
  <2>2. SUFFICES ASSUME reply'[q] # None
                 PROVE  AheadOfDatabase(p, q)'
    BY DEF AheadOfDatabase
  <2>3. reply'[q] = reply[q] BY <2>2
  <2>4. CASE p # r
    BY <1>2, <2>1, <2>3, <2>4 DEF AheadOfDatabase, IssuedAt
  <2>5. CASE p = r
    <3>1. CASE Kept(link[r], m)
      BY <1>2, <2>1, <2>3, <2>5, <3>1 DEF AheadOfDatabase, IssuedAt, Kept
    <3>2. CASE TakenOver(link[r], m)
      BY <1>2, <2>1, <2>3, <2>5, <3>2 DEF AheadOfDatabase, IssuedAt, TakenOver, TypeOK, Contact
    <3> QED BY <3>1, <3>2
  <2> QED BY <2>4, <2>5
<1>5. ASSUME NEW q \in Replica \ blind', pc'[q] # "down"
      PROVE  Informed(link[q], q)'
  <2>1. Informed(link[q], q)
    BY <1>5
  <2>2. CASE q # r
    BY <1>2, <2>1, <2>2 DEF Informed, IssuedAt, SignedAt, Revoked
  <2>3. CASE q = r /\ Kept(link[r], m)
    BY <1>2, <2>1, <2>3 DEF Informed, IssuedAt, SignedAt, Revoked, Kept
  <2>4. CASE q = r /\ TakenOver(link[r], m)
    <3>1. link'[q] = m BY <1>2, <2>4
    <3>2. m.applied = shared.issuedAt /\ m.contact = shared.contactAt /\ shared # None
          /\ shared.issuedAt >= link[r].applied
      BY <2>4 DEF TakenOver
    <3>3. m.contact <= SignedAt(shared) + Skew
      BY <3>2 DEF Clocks, SoundContact, SignedAt
    <3>4. m.applied >= IssuedAt(cache[q])
      BY <2>1, <2>4, <3>2 DEF Informed, IssuedAt, TypeOK, Verdict, Contact, Link
    <3>5. ~(m.applied > IssuedAt(shared)) /\ ~(IssuedAt(cache[q]) > IssuedAt(shared))
      BY <3>2, <3>4 DEF IssuedAt, TypeOK, Verdict, Contact
    <3> QED BY <3>1, <3>3, <3>4, <3>5 DEF Informed, IssuedAt, SignedAt, Revoked
  <2> QED BY <2>2, <2>3, <2>4
<1> QED BY <1>3, <1>4, <1>5

------------------------------------------------------------------------------
(* Types *)

\* What a boot restores is a link that is not ahead of now (restore).
LEMMA RestoredIsLink ==
    ASSUME ConstantsAssumption, TypeOK, NEW r \in Replica, NEW t \in Int
    PROVE  /\ Restored(r, t) \in Link
           /\ Restored(r, t).applied \in {Mark(shared, t), Mark(cache[r], t)}
           /\ Restored(r, t).applied >= Mark(shared, t)
           /\ Restored(r, t).applied >= Mark(cache[r], t)
           /\ Restored(r, t).contact = ContactAtBoot(t)
           /\ Restored(r, t).revoked = RevokedAtBoot(r, t)
<1> DEFINE marks == {Mark(shared, t), Mark(cache[r], t)}
           top == CHOOSE m \in marks : \A n \in marks : m >= n
           l == [applied |-> top, contact |-> ContactAtBoot(t),
                 revoked |-> RevokedAtBoot(r, t), stale |-> FALSE]
<1>1. Mark(shared, t) \in Nat /\ Mark(cache[r], t) \in Nat
  BY DEF Mark, IssuedAt, TypeOK, Contact, Verdict
<1>2. top \in marks /\ \A n \in marks : top >= n
  <2>1. \E m \in marks : \A n \in marks : m >= n
    BY <1>1
  <2> HIDE DEF marks
  <2> QED BY <2>1
<1>3. ContactAtBoot(t) \in Int
  BY DEF ContactAtBoot, TypeOK, Contact, ConstantsAssumption, InstalledAt
<1>4. RevokedAtBoot(r, t) \in BOOLEAN
  BY DEF RevokedAtBoot, Revoked
<1>5. top \in Nat
  BY <1>1, <1>2
<1> HIDE DEF top
<1>6. l \in Link
  BY <1>3, <1>4, <1>5 DEF Link
<1>7. Restored(r, t) = Evaluated(l, t)
  BY DEF Restored, top
<1>8. Restored(r, t) \in Link /\ Kept(l, Restored(r, t))
  BY <1>6, <1>7, EvaluatedKeeps
<1> QED BY <1>2, <1>8 DEF Kept

\* Every step keeps the types.
LEMMA TypeStep ==
    ASSUME ConstantsAssumption, TypeOK, Next
    PROVE  TypeOK'
<1> USE DEF TypeOK
<1>0. /\ None \notin Contact /\ None \notin Verdict /\ Skew \in Nat
      /\ \A r \in Replica : Clock(r) \in Int
  BY DEF ConstantsAssumption, Clock, InstalledAt
<1>1. CASE Tick
  BY <1>1 DEF Tick, database, process, bounds, InstalledAt, ConstantsAssumption
<1>2. CASE VendorDecides
  BY <1>2 DEF VendorDecides, database, process
<1>3. CASE BackUp \/ PutBack
  BY <1>3 DEF BackUp, PutBack, Fault, process, bounds
<1>4. ASSUME NEW r \in Replica, Ask(r)
      PROVE  TypeOK'
  <2>1. Reconciled(link[r], Clock(r)) \in Link
    BY <1>0, ReconciledMoves
  <2> QED BY <1>0, <1>4, <2>1 DEF Ask, database, bounds
<1>5. ASSUME NEW r \in Replica, Serve(r)
      PROVE  TypeOK'
  BY <1>5 DEF Serve, database, bounds, Verdict, InstalledAt
<1>6. ASSUME NEW r \in Replica, NoAnswer(r)
      PROVE  TypeOK'
  <2>1. Evaluated(link[r], askedAt[r]) \in Link
    BY EvaluatedKeeps
  <2> QED BY <1>6, <2>1 DEF NoAnswer, Ended, database, bounds
<1>7. ASSUME NEW r \in Replica, Answer(r)
      PROVE  TypeOK'
  <2> DEFINE v == reply[r]
             s == ContactOf(v, askedAt[r])
             m == Adopted(link[r], s, askedAt[r])
  <2>1. v \in Verdict BY <1>7 DEF Answer
  <2>2. s \in Contact BY <2>1 DEF Verdict, Contact, ContactOf
  <2>3. m \in Link BY <2>2 DEF Contact, Link, Adopted, Stale
  <2>4. link' = [link EXCEPT ![r] = m] /\ shared' = s
    BY <1>7 DEF Answer
  <2> HIDE DEF s, m, v
  <2>5. cache' \in [Replica -> Verdict \union {None}]
    BY <1>7, <2>1 DEF Answer, v
  <2>6. pc[r] = "asking" /\ Ended(r)
        /\ UNCHANGED <<now, vendor, saved, blind, decisions, faults>>
    BY <1>7 DEF Answer, bounds
  <2> QED BY <2>2, <2>3, <2>4, <2>5, <2>6 DEF Ended
<1>8. ASSUME NEW r \in Replica, AnswerLate(r)
      PROVE  TypeOK'
  <2>1. shared \in Contact BY <1>8 DEF AnswerLate, Newer
  <2>2. Adopted(link[r], shared, askedAt[r]) \in Link
    BY <2>1 DEF Contact, Link, Adopted, Stale
  <2> QED BY <1>8, <2>2 DEF AnswerLate, Ended, database, bounds
<1>9. ASSUME NEW r \in Replica, AnswerRefused(r)
      PROVE  TypeOK'
  <2>1. /\ Evaluated(link[r], askedAt[r]) \in Link
        /\ Evaluated(Reconciled(link[r], askedAt[r]), askedAt[r]) \in Link
    BY <1>0, EvaluatedKeeps, ReconciledMoves
  <2> QED BY <1>9, <2>1 DEF AnswerRefused, Ended, database, bounds
<1>10. ASSUME NEW r \in Replica, AnswerUnrecorded(r)
       PROVE  TypeOK'
  BY <1>10 DEF AnswerUnrecorded, Fault, Ended, database
<1>11. ASSUME NEW r \in Replica, Request(r)
       PROVE  TypeOK'
  <2>1. Reconciled(link[r], Clock(r)) \in Link
    BY <1>0, ReconciledMoves
  <2> QED BY <1>11, <2>1 DEF Request, database, bounds
<1>12. ASSUME NEW r \in Replica, RequestUnread(r)
       PROVE  TypeOK'
  <2>1. FailedClosed(link[r]) \in Link BY FailedClosedKeeps
  <2> QED BY <1>12, <2>1 DEF RequestUnread, Fault, database
<1>13. ASSUME NEW r \in Replica, Boot(r)
       PROVE  TypeOK'
  <2>1. Restored(r, Clock(r)) \in Link
    BY <1>0, RestoredIsLink
  <2> QED BY <1>13, <2>1 DEF Boot, database, bounds
<1>14. ASSUME NEW r \in Replica, BootUnread(r)
       PROVE  TypeOK'
  <2>1. [applied |-> 0, contact |-> Clock(r) + Skew + 1,
         revoked |-> FALSE, stale |-> TRUE] \in Link
    BY <1>0 DEF Link
  <2> QED BY <1>14, <2>1 DEF BootUnread, Fault, database
<1>15. ASSUME NEW r \in Replica, BootUnrecorded(r)
       PROVE  TypeOK'
  <2>1. FailedClosed([Restored(r, Clock(r)) EXCEPT !.revoked = FALSE]) \in Link
    BY <1>0, RestoredIsLink, TakenBackKeeps, FailedClosedKeeps
  <2> QED BY <1>15, <2>1 DEF BootUnrecorded, Fault, database
<1>16. ASSUME NEW r \in Replica, Crash(r) \/ CacheLost(r)
       PROVE  TypeOK'
  <2>1. Fresh \in Link BY DEF Fresh, Link
  <2> QED BY <1>16, <2>1 DEF Crash, CacheLost, database, bounds
<1>17. ASSUME NEW r \in Replica, AnswerUncertain(r)
       PROVE  TypeOK'
  <2>1. reply[r] \in Verdict BY <1>17 DEF AnswerUncertain
  <2>2. ContactOf(reply[r], askedAt[r]) \in Contact
    BY <2>1 DEF Verdict, Contact, ContactOf
  <2> QED BY <1>17, <2>2 DEF AnswerUncertain, Fault, Ended
<1> QED BY <1>1, <1>2, <1>3, <1>4, <1>5, <1>6, <1>7, <1>8, <1>9, <1>10, <1>11, <1>12,
           <1>13, <1>14, <1>15, <1>16, <1>17 DEF Next

------------------------------------------------------------------------------
(* The invariant *)

\* A replica boots with a mark of the database, of its cache, or none; unless it
\* could not read or record, it is informed (restore).
LEMMA BootStep ==
    ASSUME ConstantsAssumption, IInv, NEW r \in Replica, pc[r] = "down", NEW m \in Link,
           m.applied \in {0, Mark(shared, Clock(r)), Mark(cache[r], Clock(r))},
           r \notin blind' => Informed(m, r),
           link' = [link EXCEPT ![r] = m],
           pc' = [pc EXCEPT ![r] = "idle"],
           blind \ {r} \subseteq blind',
           UNCHANGED <<now, database, cache, askedAt, reply>>,
           TypeOK'
    PROVE  IInv'
<1> USE DEF IInv
<1>1. \A q \in Replica : link'[q] = IF q = r THEN m ELSE link[q]
  BY DEF TypeOK
<1>2. \A q \in Replica : pc'[q] = IF q = r THEN "idle" ELSE pc[q]
  BY DEF TypeOK
<1>3. /\ m.applied \in Nat
      /\ m.applied > 0 => m.applied = IssuedAt(shared) \/ m.applied = IssuedAt(cache[r])
  BY DEF Link, Mark
<1>4. IssuedAt(shared) \in Nat /\ IssuedAt(cache[r]) \in Nat
  BY DEF IssuedAt, TypeOK, Contact, Verdict
<1>5. Clocks'
  <2>1. SoundContact(shared)' /\ \A backup \in saved' : SoundContact(backup)'
    BY DEF Clocks, SoundContact, database
  <2>2. m.applied <= now
    BY <1>3 DEF Clocks, SoundContact, IssuedAt, TypeOK, Contact, Verdict, InstalledAt
  <2>3. ASSUME NEW q \in Replica
        PROVE  /\ link'[q].applied <= now'
               /\ pc'[q] = "down" => link'[q] = Fresh
               /\ pc'[q] = "asking" => askedAt'[q] <= Clock(q)'
    BY <1>1, <1>2, <2>2 DEF Clocks, Clock
  <2>4. ASSUME NEW q \in Replica
        PROVE  /\ reply'[q] # None => InstalledAt <= reply'[q].issuedAt /\ reply'[q].issuedAt <= now'
               /\ cache'[q] # None => /\ cache'[q].issuedAt <= now'
                                      /\ cache'[q].issuedAt <= Clock(q)' + Skew
    BY DEF Clocks, Clock
  <2> QED BY <2>1, <2>3, <2>4 DEF Clocks
<1>6. ASSUME NEW p \in Replica, NEW q \in Replica
      PROVE  AheadOfDatabase(p, q)'
  <2>1. AheadOfDatabase(p, q) OBVIOUS
  <2>2. CASE p # r
    BY <1>1, <2>1, <2>2 DEF AheadOfDatabase, IssuedAt, database
  <2>3. CASE p = r
    BY <1>1, <1>3, <1>4, <2>1, <2>3 DEF AheadOfDatabase, IssuedAt, database
  <2> QED BY <2>2, <2>3
<1>7. ASSUME NEW q \in Replica \ blind', pc'[q] # "down"
      PROVE  Informed(link[q], q)'
  <2>1. CASE q = r
    <3>1. Informed(m, q) /\ link'[q] = m
      BY <1>1, <1>7, <2>1
    <3>2. shared' = shared /\ cache' = cache
      BY DEF database
    <3> QED BY <3>1, <3>2 DEF Informed, IssuedAt, SignedAt, Revoked
  <2>2. CASE q # r
    <3>1. Informed(link[q], q)
      BY <1>2, <1>7, <2>2
    <3> QED BY <1>1, <2>2, <3>1 DEF Informed, IssuedAt, SignedAt, Revoked, database
  <2> QED BY <2>1, <2>2
<1> QED BY <1>5, <1>6, <1>7

\* A boot that reads the database and records what it found is informed.
LEMMA RestoredInformed ==
    ASSUME ConstantsAssumption, IInv, NEW r \in Replica
    PROVE  Informed(Restored(r, Clock(r)), r)
<1> USE DEF IInv
<1> DEFINE t == Clock(r)
           m == Restored(r, t)
<1>1. t \in Int /\ Skew \in Nat /\ now \in Nat
  BY DEF Clock, TypeOK, ConstantsAssumption, InstalledAt
<1>2. /\ m.applied >= Mark(shared, t) /\ m.applied >= Mark(cache[r], t)
      /\ m.contact = ContactAtBoot(t) /\ m.revoked = RevokedAtBoot(r, t) /\ m \in Link
      /\ m.applied \in {Mark(shared, t), Mark(cache[r], t)}
  BY <1>1, RestoredIsLink
<1>3. Mark(cache[r], t) = IssuedAt(cache[r])
  BY <1>1 DEF Mark, Clocks, IssuedAt, TypeOK, Verdict
<1>4. Mark(shared, t) \in Nat /\ Mark(shared, t) <= IssuedAt(shared)
      /\ IssuedAt(shared) \in Nat /\ IssuedAt(cache[r]) \in Nat
  BY DEF Mark, IssuedAt, TypeOK, Contact, Verdict
<1>5. m.contact <= SignedAt(shared) + Skew
  BY <1>1, <1>2 DEF ContactAtBoot, SignedAt, Clocks, SoundContact, TypeOK, Contact, InstalledAt
<1>6. Revoked(shared) => m.revoked
  BY <1>2 DEF RevokedAtBoot
<1>7. Revoked(cache[r]) /\ IssuedAt(cache[r]) > IssuedAt(shared) => m.revoked
  BY <1>2, <1>3, <1>4 DEF RevokedAtBoot
<1> HIDE DEF m
<1>8. Informed(m, r)
  BY <1>2, <1>3, <1>5, <1>6, <1>7 DEF Informed
<1> QED BY <1>8 DEF m

\* Every step keeps the invariant.
LEMMA InvStep ==
    ASSUME ConstantsAssumption, IInv, Next
    PROVE  IInv'
<1> USE DEF IInv
<1>0. TypeOK'
  BY TypeStep
<1>1. CASE Tick
  <2>1. now' = now + 1 /\ now \in Nat /\ \A r \in Replica : Clock(r)' = Clock(r) + 1 /\ Clock(r) \in Int
    BY <1>1 DEF Tick, Clock, TypeOK, InstalledAt, ConstantsAssumption
  <2>2. UNCHANGED <<shared, saved, cache, link, pc, askedAt, reply, blind>>
    BY <1>1 DEF Tick, database, process
  <2>3. SoundContact(shared)' /\ \A backup \in saved' : SoundContact(backup)'
    BY <2>1, <2>2 DEF Clocks, SoundContact, TypeOK, Contact
  <2>4. Clocks'
    BY <2>1, <2>2, <2>3 DEF Clocks, TypeOK, Link, Verdict, ConstantsAssumption
  <2>5. \A p, q \in Replica : AheadOfDatabase(p, q)'
    BY <2>2 DEF AheadOfDatabase, IssuedAt
  <2>6. \A q \in Replica \ blind' : pc'[q] # "down" => Informed(link[q], q)'
    BY <2>2 DEF Informed, IssuedAt, SignedAt, Revoked
  <2> QED BY <1>0, <2>4, <2>5, <2>6
<1>2. CASE VendorDecides
  <2>1. UNCHANGED <<now, shared, saved, cache, link, pc, askedAt, reply, blind>>
    BY <1>2 DEF VendorDecides, database, process
  <2>2. Clocks'
    BY <2>1 DEF Clocks, SoundContact, Clock
  <2>3. \A p, q \in Replica : AheadOfDatabase(p, q)'
    BY <2>1 DEF AheadOfDatabase, IssuedAt
  <2>4. \A q \in Replica \ blind' : pc'[q] # "down" => Informed(link[q], q)'
    BY <2>1 DEF Informed, IssuedAt, SignedAt, Revoked
  <2> QED BY <1>0, <2>2, <2>3, <2>4
<1>3. CASE BackUp
  <2>1. saved' = saved \union {shared} /\ UNCHANGED <<now, shared, cache, link, pc, askedAt, reply, blind>>
    BY <1>3 DEF BackUp, process
  <2>2. Clocks'
    BY <2>1 DEF Clocks, SoundContact, Clock
  <2>3. \A p, q \in Replica : AheadOfDatabase(p, q)'
    BY <2>1 DEF AheadOfDatabase, IssuedAt
  <2>4. \A q \in Replica \ blind' : pc'[q] # "down" => Informed(link[q], q)'
    BY <2>1 DEF Informed, IssuedAt, SignedAt, Revoked
  <2> QED BY <1>0, <2>2, <2>3, <2>4
<1>4. CASE PutBack
  <2>1. /\ \E backup \in saved : shared' = backup /\ saved' = saved \ {backup}
        /\ UNCHANGED <<now, cache, link, pc, askedAt, reply, blind>>
        /\ \A r \in Replica : pc[r] = "down"
    BY <1>4 DEF PutBack, process
  <2>2. \A r \in Replica : reply[r] = None
    BY <2>1 DEF TypeOK
  <2>3. Clocks'
    BY <2>1 DEF Clocks, SoundContact, Clock
  <2> QED BY <1>0, <2>1, <2>2, <2>3 DEF AheadOfDatabase
<1>5. ASSUME NEW r \in Replica, Serve(r)
      PROVE  IInv'
  <2>1. /\ pc[r] = "asking" /\ reply[r] = None
        /\ reply' = [reply EXCEPT ![r] = [status |-> vendor, issuedAt |-> now]]
        /\ UNCHANGED <<now, shared, saved, cache, link, pc, askedAt, blind>>
    BY <1>5 DEF Serve, database
  <2>2. now \in Nat /\ InstalledAt <= now
    BY DEF TypeOK, InstalledAt
  <2>3. \A q \in Replica : reply'[q] = reply[q] \/ reply'[q].issuedAt = now
    BY <2>1 DEF TypeOK
  <2>4. Clocks'
    <3>1. SoundContact(shared)' /\ \A backup \in saved' : SoundContact(backup)'
      BY <2>1 DEF Clocks, SoundContact
    <3> QED BY <2>1, <2>2, <2>3, <3>1 DEF Clocks, Clock
  <2>5. ASSUME NEW p \in Replica, NEW q \in Replica
        PROVE  AheadOfDatabase(p, q)'
    <3>1. link[p].applied <= now /\ IssuedAt(cache[p]) <= now
      BY <2>2 DEF Clocks, IssuedAt, InstalledAt
    <3>2. AheadOfDatabase(p, q) OBVIOUS
    <3> QED BY <2>1, <2>3, <3>1, <3>2 DEF AheadOfDatabase, IssuedAt
  <2>6. \A q \in Replica \ blind' : pc'[q] # "down" => Informed(link[q], q)'
    BY <2>1 DEF Informed, IssuedAt, SignedAt, Revoked
  <2> QED BY <1>0, <2>4, <2>5, <2>6
<1>6. ASSUME NEW r \in Replica, Crash(r)
      PROVE  IInv'
  <2>1. /\ pc' = [pc EXCEPT ![r] = "down"] /\ link' = [link EXCEPT ![r] = Fresh]
        /\ askedAt' = [askedAt EXCEPT ![r] = 0] /\ reply' = [reply EXCEPT ![r] = None]
        /\ blind' = blind \ {r} /\ UNCHANGED <<now, shared, saved, cache>>
    BY <1>6 DEF Crash, database
  <2>2. \A q \in Replica : /\ link'[q] = IF q = r THEN Fresh ELSE link[q]
                           /\ pc'[q] = IF q = r THEN "down" ELSE pc[q]
                           /\ askedAt'[q] = IF q = r THEN 0 ELSE askedAt[q]
                           /\ reply'[q] = IF q = r THEN None ELSE reply[q]
    BY <2>1 DEF TypeOK
  <2>3. Fresh.applied = 0 /\ now \in Nat /\ IssuedAt(shared) \in Nat
    BY DEF Fresh, TypeOK, InstalledAt, IssuedAt, Contact
  <2>4. SoundContact(shared)' /\ \A backup \in saved' : SoundContact(backup)'
    BY <2>1 DEF Clocks, SoundContact
  <2>5. Clocks'
    BY <2>1, <2>2, <2>3, <2>4 DEF Clocks, Clock
  <2>6. ASSUME NEW p \in Replica, NEW q \in Replica
        PROVE  AheadOfDatabase(p, q)'
    <3>1. AheadOfDatabase(p, q) OBVIOUS
    <3> HIDE DEF IInv
    <3> QED BY <2>1, <2>2, <2>3, <3>1 DEF AheadOfDatabase, IssuedAt
  <2>7. \A q \in Replica \ blind' : pc'[q] # "down" => Informed(link[q], q)'
    BY <2>1, <2>2 DEF Informed, IssuedAt, SignedAt, Revoked
  <2> QED BY <1>0, <2>5, <2>6, <2>7
<1>7. ASSUME NEW r \in Replica, CacheLost(r)
      PROVE  IInv'
  <2>1. /\ pc[r] = "down" /\ cache' = [cache EXCEPT ![r] = None]
        /\ UNCHANGED <<now, shared, saved, link, pc, askedAt, reply, blind>>
    BY <1>7 DEF CacheLost, database
  <2>2. \A q \in Replica : cache'[q] = IF q = r THEN None ELSE cache[q]
    BY <2>1 DEF TypeOK
  <2>3. IssuedAt(shared) \in Nat
    BY DEF TypeOK, IssuedAt, Contact
  <2>4. Clocks'
    BY <2>1, <2>2 DEF Clocks, Clock, SoundContact
  <2>5. ASSUME NEW p \in Replica, NEW q \in Replica
        PROVE  AheadOfDatabase(p, q)'
    <3>1. AheadOfDatabase(p, q) OBVIOUS
    <3> HIDE DEF IInv
    <3> QED BY <2>1, <2>2, <2>3, <3>1 DEF AheadOfDatabase, IssuedAt
  <2>6. \A q \in Replica \ blind' : pc'[q] # "down" => Informed(link[q], q)'
    BY <2>1, <2>2 DEF Informed, IssuedAt, SignedAt, Revoked
  <2> QED BY <1>0, <2>4, <2>5, <2>6
<1>8. ASSUME NEW r \in Replica, Boot(r)
      PROVE  IInv'
  <2>1. Clock(r) \in Int
    BY DEF Clock, TypeOK, InstalledAt, ConstantsAssumption
  <2>2. Restored(r, Clock(r)) \in Link
        /\ Restored(r, Clock(r)).applied \in {Mark(shared, Clock(r)), Mark(cache[r], Clock(r))}
    BY <2>1, RestoredIsLink
  <2>3. /\ pc[r] = "down" /\ blind' = blind \ {r}
        /\ link' = [link EXCEPT ![r] = Restored(r, Clock(r))]
        /\ pc' = [pc EXCEPT ![r] = "idle"]
        /\ UNCHANGED <<now, database, cache, askedAt, reply>>
    BY <1>8 DEF Boot
  <2> QED BY <1>0, <2>2, <2>3, RestoredInformed, BootStep
<1>9. ASSUME NEW r \in Replica, BootUnread(r)
      PROVE  IInv'
  <2> DEFINE m == [applied |-> 0, contact |-> Clock(r) + Skew + 1,
                   revoked |-> FALSE, stale |-> TRUE]
  <2>1. m \in Link /\ m.applied = 0
    BY DEF Clock, TypeOK, InstalledAt, ConstantsAssumption, Link
  <2>2. /\ pc[r] = "down" /\ blind' = blind \union {r}
        /\ link' = [link EXCEPT ![r] = m]
        /\ pc' = [pc EXCEPT ![r] = "idle"]
        /\ UNCHANGED <<now, database, cache, askedAt, reply>>
    BY <1>9 DEF BootUnread
  <2> HIDE DEF m
  <2> QED BY <1>0, <2>1, <2>2, BootStep
<1>10. ASSUME NEW r \in Replica, BootUnrecorded(r)
       PROVE  IInv'
  <2> DEFINE l == [Restored(r, Clock(r)) EXCEPT !.revoked = FALSE]
             m == FailedClosed(l)
  <2>1. Clock(r) \in Int
    BY DEF Clock, TypeOK, InstalledAt, ConstantsAssumption
  <2>2. l \in Link /\ l.applied \in {Mark(shared, Clock(r)), Mark(cache[r], Clock(r))}
    BY <2>1, RestoredIsLink, TakenBackKeeps
  <2>3. m \in Link /\ m.applied = l.applied
    BY <2>2, FailedClosedKeeps DEF Kept
  <2>4. /\ pc[r] = "down" /\ blind' = blind \union {r}
        /\ link' = [link EXCEPT ![r] = m]
        /\ pc' = [pc EXCEPT ![r] = "idle"]
        /\ UNCHANGED <<now, database, cache, askedAt, reply>>
    BY <1>10 DEF BootUnrecorded
  <2> HIDE DEF m, l
  <2> QED BY <1>0, <2>2, <2>3, <2>4, BootStep
<1>11. ASSUME NEW r \in Replica, Request(r) \/ Ask(r)
       PROVE  IInv'
  <2> DEFINE m == Reconciled(link[r], Clock(r))
  <2>1. m \in Link /\ (Kept(link[r], m) \/ TakenOver(link[r], m))
    BY ReconciledMoves DEF TypeOK, ConstantsAssumption
  <2>2. /\ pc[r] # "down" /\ link' = [link EXCEPT ![r] = m]
        /\ UNCHANGED <<now, shared, saved, cache, reply, blind>>
        /\ \/ UNCHANGED <<pc, askedAt>>
           \/ /\ pc' = [pc EXCEPT ![r] = "asking"]
              /\ askedAt' = [askedAt EXCEPT ![r] = Clock(r)]
    BY <1>11 DEF Request, Ask, database
  <2>3. \A q \in Replica : /\ (pc'[q] = "down") <=> (pc[q] = "down")
                           /\ pc'[q] = "asking" => askedAt'[q] <= Clock(q)
    BY <2>2 DEF Clocks, TypeOK, Clock, InstalledAt, ConstantsAssumption
  <2> HIDE DEF m
  <2> QED BY <1>0, <2>1, <2>2, <2>3, LinkStep
<1>12. ASSUME NEW r \in Replica, RequestUnread(r)
       PROVE  IInv'
  <2>1. FailedClosed(link[r]) \in Link /\ Kept(link[r], FailedClosed(link[r]))
    BY FailedClosedKeeps DEF TypeOK
  <2>2. /\ pc[r] # "down" /\ link' = [link EXCEPT ![r] = FailedClosed(@)]
        /\ UNCHANGED <<now, shared, saved, cache, pc, askedAt, reply, blind>>
    BY <1>12 DEF RequestUnread, database
  <2>3. \A q \in Replica : pc'[q] = "asking" => askedAt'[q] <= Clock(q)
    BY <2>2 DEF Clocks
  <2> QED BY <1>0, <2>1, <2>2, <2>3, LinkStep
<1>13. ASSUME NEW r \in Replica, NEW m \in Link,
              Kept(link[r], m) \/ TakenOver(link[r], m),
              link' = [link EXCEPT ![r] = m],
              pc[r] = "asking", Ended(r),
              UNCHANGED <<now, shared, saved, cache, blind>>
       PROVE  IInv'
  <2>1. \A q \in Replica : /\ (pc'[q] = "down") <=> (pc[q] = "down")
                           /\ pc'[q] = "asking" => askedAt'[q] <= Clock(q)
                           /\ reply'[q] \in {reply[q], None}
    BY <1>13 DEF Ended, Clocks, TypeOK
  <2> QED BY <1>0, <1>13, <2>1, LinkStep
<1>14. ASSUME NEW r \in Replica, NoAnswer(r)
       PROVE  IInv'
  <2>1. /\ Evaluated(link[r], askedAt[r]) \in Link
        /\ Kept(link[r], Evaluated(link[r], askedAt[r]))
    BY EvaluatedKeeps DEF TypeOK
  <2> QED BY <1>13, <1>14, <2>1 DEF NoAnswer, database
<1>15. ASSUME NEW r \in Replica, AnswerUnrecorded(r)
       PROVE  IInv'
  <2>1. link[r] \in Link /\ Kept(link[r], link[r]) /\ link' = [link EXCEPT ![r] = link[r]]
    BY <1>15 DEF AnswerUnrecorded, TypeOK, Kept
  <2> QED BY <1>13, <1>15, <2>1 DEF AnswerUnrecorded, database
<1>16. ASSUME NEW r \in Replica, AnswerLate(r)
       PROVE  IInv'
  <2>1. shared \in Contact /\ shared.issuedAt >= link[r].applied
    BY <1>16 DEF AnswerLate, Newer, TypeOK, Contact, Verdict, Link
  <2>2. /\ Adopted(link[r], shared, askedAt[r]) \in Link
        /\ TakenOver(link[r], Adopted(link[r], shared, askedAt[r]))
    BY <2>1, AdoptedTakes DEF TypeOK, ConstantsAssumption
  <2> QED BY <1>13, <1>16, <2>2 DEF AnswerLate, database
<1>17. ASSUME NEW r \in Replica, AnswerRefused(r)
       PROVE  IInv'
  <2> DEFINE k == Reconciled(link[r], askedAt[r])
  <2>1. k \in Link /\ (Kept(link[r], k) \/ TakenOver(link[r], k))
    BY ReconciledMoves DEF TypeOK, ConstantsAssumption
  <2>2. Evaluated(k, askedAt[r]) \in Link /\ Kept(k, Evaluated(k, askedAt[r]))
    BY <2>1, EvaluatedKeeps
  <2>3. \/ Kept(link[r], Evaluated(k, askedAt[r]))
        \/ TakenOver(link[r], Evaluated(k, askedAt[r]))
    BY <2>1, <2>2 DEF Kept, TakenOver
  <2>4. /\ Evaluated(link[r], askedAt[r]) \in Link
        /\ Kept(link[r], Evaluated(link[r], askedAt[r]))
    BY EvaluatedKeeps DEF TypeOK
  <2>5. \/ link' = [link EXCEPT ![r] = Evaluated(k, askedAt[r])]
        \/ link' = [link EXCEPT ![r] = Evaluated(link[r], askedAt[r])]
    BY <1>17 DEF AnswerRefused
  <2> HIDE DEF k
  <2> QED BY <1>13, <1>17, <2>2, <2>3, <2>4, <2>5 DEF AnswerRefused, database
<1>18. ASSUME NEW r \in Replica, Answer(r) \/ AnswerUncertain(r)
       PROVE  IInv'
  <2> DEFINE v == reply[r]
             s == ContactOf(v, askedAt[r])
             m == Adopted(link[r], s, askedAt[r])
  <2>1. /\ pc[r] = "asking" /\ v # None /\ v \in Verdict
        /\ Timely(v, askedAt[r]) /\ v.issuedAt > link[r].applied /\ Newer(v)
        /\ Ended(r) /\ UNCHANGED <<now, saved, blind>>
    BY <1>18 DEF Answer, AnswerUncertain, TypeOK
  <2>2. /\ shared' = s
        /\ \/ link' = link /\ cache' = cache
           \/ /\ link' = [link EXCEPT ![r] = m]
              /\ cache' \in {cache, [cache EXCEPT ![r] = v]}
    BY <1>18 DEF Answer, AnswerUncertain
  <2>3. /\ s \in Contact /\ s.issuedAt = v.issuedAt /\ s.contactAt = askedAt[r]
        /\ s.status = v.status /\ s # None
    BY <2>1 DEF TypeOK, Verdict, Contact, ContactOf, ConstantsAssumption
  <2>4. /\ m.applied = s.issuedAt /\ m.contact = s.contactAt
        /\ m.revoked = (s.status = "revoked")
    BY DEF Adopted
  <2>5. /\ InstalledAt <= v.issuedAt /\ v.issuedAt <= now
        /\ askedAt[r] <= Clock(r) /\ askedAt[r] <= v.issuedAt + Skew
        /\ v.issuedAt <= Clock(r) + Skew
        /\ v.issuedAt \in Nat /\ Skew \in Nat /\ askedAt[r] \in Int /\ Clock(r) \in Int
    BY <2>1 DEF Clocks, Timely, TypeOK, Verdict, ConstantsAssumption, Clock, InstalledAt
  <2>6. shared # None => shared.issuedAt < s.issuedAt
    BY <2>1, <2>3, <2>5 DEF Newer, TypeOK, Contact
  <2> HIDE DEF m, s, v
  <2>7. \A q \in Replica :
           /\ link'[q] = link[q] \/ (q = r /\ link'[q] = m)
           /\ pc'[q] = IF q = r THEN "idle" ELSE pc[q]
           /\ askedAt'[q] = IF q = r THEN 0 ELSE askedAt[q]
           /\ reply'[q] = IF q = r THEN None ELSE reply[q]
           /\ cache'[q] = cache[q] \/ (q = r /\ cache'[q] = v /\ link'[q] = m)
    <3>1. \A q \in Replica : cache'[q] = cache[q] \/ (q = r /\ cache'[q] = v /\ link'[q] = m)
      BY <2>2 DEF TypeOK
    <3>2. \A q \in Replica : /\ pc'[q] = IF q = r THEN "idle" ELSE pc[q]
                             /\ askedAt'[q] = IF q = r THEN 0 ELSE askedAt[q]
                             /\ reply'[q] = IF q = r THEN None ELSE reply[q]
      BY <2>1 DEF Ended, TypeOK
    <3>3. \A q \in Replica : link'[q] = link[q] \/ (q = r /\ link'[q] = m)
      BY <2>2 DEF TypeOK
    <3> QED BY <3>1, <3>2, <3>3
  <2>8. Clocks'
    <3>1. SoundContact(shared)' /\ \A backup \in saved' : SoundContact(backup)'
      BY <2>1, <2>2, <2>3, <2>5 DEF Clocks, SoundContact
    <3>2. ASSUME NEW q \in Replica
          PROVE  /\ link'[q].applied <= now'
                 /\ pc'[q] = "asking" => askedAt'[q] <= Clock(q)'
                 /\ pc'[q] = "down" => link'[q] = Fresh
      BY <2>1, <2>3, <2>4, <2>5, <2>7 DEF Clocks, Clock
    <3>3. ASSUME NEW q \in Replica
          PROVE  /\ reply'[q] # None => InstalledAt <= reply'[q].issuedAt /\ reply'[q].issuedAt <= now'
                 /\ cache'[q] # None => /\ cache'[q].issuedAt <= now'
                                        /\ cache'[q].issuedAt <= Clock(q)' + Skew
      BY <2>1, <2>5, <2>7 DEF Clocks, Clock
    <3> QED BY <3>1, <3>2, <3>3 DEF Clocks
  <2>9. /\ IssuedAt(shared)' = s.issuedAt /\ SignedAt(shared)' = s.issuedAt
        /\ IssuedAt(shared) < s.issuedAt /\ SignedAt(shared) <= s.issuedAt
        /\ IssuedAt(shared) \in Nat
    BY <2>2, <2>3, <2>5, <2>6 DEF IssuedAt, SignedAt, TypeOK, Contact, InstalledAt
  <2>10. ASSUME NEW q \in Replica
         PROVE  \/ IssuedAt(cache[q])' = IssuedAt(cache[q]) /\ cache'[q] = cache[q]
                \/ q = r /\ IssuedAt(cache[q])' = s.issuedAt /\ link'[q] = m
    BY <2>1, <2>3, <2>7 DEF IssuedAt
  <2>11. \A q \in Replica : IssuedAt(cache[q]) \in Nat /\ link[q].applied \in Nat
    BY DEF IssuedAt, TypeOK, Verdict, Link
  \* What was ahead of the database before is not ahead of the committed verdict.
  <2>12. ASSUME NEW p \in Replica
         PROVE  /\ ~(link'[p].applied > s.issuedAt)
                /\ ~(IssuedAt(cache[p])' > s.issuedAt)
    <3>1. /\ link[p].applied > IssuedAt(shared) => v.issuedAt >= link[p].applied
          /\ IssuedAt(cache[p]) > IssuedAt(shared) => v.issuedAt >= IssuedAt(cache[p])
      <4>1. AheadOfDatabase(p, r) OBVIOUS
      <4> QED BY <2>1, <4>1 DEF AheadOfDatabase, v
    <3> QED BY <2>3, <2>4, <2>5, <2>7, <2>9, <2>10, <2>11, <3>1
  <2>13. \A p, q \in Replica : AheadOfDatabase(p, q)'
    BY <2>9, <2>12 DEF AheadOfDatabase
  <2>14. ASSUME NEW q \in Replica \ blind', pc'[q] # "down"
         PROVE  Informed(link[q], q)'
    <3>1. Informed(link[q], q)
      BY <2>1, <2>7, <2>14
    <3>2. link'[q].contact <= SignedAt(shared)' + Skew
      <4>1. link[q].contact \in Int /\ SignedAt(shared) \in Int
        BY DEF TypeOK, Link, SignedAt, Contact, InstalledAt
      <4> QED BY <2>3, <2>4, <2>5, <2>7, <2>9, <3>1, <4>1 DEF Informed
    <3>3. link'[q].applied >= IssuedAt(cache[q])'
      <4>1. CASE q = r
        BY <2>1, <2>3, <2>4, <2>5, <2>7, <2>10, <2>11, <3>1, <4>1 DEF Informed, v
      <4>2. CASE q # r
        BY <2>7, <2>10, <3>1, <4>2 DEF Informed
      <4> QED BY <4>1, <4>2
    <3> QED BY <2>9, <2>12, <3>2, <3>3 DEF Informed
  <2> QED BY <1>0, <2>8, <2>13, <2>14
<1> QED BY <1>1, <1>2, <1>3, <1>4, <1>5, <1>6, <1>7, <1>8, <1>9, <1>10, <1>11, <1>12,
           <1>14, <1>15, <1>16, <1>17, <1>18 DEF Next

------------------------------------------------------------------------------
(* Theorems *)

LEMMA InvInit ==
    ASSUME ConstantsAssumption, Init
    PROVE  IInv
BY DEF Init, IInv, TypeOK, Clocks, SoundContact, AheadOfDatabase, Link, Fresh, InstalledAt,
       ConstantsAssumption

LEMMA InvStutter ==
    ASSUME IInv, UNCHANGED vars
    PROVE  IInv'
<1>1. UNCHANGED <<now, vendor, shared, saved, cache, link, pc, askedAt, reply, blind,
                  decisions, faults>>
  BY DEF vars, database, process, bounds
<1>2. TypeOK'
  BY <1>1 DEF IInv, TypeOK
<1>3. Clocks'
  BY <1>1 DEF IInv, Clocks, SoundContact, Clock
<1>4. \A p, q \in Replica : AheadOfDatabase(p, q)'
  BY <1>1 DEF IInv, AheadOfDatabase, IssuedAt
<1>5. \A q \in Replica \ blind' : pc'[q] # "down" => Informed(link[q], q)'
  BY <1>1 DEF IInv, Informed, IssuedAt, SignedAt, Revoked
<1> QED BY <1>2, <1>3, <1>4, <1>5 DEF IInv

\* The inductive invariant holds in every behaviour: no verdict overtakes what a
\* replica knows, and a replica that booted with all it had to know stays informed.
THEOREM Invariance ==
    SafetySpec => []IInv
<1>1. Init => IInv BY ConstantsAssumption, InvInit
<1>2. IInv /\ [Next]_vars => IInv' BY ConstantsAssumption, InvStep, InvStutter
<1> QED BY <1>1, <1>2, PTL DEF SafetySpec

\* Type correctness.
THEOREM TypeCorrect ==
    SafetySpec => []TypeOK
<1>1. IInv => TypeOK BY DEF IInv
<1> QED BY <1>1, Invariance, PTL

\* An informed replica serves only on an active verdict that is recent enough.
LEMMA AdmitsInformed ==
    ASSUME ConstantsAssumption, IInv, NEW r \in Replica, Informed(link[r], r), Admits(r)
    PROVE  /\ ~Revoked(shared)
           /\ ~(Revoked(cache[r]) /\ IssuedAt(cache[r]) > IssuedAt(shared))
           /\ Clock(r) - SignedAt(shared) <= Window + Skew
<1> USE DEF IInv
<1> DEFINE t == Clock(r)
           m == Reconciled(link[r], t)
<1>1. /\ t \in Int /\ Skew \in Nat /\ Window \in Nat /\ None \notin Contact
      /\ link[r] \in Link /\ SignedAt(shared) \in Int
  BY DEF Clock, TypeOK, ConstantsAssumption, InstalledAt, SignedAt, Contact
<1>2. ~m.revoked /\ ~m.stale /\ pc[r] # "down"
  BY DEF Admits
<1>3. m.stale = Stale(m.contact, t)
  <2>1. CASE shared # None /\ shared.issuedAt >= link[r].applied
    BY <2>1 DEF Reconciled, Adopted
  <2>2. CASE ~(shared # None /\ shared.issuedAt >= link[r].applied)
    <3>1. m = Evaluated(link[r], t) BY <2>2 DEF Reconciled
    <3> QED BY <1>1, <3>1 DEF Evaluated, Link
  <2> QED BY <2>1, <2>2
<1>4. m \in Link /\ (Kept(link[r], m) \/ TakenOver(link[r], m))
  BY <1>1, ReconciledMoves DEF TypeOK
<1> HIDE DEF m
<1>5. m.contact <= SignedAt(shared) + Skew
  BY <1>4 DEF Kept, TakenOver, Informed, Clocks, SoundContact, SignedAt
<1>6. t - SignedAt(shared) <= Window + Skew
  BY <1>1, <1>2, <1>3, <1>4, <1>5 DEF Stale, Link
<1>7. CASE Kept(link[r], m)
  \* What it had applied is newer than the database, or there is nothing there.
  <2>1. \/ shared = None \/ link[r].applied > IssuedAt(shared)
        \/ TakenOver(link[r], m)
    <3>1. CASE shared # None /\ shared.issuedAt >= link[r].applied
      BY <1>1, <3>1, AdoptedTakes DEF m, Reconciled, TypeOK
    <3>2. CASE ~(shared # None /\ shared.issuedAt >= link[r].applied)
      BY <1>1, <3>2 DEF IssuedAt, TypeOK, Contact, Link
    <3> QED BY <3>1, <3>2
  <2>2. ~Revoked(shared)
    BY <1>2, <1>7, <2>1 DEF Kept, Informed, Revoked, TakenOver
  <2>3. ~(Revoked(cache[r]) /\ IssuedAt(cache[r]) > IssuedAt(shared))
    BY <1>2, <1>7 DEF Kept, Informed
  <2> QED BY <1>6, <2>2, <2>3
<1>8. CASE TakenOver(link[r], m)
  <2>1. ~Revoked(shared)
    BY <1>2, <1>8 DEF TakenOver, Revoked
  <2>2. ~(IssuedAt(cache[r]) > IssuedAt(shared))
    BY <1>1, <1>8 DEF TakenOver, Informed, IssuedAt, TypeOK, Verdict, Contact, Link
  <2> QED BY <1>6, <2>1, <2>2
<1> QED BY <1>4, <1>7, <1>8

\* No replica that booted informed serves while the database, or its own newer
\* cache, holds a revocation (restore, reconcileSharedState, blockIfRevoked).
THEOREM RevocationSurvives ==
    SafetySpec => []RevocationEnforced
<1>1. IInv => RevocationEnforced
  BY ConstantsAssumption, AdmitsInformed DEF RevocationEnforced, Admits, IInv
<1> QED BY <1>1, Invariance, PTL

\* What a replica serves on was signed at most the window and the skew before its
\* clock, for every offset of the clocks (evaluateStaleness, applicable).
THEOREM HeartbeatOrDie ==
    SafetySpec => []WindowBounded
<1>1. IInv => WindowBounded
  BY ConstantsAssumption, AdmitsInformed DEF WindowBounded, Admits, IInv
<1> QED BY <1>1, Invariance, PTL

\* A restarted process does not take again what its cache knows (restore).
THEOREM CacheNotReplayed ==
    SafetySpec => []NoReplay
<1>1. IInv => NoReplay
  BY DEF NoReplay, IInv, Informed
<1> QED BY <1>1, Invariance, PTL

\* Answers that return in any order only move the shared verdict forward, and only
\* to what the vendor signed (applyVendorHeartbeat).
THEOREM CommittedInOrder ==
    SafetySpec => VerdictsAdvance
<1>1. ASSUME IInv, [Next]_vars, shared' # shared, ~PutBack
      PROVE  /\ IssuedAt(shared') > IssuedAt(shared) \/ shared = None
             /\ \E r \in Replica : reply[r] = [status |-> shared'.status,
                                               issuedAt |-> shared'.issuedAt]
  <2>1. PICK r \in Replica : Answer(r) \/ AnswerUncertain(r)
    BY <1>1 DEF Next, vars, database, Tick, VendorDecides, BackUp, Ask, Serve, NoAnswer,
                AnswerLate, AnswerRefused, AnswerUnrecorded, Request, RequestUnread,
                Boot, BootUnread, BootUnrecorded, Crash, CacheLost
  <2> DEFINE v == reply[r]
  <2>2. v \in Verdict /\ Newer(v)
        /\ shared' = [status |-> v.status, issuedAt |-> v.issuedAt, contactAt |-> askedAt[r]]
    BY <1>1, <2>1 DEF Answer, AnswerUncertain, ContactOf, IInv, TypeOK
  <2>3. reply[r] = [status |-> shared'.status, issuedAt |-> shared'.issuedAt]
    BY <2>2 DEF Verdict
  <2>4. shared' # None
    <3>1. shared' \in Contact
      BY <1>1, <2>2 DEF Contact, Verdict, IInv, TypeOK
    <3> QED BY <3>1, ConstantsAssumption DEF ConstantsAssumption
  <2>5. IssuedAt(shared') > IssuedAt(shared) \/ shared = None
    BY <1>1, <2>2, <2>4 DEF Newer, IssuedAt, IInv, TypeOK, Contact, Verdict
  <2> QED BY <2>3, <2>5
<1> QED BY <1>1, Invariance, PTL DEF SafetySpec, VerdictsAdvance

\* A running process lifts a revocation only on the shared verdict, and only on one
\* that is not older than what it had applied (heartbeat, reconcileSharedState).
THEOREM LiftedOnlyByVerdict ==
    SafetySpec => LiftedByVerdict
<1>1. ASSUME IInv, [Next]_vars, NEW r \in Replica, pc[r] # "down", pc'[r] # "down",
             link[r].revoked, ~link'[r].revoked
      PROVE  shared' # None /\ ~Revoked(shared') /\ shared'.issuedAt >= link[r].applied
  <2> USE DEF IInv
  <2>1. link'[r] # link[r]
    BY <1>1
  <2>2. ASSUME NEW t, link'[r] = Reconciled(link[r], t)
                      \/ link'[r] = Evaluated(link[r], t)
                      \/ link'[r] = FailedClosed(link[r])
                      \/ link'[r] = Evaluated(Reconciled(link[r], t), t),
               shared' = shared
        PROVE  shared' # None /\ ~Revoked(shared') /\ shared'.issuedAt >= link[r].applied
    <3> DEFINE k == Reconciled(link[r], t)
    <3>1. k \in Link /\ (Kept(link[r], k) \/ TakenOver(link[r], k))
      BY <1>1, ConstantsAssumption, ReconciledMoves DEF TypeOK, ConstantsAssumption
    <3>2. Kept(k, Evaluated(k, t))
      BY <3>1, EvaluatedKeeps
    <3>3. Kept(link[r], Evaluated(link[r], t)) /\ Kept(link[r], FailedClosed(link[r]))
      BY <1>1, EvaluatedKeeps, FailedClosedKeeps DEF TypeOK
    <3> HIDE DEF k
    <3>4. Kept(link[r], link'[r]) \/ TakenOver(link[r], link'[r])
      BY <2>2, <3>1, <3>2, <3>3 DEF Kept, TakenOver, k
    <3> QED BY <1>1, <2>2, <3>4 DEF Kept, TakenOver, Revoked
  <2>3. PICK q \in Replica : \/ Ask(q) \/ NoAnswer(q) \/ Answer(q) \/ AnswerLate(q)
                             \/ AnswerRefused(q) \/ Request(q) \/ RequestUnread(q)
                             \/ Boot(q) \/ BootUnread(q) \/ BootUnrecorded(q) \/ Crash(q)
    BY <1>1, <2>1 DEF Next, vars, process, Tick, VendorDecides, BackUp, PutBack, Serve,
                      AnswerUnrecorded, AnswerUncertain, CacheLost
  <2>4. q = r
    BY <1>1, <2>1, <2>3 DEF TypeOK, Ask, NoAnswer, Answer, AnswerLate, AnswerRefused, Request,
                       RequestUnread, Boot, BootUnread, BootUnrecorded, Crash
  <2>5. ~(Boot(q) \/ BootUnread(q) \/ BootUnrecorded(q) \/ Crash(q))
    BY <1>1, <2>4 DEF Boot, BootUnread, BootUnrecorded, Crash, TypeOK
  <2>6. CASE Ask(q) \/ Request(q) \/ RequestUnread(q)
    <3>1. link'[r] \in {Reconciled(link[r], Clock(r)), FailedClosed(link[r])} /\ shared' = shared
      BY <1>1, <2>4, <2>6 DEF Ask, Request, RequestUnread, TypeOK, database
    <3> QED BY <2>2, <3>1
  <2>7. CASE NoAnswer(q) \/ AnswerRefused(q)
    <3>1. /\ link'[r] \in {Evaluated(link[r], askedAt[r]),
                           Evaluated(Reconciled(link[r], askedAt[r]), askedAt[r])}
          /\ shared' = shared
      BY <1>1, <2>4, <2>7 DEF NoAnswer, AnswerRefused, TypeOK, database
    <3> QED BY <2>2, <3>1
  <2>8. CASE AnswerLate(q)
    <3>1. shared \in Contact /\ shared.issuedAt >= link[r].applied /\ shared' = shared
      BY <1>1, <2>4, <2>8 DEF AnswerLate, Newer, TypeOK, Contact, Verdict, Link, database
    <3>2. link'[r] = Adopted(link[r], shared, askedAt[r])
      BY <1>1, <2>4, <2>8 DEF AnswerLate, TypeOK
    <3>3. TakenOver(link[r], link'[r])
      BY <1>1, <3>1, <3>2, ConstantsAssumption, AdoptedTakes DEF TypeOK, ConstantsAssumption
    <3> QED BY <1>1, <3>1, <3>3 DEF TakenOver, Revoked
  <2>9. CASE Answer(q)
    <3> DEFINE v == reply[r]
               s == ContactOf(v, askedAt[r])
    <3>1. v \in Verdict /\ v.issuedAt > link[r].applied /\ shared' = s
          /\ link' = [link EXCEPT ![r] = Adopted(@, s, askedAt[r])]
      BY <1>1, <2>4, <2>9 DEF Answer, TypeOK
    <3>2. s \in Contact
      BY <1>1, <3>1 DEF Verdict, Contact, ContactOf, TypeOK
    <3>3. link'[r].revoked = (s.status = "revoked")
      BY <1>1, <3>1 DEF Adopted, TypeOK
    <3>4. shared' # None /\ ~Revoked(shared')
      <4>1. s # None BY <3>2, ConstantsAssumption DEF ConstantsAssumption
      <4>2. ~(s.status = "revoked") BY <1>1, <3>3
      <4> QED BY <3>1, <4>1, <4>2 DEF Revoked
    <3>5. shared'.issuedAt >= link[r].applied
      <4>1. shared'.issuedAt = v.issuedAt BY <3>1 DEF ContactOf
      <4>2. link[r].applied \in Nat BY <1>1 DEF TypeOK, Link
      <4>3. v.issuedAt \in Nat BY <3>1 DEF Verdict
      <4> HIDE DEF v
      <4> QED BY <3>1, <4>1, <4>2, <4>3
    <3> QED BY <3>4, <3>5
  <2> QED BY <2>3, <2>5, <2>6, <2>7, <2>8, <2>9
<1>2. IInv /\ [Next]_vars =>
         [\A r \in Replica :
             pc[r] # "down" /\ pc'[r] # "down" /\ link[r].revoked /\ ~link'[r].revoked
             => shared' # None /\ ~Revoked(shared') /\ shared'.issuedAt >= link[r].applied]_vars
  BY <1>1
<1> QED BY <1>2, Invariance, PTL DEF SafetySpec, LiftedByVerdict
=============================================================================
