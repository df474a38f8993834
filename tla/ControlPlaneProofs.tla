-------------------------- MODULE ControlPlaneProofs --------------------------
(* For any number of instances, accounts, invitations and codes: a recovery code *)
(* is taken once, a name has an account in one source, only a token that counts  *)
(* creates one, and a client that keeps failing is locked out.  Last, every part *)
(* of the control plane keeps its state well formed.                             *)
EXTENDS MCControlPlane, FileMutationLockProofs, ServerProofs, FiniteSetTheorems,
        SequenceTheorems, TLAPS

(* A code was taken as often as it is in the table of used codes.                *)
CodesInv ==
    /\ granted \in [RecoveryCode -> Nat]
    /\ \A c \in RecoveryCode : granted[c] = IF c \in used THEN 1 ELSE 0

(* A recovery code opens at most one session, whichever instances it is sent to  *)
(* (consumeMfaRecoveryCode and the primary key of mfa_recovery_used).            *)
THEOREM CodesTakenOnce == SessionSpec => []RecoveryCodeOnce
<1>1. SessionInit => CodesInv BY DEF SessionInit, CodesInv
<1>2. CodesInv /\ [SessionNext]_sessionVars => CodesInv'
  <2> SUFFICES ASSUME CodesInv, [SessionNext]_sessionVars PROVE CodesInv' OBVIOUS
  <2>1. ASSUME UNCHANGED <<used, granted>> PROVE CodesInv' BY <2>1 DEF CodesInv
  <2>2. ASSUME NEW s \in Server, Redeem(s) PROVE CodesInv'
    <3>1. CASE handler[s].code \in used BY <2>1, <2>2, <3>1 DEF Redeem, Redeemable
    <3>2. CASE handler[s].code \notin used
      <4>1. /\ used' = used \cup {handler[s].code}
            /\ granted' = [granted EXCEPT ![handler[s].code] = @ + 1]
        BY <2>2, <3>2 DEF Redeem, Redeemable
      <4>2. ASSUME NEW x, x \notin used, used' = used \cup {x},
                   granted' = [granted EXCEPT ![x] = @ + 1]
            PROVE  CodesInv'
        <5>1. granted' \in [RecoveryCode -> Nat]
          <6>1. x \in RecoveryCode => granted[x] + 1 \in Nat BY DEF CodesInv
          <6> QED BY <4>2, <6>1 DEF CodesInv
        <5>2. ASSUME NEW c \in RecoveryCode PROVE granted'[c] = IF c \in used' THEN 1 ELSE 0
            BY <4>2 DEF CodesInv
        <5> QED BY <5>1, <5>2 DEF CodesInv
      <4> QED BY <3>2, <4>1, <4>2
    <3> QED BY <3>1, <3>2
  <2>3. CASE UNCHANGED sessionVars BY <2>1, <2>3 DEF sessionVars
  <2>4. CASE TickPasses BY <2>1, <2>4 DEF TickPasses
  <2>5. ASSUME NEW s \in Server,
               Abandon(s) \/ LoginIssues(s) \/ LogoutCommits(s) \/ ChangeCommits(s)
        PROVE  UNCHANGED <<used, granted>>
      BY <2>5 DEF Abandon, LoginIssues, LogoutCommits, ChangeCommits
  <2>6. ASSUME NEW s \in Server,
               \/ \E a \in Account : LoginReads(s, a)
               \/ \E c \in cookies : StepUp(s, c) \/ LogoutBegins(s, c)
               \/ \E a \in Account, next \in AccountState : SaveBegins(s, a, next)
               \/ \E a \in Account, role \in AccountRole : GroupBegins(s, a, role)
        PROVE  UNCHANGED <<used, granted>>
      BY <2>6 DEF LoginReads, StepUp, LogoutBegins, SaveBegins, GroupBegins
  <2> QED BY <2>1, <2>2, <2>3, <2>4, <2>5, <2>6 DEF SessionNext
<1>3. CodesInv => RecoveryCodeOnce BY DEF CodesInv, RecoveryCodeOnce
<1> QED BY <1>1, <1>2, <1>3, PTL DEF SessionSpec

-----------------------------------------------------------------------------
(* Provisioning *)

Managing == {"resend", "revoke", "accept", "expire"}

(* A request knows the invitation it works on; once it has locked it, nobody     *)
(* else changes it, and it can still be resent, revoked, expired or accepted.    *)
InvitationKnown(p) ==
    task[p].op \in Managing =>
        /\ task[p].id \in Invitation /\ task[p].seen \in Invite
        /\ invitations[task[p].id] # Nothing
        /\ task[p].op \in {"resend", "revoke"} => task[p].seen.status \in {"pending", "expired"}
        /\ task[p].stage \in {"locked", "named"} =>
              /\ inviteLock[task[p].id] = p
              /\ invitations[task[p].id].token = task[p].seen.token
              /\ invitations[task[p].id].status \in {"pending", "expired"}

(* A request that has locked a name found no account of it, and none appears.    *)
NameKnown(p) ==
    task[p].op \in {"accept", "provision"} =>
        /\ NameOf(p) \in Name
        /\ task[p].stage = "named" => nameLock[NameOf(p)] = p /\ ~Exists(NameOf(p))

(* A token belongs to one invitation, and counts unless that is revoked.         *)
TokensKnown ==
    \A i \in Invitation : invitations[i] # Nothing =>
        /\ invitations[i].status # "revoked" => invitations[i].token \notin dead
        /\ \A j \in Invitation \ {i} :
              invitations[j] # Nothing => invitations[j].token # invitations[i].token

AccountsKnown ==
    \A n \in Name : localUsers[n] # Nothing =>
        \E i \in Invitation : /\ invitations[i] # Nothing /\ invitations[i].status = "accepted"
                              /\ invitations[i].token = localUsers[n]

ProvisioningShapes ==
    /\ day \in Nat
    /\ invitations \in [Invitation -> Invite \cup {Nothing}]
    /\ localUsers \in [Name -> InviteToken \cup {Nothing}]
    /\ scimUsers \in [Name -> BOOLEAN]
    /\ inviteLock \in [Invitation -> Node \cup {Nothing}]
    /\ nameLock \in [Name -> Node \cup {Nothing}]
    /\ task \in [Node -> Requests]

ProvisioningInv ==
    /\ ProvisioningShapes /\ TokensKnown /\ AccountsKnown /\ OneSource
    /\ \A p \in Node : InvitationKnown(p) /\ NameKnown(p)

LEMMA ProvisioningStarts == ProvisioningInit => ProvisioningInv
<1> SUFFICES ASSUME ProvisioningInit PROVE ProvisioningInv OBVIOUS
<1>1. NoTask \in Requests BY DEF Requests
<1>2. ProvisioningShapes BY <1>1 DEF ProvisioningInit, ProvisioningShapes
<1>3. TokensKnown /\ AccountsKnown /\ OneSource
    BY DEF ProvisioningInit, TokensKnown, AccountsKnown, OneSource
<1>4. \A p \in Node : InvitationKnown(p) /\ NameKnown(p)
    BY DEF ProvisioningInit, InvitationKnown, NameKnown, NoTask, Managing
<1> QED BY <1>2, <1>3, <1>4 DEF ProvisioningInv

LEMMA FreshTokens ==
    ASSUME ProvisioningInv, Issuable # {}
    PROVE  /\ FreshToken \in InviteToken /\ FreshToken \notin dead
           /\ \A i \in Invitation : invitations[i] # Nothing => invitations[i].token # FreshToken
<1>1. FreshToken \in Issuable BY DEF FreshToken
<1> HIDE DEF FreshToken
<1> QED BY <1>1 DEF Issuable

(* What a step of request p must leave alone, so that the others stay known.     *)
Apart(p) ==
    /\ \A q \in Node \ {p} : task'[q] = task[q]
    /\ \A i \in Invitation, q \in Node \ {p} : inviteLock[i] = q => inviteLock'[i] = q
    /\ \A n \in Name, q \in Node \ {p} : nameLock[n] = q => nameLock'[n] = q
    /\ \A i \in Invitation :
          /\ invitations[i] # Nothing => invitations'[i] # Nothing
          /\ inviteLock[i] # p => invitations'[i] = invitations[i]
    /\ \A n \in Name : nameLock[n] # p => (Exists(n)' <=> Exists(n))

LEMMA OthersKnown ==
    ASSUME ProvisioningInv, NEW p \in Node, Apart(p), NEW q \in Node \ {p}
    PROVE  InvitationKnown(q)' /\ NameKnown(q)'
<1>1. InvitationKnown(q) /\ NameKnown(q) /\ task'[q] = task[q]
    BY DEF ProvisioningInv, Apart
<1>2. InvitationKnown(q)' BY <1>1 DEF InvitationKnown, Apart, Managing
<1>3. NameOf(q)' = NameOf(q) BY <1>1 DEF NameOf
<1>4. NameKnown(q)'
  <2> SUFFICES ASSUME task[q].op \in {"accept", "provision"}
               PROVE  /\ NameOf(q) \in Name
                      /\ task[q].stage = "named" =>
                            nameLock'[NameOf(q)] = q /\ ~Exists(NameOf(q))'
    BY <1>1, <1>3 DEF NameKnown
  <2>1. NameOf(q) \in Name BY <1>1 DEF NameKnown
  <2>2. ASSUME task[q].stage = "named" PROVE nameLock'[NameOf(q)] = q /\ ~Exists(NameOf(q))'
    <3>1. nameLock[NameOf(q)] = q /\ ~Exists(NameOf(q)) BY <1>1, <2>2 DEF NameKnown
    <3> HIDE DEF NameOf
    <3>2. ASSUME NEW n \in Name, nameLock[n] = q, ~Exists(n)
          PROVE  nameLock'[n] = q /\ ~Exists(n)'
      BY <3>2 DEF Apart
    <3> QED BY <1>3, <2>1, <3>1, <3>2 DEF Exists
  <2> QED BY <2>1, <2>2
<1> QED BY <1>2, <1>4

(* A request that has ended, or that nobody made.                                *)
LEMMA TaskEnded ==
    ASSUME ProvisioningInv, NEW p \in Node, task' = [task EXCEPT ![p] = NoTask]
    PROVE  InvitationKnown(p)' /\ NameKnown(p)' /\ task' \in [Node -> Requests]
<1>1. NoTask \in Requests /\ task \in [Node -> Requests]
    BY DEF ProvisioningInv, ProvisioningShapes, Requests
<1>2. task'[p] = NoTask /\ task' \in [Node -> Requests]
  <2> HIDE DEF NoTask
  <2> QED BY <1>1
<1>3. task'[p].op = "none" BY <1>2 DEF NoTask
<1> QED BY <1>2, <1>3 DEF InvitationKnown, NameKnown, Managing

LEMMA Finishing ==
    ASSUME ProvisioningInv, NEW p \in Node, Finish(p)
    PROVE  /\ task' \in [Node -> Requests]
           /\ inviteLock' \in [Invitation -> Node \cup {Nothing}]
           /\ nameLock' \in [Name -> Node \cup {Nothing}]
           /\ InvitationKnown(p)' /\ NameKnown(p)'
           /\ \A q \in Node \ {p} : task'[q] = task[q]
           /\ \A i \in Invitation, q \in Node \ {p} : inviteLock[i] = q => inviteLock'[i] = q
           /\ \A n \in Name, q \in Node \ {p} : nameLock[n] = q => nameLock'[n] = q
<1>1. task' = [task EXCEPT ![p] = NoTask] BY DEF Finish
<1>2. /\ inviteLock' \in [Invitation -> Node \cup {Nothing}]
      /\ nameLock' \in [Name -> Node \cup {Nothing}]
    BY DEF ProvisioningInv, ProvisioningShapes, Finish
<1>3. \A q \in Node \ {p} : task'[q] = task[q] BY <1>1 DEF ProvisioningInv, ProvisioningShapes
<1>4. /\ \A i \in Invitation, q \in Node \ {p} : inviteLock[i] = q => inviteLock'[i] = q
      /\ \A n \in Name, q \in Node \ {p} : nameLock[n] = q => nameLock'[n] = q
    BY DEF Finish
<1> QED BY <1>1, <1>2, <1>3, <1>4, TaskEnded

LEMMA ClockAndNew ==
    ASSUME ProvisioningInv,
           DayPasses \/ \E i \in Invitation, n \in Name : CreateInvitation(i, n)
    PROVE  ProvisioningInv'
<1> USE ProvisioningAssumption
<1>1. CASE DayPasses
  BY <1>1 DEF DayPasses, ProvisioningInv, ProvisioningShapes, TokensKnown, AccountsKnown, OneSource,
              InvitationKnown, NameKnown, NameOf, Exists
<1>2. ASSUME NEW i \in Invitation, NEW n \in Name, CreateInvitation(i, n) PROVE ProvisioningInv'
  <2> DEFINE v == [status |-> "pending", token |-> FreshToken, name |-> n,
                   expiresAt |-> day + Validity]
  <2>1. /\ invitations[i] = Nothing /\ invitations' = [invitations EXCEPT ![i] = v]
        /\ UNCHANGED <<day, localUsers, scimUsers, inviteLock, nameLock, task, dead>>
    BY <1>2 DEF CreateInvitation
  <2>2. /\ FreshToken \in InviteToken /\ FreshToken \notin dead
        /\ \A j \in Invitation : invitations[j] # Nothing => invitations[j].token # FreshToken
    BY <1>2, FreshTokens DEF CreateInvitation
  <2>3. v \in Invite /\ v # Nothing /\ v.token = FreshToken /\ v.status = "pending"
    BY <2>2 DEF Invite, Status, ProvisioningInv, ProvisioningShapes
  <2> HIDE DEF v
  <2>4. ProvisioningShapes' BY <2>1, <2>3 DEF ProvisioningInv, ProvisioningShapes
  <2>5. \A j \in Invitation \ {i} : invitations'[j] = invitations[j]
    BY <2>1 DEF ProvisioningInv, ProvisioningShapes
  <2>6. invitations'[i] = v BY <2>1 DEF ProvisioningInv, ProvisioningShapes
  <2>7. TokensKnown' BY <2>1, <2>2, <2>3, <2>5, <2>6 DEF ProvisioningInv, TokensKnown
  <2>8. AccountsKnown' /\ OneSource' BY <2>1, <2>5 DEF ProvisioningInv, AccountsKnown, OneSource
  <2>9. ASSUME NEW p \in Node PROVE InvitationKnown(p)' /\ NameKnown(p)'
    <3>1. InvitationKnown(p) /\ NameKnown(p) BY DEF ProvisioningInv
    <3>2. InvitationKnown(p)' BY <2>1, <2>5, <3>1 DEF InvitationKnown, Managing
    <3>3. NameKnown(p)' BY <2>1, <3>1 DEF NameKnown, NameOf, Exists
    <3> QED BY <3>2, <3>3
  <2> QED BY <2>4, <2>7, <2>8, <2>9 DEF ProvisioningInv
<1> QED BY <1>1, <1>2

(* What the records become when a step changes none of them.                     *)
LEMMA RecordsStay ==
    ASSUME ProvisioningInv, UNCHANGED <<day, invitations, localUsers, scimUsers, dead>>
    PROVE  /\ day' \in Nat /\ invitations' \in [Invitation -> Invite \cup {Nothing}]
           /\ localUsers' \in [Name -> InviteToken \cup {Nothing}]
           /\ scimUsers' \in [Name -> BOOLEAN]
           /\ TokensKnown' /\ AccountsKnown' /\ OneSource'
BY DEF ProvisioningInv, ProvisioningShapes, TokensKnown, AccountsKnown, OneSource

LEMMA ReadsKeep ==
    ASSUME ProvisioningInv, NEW p \in Node,
           \/ \E i \in Invitation : ManageReads(p, i) \/ AcceptReads(p, i)
           \/ \E n \in Name : ProvisionReads(p, n)
    PROVE  ProvisioningInv'
<1>1. UNCHANGED <<day, invitations, localUsers, scimUsers, inviteLock, nameLock, dead>>
    BY DEF ManageReads, AcceptReads, ProvisionReads, Reads
<1>2. PICK t \in Requests :
         /\ task' = [task EXCEPT ![p] = t]
         /\ t.stage = "read"
         /\ \/ /\ t.op \in Managing /\ t.id \in Invitation /\ t.seen = invitations[t.id]
               /\ t.seen \in Invite /\ t.seen # Nothing
               /\ t.op \in {"resend", "revoke"} => t.seen.status \in {"pending", "expired"}
            \/ t.op = "provision" /\ t.name \in Name
  <2>1. ASSUME NEW i \in Invitation, NEW op \in Managing, Reads(p, op, i),
               invitations[i] # Nothing,
               op \in {"resend", "revoke"} => invitations[i].status \in {"pending", "expired"}
        PROVE  \E t \in Requests :
                  /\ task' = [task EXCEPT ![p] = t]
                  /\ t.stage = "read"
                  /\ t.op \in Managing /\ t.id \in Invitation /\ t.seen = invitations[t.id]
                  /\ t.seen \in Invite /\ t.seen # Nothing
                  /\ t.op \in {"resend", "revoke"} => t.seen.status \in {"pending", "expired"}
    <3> DEFINE t == [op |-> op, id |-> i, seen |-> invitations[i], stage |-> "read"]
    <3>1. invitations[i] \in Invite BY <2>1 DEF ProvisioningInv, ProvisioningShapes
    <3>2. t \in Requests BY <3>1 DEF Requests, Managing
    <3> QED BY <2>1, <3>1, <3>2 DEF Reads
  <2>2. ASSUME NEW n \in Name, ProvisionReads(p, n)
        PROVE  \E t \in Requests : /\ task' = [task EXCEPT ![p] = t] /\ t.stage = "read"
                                   /\ t.op = "provision" /\ t.name \in Name
    <3> DEFINE t == [op |-> "provision", name |-> n, stage |-> "read"]
    <3>1. t \in Requests BY DEF Requests
    <3> QED BY <2>2, <3>1 DEF ProvisionReads
  <2>3. ASSUME NEW i \in Invitation, ManageReads(p, i) \/ AcceptReads(p, i)
        PROVE  \E op \in Managing :
                  /\ Reads(p, op, i) /\ invitations[i] # Nothing
                  /\ op \in {"resend", "revoke"} => invitations[i].status \in {"pending", "expired"}
    BY <2>3 DEF ManageReads, AcceptReads, Managing
  <2> QED BY <2>1, <2>2, <2>3
<1>3. task' \in [Node -> Requests] /\ task'[p] = t /\ \A q \in Node \ {p} : task'[q] = task[q]
    BY <1>2 DEF ProvisioningInv, ProvisioningShapes
<1>4. Apart(p) BY <1>1, <1>3 DEF Apart, Exists
<1>5. InvitationKnown(p)' BY <1>1, <1>2, <1>3 DEF InvitationKnown, Managing
<1>6. NameKnown(p)' BY <1>1, <1>2, <1>3 DEF NameKnown, NameOf, Managing, Invite
<1>7. inviteLock' \in [Invitation -> Node \cup {Nothing}]
      /\ nameLock' \in [Name -> Node \cup {Nothing}]
    BY <1>1 DEF ProvisioningInv, ProvisioningShapes
<1>8. \A q \in Node : InvitationKnown(q)' /\ NameKnown(q)' BY <1>4, <1>5, <1>6, OthersKnown
<1> QED BY <1>1, <1>3, <1>7, <1>8, RecordsStay DEF ProvisioningInv, ProvisioningShapes

(* A request that ends without a change.                                         *)
LEMMA EndsKeep ==
    ASSUME ProvisioningInv, NEW p \in Node, Finish(p),
           UNCHANGED <<day, invitations, localUsers, scimUsers, dead>>
    PROVE  ProvisioningInv'
<1>1. Apart(p) BY Finishing DEF Apart, Exists
<1>2. \A q \in Node : InvitationKnown(q)' /\ NameKnown(q)' BY <1>1, OthersKnown, Finishing
<1> QED BY <1>2, Finishing, RecordsStay DEF ProvisioningInv, ProvisioningShapes

LEMMA Staged ==
    ASSUME ProvisioningInv, NEW p \in Node, NEW s \in {"locked", "named"},
           task[p].op # "none", task[p].op = "provision" => s = "named",
           task' = [task EXCEPT ![p].stage = s]
    PROVE  /\ task' \in [Node -> Requests]
           /\ \A q \in Node \ {p} : task'[q] = task[q]
           /\ task'[p].op = task[p].op /\ task'[p].stage = s
           /\ task[p].op \in Managing => task'[p].id = task[p].id /\ task'[p].seen = task[p].seen
           /\ task[p].op = "provision" => task'[p].name = task[p].name
<1>1. task[p] \in Requests /\ task \in [Node -> Requests]
    BY DEF ProvisioningInv, ProvisioningShapes
<1> DEFINE t == [task[p] EXCEPT !.stage = s]
<1>2. CASE task[p].op = "provision"
  <2>1. task[p] \in [op : {"provision"}, name : Name, stage : {"read", "named"}]
    BY <1>1, <1>2 DEF Requests, NoTask
  <2>2. t \in Requests /\ t.op = task[p].op /\ t.stage = s /\ t.name = task[p].name
    BY <1>2, <2>1 DEF Requests
  <2> QED BY <1>1, <1>2, <2>2 DEF Managing
<1>3. CASE task[p].op # "provision"
  <2>1. task[p] \in [op : Managing, id : Invitation, seen : Invite,
                     stage : {"read", "locked", "named"}]
    BY <1>1, <1>3 DEF Requests, NoTask, Managing
  <2>2. /\ t \in Requests /\ t.op = task[p].op /\ t.stage = s
        /\ t.id = task[p].id /\ t.seen = task[p].seen
    BY <2>1 DEF Requests, Managing
  <2> QED BY <1>1, <1>3, <2>2
<1> QED BY <1>2, <1>3

LEMMA LocksKeep ==
    ASSUME ProvisioningInv, NEW p \in Node, LockInvitation(p) \/ LockName(p)
    PROVE  ProvisioningInv'
<1> USE ProvisioningAssumption
<1>0. InvitationKnown(p) /\ NameKnown(p) /\ task[p] \in Requests
    BY DEF ProvisioningInv, ProvisioningShapes
<1>1. UNCHANGED <<day, invitations, localUsers, scimUsers, dead>> BY DEF LockInvitation, LockName
<1>2. CASE LockInvitation(p)
  <2>1. task[p].op \in Managing BY <1>0, <1>2 DEF LockInvitation, Requests, NoTask, Managing
  <2>2. CASE task' = [task EXCEPT ![p] = NoTask] /\ UNCHANGED inviteLock
    <3>1. /\ InvitationKnown(p)' /\ NameKnown(p)' /\ task' \in [Node -> Requests]
      BY <2>2, TaskEnded
    <3>2. Apart(p) BY <1>1, <1>2, <2>2 DEF LockInvitation, Apart, Exists, ProvisioningInv, ProvisioningShapes
    <3>3. \A q \in Node : InvitationKnown(q)' /\ NameKnown(q)' BY <3>1, <3>2, OthersKnown
    <3> QED BY <1>1, <1>2, <2>2, <3>1, <3>3, RecordsStay
            DEF LockInvitation, ProvisioningInv, ProvisioningShapes
  <2>3. CASE /\ StillSeen(p) /\ StillFit(p)
             /\ inviteLock' = [inviteLock EXCEPT ![task[p].id] = p]
             /\ task' = [task EXCEPT ![p].stage = "locked"]
    <3>0. /\ task[p].op # "provision" /\ task[p].op # "none"
          /\ inviteLock[task[p].id] = Nothing /\ UNCHANGED nameLock
      BY <1>2, <2>1 DEF LockInvitation, Managing
    <3>1. /\ task' \in [Node -> Requests] /\ \A q \in Node \ {p} : task'[q] = task[q]
          /\ task'[p].op = task[p].op /\ task'[p].stage = "locked"
          /\ task'[p].id = task[p].id /\ task'[p].seen = task[p].seen
      BY <2>1, <2>3, <3>0, Staged
    <3>2. /\ task[p].id \in Invitation /\ task[p].seen \in Invite
          /\ invitations[task[p].id] # Nothing
          /\ task[p].op \in {"resend", "revoke"} => task[p].seen.status \in {"pending", "expired"}
      BY <1>0, <2>1 DEF InvitationKnown
    <3>3. /\ invitations[task[p].id].token = task[p].seen.token
          /\ invitations[task[p].id].status \in {"pending", "expired"}
      BY <2>1, <2>3, <3>2 DEF StillSeen, StillFit, InvitationInspected, Managing
    <3>4. /\ inviteLock'[task[p].id] = p
          /\ inviteLock' \in [Invitation -> Node \cup {Nothing}]
      BY <2>3, <3>2 DEF ProvisioningInv, ProvisioningShapes
    <3>5. Apart(p) BY <1>1, <2>3, <3>0, <3>1, <3>2 DEF Apart, Exists, ProvisioningInv, ProvisioningShapes
    <3>6. InvitationKnown(p)' BY <1>1, <3>1, <3>2, <3>3, <3>4 DEF InvitationKnown
    <3>7. NameKnown(p)'
      <4>1. NameOf(p)' = NameOf(p) BY <3>0, <3>1 DEF NameOf
      <4> QED BY <1>0, <3>1, <4>1 DEF NameKnown
    <3>8. \A q \in Node : InvitationKnown(q)' /\ NameKnown(q)' BY <3>5, <3>6, <3>7, OthersKnown
    <3> QED BY <1>1, <3>0, <3>1, <3>4, <3>8, RecordsStay DEF ProvisioningInv, ProvisioningShapes
  <2> QED BY <1>2, <2>2, <2>3 DEF LockInvitation
<1>3. CASE LockName(p)
  <2>1. task[p].op \in {"accept", "provision"} /\ NameOf(p) \in Name
    BY <1>0, <1>3 DEF LockName, NameKnown
  <2>2. CASE Finish(p) BY <1>1, <2>2, EndsKeep
  <2>3. CASE /\ ~Exists(NameOf(p))
             /\ nameLock' = [nameLock EXCEPT ![NameOf(p)] = p]
             /\ task' = [task EXCEPT ![p].stage = "named"]
             /\ UNCHANGED inviteLock
    <3>0. nameLock[NameOf(p)] = Nothing BY <1>3 DEF LockName, NameFree
    <3>1. /\ task' \in [Node -> Requests] /\ \A q \in Node \ {p} : task'[q] = task[q]
          /\ task'[p].op = task[p].op /\ task'[p].stage = "named"
          /\ task[p].op \in Managing => task'[p].id = task[p].id /\ task'[p].seen = task[p].seen
          /\ task[p].op = "provision" => task'[p].name = task[p].name
      BY <2>1, <2>3, Staged
    <3>2. NameOf(p)' = NameOf(p) BY <2>1, <3>1 DEF NameOf, Managing
    <3>3. nameLock'[NameOf(p)] = p /\ nameLock' \in [Name -> Node \cup {Nothing}]
      <4> HIDE DEF NameOf
      <4> QED BY <2>1, <2>3 DEF ProvisioningInv, ProvisioningShapes
    <3>4. Apart(p)
      <4> HIDE DEF NameOf
      <4>1. \A n \in Name, q \in Node \ {p} : nameLock[n] = q => nameLock'[n] = q
        BY <2>1, <2>3, <3>0 DEF ProvisioningInv, ProvisioningShapes
      <4> QED BY <1>1, <2>3, <3>1, <4>1 DEF Apart, Exists
    <3>5. InvitationKnown(p)'
      <4>1. task[p].op = "accept" => task[p].stage = "locked" BY <1>3 DEF LockName
      <4> QED BY <1>0, <1>1, <2>1, <2>3, <3>1, <4>1 DEF InvitationKnown, Managing
    <3>6. NameKnown(p)'
      <4>1. ~Exists(NameOf(p))' BY <1>1, <2>3, <3>2 DEF Exists
      <4>2. nameLock'[NameOf(p)'] = p /\ NameOf(p)' \in Name BY <2>1, <3>2, <3>3
      <4> QED BY <4>1, <4>2 DEF NameKnown
    <3>7. \A q \in Node : InvitationKnown(q)' /\ NameKnown(q)' BY <3>4, <3>5, <3>6, OthersKnown
    <3> QED BY <1>1, <2>3, <3>1, <3>3, <3>7, RecordsStay DEF ProvisioningInv, ProvisioningShapes
  <2> QED BY <1>3, <2>2, <2>3 DEF LockName
<1> QED BY <1>2, <1>3

(* A commit replaces the invitation its request has locked.                      *)
LEMMA Replaced ==
    ASSUME ProvisioningInv, NEW p \in Node, Finish(p),
           task[p].op \in Managing, task[p].stage \in {"locked", "named"},
           NEW v \in Invite, invitations' = [invitations EXCEPT ![task[p].id] = v],
           \/ v.token = task[p].seen.token /\ (dead' = dead \/ v.status = "revoked")
           \/ /\ v.token \notin dead /\ v.token # task[p].seen.token
              /\ \A i \in Invitation : invitations[i] # Nothing => invitations[i].token # v.token,
           dead' \in {dead, dead \cup {task[p].seen.token}}
    PROVE  /\ invitations' \in [Invitation -> Invite \cup {Nothing}]
           /\ TokensKnown'
           /\ \A i \in Invitation : /\ invitations[i] # Nothing => invitations'[i] # Nothing
                                    /\ inviteLock[i] # p => invitations'[i] = invitations[i]
           /\ invitations'[task[p].id] = v
           /\ \A i \in Invitation : invitations[i] # Nothing /\ invitations[i].status = "accepted"
                  => invitations'[i] = invitations[i]
<1> USE ProvisioningAssumption
<1> DEFINE k == task[p].id
           old == task[p].seen.token
<1>1. /\ k \in Invitation /\ invitations[k] # Nothing /\ inviteLock[k] = p
      /\ invitations[k].token = old /\ invitations[k].status \in {"pending", "expired"}
    BY DEF ProvisioningInv, InvitationKnown
<1>2. /\ invitations' \in [Invitation -> Invite \cup {Nothing}]
      /\ invitations'[k] = v /\ v # Nothing
      /\ \A i \in Invitation \ {k} : invitations'[i] = invitations[i]
    BY <1>1 DEF ProvisioningInv, ProvisioningShapes
<1>3. ASSUME NEW i \in Invitation \ {k}, invitations[i] # Nothing
      PROVE  /\ invitations[i].token # old /\ invitations[i].token # v.token
             /\ invitations[i].status # "revoked" => invitations[i].token \notin dead
    BY <1>1, <1>3 DEF ProvisioningInv, TokensKnown
<1>4. v.status # "revoked" => v.token \notin dead'
  <2>1. old \notin dead BY <1>1 DEF ProvisioningInv, TokensKnown
  <2> QED BY <2>1
<1>5. TokensKnown'
  <2> SUFFICES ASSUME NEW i \in Invitation, invitations'[i] # Nothing
               PROVE  /\ invitations'[i].status # "revoked" => invitations'[i].token \notin dead'
                      /\ \A j \in Invitation \ {i} :
                            invitations'[j] # Nothing => invitations'[j].token # invitations'[i].token
    BY DEF TokensKnown
  <2>1. CASE i = k BY <1>2, <1>3, <1>4, <2>1
  <2>2. CASE i # k
    <3>1. \A j \in Invitation \ {i, k} :
              invitations[j] # Nothing => invitations[j].token # invitations[i].token
      BY <1>2, <2>2 DEF ProvisioningInv, TokensKnown
    <3> QED BY <1>2, <1>3, <2>2, <3>1
  <2> QED BY <2>1, <2>2
<1>6. \A i \in Invitation : /\ invitations[i] # Nothing => invitations'[i] # Nothing
                            /\ inviteLock[i] # p => invitations'[i] = invitations[i]
    BY <1>1, <1>2
<1>7. \A i \in Invitation : invitations[i] # Nothing /\ invitations[i].status = "accepted"
          => invitations'[i] = invitations[i]
    BY <1>1, <1>2
<1> QED BY <1>2, <1>5, <1>6, <1>7

LEMMA ManagedKeep ==
    ASSUME ProvisioningInv, NEW p \in Node, CommitResend(p) \/ CommitRevoke(p) \/ CommitExpire(p)
    PROVE  ProvisioningInv'
<1> USE ProvisioningAssumption
<1> DEFINE k == task[p].id
<1>1. /\ Finish(p) /\ UNCHANGED <<day, localUsers, scimUsers>>
      /\ task[p].op \in Managing /\ task[p].stage = "locked"
      /\ dead' \in {dead, dead \cup {task[p].seen.token}}
    BY DEF CommitResend, CommitRevoke, CommitExpire, Managing
<1>2. k \in Invitation /\ invitations[k] \in Invite /\ invitations[k].token = task[p].seen.token
      /\ day \in Nat
    BY <1>1 DEF ProvisioningInv, InvitationKnown, ProvisioningShapes
<1>3. PICK v \in Invite :
        /\ invitations' = [invitations EXCEPT ![k] = v]
        /\ \/ v.token = task[p].seen.token /\ (dead' = dead \/ v.status = "revoked")
           \/ /\ v.token \notin dead /\ v.token # task[p].seen.token
              /\ \A i \in Invitation : invitations[i] # Nothing => invitations[i].token # v.token
  <2>1. CASE CommitResend(p)
    <3> DEFINE v == [invitations[k] EXCEPT !.status = "pending", !.token = FreshToken,
                                           !.expiresAt = day + Validity]
    <3>1. /\ FreshToken \in InviteToken /\ FreshToken \notin dead
          /\ \A i \in Invitation : invitations[i] # Nothing => invitations[i].token # FreshToken
      BY <2>1, FreshTokens DEF CommitResend
    <3>2. v \in Invite /\ v.token = FreshToken
      <4>1. day + Validity \in Nat BY <1>2
      <4> DEFINE later == day + Validity
                 token == FreshToken
      <4>2. later \in Nat /\ token \in InviteToken BY <3>1, <4>1
      <4> HIDE DEF later, token
      <4>3. [invitations[k] EXCEPT !.status = "pending", !.token = token, !.expiresAt = later]
              \in Invite
        BY <1>2, <4>2 DEF Invite, Status
      <4>4. v.token = FreshToken BY <1>2 DEF Invite
      <4> QED BY <4>3, <4>4 DEF later, token
    <3>3. FreshToken # task[p].seen.token BY <1>2, <3>1
    <3>4. invitations' = [invitations EXCEPT ![k] = v] BY <2>1 DEF CommitResend
    <3> HIDE DEF v
    <3> QED BY <3>1, <3>2, <3>3, <3>4
  <2>2. ASSUME NEW s \in {"revoked", "expired"}, SetInvitation(p, s),
               dead' = dead \/ s = "revoked"
        PROVE  \E v \in Invite :
                  /\ invitations' = [invitations EXCEPT ![k] = v]
                  /\ v.token = task[p].seen.token /\ (dead' = dead \/ v.status = "revoked")
    <3> DEFINE v == [invitations[k] EXCEPT !.status = s]
    <3>1. v \in Invite /\ v.token = task[p].seen.token /\ v.status = s
      BY <1>2 DEF Invite, Status
    <3>2. invitations' = [invitations EXCEPT ![k] = v] BY <2>2 DEF SetInvitation
    <3> HIDE DEF v
    <3> QED BY <2>2, <3>1, <3>2
  <2>3. CASE CommitRevoke(p) BY <2>2, <2>3 DEF CommitRevoke
  <2>4. CASE CommitExpire(p) BY <2>2, <2>4 DEF CommitExpire
  <2> QED BY <2>1, <2>3, <2>4
<1>4. /\ invitations' \in [Invitation -> Invite \cup {Nothing}]
      /\ TokensKnown'
      /\ \A i \in Invitation : /\ invitations[i] # Nothing => invitations'[i] # Nothing
                               /\ inviteLock[i] # p => invitations'[i] = invitations[i]
      /\ \A i \in Invitation : invitations[i] # Nothing /\ invitations[i].status = "accepted"
             => invitations'[i] = invitations[i]
    BY <1>1, <1>3, Replaced
<1>5. Apart(p) BY <1>1, <1>4, Finishing DEF Apart, Exists
<1>6. AccountsKnown'
  <2> SUFFICES ASSUME NEW n \in Name, localUsers[n] # Nothing
               PROVE  \E i \in Invitation :
                         /\ invitations'[i] # Nothing /\ invitations'[i].status = "accepted"
                         /\ invitations'[i].token = localUsers[n]
    BY <1>1 DEF AccountsKnown
  <2>1. PICK i \in Invitation : /\ invitations[i] # Nothing /\ invitations[i].status = "accepted"
                                /\ invitations[i].token = localUsers[n]
    BY DEF ProvisioningInv, AccountsKnown
  <2>2. invitations'[i] = invitations[i] BY <1>4, <2>1
  <2> QED BY <2>1, <2>2
<1>7. OneSource' BY <1>1 DEF ProvisioningInv, OneSource
<1>8. \A q \in Node : InvitationKnown(q)' /\ NameKnown(q)'
    BY <1>1, <1>5, OthersKnown, Finishing
<1> QED BY <1>1, <1>4, <1>6, <1>7, <1>8, Finishing DEF ProvisioningInv, ProvisioningShapes

LEMMA AccountsKeep ==
    ASSUME ProvisioningInv, NEW p \in Node, CommitAccept(p) \/ CommitProvision(p)
    PROVE  ProvisioningInv'
<1> USE ProvisioningAssumption
<1> DEFINE n == NameOf(p)
<1>1. Finish(p) /\ UNCHANGED <<day, dead>> /\ task[p].op \in {"accept", "provision"}
    BY DEF CommitAccept, CommitProvision
<1>2. n \in Name /\ nameLock[n] = p /\ ~Exists(n)
    BY <1>1 DEF ProvisioningInv, NameKnown, CommitAccept, CommitProvision
<1>3. CASE CommitProvision(p)
  <2>1. scimUsers' = [scimUsers EXCEPT ![n] = TRUE] /\ UNCHANGED <<invitations, localUsers>>
    BY <1>3 DEF CommitProvision
  <2> HIDE DEF n
  <2>2. scimUsers' \in [Name -> BOOLEAN] /\ \A m \in Name \ {n} : scimUsers'[m] = scimUsers[m]
    BY <2>1 DEF ProvisioningInv, ProvisioningShapes
  <2>3. TokensKnown' /\ AccountsKnown'
    BY <1>1, <2>1 DEF ProvisioningInv, TokensKnown, AccountsKnown
  <2>4. OneSource' BY <1>2, <2>1, <2>2 DEF ProvisioningInv, OneSource, Exists
  <2>5. Apart(p) BY <1>1, <1>2, <2>1, <2>2, Finishing DEF Apart, Exists
  <2>6. \A q \in Node : InvitationKnown(q)' /\ NameKnown(q)' BY <1>1, <2>5, OthersKnown, Finishing
  <2>7. day' \in Nat /\ localUsers' \in [Name -> InviteToken \cup {Nothing}]
        /\ invitations' \in [Invitation -> Invite \cup {Nothing}]
    BY <1>1, <2>1 DEF ProvisioningInv, ProvisioningShapes
  <2> QED BY <1>1, <2>2, <2>3, <2>4, <2>6, <2>7, Finishing DEF ProvisioningInv, ProvisioningShapes
<1>4. CASE CommitAccept(p)
  <2> DEFINE k == task[p].id
             v == [invitations[k] EXCEPT !.status = "accepted"]
  <2>1. /\ localUsers' = [localUsers EXCEPT ![n] = task[p].seen.token]
        /\ invitations' = [invitations EXCEPT ![k] = v]
        /\ UNCHANGED scimUsers
        /\ task[p].op \in Managing /\ task[p].stage = "named"
    BY <1>4 DEF CommitAccept, SetInvitation, Managing
  <2>2. /\ k \in Invitation /\ invitations[k] \in Invite
        /\ invitations[k].token = task[p].seen.token /\ task[p].seen.token \in InviteToken
    BY <2>1 DEF ProvisioningInv, InvitationKnown, ProvisioningShapes, Invite
  <2>3. v \in Invite /\ v.token = task[p].seen.token /\ v.status = "accepted"
    BY <2>2 DEF Invite, Status
  <2> HIDE DEF n, v
  <2>4. /\ invitations' \in [Invitation -> Invite \cup {Nothing}]
        /\ TokensKnown'
        /\ \A i \in Invitation : /\ invitations[i] # Nothing => invitations'[i] # Nothing
                                 /\ inviteLock[i] # p => invitations'[i] = invitations[i]
        /\ invitations'[k] = v
        /\ \A i \in Invitation : invitations[i] # Nothing /\ invitations[i].status = "accepted"
               => invitations'[i] = invitations[i]
    BY <1>1, <2>1, <2>3, Replaced
  <2>5. /\ localUsers' \in [Name -> InviteToken \cup {Nothing}]
        /\ localUsers'[n] = task[p].seen.token
        /\ \A m \in Name \ {n} : localUsers'[m] = localUsers[m]
    BY <1>2, <2>1, <2>2 DEF ProvisioningInv, ProvisioningShapes
  <2>6. AccountsKnown'
    <3> SUFFICES ASSUME NEW m \in Name, localUsers'[m] # Nothing
                 PROVE  \E i \in Invitation :
                           /\ invitations'[i] # Nothing /\ invitations'[i].status = "accepted"
                           /\ invitations'[i].token = localUsers'[m]
      BY DEF AccountsKnown
    <3>1. CASE m = n BY <2>2, <2>3, <2>4, <2>5, <3>1
    <3>2. CASE m # n
      <4>1. localUsers'[m] = localUsers[m] BY <2>5, <3>2
      <4>2. PICK i \in Invitation : /\ invitations[i] # Nothing
                                    /\ invitations[i].status = "accepted"
                                    /\ invitations[i].token = localUsers[m]
        BY <4>1 DEF ProvisioningInv, AccountsKnown
      <4>3. invitations'[i] = invitations[i] BY <2>4, <4>2
      <4> QED BY <4>1, <4>2, <4>3
    <3> QED BY <3>1, <3>2
  <2>7. OneSource' BY <1>2, <2>1, <2>5 DEF ProvisioningInv, OneSource, Exists
  <2>8. Apart(p) BY <1>1, <1>2, <2>1, <2>4, <2>5, Finishing DEF Apart, Exists
  <2>9. \A q \in Node : InvitationKnown(q)' /\ NameKnown(q)' BY <1>1, <2>8, OthersKnown, Finishing
  <2>10. day' \in Nat /\ scimUsers' \in [Name -> BOOLEAN]
    BY <1>1, <2>1 DEF ProvisioningInv, ProvisioningShapes
  <2> QED BY <1>1, <2>4, <2>5, <2>6, <2>7, <2>9, <2>10, Finishing
          DEF ProvisioningInv, ProvisioningShapes
<1> QED BY <1>3, <1>4

LEMMA ProvisioningSteps == ProvisioningInv /\ [ProvisioningNext]_provisioningVars => ProvisioningInv'
<1> SUFFICES ASSUME ProvisioningInv, [ProvisioningNext]_provisioningVars PROVE ProvisioningInv'
  OBVIOUS
<1>1. CASE UNCHANGED provisioningVars
  BY <1>1 DEF provisioningVars, ProvisioningInv, ProvisioningShapes, TokensKnown, AccountsKnown,
              OneSource, InvitationKnown, NameKnown, NameOf, Exists
<1>2. ASSUME NEW p \in Node, RollBackTask(p) PROVE ProvisioningInv'
    BY <1>2, EndsKeep DEF RollBackTask
<1>3. ASSUME NEW p \in Node,
             \/ LockInvitation(p) \/ LockName(p) \/ RollBackTask(p)
             \/ CommitResend(p) \/ CommitRevoke(p) \/ CommitExpire(p)
             \/ CommitAccept(p) \/ CommitProvision(p)
             \/ \E i \in Invitation : ManageReads(p, i) \/ AcceptReads(p, i)
             \/ \E n \in Name : ProvisionReads(p, n)
      PROVE  ProvisioningInv'
    BY <1>2, <1>3, LocksKeep, ManagedKeep, AccountsKeep, ReadsKeep
<1> QED BY <1>1, <1>3, ClockAndNew DEF ProvisioningNext

LEMMA ProvisioningAlways == ProvisioningSpec => []ProvisioningInv
BY ProvisioningStarts, ProvisioningSteps, PTL DEF ProvisioningSpec

(* A name has an account in one source, however invitations of it and SCIM       *)
(* requests meet (assertCrossSourceIdentityAvailable under the lock of the name).*)
THEOREM NamesHaveOneSource == ProvisioningSpec => []OneSource
<1>1. ProvisioningInv => OneSource BY DEF ProvisioningInv
<1> QED BY <1>1, ProvisioningAlways, PTL

(* A replaced or revoked token creates no account, and an account goes with an   *)
(* accepted invitation (acceptAdminInvitation, assertInvitationCas).             *)
THEOREM TokensCountOnce == ProvisioningSpec => []TokensSpentOnce
<1>1. ProvisioningInv => TokensSpentOnce
    BY DEF ProvisioningInv, AccountsKnown, TokensKnown, TokensSpentOnce
<1> QED BY <1>1, ProvisioningAlways, PTL

(* The clock stays within its bound, and only tokens die.                        *)
LEMMA TokensDie ==
    ASSUME ProvisioningInv, ProvisioningTypes, [ProvisioningNext]_provisioningVars
    PROVE  day' \in 0..LastDay /\ dead' \subseteq InviteToken
<1>1. day \in 0..LastDay /\ dead \subseteq InviteToken BY DEF ProvisioningTypes
<1>2. CASE DayPasses BY <1>1, <1>2, ProvisioningAssumption DEF DayPasses
<1>3. ASSUME NEW p \in Node, CommitResend(p) \/ CommitRevoke(p)
      PROVE  day' = day /\ dead' \subseteq InviteToken
  <2>1. task[p].op \in Managing BY <1>3 DEF CommitResend, CommitRevoke, Managing
  <2>2. task[p].seen \in Invite BY <2>1 DEF ProvisioningInv, InvitationKnown
  <2>3. task[p].seen.token \in InviteToken BY <2>2 DEF Invite
  <2> QED BY <1>1, <1>3, <2>3 DEF CommitResend, CommitRevoke
<1>4. ASSUME NEW p \in Node,
             \/ LockInvitation(p) \/ LockName(p) \/ RollBackTask(p)
             \/ CommitExpire(p) \/ CommitAccept(p) \/ CommitProvision(p)
             \/ \E n \in Name : ProvisionReads(p, n)
      PROVE  day' = day /\ dead' = dead
  BY <1>4 DEF LockInvitation, LockName, RollBackTask, CommitExpire, CommitAccept, CommitProvision,
              ProvisionReads
<1>5. ASSUME NEW p \in Node, NEW i \in Invitation, ManageReads(p, i) \/ AcceptReads(p, i)
      PROVE  day' = day /\ dead' = dead
  BY <1>5 DEF ManageReads, AcceptReads, Reads
<1>6. ASSUME NEW i \in Invitation, NEW n \in Name, CreateInvitation(i, n)
      PROVE  day' = day /\ dead' = dead
  BY <1>6 DEF CreateInvitation
<1>7. CASE UNCHANGED provisioningVars BY <1>1, <1>7 DEF provisioningVars
<1> QED BY <1>1, <1>2, <1>3, <1>4, <1>5, <1>6, <1>7 DEF ProvisioningNext

(* Provisioning keeps its state well formed.                                     *)
LEMMA ProvisioningTyped == ProvisioningSpec => []ProvisioningTypes
<1>1. ProvisioningInit => ProvisioningTypes
  BY ProvisioningAssumption DEF ProvisioningInit, ProvisioningTypes, Requests
<1>2. ProvisioningInv /\ ProvisioningInv' /\ ProvisioningTypes
          /\ [ProvisioningNext]_provisioningVars => ProvisioningTypes'
  BY TokensDie DEF ProvisioningInv, ProvisioningShapes, ProvisioningTypes
<1> QED BY <1>1, <1>2, ProvisioningAlways, PTL DEF ProvisioningSpec

-----------------------------------------------------------------------------
(* Sessions *)

(* No time that was written down is of the future, and each is later than the    *)
(* one it replaced.                                                              *)
Clocked ==
    /\ \A c \in cookies : c.iat <= tick
    /\ \A a \in Account : revokedAt[a] <= tick
    /\ \A j \in Login : loggedOut[j] <= tick

(* A login's cookie is signed once: elevation signs the same one again.          *)
OneCookie == \A c, d \in cookies : c.jti = d.jti => c = d

(* Transactions of instances that share a SQLite file do not overlap.            *)
OneWriter == \A s, r \in Server : Writing(s) /\ Writing(r) => s = r

(* A change that is being written revokes what it deprives the account of, and   *)
(* its time covers every session it found.                                       *)
ChangeKnown(h) ==
    h.op \in {"save", "group"} =>
        /\ h.at <= tick /\ revokedAt[h.user] <= h.at
        /\ h.before \subseteq Issued
        /\ \A c \in cookies : c.jti \in h.before => c.user = h.user /\ c.iat <= h.at
        /\ Deprives(h) => h.revokes

LogoutKnown(h) ==
    h.op = "logout" =>
        /\ h.at <= tick /\ loggedOut[h.jti] <= h.at
        /\ h.jti \in Issued
        /\ \A c \in cookies : c.jti = h.jti => c.iat <= h.at

(* Why an ended session is not let in: its row is there, or it is too old.       *)
EndedKnown ==
    /\ ended \subseteq Issued
    /\ \A c \in cookies : c.jti \in ended => Revoked(c) \/ tick > c.iat + SessionTtl

SessionInv ==
    /\ SessionTypes /\ Clocked /\ OneCookie /\ OneWriter /\ EndedKnown
    /\ \A s \in Server : ChangeKnown(handler[s]) /\ LogoutKnown(handler[s])

LEMMA SessionStarts == SessionInit => SessionInv
<1> SUFFICES ASSUME SessionInit PROVE SessionInv OBVIOUS
<1> USE SessionAssumption
<1>1. Free \in Handler BY DEF Handler
<1>2. SessionTypes BY <1>1 DEF SessionInit, SessionTypes, Time
<1>3. Clocked BY DEF SessionInit, Clocked, Never
<1>4. OneCookie /\ OneWriter /\ EndedKnown
    BY DEF SessionInit, OneCookie, OneWriter, Writing, Free, EndedKnown
<1>5. \A s \in Server : ChangeKnown(handler[s]) /\ LogoutKnown(handler[s])
    BY DEF SessionInit, ChangeKnown, LogoutKnown, Free
<1> QED BY <1>2, <1>3, <1>4, <1>5 DEF SessionInv

(* Time passes, and cookies of new logins are signed.                            *)
MoreCookies ==
    /\ tick' \in Time /\ tick <= tick'
    /\ cookies \subseteq cookies' /\ cookies' \subseteq Cookie
    /\ \A c \in cookies' : c \in cookies \/ c.jti \notin Issued
    /\ UNCHANGED <<account, revokedAt, loggedOut, ended>>

LEMMA WhatIsKnownStays ==
    ASSUME SessionInv, MoreCookies
    PROVE  /\ EndedKnown'
           /\ \A r \in Server : handler'[r] = handler[r] =>
                 ChangeKnown(handler[r])' /\ LogoutKnown(handler[r])'
<1> USE SessionAssumption
<1>1. Issued \subseteq Issued' BY DEF MoreCookies, Issued
<1>2. tick \in Int /\ tick' \in Int /\ tick <= tick'
    BY DEF SessionInv, SessionTypes, MoreCookies, Time
<1>3. EndedKnown'
  <2>1. ended' \subseteq Issued' BY <1>1 DEF SessionInv, EndedKnown, MoreCookies
  <2>2. ASSUME NEW c \in cookies', c.jti \in ended'
        PROVE  Revoked(c)' \/ tick' > c.iat + SessionTtl
    <3>1. c \in cookies /\ c.jti \in ended
        BY <2>2 DEF SessionInv, EndedKnown, MoreCookies
    <3>2. c.iat \in Int BY <3>1 DEF SessionInv, SessionTypes, Cookie, Time
    <3>3. Revoked(c) \/ tick > c.iat + SessionTtl BY <3>1 DEF SessionInv, EndedKnown
    <3>4. Revoked(c)' <=> Revoked(c) BY DEF Revoked, MoreCookies
    <3> QED BY <1>2, <3>2, <3>3, <3>4
  <2> QED BY <2>1, <2>2 DEF EndedKnown
<1>4. ASSUME NEW r \in Server, handler'[r] = handler[r] PROVE ChangeKnown(handler[r])'
  <2> DEFINE h == handler[r]
  <2> SUFFICES ASSUME h.op \in {"save", "group"}
               PROVE  /\ h.at <= tick' /\ revokedAt'[h.user] <= h.at
                      /\ h.before \subseteq Issued'
                      /\ \A c \in cookies' : c.jti \in h.before => c.user = h.user /\ c.iat <= h.at
                      /\ Deprives(h)' => h.revokes
    BY <1>4 DEF ChangeKnown
  <2>1. /\ h.at <= tick /\ revokedAt[h.user] <= h.at
        /\ h.before \subseteq Issued
        /\ \A c \in cookies : c.jti \in h.before => c.user = h.user /\ c.iat <= h.at
        /\ Deprives(h) => h.revokes
    BY DEF SessionInv, ChangeKnown
  <2>2. h.at \in Int BY DEF SessionInv, SessionTypes, Handler, Time, Free
  <2>3. h.at <= tick' BY <1>2, <2>1, <2>2
  <2>4. Deprives(h)' <=> Deprives(h) BY <1>4 DEF Deprives, Changed, MoreCookies
  <2>5. \A c \in cookies' : c.jti \in h.before => c.user = h.user /\ c.iat <= h.at
    BY <2>1 DEF MoreCookies
  <2> QED BY <1>1, <2>1, <2>3, <2>4, <2>5 DEF MoreCookies
<1>5. ASSUME NEW r \in Server, handler'[r] = handler[r] PROVE LogoutKnown(handler[r])'
  <2> DEFINE h == handler[r]
  <2> SUFFICES ASSUME h.op = "logout"
               PROVE  /\ h.at <= tick' /\ loggedOut'[h.jti] <= h.at
                      /\ h.jti \in Issued'
                      /\ \A c \in cookies' : c.jti = h.jti => c.iat <= h.at
    BY <1>5 DEF LogoutKnown
  <2>1. /\ h.at <= tick /\ loggedOut[h.jti] <= h.at
        /\ h.jti \in Issued
        /\ \A c \in cookies : c.jti = h.jti => c.iat <= h.at
    BY DEF SessionInv, LogoutKnown
  <2>2. h.at \in Int BY DEF SessionInv, SessionTypes, Handler, Time, Free
  <2>3. h.at <= tick' BY <1>2, <2>1, <2>2
  <2>4. \A c \in cookies' : c.jti = h.jti => c.iat <= h.at BY <2>1 DEF MoreCookies
  <2> QED BY <1>1, <2>1, <2>3, <2>4 DEF MoreCookies
<1> QED BY <1>3, <1>4, <1>5

(* A step that writes nothing: what one instance does next is known of it.       *)
LEMMA NextTaskKnown ==
    ASSUME SessionInv, NEW s \in Server, NEW h \in Handler,
           handler' = [handler EXCEPT ![s] = h], h.op \notin {"save", "group", "logout"},
           UNCHANGED <<tick, account, revokedAt, loggedOut, cookies, ended>>,
           used' \subseteq RecoveryCode, granted' \in [RecoveryCode -> Nat]
    PROVE  SessionInv'
<1>1. handler' \in [Server -> Handler] /\ handler'[s] = h
      /\ \A r \in Server \ {s} : handler'[r] = handler[r]
    BY DEF SessionInv, SessionTypes
<1>2. MoreCookies BY DEF MoreCookies, SessionInv, SessionTypes, Time
<1>3. SessionTypes' BY <1>1 DEF SessionInv, SessionTypes
<1>4. Clocked' /\ OneCookie' BY DEF SessionInv, Clocked, OneCookie
<1>5. OneWriter' BY <1>1 DEF SessionInv, OneWriter, Writing
<1>6. ChangeKnown(handler[s])' /\ LogoutKnown(handler[s])' BY <1>1 DEF ChangeKnown, LogoutKnown
<1> QED BY <1>1, <1>2, <1>3, <1>4, <1>5, <1>6, WhatIsKnownStays DEF SessionInv

LEMMA LoginsKeep ==
    ASSUME SessionInv, NEW s \in Server,
           Abandon(s) \/ Redeem(s) \/ \E a \in Account : LoginReads(s, a)
    PROVE  SessionInv'
<1>1. Free \in Handler /\ Free.op = "none" BY DEF Handler, Free
<1>2. used \subseteq RecoveryCode /\ granted \in [RecoveryCode -> Nat]
    BY DEF SessionInv, SessionTypes
<1>3. CASE Abandon(s)
  <2>1. handler' = [handler EXCEPT ![s] = Free] BY <1>3 DEF Abandon, End
  <2> HIDE DEF Free
  <2> QED BY <1>1, <1>2, <1>3, <2>1, NextTaskKnown DEF Abandon
<1>4. ASSUME NEW a \in Account, LoginReads(s, a) PROVE SessionInv'
  <2>1. account[a].role \in AccountRole BY DEF SessionInv, SessionTypes, AccountState
  <2>2. \E h \in Handler : handler' = [handler EXCEPT ![s] = h]
                           /\ h.op \notin {"save", "group", "logout"}
    <3>1. [op |-> "login", user |-> a, role |-> account[a].role] \in Handler
        BY <2>1 DEF Handler
    <3>2. \A code \in Usable(a) :
              [op |-> "redeem", user |-> a, role |-> account[a].role, code |-> code] \in Handler
        BY <2>1 DEF Handler, Usable
    <3> QED BY <1>4, <3>1, <3>2 DEF LoginReads
  <2> QED BY <1>2, <1>4, <2>2, NextTaskKnown DEF LoginReads
<1>5. CASE Redeem(s)
  <2>1. handler[s].op = "redeem" /\ handler[s] \in Handler
      BY <1>5 DEF Redeem, SessionInv, SessionTypes
  <2>2. handler[s].user \in Account /\ handler[s].role \in AccountRole
        /\ handler[s].code \in RecoveryCode
      BY <2>1 DEF Handler, Free
  <2>3. CASE Redeemable(handler[s].code)
    <3> DEFINE h == [op |-> "login", user |-> handler[s].user, role |-> handler[s].role]
    <3>1. h \in Handler /\ h.op = "login" BY <2>2 DEF Handler
    <3>2. /\ handler' = [handler EXCEPT ![s] = h] /\ used' = used \cup {handler[s].code}
          /\ granted' = [granted EXCEPT ![handler[s].code] = @ + 1]
        BY <1>5, <2>3 DEF Redeem
    <3> HIDE DEF h
    <3>3. used' \subseteq RecoveryCode BY <1>2, <2>2, <3>2
    <3>4. ASSUME NEW x \in RecoveryCode, granted' = [granted EXCEPT ![x] = @ + 1]
          PROVE  granted' \in [RecoveryCode -> Nat]
        BY <1>2, <3>4
    <3> QED BY <1>5, <2>2, <3>1, <3>2, <3>3, <3>4, NextTaskKnown DEF Redeem
  <2>4. CASE ~Redeemable(handler[s].code)
    <3>1. handler' = [handler EXCEPT ![s] = Free] /\ UNCHANGED <<used, granted>>
        BY <1>5, <2>4 DEF Redeem, End
    <3> HIDE DEF Free
    <3> QED BY <1>1, <1>2, <1>5, <3>1, NextTaskKnown DEF Redeem
  <2> QED BY <2>3, <2>4
<1> QED BY <1>3, <1>4, <1>5

(* A login signs a cookie of its own; elevation signs one that is there.         *)
LEMMA CookiesKeep ==
    ASSUME SessionInv, NEW s \in Server,
           LoginIssues(s) \/ \E c \in cookies : StepUp(s, c)
    PROVE  SessionInv'
<1>1. ASSUME NEW c \in cookies, StepUp(s, c) PROVE SessionInv'
  <2>1. UNCHANGED sessionVars BY <1>1 DEF StepUp, Resigned, sessionVars
  <2>2. MoreCookies /\ handler' = handler
      BY <2>1 DEF MoreCookies, SessionInv, SessionTypes, sessionVars, Time
  <2>3. SessionTypes' /\ Clocked' /\ OneCookie' /\ OneWriter'
      BY <2>1 DEF SessionInv, SessionTypes, Clocked, OneCookie, OneWriter, Writing, sessionVars
  <2> QED BY <2>2, <2>3, WhatIsKnownStays DEF SessionInv
<1>2. CASE LoginIssues(s)
  <2>1. PICK j \in Login \ Issued :
          cookies' = cookies \cup {[jti |-> j, user |-> handler[s].user,
                                    role |-> handler[s].role, iat |-> tick]}
      BY <1>2 DEF LoginIssues
  <2>2. handler[s].op = "login" /\ handler[s] \in Handler /\ tick \in Time
      BY <1>2 DEF LoginIssues, SessionInv, SessionTypes
  <2>3. PICK k \in Cookie : cookies' = cookies \cup {k} /\ k.jti = j /\ k.iat = tick
    <3>1. handler[s].user \in Account /\ handler[s].role \in AccountRole
        BY <2>2 DEF Handler, Free
    <3>2. [jti |-> j, user |-> handler[s].user, role |-> handler[s].role, iat |-> tick] \in Cookie
        BY <2>2, <3>1 DEF Cookie
    <3> QED BY <2>1, <3>2
  <2>4. handler' = [handler EXCEPT ![s] = Free]
        /\ UNCHANGED <<tick, account, revokedAt, loggedOut, used, ended, granted>>
      BY <1>2 DEF LoginIssues, End
  <2>5. handler' \in [Server -> Handler] /\ handler'[s] = Free
        /\ \A r \in Server \ {s} : handler'[r] = handler[r]
      BY <2>4 DEF SessionInv, SessionTypes, Handler
  <2>6. k.jti \notin Issued BY <2>3
  <2>7. MoreCookies
      BY <2>2, <2>3, <2>4, <2>6 DEF MoreCookies, SessionInv, SessionTypes, Time
  <2>8. SessionTypes' BY <2>3, <2>4, <2>5 DEF SessionInv, SessionTypes
  <2>9. Clocked' BY <2>2, <2>3, <2>4 DEF SessionInv, Clocked, Time
  <2>10. OneCookie' BY <2>3, <2>6 DEF SessionInv, OneCookie, Issued
  <2>11. OneWriter' BY <2>5 DEF SessionInv, OneWriter, Writing, Free
  <2>12. ChangeKnown(handler[s])' /\ LogoutKnown(handler[s])'
      BY <2>5 DEF ChangeKnown, LogoutKnown, Free
  <2> QED BY <2>5, <2>7, <2>8, <2>9, <2>10, <2>11, <2>12, WhatIsKnownStays DEF SessionInv
<1> QED BY <1>1, <1>2

(* A transaction that takes the write lock finds no other.                       *)
LEMMA WriterBegins ==
    ASSUME SessionInv, SharedWriters = FALSE, NEW s \in Server, NEW h \in Handler, Starts(s, h),
           UNCHANGED <<tick, account, revokedAt, loggedOut, used, cookies, ended, granted>>,
           ChangeKnown(h), LogoutKnown(h)
    PROVE  SessionInv'
<1>1. handler' = [handler EXCEPT ![s] = h] /\ \A r \in Server \ {s} : ~Writing(r)
    BY DEF Starts, WriterFreeFor
<1>2. handler' \in [Server -> Handler] /\ handler'[s] = h
      /\ \A r \in Server \ {s} : handler'[r] = handler[r]
    BY <1>1 DEF SessionInv, SessionTypes
<1>3. MoreCookies BY DEF MoreCookies, SessionInv, SessionTypes, Time
<1>4. SessionTypes' BY <1>2 DEF SessionInv, SessionTypes
<1>5. Clocked' /\ OneCookie' BY DEF SessionInv, Clocked, OneCookie
<1>6. OneWriter' BY <1>1, <1>2 DEF OneWriter, Writing
<1>7. ChangeKnown(handler[s])' BY <1>2 DEF ChangeKnown, Deprives, Changed, Issued
<1>8. LogoutKnown(handler[s])' BY <1>2 DEF LogoutKnown, Issued
<1> QED BY <1>2, <1>3, <1>4, <1>5, <1>6, <1>7, <1>8, WhatIsKnownStays DEF SessionInv

(* The sessions a change finds, and that it revokes them when it deprives.       *)
LEMMA ChangesBegin ==
    ASSUME SessionInv, SharedWriters = FALSE, NEW s \in Server, NEW a \in Account,
           \/ \E next \in AccountState : SaveBegins(s, a, next)
           \/ \E role \in AccountRole : GroupBegins(s, a, role)
    PROVE  SessionInv'
<1> DEFINE found == {c.jti : c \in {k \in cookies : k.user = a}}
<1>1. found \subseteq Login /\ tick \in Time /\ account[a] \in AccountState
    BY DEF SessionInv, SessionTypes, Cookie
<1>2. found \subseteq Issued BY DEF Issued
<1>3. \A c \in cookies : c.jti \in found => c.user = a /\ c.iat <= tick
    BY DEF SessionInv, Clocked, OneCookie
<1>4. tick <= tick /\ revokedAt[a] <= tick BY <1>1 DEF SessionInv, Clocked, Time
<1> HIDE DEF found
<1>5. PICK op \in {"save", "group"}, next \in AccountState, revokes \in BOOLEAN :
        /\ Starts(s, [op |-> op, user |-> a, next |-> next, revokes |-> revokes,
                      at |-> tick, before |-> found])
        /\ next.source = account[a].source
        /\ \/ op = "save" /\ revokes = Ends(a, next)
           \/ op = "group" /\ revokes = TRUE
  <2>1. ASSUME NEW next \in AccountState, SaveBegins(s, a, next)
        PROVE  /\ Starts(s, [op |-> "save", user |-> a, next |-> next,
                             revokes |-> Ends(a, next), at |-> tick, before |-> found])
               /\ next.source = account[a].source /\ Ends(a, next) \in BOOLEAN
      BY <1>1, <2>1 DEF SaveBegins, found, Ends, AccountState
  <2>2. ASSUME NEW role \in AccountRole, GroupBegins(s, a, role)
        PROVE  \E next \in AccountState :
                  /\ Starts(s, [op |-> "group", user |-> a, next |-> next,
                                revokes |-> TRUE, at |-> tick, before |-> found])
                  /\ next.source = account[a].source
    <3> DEFINE next == [account[a] EXCEPT !.role = role]
    <3>1. next \in AccountState /\ next.source = account[a].source
        BY <1>1 DEF AccountState
    <3>2. Starts(s, [op |-> "group", user |-> a, next |-> next,
                     revokes |-> TRUE, at |-> tick, before |-> found])
        BY <2>2 DEF GroupBegins, found
    <3> HIDE DEF next
    <3> QED BY <3>1, <3>2
  <2> QED BY <2>1, <2>2
<1> DEFINE h == [op |-> op, user |-> a, next |-> next, revokes |-> revokes,
                 at |-> tick, before |-> found]
<1>6. h \in Handler BY <1>1 DEF Handler
<1>7. Deprives(h) => h.revokes
  <2>1. CASE next.source = "local"
    <3>1. Changed(h) = next BY <2>1 DEF Changed
    <3>2. ASSUME account[a].active, next # account[a] PROVE ~next.active \/ next.role # account[a].role
        BY <1>1, <1>5, <3>2 DEF AccountState
    <3> QED BY <1>5, <3>1, <3>2 DEF Deprives, Ends
  <2>2. CASE op = "save" /\ next.source # "local"
    <3>1. Changed(h) = [account[a] EXCEPT !.active = next.active] BY <2>2 DEF Changed
    <3>2. ASSUME account[a].active, next.active
          PROVE  [account[a] EXCEPT !.active = next.active] = account[a]
      <4>1. account[a].active = next.active BY <1>1, <3>2 DEF AccountState
      <4> QED BY <1>1, <4>1 DEF AccountState
    <3>3. Deprives(h) => account[a].active /\ ~next.active BY <3>1, <3>2 DEF Deprives
    <3> QED BY <1>5, <2>2, <3>3 DEF Ends
  <2> QED BY <1>5, <2>1, <2>2
<1>8. ChangeKnown(h) /\ LogoutKnown(h)
    BY <1>2, <1>3, <1>4, <1>7 DEF ChangeKnown, LogoutKnown
<1>9. Starts(s, h) BY <1>5
<1> HIDE DEF h
<1> QED BY <1>6, <1>8, <1>9, WriterBegins DEF SaveBegins, GroupBegins

LEMMA LogoutsBegin ==
    ASSUME SessionInv, SharedWriters = FALSE, NEW s \in Server, NEW c \in cookies,
           LogoutBegins(s, c)
    PROVE  SessionInv'
<1> DEFINE h == [op |-> "logout", jti |-> c.jti, at |-> tick]
<1>1. c.jti \in Login /\ tick \in Time BY DEF SessionInv, SessionTypes, Cookie
<1>2. h \in Handler BY <1>1 DEF Handler
<1>3. \A d \in cookies : d.jti = c.jti => d.iat <= tick BY DEF SessionInv, Clocked
<1>4. tick <= tick /\ loggedOut[c.jti] <= tick BY <1>1 DEF SessionInv, Clocked, Time
<1>5. ChangeKnown(h) /\ LogoutKnown(h)
    BY <1>3, <1>4 DEF ChangeKnown, LogoutKnown, Issued
<1>6. Starts(s, h) BY DEF LogoutBegins
<1> HIDE DEF h
<1> QED BY <1>2, <1>5, <1>6, WriterBegins DEF LogoutBegins

(* What is left once the only writer is done.                                    *)
LEMMA WriterEnds ==
    ASSUME SessionInv, NEW s \in Server, Writing(s), End(s)
    PROVE  /\ handler' \in [Server -> Handler] /\ OneWriter'
           /\ \A r \in Server : ChangeKnown(handler[r])' /\ LogoutKnown(handler[r])'
<1>1. \A r \in Server \ {s} : ~Writing(r) BY DEF SessionInv, OneWriter
<1>2. handler' \in [Server -> Handler] /\ handler'[s] = Free
      /\ \A r \in Server \ {s} : handler'[r] = handler[r]
    BY DEF End, SessionInv, SessionTypes, Handler
<1>3. \A r \in Server : handler'[r].op \notin {"save", "group", "logout"}
    BY <1>1, <1>2 DEF Writing, Free
<1> QED BY <1>2, <1>3 DEF OneWriter, Writing, ChangeKnown, LogoutKnown

LEMMA LogoutsKeep ==
    ASSUME SessionInv, NEW s \in Server, LogoutCommits(s)
    PROVE  SessionInv'
<1> USE SessionAssumption
<1> DEFINE h == handler[s]
<1>1. h.op = "logout" /\ h \in Handler BY DEF LogoutCommits, SessionInv, SessionTypes
<1>2. h.jti \in Login /\ h.at \in Time BY <1>1 DEF Handler, Free
<1>3. /\ h.at <= tick /\ loggedOut[h.jti] <= h.at /\ h.jti \in Issued
      /\ \A c \in cookies : c.jti = h.jti => c.iat <= h.at
    BY <1>1 DEF SessionInv, LogoutKnown
<1>4. /\ ended' = ended \cup {h.jti} /\ End(s)
      /\ UNCHANGED <<tick, account, revokedAt, used, cookies, granted>>
    BY DEF LogoutCommits
<1>5. /\ loggedOut' \in [Login -> Time \cup {Never}]
      /\ loggedOut'[h.jti] = h.at
      /\ \A j \in Login \ {h.jti} : loggedOut'[j] = loggedOut[j]
                                    \/ (Stale(j) /\ loggedOut'[j] = Never)
  <2> DEFINE noted == [loggedOut EXCEPT ![h.jti] = h.at]
  <2>1. noted \in [Login -> Time \cup {Never}] /\ noted[h.jti] = h.at
        /\ \A j \in Login \ {h.jti} : noted[j] = loggedOut[j]
      BY <1>2 DEF SessionInv, SessionTypes
  <2>2. \/ loggedOut' = noted
        \/ loggedOut' = [j \in Login |-> IF j # h.jti /\ Stale(j) THEN Never ELSE noted[j]]
      BY DEF LogoutCommits
  <2> HIDE DEF noted, h
  <2>3. loggedOut' \in [Login -> Time \cup {Never}] BY <2>1, <2>2
  <2>4. loggedOut'[h.jti] = h.at BY <1>2, <2>1, <2>2
  <2>5. ASSUME NEW j \in Login \ {h.jti}
        PROVE  loggedOut'[j] = loggedOut[j] \/ (Stale(j) /\ loggedOut'[j] = Never)
      BY <2>1, <2>2
  <2> QED BY <2>3, <2>4, <2>5
<1> HIDE DEF h
<1>6. SessionTypes' BY <1>2, <1>4, <1>5, WriterEnds, <1>1 DEF SessionInv, SessionTypes, Writing, h
<1>7. Clocked'
  <2>1. \A j \in Login : loggedOut'[j] <= tick
      BY <1>2, <1>3, <1>5 DEF SessionInv, Clocked, SessionTypes, Time, Never
  <2> QED BY <1>4, <2>1 DEF SessionInv, Clocked
<1>8. EndedKnown'
  <2>1. ended' \subseteq Issued' BY <1>3, <1>4 DEF SessionInv, EndedKnown, Issued
  <2>2. ASSUME NEW c \in cookies, c.jti \in ended'
        PROVE  Revoked(c)' \/ tick > c.iat + SessionTtl
    <3>1. c \in Cookie BY DEF SessionInv, SessionTypes
    <3>2. c.jti \in Login /\ c.user \in Account /\ c.iat \in Int
        BY <3>1 DEF Cookie, Time
    <3>3. CASE c.jti = h.jti BY <1>3, <1>5, <3>3 DEF Revoked
    <3>4. CASE c.jti # h.jti
      <4>1. Revoked(c) \/ tick > c.iat + SessionTtl
          BY <1>4, <2>2, <3>4 DEF SessionInv, EndedKnown
      <4>2. CASE loggedOut'[c.jti] = loggedOut[c.jti] BY <1>4, <4>1, <4>2 DEF Revoked
      <4>3. CASE Stale(c.jti)
        <5>1. tick \in Int /\ loggedOut[c.jti] \in Int
            BY <3>2 DEF SessionInv, SessionTypes, Time, Never
        <5>2. c.iat <= loggedOut[c.jti] => tick > c.iat + SessionTtl
            BY <3>2, <4>3, <5>1 DEF Stale
        <5> QED BY <1>4, <4>1, <5>2 DEF Revoked
      <4> QED BY <1>5, <3>2, <3>4, <4>2, <4>3
    <3> QED BY <3>3, <3>4
  <2> QED BY <1>4, <2>1, <2>2 DEF EndedKnown
<1>9. OneCookie' BY <1>4 DEF SessionInv, OneCookie
<1> QED BY <1>1, <1>4, <1>6, <1>7, <1>8, <1>9, WriterEnds DEF SessionInv, Writing, h

LEMMA ChangesKeep ==
    ASSUME SessionInv, NEW s \in Server, ChangeCommits(s)
    PROVE  SessionInv'
<1> USE SessionAssumption
<1> DEFINE h == handler[s]
<1>1. h.op \in {"save", "group"} /\ h \in Handler
    BY DEF ChangeCommits, SessionInv, SessionTypes
<1>2. /\ h.user \in Account /\ h.at \in Time /\ h.next \in AccountState /\ h.revokes \in BOOLEAN
      /\ h.before \subseteq Login
    BY <1>1 DEF Handler, Free
<1>3. /\ h.at <= tick /\ revokedAt[h.user] <= h.at
      /\ h.before \subseteq Issued
      /\ \A c \in cookies : c.jti \in h.before => c.user = h.user /\ c.iat <= h.at
      /\ Deprives(h) => h.revokes
    BY <1>1 DEF SessionInv, ChangeKnown
<1>4. /\ account' = [account EXCEPT ![h.user] = Changed(h)]
      /\ revokedAt' = IF h.revokes THEN [revokedAt EXCEPT ![h.user] = h.at] ELSE revokedAt
      /\ ended' = IF Deprives(h) THEN ended \cup h.before ELSE ended
      /\ End(s)
      /\ UNCHANGED <<tick, loggedOut, used, cookies, granted>>
    BY DEF ChangeCommits
<1>5. Changed(h) \in AccountState
  <2>1. account[h.user] \in AccountState BY <1>2 DEF SessionInv, SessionTypes
  <2>2. h.next.active \in BOOLEAN /\ h.next.role \in AccountRole BY <1>2 DEF AccountState
  <2>3. ASSUME NEW u \in AccountState, NEW active \in BOOLEAN, NEW role \in AccountRole
        PROVE  [u EXCEPT !.active = active] \in AccountState
               /\ [u EXCEPT !.role = role] \in AccountState
      BY DEF AccountState
  <2> QED BY <1>2, <2>1, <2>2, <2>3 DEF Changed
<1> HIDE DEF h
<1>6. account' \in [Account -> AccountState] BY <1>4, <1>5 DEF SessionInv, SessionTypes
<1>7. /\ revokedAt' \in [Account -> Time \cup {Never}]
      /\ \A a \in Account : revokedAt[a] <= revokedAt'[a] /\ revokedAt'[a] <= tick
      /\ h.revokes => revokedAt'[h.user] = h.at
    BY <1>2, <1>3, <1>4 DEF SessionInv, SessionTypes, Clocked, Time, Never
<1>8. SessionTypes'
  <2>1. ended' \subseteq Login BY <1>2, <1>4 DEF SessionInv, SessionTypes
  <2> QED BY <1>1, <1>4, <1>6, <1>7, <2>1, WriterEnds DEF SessionInv, SessionTypes, Writing, h
<1>9. Clocked' BY <1>4, <1>7 DEF SessionInv, Clocked
<1>10. EndedKnown'
  <2>1. ended' \subseteq Issued' BY <1>3, <1>4 DEF SessionInv, EndedKnown, Issued
  <2>2. ASSUME NEW c \in cookies, c.jti \in ended'
        PROVE  Revoked(c)' \/ tick > c.iat + SessionTtl
    <3>1. c \in Cookie BY DEF SessionInv, SessionTypes
    <3>2. c.user \in Account /\ c.iat \in Int BY <3>1 DEF Cookie, Time
    <3>3. revokedAt[c.user] \in Int /\ revokedAt'[c.user] \in Int
        BY <1>7, <3>2 DEF SessionInv, SessionTypes, Time, Never
    <3>4. CASE c.jti \in ended
      <4>1. Revoked(c) \/ tick > c.iat + SessionTtl BY <3>4 DEF SessionInv, EndedKnown
      <4> QED BY <1>4, <1>7, <3>2, <3>3, <4>1 DEF Revoked
    <3>5. CASE c.jti \notin ended
      <4>1. Deprives(h) /\ c.jti \in h.before BY <1>4, <2>2, <3>5
      <4>2. c.iat <= revokedAt'[c.user] BY <1>3, <1>7, <4>1
      <4> QED BY <4>2 DEF Revoked
    <3> QED BY <3>4, <3>5
  <2> QED BY <1>4, <2>1, <2>2 DEF EndedKnown
<1>11. OneCookie' BY <1>4 DEF SessionInv, OneCookie
<1> QED BY <1>1, <1>4, <1>8, <1>9, <1>10, <1>11, WriterEnds DEF SessionInv, Writing, h

LEMMA ClockKeeps == ASSUME SessionInv, TickPasses PROVE SessionInv'
<1> USE SessionAssumption
<1>1. tick \in Time /\ tick' \in Time /\ tick <= tick'
    BY DEF TickPasses, SessionInv, SessionTypes, Time
<1>2. MoreCookies /\ handler' = handler
    BY <1>1 DEF MoreCookies, TickPasses, SessionInv, SessionTypes
<1>3. SessionTypes' BY <1>1 DEF TickPasses, SessionInv, SessionTypes
<1>4. Clocked'
    BY <1>1 DEF TickPasses, SessionInv, SessionTypes, Clocked, Cookie, Time, Never
<1>5. OneCookie' /\ OneWriter' BY DEF TickPasses, SessionInv, OneCookie, OneWriter, Writing
<1> QED BY <1>2, <1>3, <1>4, <1>5, WhatIsKnownStays DEF SessionInv

LEMMA SessionSteps ==
    ASSUME SharedWriters = FALSE, SessionInv, [SessionNext]_sessionVars
    PROVE  SessionInv'
<1>1. CASE UNCHANGED sessionVars
  <2>1. MoreCookies /\ handler' = handler
      BY <1>1 DEF MoreCookies, SessionInv, SessionTypes, sessionVars, Time
  <2>2. SessionTypes' /\ Clocked' /\ OneCookie' /\ OneWriter'
      BY <1>1 DEF SessionInv, SessionTypes, Clocked, OneCookie, OneWriter, Writing, sessionVars
  <2> QED BY <2>1, <2>2, WhatIsKnownStays DEF SessionInv
<1>2. CASE TickPasses BY <1>2, ClockKeeps
<1>3. ASSUME NEW s \in Server,
             \/ Abandon(s) \/ Redeem(s) \/ LoginIssues(s) \/ LogoutCommits(s) \/ ChangeCommits(s)
             \/ \E a \in Account : LoginReads(s, a)
             \/ \E c \in cookies : StepUp(s, c) \/ LogoutBegins(s, c)
             \/ \E a \in Account, next \in AccountState : SaveBegins(s, a, next)
             \/ \E a \in Account, role \in AccountRole : GroupBegins(s, a, role)
      PROVE  SessionInv'
  BY <1>3, LoginsKeep, CookiesKeep, LogoutsKeep, ChangesKeep, LogoutsBegin, ChangesBegin
<1> QED BY <1>1, <1>2, <1>3 DEF SessionNext

(* A session that was logged out, or whose account lost something, is not let in *)
(* again while transactions do not overlap, as on SQLite: however it is stepped  *)
(* up, the account restored, or the row that ended it pruned (identityRevokedSince).*)
THEOREM SessionsStayEnded ==
    ASSUME SharedWriters = FALSE
    PROVE  SessionSpec => []EndedStaysEnded
<1>1. SessionInv /\ [SessionNext]_sessionVars => SessionInv' BY SessionSteps
<1>2. SessionInv => EndedStaysEnded
  <2> SUFFICES ASSUME SessionInv, NEW c \in cookies, c.jti \in ended PROVE ~Authorized(c)
      BY DEF EndedStaysEnded
  <2>1. tick \in Int /\ c.iat \in Int BY DEF SessionInv, SessionTypes, Cookie, Time
  <2> QED BY <2>1, SessionAssumption DEF SessionInv, EndedKnown, Authorized
<1> QED BY <1>1, <1>2, SessionStarts, PTL DEF SessionSpec

-----------------------------------------------------------------------------
(* Sessions: types, on either storage *)

(* What an instance that is in the middle of something carries.                  *)
LEMMA HandlersAre ==
    ASSUME NEW h \in Handler
    PROVE  /\ h.op \in {"login", "redeem"} => h.user \in Account /\ h.role \in AccountRole
           /\ h.op = "redeem" => h.code \in RecoveryCode
           /\ h.op \in {"save", "group"} =>
                 /\ h.user \in Account /\ h.next \in AccountState /\ h.at \in Time
                 /\ h.before \subseteq Login
           /\ h.op = "logout" => h.jti \in Login /\ h.at \in Time
BY DEF Handler, Free

LEMMA FreedTyped ==
    ASSUME handler \in [Server -> Handler], NEW s \in Server, End(s)
    PROVE  handler' \in [Server -> Handler]
BY DEF End, Handler

LEMMA LoginsTyped ==
    ASSUME SessionTypes, NEW s \in Server, Redeem(s) \/ LoginIssues(s)
    PROVE  SessionTypes'
<1> DEFINE h == handler[s]
<1>1. h \in Handler BY DEF SessionTypes
<1>2. CASE Redeem(s)
  <2>0. h.user \in Account /\ h.role \in AccountRole /\ h.code \in RecoveryCode
    BY <1>1, <1>2, HandlersAre DEF Redeem
  <2> DEFINE login == [op |-> "login", user |-> h.user, role |-> h.role]
  <2>1. login \in Handler BY <2>0 DEF Handler
  <2>2. /\ \/ handler' = [handler EXCEPT ![s] = login]
           \/ End(s)
        /\ used' = used \cup {h.code} \/ used' = used
        /\ granted' = [granted EXCEPT ![h.code] = granted[h.code] + 1] \/ granted' = granted
        /\ UNCHANGED <<tick, account, revokedAt, loggedOut, cookies, ended>>
    BY <1>2 DEF Redeem
  <2>3. granted[h.code] + 1 \in Nat BY <2>0 DEF SessionTypes
  <2> HIDE DEF login, h
  <2>4. granted' \in [RecoveryCode -> Nat] BY <2>0, <2>2, <2>3 DEF SessionTypes
  <2>5. handler' \in [Server -> Handler] BY <2>1, <2>2, FreedTyped DEF SessionTypes
  <2> QED BY <2>0, <2>2, <2>4, <2>5 DEF SessionTypes
<1>3. CASE LoginIssues(s)
  <2>0. h.user \in Account /\ h.role \in AccountRole BY <1>1, <1>3, HandlersAre DEF LoginIssues
  <2>1. PICK j \in Login : cookies' = cookies \cup
            {[jti |-> j, user |-> h.user, role |-> h.role, iat |-> tick]}
    BY <1>3 DEF LoginIssues
  <2>2. [jti |-> j, user |-> h.user, role |-> h.role, iat |-> tick] \in Cookie
    BY <2>0 DEF SessionTypes, Cookie
  <2>3. End(s) /\ UNCHANGED <<tick, account, revokedAt, loggedOut, used, ended, granted>>
    BY <1>3 DEF LoginIssues
  <2> QED BY <2>1, <2>2, <2>3, FreedTyped DEF SessionTypes
<1> QED BY <1>2, <1>3

LEMMA BeginningsTyped ==
    ASSUME SessionTypes, NEW s \in Server,
           \/ \E a \in Account : LoginReads(s, a)
           \/ \E c \in cookies : LogoutBegins(s, c)
           \/ \E a \in Account, next \in AccountState : SaveBegins(s, a, next)
           \/ \E a \in Account, role \in AccountRole : GroupBegins(s, a, role)
    PROVE  SessionTypes'
<1>0. UNCHANGED <<tick, account, revokedAt, loggedOut, used, cookies, ended, granted>>
  BY DEF LoginReads, LogoutBegins, SaveBegins, GroupBegins
<1>1. \A a \in Account : account[a] \in AccountState /\ account[a].role \in AccountRole
  BY DEF SessionTypes, AccountState
<1> DEFINE Begun == \E h \in Handler : handler' = [handler EXCEPT ![s] = h]
<1>2. Begun
  <2>1. ASSUME NEW a \in Account, LoginReads(s, a) PROVE Begun
    <3> DEFINE login == [op |-> "login", user |-> a, role |-> account[a].role]
               redeem(code) ==
                 [op |-> "redeem", user |-> a, role |-> account[a].role, code |-> code]
    <3>1. login \in Handler BY <1>1 DEF Handler
    <3>2. \A code \in RecoveryCode : redeem(code) \in Handler BY <1>1 DEF Handler
    <3>3. \/ handler' = [handler EXCEPT ![s] = login]
          \/ \E code \in RecoveryCode : handler' = [handler EXCEPT ![s] = redeem(code)]
      BY <2>1 DEF LoginReads, Usable
    <3> HIDE DEF login, redeem
    <3> QED BY <3>1, <3>2, <3>3
  <2>2. ASSUME NEW c \in cookies, LogoutBegins(s, c) PROVE Begun
    <3>1. [op |-> "logout", jti |-> c.jti, at |-> tick] \in Handler
      BY DEF Handler, SessionTypes, Cookie
    <3> QED BY <2>2, <3>1 DEF LogoutBegins, Starts
  <2>3. ASSUME NEW a \in Account, NEW next \in AccountState, NEW op \in {"save", "group"},
               NEW revokes \in BOOLEAN
        PROVE  [op |-> op, user |-> a, next |-> next, revokes |-> revokes, at |-> tick,
                before |-> {c.jti : c \in {k \in cookies : k.user = a}}] \in Handler
    <3>1. {c.jti : c \in {k \in cookies : k.user = a}} \subseteq Login BY DEF SessionTypes, Cookie
    <3> QED BY <2>3, <3>1 DEF Handler, SessionTypes
  <2>4. ASSUME NEW a \in Account, NEW next \in AccountState, SaveBegins(s, a, next) PROVE Begun
    <3>1. Ends(a, next) \in BOOLEAN BY <1>1 DEF Ends, AccountState
    <3> QED BY <2>3, <2>4, <3>1 DEF SaveBegins, Starts
  <2>5. ASSUME NEW a \in Account, NEW role \in AccountRole, GroupBegins(s, a, role) PROVE Begun
    <3>1. [account[a] EXCEPT !.role = role] \in AccountState BY <1>1 DEF AccountState
    <3> QED BY <2>3, <2>5, <3>1 DEF GroupBegins, Starts
  <2> QED BY <2>1, <2>2, <2>4, <2>5
<1> QED BY <1>0, <1>2 DEF SessionTypes

LEMMA CommitsTyped ==
    ASSUME SessionTypes, NEW s \in Server, LogoutCommits(s) \/ ChangeCommits(s)
    PROVE  SessionTypes'
<1> DEFINE h == handler[s]
<1>1. h \in Handler BY DEF SessionTypes
<1>2. CASE LogoutCommits(s)
  <2>1. h.jti \in Login /\ h.at \in Time BY <1>1, <1>2, HandlersAre DEF LogoutCommits
  <2> DEFINE noted == [loggedOut EXCEPT ![h.jti] = h.at]
  <2>2. noted \in [Login -> Time \cup {Never}] BY <2>1 DEF SessionTypes
  <2>3. \/ loggedOut' = noted
        \/ loggedOut' = [j \in Login |-> IF j # h.jti /\ Stale(j) THEN Never ELSE noted[j]]
    BY <1>2 DEF LogoutCommits
  <2>4. /\ ended' = ended \cup {h.jti} /\ End(s)
        /\ UNCHANGED <<tick, account, revokedAt, used, cookies, granted>>
    BY <1>2 DEF LogoutCommits
  <2> HIDE DEF noted, h
  <2>5. loggedOut' \in [Login -> Time \cup {Never}] BY <2>2, <2>3
  <2> QED BY <2>1, <2>4, <2>5, FreedTyped DEF SessionTypes
<1>3. CASE ChangeCommits(s)
  <2>1. /\ h.user \in Account /\ h.next \in AccountState /\ h.at \in Time
        /\ h.before \subseteq Login
    BY <1>1, <1>3, HandlersAre DEF ChangeCommits
  <2>2. /\ account' = [account EXCEPT ![h.user] = Changed(h)]
        /\ revokedAt' = [revokedAt EXCEPT ![h.user] = h.at] \/ revokedAt' = revokedAt
        /\ ended' = ended \cup h.before \/ ended' = ended
        /\ End(s) /\ UNCHANGED <<tick, loggedOut, used, cookies, granted>>
    BY <1>3 DEF ChangeCommits
  <2>3. Changed(h) \in AccountState
    <3>1. account[h.user] \in AccountState BY <2>1 DEF SessionTypes
    <3>2. h.next.active \in BOOLEAN /\ h.next.role \in AccountRole BY <2>1 DEF AccountState
    <3>3. ASSUME NEW u \in AccountState, NEW active \in BOOLEAN, NEW role \in AccountRole
          PROVE  [u EXCEPT !.active = active] \in AccountState
                 /\ [u EXCEPT !.role = role] \in AccountState
      BY DEF AccountState
    <3> QED BY <2>1, <3>1, <3>2, <3>3 DEF Changed
  <2> HIDE DEF h
  <2> QED BY <2>1, <2>2, <2>3, FreedTyped DEF SessionTypes
<1> QED BY <1>2, <1>3

(* Sessions keep their state well formed, transactions overlapping or not.       *)
LEMMA SessionsTyped == SessionSpec => []SessionTypes
<1>1. SessionInit => SessionTypes
  BY SessionAssumption DEF SessionInit, SessionTypes, Handler, Time
<1>2. SessionTypes /\ [SessionNext]_sessionVars => SessionTypes'
  <2> SUFFICES ASSUME SessionTypes, [SessionNext]_sessionVars PROVE SessionTypes' OBVIOUS
  <2>1. CASE UNCHANGED sessionVars BY <2>1 DEF sessionVars, SessionTypes
  <2>2. CASE TickPasses BY <2>2, SessionAssumption DEF TickPasses, SessionTypes, Time
  <2>3. ASSUME NEW s \in Server, Abandon(s) PROVE SessionTypes'
    BY <2>3, FreedTyped DEF Abandon, SessionTypes
  <2>4. ASSUME NEW s \in Server, NEW c \in cookies, StepUp(s, c) PROVE SessionTypes'
    BY <2>4 DEF StepUp, Resigned, SessionTypes
  <2> QED BY <2>1, <2>2, <2>3, <2>4, LoginsTyped, BeginningsTyped, CommitsTyped DEF SessionNext
<1> QED BY <1>1, <1>2, PTL DEF SessionSpec

-----------------------------------------------------------------------------
(* Login throttle: the map's operators *)

(* The places of S are counted from the first to the last, without gaps.         *)
LEMMA PlacesInOrder ==
    ASSUME NEW N \in Nat, NEW S \in SUBSET (1..N)
    PROVE  /\ Cardinality(S) \in 0..N
           /\ \A n \in 1..Cardinality(S) : Place(S, n) \in S
           /\ \A m, n \in 1..Cardinality(S) : m < n => Place(S, m) < Place(S, n)
           /\ \A i \in S : \E n \in 1..Cardinality(S) : Place(S, n) = i
<1> DEFINE upTo(i) == {j \in S : j <= i}
           rank(i) == Cardinality(upTo(i))
<1>1. IsFiniteSet(S) /\ Cardinality(S) \in 0..N
  <2>1. IsFiniteSet(1..N) /\ Cardinality(1..N) = N BY FS_Interval
  <2>2. IsFiniteSet(S) /\ Cardinality(S) <= Cardinality(1..N) BY ONLY <2>1, S \in SUBSET (1..N), FS_Subset
  <2>3. Cardinality(S) \in Nat BY <2>2, FS_CardinalityType
  <2> QED BY <2>1, <2>2, <2>3
<1>0. \A i \in S : i \in Int OBVIOUS
<1>2. ASSUME NEW i \in S PROVE rank(i) \in 1..Cardinality(S)
  <2>1. upTo(i) \in SUBSET S /\ i \in upTo(i) OBVIOUS
  <2>2. IsFiniteSet(upTo(i)) /\ rank(i) <= Cardinality(S) BY <1>1, <2>1, FS_Subset
  <2>3. rank(i) \in Nat BY <2>2, FS_CardinalityType
  <2>4. rank(i) # 0 BY <2>1, <2>2, FS_EmptySet
  <2> QED BY <1>1, <2>2, <2>3, <2>4
<1>3. ASSUME NEW i \in S, NEW k \in S, i < k PROVE rank(i) < rank(k)
  <2>0. /\ i \in Int /\ k \in Int
        /\ \A j \in S : j \in Int /\ (j <= i => j <= k) /\ k <= k /\ ~(k <= i)
    BY <1>0, <1>3
  <2>1. upTo(i) \in SUBSET upTo(k) /\ k \in upTo(k) /\ k \notin upTo(i)
    BY ONLY <2>0, i \in S, k \in S
  <2>2. upTo(k) \in SUBSET S OBVIOUS
  <2>3. IsFiniteSet(upTo(k)) BY <1>1, <2>2, FS_Subset
  <2>4. rank(i) <= rank(k) /\ rank(i) # rank(k)
    <3> HIDE DEF upTo
    <3> QED BY <2>1, <2>3, FS_Subset
  <2> QED BY <1>2, <2>4
<1> HIDE DEF upTo, rank
<1>4. ASSUME NEW n \in 1..Cardinality(S) PROVE \E i \in S : rank(i) = n
  <2> DEFINE F == [i \in S |-> rank(i)]
  <2>1. F \in [S -> 1..Cardinality(S)] BY <1>2
  <2>2. \A i, k \in S : i # k => F[i] # F[k] BY <1>2, <1>3
  <2>3. F \in Injection(S, 1..Cardinality(S))
    BY <2>1, <2>2 DEF Injection, IsInjective
  <2>4. IsFiniteSet(1..Cardinality(S)) /\ Cardinality(1..Cardinality(S)) = Cardinality(S)
    BY <1>1, FS_Interval
  <2>5. F \in Surjection(S, 1..Cardinality(S))
    <3> HIDE DEF F
    <3> QED BY <2>3, <2>4, FS_Injection
  <2> QED BY <2>5 DEF Surjection
<1>5. ASSUME NEW n \in 1..Cardinality(S) PROVE Place(S, n) \in S /\ rank(Place(S, n)) = n
  BY <1>4 DEF Place, rank, upTo
<1>6. ASSUME NEW m \in 1..Cardinality(S), NEW n \in 1..Cardinality(S), m < n
      PROVE  Place(S, m) < Place(S, n)
  <2>1. /\ Place(S, m) \in S /\ Place(S, n) \in S
        /\ rank(Place(S, m)) = m /\ rank(Place(S, n)) = n
    BY <1>5
  <2>2. ~(Place(S, n) < Place(S, m))
    <3> SUFFICES ASSUME Place(S, n) < Place(S, m) PROVE FALSE OBVIOUS
    <3>1. rank(Place(S, n)) < rank(Place(S, m)) BY <1>3, <2>1
    <3> QED BY <1>1, <1>6, <2>1, <3>1
  <2>3. Place(S, n) # Place(S, m) BY <1>1, <1>6, <2>1
  <2>4. Place(S, m) \in Int /\ Place(S, n) \in Int BY <1>0, <2>1
  <2> QED BY <2>2, <2>3, <2>4
<1>7. ASSUME NEW i \in S PROVE \E n \in 1..Cardinality(S) : Place(S, n) = i
  <2>1. Place(S, rank(i)) \in S /\ rank(Place(S, rank(i))) = rank(i) BY <1>2, <1>5
  <2>2. ASSUME NEW k \in S, rank(k) = rank(i) PROVE k = i
    <3>1. rank(i) \in Int BY <1>1, <1>2
    <3>2. ~(k < i) BY <1>3, <2>2, <3>1
    <3>3. ~(i < k) BY <1>3, <2>2, <3>1
    <3> QED BY <1>0, <3>2, <3>3
  <2>3. Place(S, rank(i)) = i BY <2>1, <2>2
  <2>4. rank(i) \in 1..Cardinality(S) BY <1>2
  <2> QED BY <2>3, <2>4
<1> QED BY <1>1, <1>5, <1>6, <1>7

(* The map `part' holds entries of `map', in their order: f tells their places.  *)
InOrder(f, part, map) ==
    /\ f \in [DOMAIN part -> DOMAIN map]
    /\ \A m, n \in DOMAIN part : m < n => f[m] < f[n]
    /\ \A n \in DOMAIN part : part[n] = map[f[n]]

LEMMA PickedInOrder ==
    ASSUME NEW X, NEW map \in Seq(X), NEW S \in SUBSET DOMAIN map
    PROVE  /\ Picked(map, S) \in Seq(X)
           /\ Len(Picked(map, S)) <= Len(map)
           /\ \E f : /\ InOrder(f, Picked(map, S), map)
                     /\ \A n \in DOMAIN Picked(map, S) : f[n] \in S
                     /\ \A i \in S : \E n \in DOMAIN Picked(map, S) : f[n] = i
<1>1. DOMAIN map = 1..Len(map) /\ Len(map) \in Nat OBVIOUS
<1>2. S \in SUBSET (1..Len(map)) BY <1>1
<1> DEFINE size == Cardinality(S)
           f == [n \in 1..size |-> Place(S, n)]
<1>3. /\ size \in 0..Len(map)
      /\ \A n \in 1..size : Place(S, n) \in S
      /\ \A m, n \in 1..size : m < n => Place(S, m) < Place(S, n)
      /\ \A i \in S : \E n \in 1..size : Place(S, n) = i
  BY <1>1, <1>2, PlacesInOrder
<1>4. DOMAIN Picked(map, S) = 1..size BY DEF Picked
<1>5. \A n \in 1..size : Picked(map, S)[n] = map[Place(S, n)] BY DEF Picked
<1> HIDE DEF size
<1>6. \A n \in 1..size : Picked(map, S)[n] \in X BY <1>1, <1>3, <1>5
<1>7. Picked(map, S) = [n \in 1..size |-> map[Place(S, n)]] BY DEF Picked, size
<1>8. Picked(map, S) \in [1..size -> X] BY <1>6, <1>5, <1>7
<1>9. Picked(map, S) \in Seq(X) /\ Len(Picked(map, S)) = size BY <1>3, <1>8
<1>10. InOrder(f, Picked(map, S), map) BY <1>1, <1>3, <1>4, <1>5 DEF InOrder
<1>11. \A n \in DOMAIN Picked(map, S) : f[n] \in S BY <1>3, <1>4
<1>12. \A i \in S : \E n \in DOMAIN Picked(map, S) : f[n] = i BY <1>3, <1>4
<1>13. Len(Picked(map, S)) <= Len(map) BY <1>1, <1>3, <1>9
<1> HIDE DEF f
<1> QED BY <1>9, <1>10, <1>11, <1>12, <1>13

-----------------------------------------------------------------------------

NoKeyTwice(map) == \A i, j \in DOMAIN map : map[i].key = map[j].key => i = j

(* What pruneAttempts drops.                                                     *)
ElapsedEntry(e) == Elapsed(e.first) /\ e.lockedUntil <= minute

LEMMA PrunedMap ==
    ASSUME NEW map \in Seq(Entry)
    PROVE  /\ Pruned(map) \in Seq(Entry)
           /\ Len(Pruned(map)) <= Len(map)
           /\ \E f : /\ InOrder(f, Pruned(map), map)
                     /\ \A i \in DOMAIN map :
                           ~ElapsedEntry(map[i]) => \E n \in DOMAIN Pruned(map) : f[n] = i
<1>1. CASE Len(map) < MaxKeys
  <2> DEFINE f == [n \in DOMAIN map |-> n]
  <2>1. Pruned(map) = map BY <1>1 DEF Pruned
  <2>2. InOrder(f, map, map) BY DEF InOrder
  <2>3. \A i \in DOMAIN map : f[i] = i OBVIOUS
  <2>4. Len(map) <= Len(map) BY LenProperties
  <2> HIDE DEF f
  <2> QED BY <2>1, <2>2, <2>3, <2>4
<1>2. CASE ~(Len(map) < MaxKeys)
  <2> DEFINE S == {i \in DOMAIN map : ~ElapsedEntry(map[i])}
  <2>1. Pruned(map) = Picked(map, S) BY <1>2 DEF Pruned, ElapsedEntry
  <2>2. S \in SUBSET DOMAIN map OBVIOUS
  <2>3. \A i \in DOMAIN map : ~ElapsedEntry(map[i]) => i \in S OBVIOUS
  <2> HIDE DEF S
  <2> QED BY <2>1, <2>2, <2>3, PickedInOrder
<1> QED BY <1>1, <1>2

LEMMA WithoutMap ==
    ASSUME NEW map \in Seq(Entry), NEW k
    PROVE  /\ Without(map, k) \in Seq(Entry)
           /\ Len(Without(map, k)) <= Len(map)
           /\ \E f : /\ InOrder(f, Without(map, k), map)
                     /\ \A n \in DOMAIN Without(map, k) : map[f[n]].key # k
                     /\ \A i \in DOMAIN map : map[i].key # k =>
                           \E n \in DOMAIN Without(map, k) : f[n] = i
<1> DEFINE S == {i \in DOMAIN map : map[i].key # k}
<1>1. Without(map, k) = Picked(map, S) BY DEF Without
<1>2. S \in SUBSET DOMAIN map /\ \A i \in S : map[i].key # k OBVIOUS
<1>3. \A i \in DOMAIN map : map[i].key # k => i \in S OBVIOUS
<1> HIDE DEF S
<1> QED BY <1>1, <1>2, <1>3, PickedInOrder

LEMMA InOrderOfInOrder ==
    ASSUME NEW a, NEW b, NEW c, NEW f, NEW g, InOrder(f, a, b), InOrder(g, b, c)
    PROVE  InOrder([n \in DOMAIN a |-> g[f[n]]], a, c)
BY DEF InOrder

LEMMA NoKeyTwiceInOrder ==
    ASSUME NEW map \in Seq(Entry), NEW part \in Seq(Entry), NEW f, InOrder(f, part, map),
           NoKeyTwice(map)
    PROVE  NoKeyTwice(part)
<1> SUFFICES ASSUME NEW i \in DOMAIN part, NEW j \in DOMAIN part, part[i].key = part[j].key
             PROVE  i = j
    BY DEF NoKeyTwice
<1>1. f[i] = f[j] BY DEF InOrder, NoKeyTwice
<1>2. /\ \A m, n \in DOMAIN part : m < n => f[m] < f[n]
      /\ f[i] \in Int /\ f[j] \in Int /\ i \in Int /\ j \in Int
  BY DEF InOrder
<1> QED BY <1>1, <1>2

(* r holds the counter e at its end and before it the entries of the map for     *)
(* other keys, in their order: f tells their places in the map.                  *)
Renewed(f, r, map, e) ==
    /\ r \in Seq(Entry) /\ Len(r) \in 1..MaxKeys
    /\ r[Len(r)] = e
    /\ f \in [1..(Len(r) - 1) -> DOMAIN map]
    /\ \A m, n \in 1..(Len(r) - 1) : m < n => f[m] < f[n]
    /\ \A n \in 1..(Len(r) - 1) : r[n] = map[f[n]] /\ r[n].key # e.key

(* The entry at place i is still there, or the limit is reached and all that is  *)
(* there was put in after it.                                                    *)
KeptOrCrowdedOut(f, r, i) ==
    \/ \E n \in 1..(Len(r) - 1) : f[n] = i
    \/ Len(r) = MaxKeys /\ \A n \in 1..(Len(r) - 1) : i < f[n]

LEMMA RefreshedMap ==
    ASSUME NEW map \in Seq(Entry), Len(map) <= MaxKeys, NEW e \in Entry
    PROVE  \E f : /\ Renewed(f, Refreshed(map, e), map, e)
                  /\ \A i \in DOMAIN map :
                        map[i].key # e.key => KeptOrCrowdedOut(f, Refreshed(map, e), i)
<1> DEFINE others == Without(map, e.key)
           L == Len(others)
           excess == IF L >= MaxKeys THEN L - MaxKeys + 1 ELSE 0
           r == Refreshed(map, e)
<1>1. PICK g : /\ InOrder(g, others, map)
               /\ \A n \in DOMAIN others : map[g[n]].key # e.key
               /\ \A i \in DOMAIN map : map[i].key # e.key => \E n \in DOMAIN others : g[n] = i
  BY WithoutMap
<1>2. others \in Seq(Entry) /\ L <= MaxKeys /\ L \in Nat /\ DOMAIN others = 1..L
  <2>1. others \in Seq(Entry) /\ Len(others) <= Len(map) BY WithoutMap
  <2>2. Len(map) \in Nat /\ MaxKeys \in Nat BY LenProperties, ThrottleAssumption
  <2> HIDE DEF others
  <2>3. Len(others) \in Nat /\ DOMAIN others = 1..Len(others) BY <2>1, LenProperties
  <2> QED BY <2>1, <2>2, <2>3
<1>3. MaxKeys \in Nat /\ MaxKeys >= 2 BY ThrottleAssumption
<1>4. r = Append(SubSeq(others, excess + 1, L), e) BY DEF Refreshed
<1> HIDE DEF others, r
<1>5. excess \in 0..L /\ L - excess <= MaxKeys - 1 /\ (excess > 0 => L - excess = MaxKeys - 1)
  BY <1>2, <1>3
<1> HIDE DEF excess
<1> DEFINE kept == SubSeq(others, excess + 1, L)
<1>6. /\ kept \in Seq(Entry) /\ Len(kept) = L - excess
      /\ \A n \in 1..(L - excess) : kept[n] = others[n + excess]
  <2>1. \A i \in (excess + 1)..L : others[i] \in Entry BY <1>2, <1>5
  <2>2. excess + 1 \in 1..(L + 1) BY <1>2, <1>5
  <2> HIDE DEF L
  <2> QED BY <1>2, <1>5, <2>1, <2>2, SubSeqProperties
<1>7. r = Append(kept, e) BY <1>4
<1> HIDE DEF kept, L
<1>8. /\ r \in Seq(Entry) /\ Len(r) = L - excess + 1
      /\ r[Len(r)] = e
      /\ \A n \in 1..(L - excess) : r[n] = others[n + excess]
  <2>1. L - excess \in Nat BY <1>2, <1>5
  <2>2. /\ r \in Seq(Entry) /\ Len(r) = Len(kept) + 1
        /\ \A i \in 1..Len(kept) : r[i] = kept[i]
        /\ r[Len(kept) + 1] = e
    BY <1>6, <1>7, AppendProperties
  <2> QED BY <1>6, <2>1, <2>2
<1>9. /\ Len(r) \in 1..MaxKeys /\ Len(r) - 1 = L - excess
      /\ \A n \in 1..(L - excess) : n + excess \in 1..L
  BY <1>2, <1>3, <1>5, <1>8
<1> DEFINE f == [n \in 1..(L - excess) |-> g[n + excess]]
<1>10. /\ \A n \in 1..L : g[n] \in DOMAIN map /\ others[n] = map[g[n]]
       /\ \A m, n \in 1..L : m < n => g[m] < g[n]
  BY <1>1, <1>2 DEF InOrder
<1>11. f \in [1..(L - excess) -> DOMAIN map] BY <1>9, <1>10
<1>12. ASSUME NEW m \in 1..(L - excess), NEW n \in 1..(L - excess), m < n PROVE f[m] < f[n]
  BY <1>2, <1>5, <1>9, <1>10, <1>12
<1>13. ASSUME NEW n \in 1..(L - excess) PROVE r[n] = map[f[n]] /\ r[n].key # e.key
  BY <1>1, <1>2, <1>8, <1>9, <1>10
<1>14. Renewed(f, r, map, e)
  <2> HIDE DEF f
  <2> QED BY <1>8, <1>9, <1>11, <1>12, <1>13 DEF Renewed
<1>15. ASSUME NEW i \in DOMAIN map, map[i].key # e.key PROVE KeptOrCrowdedOut(f, r, i)
  <2>1. PICK p \in 1..L : g[p] = i BY <1>1, <1>2, <1>15
  <2>2. CASE p > excess
    <3>1. p - excess \in 1..(L - excess) /\ (p - excess) + excess = p BY <1>2, <1>5, <2>2
    <3>2. f[p - excess] = i BY <2>1, <3>1
    <3> HIDE DEF f
    <3> QED BY <1>9, <3>1, <3>2 DEF KeptOrCrowdedOut
  <2>3. CASE ~(p > excess)
    <3>1. excess > 0 /\ Len(r) = MaxKeys BY <1>2, <1>3, <1>5, <1>8, <2>3
    <3>2. ASSUME NEW n \in 1..(L - excess) PROVE i < f[n]
      <4>1. p < n + excess BY <1>2, <1>5, <2>3
      <4> QED BY <1>9, <1>10, <2>1, <4>1
    <3> HIDE DEF f
    <3> QED BY <1>9, <3>1, <3>2 DEF KeptOrCrowdedOut
  <2> QED BY <2>2, <2>3
<1> HIDE DEF f
<1> QED BY <1>14, <1>15 DEF r

-----------------------------------------------------------------------------

LEMMA GetFound ==
    ASSUME NEW map, NEW k, NEW i \in DOMAIN map, map[i].key = k, NoKeyTwice(map)
    PROVE  Has(map, k) /\ Get(map, k) = map[i]
<1> DEFINE found == CHOOSE j \in DOMAIN map : map[j].key = k
<1>1. found \in DOMAIN map /\ map[found].key = k OBVIOUS
<1> HIDE DEF found
<1>2. found = i BY <1>1 DEF NoKeyTwice
<1> QED BY <1>2 DEF Has, Get, found

LEMMA GetEntry ==
    ASSUME NEW map \in Seq(Entry), NEW k, Has(map, k)
    PROVE  Get(map, k) \in Entry /\ Get(map, k).key = k
<1> DEFINE found == CHOOSE j \in DOMAIN map : map[j].key = k
<1>1. found \in DOMAIN map /\ map[found].key = k BY DEF Has
<1> HIDE DEF found
<1>2. map[found] \in Entry BY <1>1
<1> QED BY <1>1, <1>2 DEF Get, found

LEMMA EntryCount ==
    ASSUME NEW map \in Seq(Entry), NEW i \in DOMAIN map
    PROVE  map[i].count \in Nat
<1>1. map[i] \in Entry OBVIOUS
<1> QED BY <1>1 DEF Entry

(* One more failure of a key: the counter goes on if its window has not elapsed, *)
(* and begins again at 1 if it has or if there is none.                          *)
Resumes(map, k) == Has(map, k) /\ ~Elapsed(Get(map, k).first)

LEMMA CountedEntry ==
    ASSUME NEW map \in Seq(Entry), NEW k \in Key, minute \in Nat
    PROVE  /\ Counted(map, k) \in Entry
           /\ Counted(map, k).key = k
           /\ Resumes(map, k) => /\ Counted(map, k).count = Get(map, k).count + 1
                                 /\ Counted(map, k).first = Get(map, k).first
           /\ ~Resumes(map, k) => /\ Counted(map, k).count = 1
                                  /\ Counted(map, k).first = minute
           /\ Counted(map, k).count >= MaxAttempts =>
                 Counted(map, k).lockedUntil = minute + WindowLength
<1> DEFINE old == IF Resumes(map, k) THEN Get(map, k)
                  ELSE [key |-> k, count |-> 0, first |-> minute, lockedUntil |-> 0]
           until(o) == IF o.count + 1 >= MaxAttempts THEN minute + WindowLength
                       ELSE o.lockedUntil
           new(o) == [key |-> k, count |-> o.count + 1, first |-> o.first,
                      lockedUntil |-> until(o)]
<1>1. Counted(map, k) = new(old) BY DEF Counted, Resumes
<1>2. MaxAttempts \in Nat /\ WindowLength \in Nat BY ThrottleAssumption
<1>3. ASSUME NEW o \in Entry
      PROVE  /\ new(o) \in Entry /\ new(o).key = k
             /\ new(o).count = o.count + 1 /\ new(o).first = o.first
             /\ new(o).count >= MaxAttempts => new(o).lockedUntil = minute + WindowLength
  <2>1. o.count \in Nat /\ o.first \in Int /\ o.lockedUntil \in Int BY DEF Entry
  <2>2. until(o) \in Int /\ (o.count + 1 >= MaxAttempts => until(o) = minute + WindowLength)
    BY <1>2, <2>1
  <2> HIDE DEF until
  <2>3. new(o) \in Entry BY <2>1, <2>2 DEF Entry
  <2> QED BY <2>2, <2>3
<1>4. CASE Resumes(map, k)
  <2>1. old = Get(map, k) BY <1>4
  <2>2. Get(map, k) \in Entry BY <1>4, GetEntry DEF Resumes
  <2> HIDE DEF new, old
  <2> QED BY <1>1, <1>3, <1>4, <2>1, <2>2
<1>5. CASE ~Resumes(map, k)
  <2>1. old = [key |-> k, count |-> 0, first |-> minute, lockedUntil |-> 0] BY <1>5
  <2>2. old \in Entry BY <2>1 DEF Entry
  <2>3. old.count = 0 /\ old.first = minute BY <2>1
  <2> HIDE DEF new, old
  <2> QED BY <1>1, <1>3, <1>5, <2>2, <2>3
<1> QED BY <1>4, <1>5

(* Pruning does not change what a failure counts: it drops elapsed windows only. *)
LEMMA ResumesAfterPruning ==
    ASSUME NEW map \in Seq(Entry), NoKeyTwice(map), NEW k
    PROVE  /\ Resumes(Pruned(map), k) <=> Resumes(map, k)
           /\ Resumes(map, k) => Get(Pruned(map), k) = Get(map, k)
<1>1. PICK f : /\ InOrder(f, Pruned(map), map)
               /\ \A i \in DOMAIN map :
                     ~ElapsedEntry(map[i]) => \E n \in DOMAIN Pruned(map) : f[n] = i
  BY PrunedMap
<1>2. Pruned(map) \in Seq(Entry) /\ NoKeyTwice(Pruned(map))
  BY <1>1, PrunedMap, NoKeyTwiceInOrder
<1>3. ASSUME NEW n \in DOMAIN Pruned(map), Pruned(map)[n].key = k
      PROVE  Has(Pruned(map), k) /\ Has(map, k) /\ Get(Pruned(map), k) = Get(map, k)
  <2>1. f[n] \in DOMAIN map /\ map[f[n]] = Pruned(map)[n] BY <1>1 DEF InOrder
  <2>2. Has(map, k) /\ Get(map, k) = map[f[n]] BY <1>3, <2>1, GetFound
  <2>3. Has(Pruned(map), k) /\ Get(Pruned(map), k) = Pruned(map)[n] BY <1>2, <1>3, GetFound
  <2> QED BY <2>1, <2>2, <2>3
<1>4. Resumes(Pruned(map), k) => Resumes(map, k) BY <1>3 DEF Resumes, Has
<1>5. ASSUME Resumes(map, k)
      PROVE  Resumes(Pruned(map), k) /\ Get(Pruned(map), k) = Get(map, k)
  <2>1. PICK i \in DOMAIN map : map[i].key = k BY <1>5 DEF Resumes, Has
  <2>2. Get(map, k) = map[i] BY <2>1, GetFound
  <2>3. ~ElapsedEntry(map[i]) BY <1>5, <2>2 DEF Resumes, ElapsedEntry
  <2>4. PICK n \in DOMAIN Pruned(map) : f[n] = i BY <1>1, <2>3
  <2>5. Pruned(map)[n].key = k BY <1>1, <2>1, <2>4 DEF InOrder
  <2> QED BY <1>3, <1>5, <2>5 DEF Resumes
<1> QED BY <1>4, <1>5

-----------------------------------------------------------------------------

(* The counter k has after one more failure, next to the one the map holds.      *)
OneMore(e, map, k) ==
    /\ e \in Entry /\ e.key = k
    /\ Resumes(map, k) => e.count = Get(map, k).count + 1 /\ e.first = Get(map, k).first
    /\ ~Resumes(map, k) => e.count = 1 /\ e.first = minute
    /\ e.count >= MaxAttempts => e.lockedUntil = minute + WindowLength

WellKept(map) == map \in Seq(Entry) /\ Len(map) <= MaxKeys /\ NoKeyTwice(map)

LEMMA FailedMap ==
    ASSUME NEW map, WellKept(map), NEW k \in Key, minute \in Nat
    PROVE  /\ WellKept(Failed(map, k))
           /\ \E f, e : /\ OneMore(e, map, k)
                        /\ Renewed(f, Failed(map, k), map, e)
                        /\ \A i \in DOMAIN map :
                              map[i].key # k /\ ~ElapsedEntry(map[i])
                                  => KeptOrCrowdedOut(f, Failed(map, k), i)
<1> DEFINE kept == Pruned(map)
           e == Counted(kept, k)
           r == Failed(map, k)
<1>1. map \in Seq(Entry) /\ Len(map) <= MaxKeys /\ NoKeyTwice(map) BY DEF WellKept
<1>2. kept \in Seq(Entry) /\ Len(kept) <= MaxKeys
  <2>1. kept \in Seq(Entry) /\ Len(kept) <= Len(map) BY <1>1, PrunedMap
  <2>2. Len(map) \in Nat /\ Len(kept) \in Nat /\ MaxKeys \in Nat
    BY <1>1, <2>1, LenProperties, ThrottleAssumption
  <2> QED BY <1>1, <2>1, <2>2
<1>3. PICK g : /\ InOrder(g, kept, map)
               /\ \A i \in DOMAIN map : ~ElapsedEntry(map[i]) => \E m \in DOMAIN kept : g[m] = i
  BY <1>1, PrunedMap
<1>4. OneMore(e, map, k)
  <2>1. /\ Resumes(kept, k) <=> Resumes(map, k)
        /\ Resumes(map, k) => Get(kept, k) = Get(map, k)
    BY <1>1, ResumesAfterPruning
  <2> HIDE DEF kept
  <2> QED BY <1>2, <2>1, CountedEntry DEF OneMore
<1>5. r = Refreshed(kept, e) BY DEF Failed
<1>6. e \in Entry /\ e.key = k BY <1>4 DEF OneMore
<1> HIDE DEF kept, e, r
<1>7. PICK h : /\ Renewed(h, r, kept, e)
               /\ \A m \in DOMAIN kept : kept[m].key # k => KeptOrCrowdedOut(h, r, m)
  BY <1>2, <1>5, <1>6, RefreshedMap
<1> DEFINE f == [n \in 1..(Len(r) - 1) |-> g[h[n]]]
<1>8. /\ r \in Seq(Entry) /\ Len(r) \in 1..MaxKeys /\ r[Len(r)] = e
      /\ h \in [1..(Len(r) - 1) -> DOMAIN kept]
      /\ \A m, n \in 1..(Len(r) - 1) : m < n => h[m] < h[n]
      /\ \A n \in 1..(Len(r) - 1) : r[n] = kept[h[n]] /\ r[n].key # e.key
  BY <1>7 DEF Renewed
<1>9. /\ g \in [DOMAIN kept -> DOMAIN map]
      /\ \A m, n \in DOMAIN kept : m < n => g[m] < g[n]
      /\ \A n \in DOMAIN kept : kept[n] = map[g[n]]
  BY <1>3 DEF InOrder
<1>10. Renewed(f, r, map, e) BY <1>8, <1>9 DEF Renewed
<1>11. ASSUME NEW i \in DOMAIN map, map[i].key # k, ~ElapsedEntry(map[i])
       PROVE  KeptOrCrowdedOut(f, r, i)
  <2>1. PICK m \in DOMAIN kept : g[m] = i BY <1>3, <1>11
  <2>2. kept[m].key # k BY <1>9, <1>11, <2>1
  <2>3. KeptOrCrowdedOut(h, r, m) BY <1>7, <2>2
  <2>4. ASSUME NEW n \in 1..(Len(r) - 1) PROVE /\ h[n] = m => f[n] = i
                                               /\ m < h[n] => i < f[n]
    BY <1>8, <1>9, <2>1
  <2> HIDE DEF f
  <2> QED BY <2>3, <2>4 DEF KeptOrCrowdedOut
<1>12. NoKeyTwice(r)
  <2> SUFFICES ASSUME NEW i \in DOMAIN r, NEW j \in DOMAIN r, r[i].key = r[j].key
               PROVE  i = j
      BY DEF NoKeyTwice
  <2>1. /\ Len(r) \in Nat /\ DOMAIN r = 1..Len(r) BY <1>8
  <2>2. \A n \in 1..(Len(r) - 1) : r[n].key # r[Len(r)].key BY <1>8
  <2>3. CASE i = Len(r) \/ j = Len(r) BY <2>1, <2>2, <2>3
  <2>4. CASE i # Len(r) /\ j # Len(r)
    <3>1. i \in 1..(Len(r) - 1) /\ j \in 1..(Len(r) - 1) BY <2>1, <2>4
    <3>2. f \in [1..(Len(r) - 1) -> DOMAIN map]
          /\ (\A m, n \in 1..(Len(r) - 1) : m < n => f[m] < f[n])
          /\ (\A n \in 1..(Len(r) - 1) : r[n] = map[f[n]])
      BY <1>10 DEF Renewed
    <3> HIDE DEF f
    <3>3. f[i] = f[j] BY <1>1, <3>1, <3>2 DEF NoKeyTwice
    <3>4. DOMAIN map \subseteq Int BY <1>1
    <3>5. f[i] \in Int /\ f[j] \in Int BY <3>1, <3>2, <3>4
    <3> QED BY <2>1, <3>1, <3>2, <3>3, <3>5
  <2> QED BY <2>3, <2>4
<1>13. WellKept(r) BY <1>8, <1>12, ThrottleAssumption DEF WellKept
<1> HIDE DEF f
<1> QED BY <1>4, <1>10, <1>11, <1>13 DEF r

-----------------------------------------------------------------------------
(* The counter of one client, through one registerFail.                          *)

IpKey(c) == <<AnyName, c>>

(* The places of the keys of the other clients.                                  *)
OfOthers(map, c) == {i \in DOMAIN map : map[i].key[2] # c}

(* They leave two places: the client's own, and that of the name it tries.       *)
RoomIn(map, c) == Cardinality(OfOthers(map, c)) + 2 <= MaxKeys

(* The failures t of a client still count, or have locked it.                    *)
Counting(t) ==
    /\ t.count > 0
    /\ \/ ~Elapsed(t.first)
       \/ t.count >= MaxAttempts /\ minute < t.last + WindowLength

Tries == [count : Nat, first : Int, last : Int]

(* The map's counter of a client agrees with its failures t.                     *)
Recorded(map, t, c) ==
    \A i \in DOMAIN map : map[i].key = IpKey(c) =>
        /\ t.count > 0
        /\ map[i].first = t.first /\ map[i].count >= t.count
        /\ map[i].count >= MaxAttempts => map[i].lockedUntil = t.last + WindowLength

(* What was put in after the counter of a client is of other clients.            *)
OwnCounterLast(map, c) ==
    \A i, j \in DOMAIN map : map[i].key = IpKey(c) /\ i < j => map[j].key[2] # c

CounterThere(map, t, c) == Counting(t) => Has(map, IpKey(c))

LEMMA RecordedByOthers ==
    ASSUME NEW map, WellKept(map), NEW k \in Key, minute \in Nat, NEW t \in Tries,
           NEW c \in Client, k # IpKey(c), Recorded(map, t, c)
    PROVE  Recorded(Failed(map, k), t, c)
<1> DEFINE r == Failed(map, k)
<1>1. PICK f, e : OneMore(e, map, k) /\ Renewed(f, r, map, e) BY FailedMap
<1> HIDE DEF r
<1> SUFFICES ASSUME NEW i \in DOMAIN r, r[i].key = IpKey(c)
             PROVE  \E j \in DOMAIN map : r[i] = map[j]
    BY DEF Recorded, r
<1>2. Len(r) \in Nat /\ DOMAIN r = 1..Len(r) /\ r[Len(r)] = e BY <1>1 DEF Renewed
<1>3. i # Len(r) BY <1>1, <1>2 DEF OneMore
<1>4. i \in 1..(Len(r) - 1) BY <1>2, <1>3
<1>5. f[i] \in DOMAIN map /\ r[i] = map[f[i]] BY <1>1, <1>4 DEF Renewed
<1> QED BY <1>5

LEMMA LastAmongOthers ==
    ASSUME NEW map, WellKept(map), NEW k \in Key, minute \in Nat, NEW c \in Client,
           k[2] # c, OwnCounterLast(map, c)
    PROVE  OwnCounterLast(Failed(map, k), c)
<1> DEFINE r == Failed(map, k)
<1>1. PICK f, e : OneMore(e, map, k) /\ Renewed(f, r, map, e) BY FailedMap
<1> HIDE DEF r
<1> SUFFICES ASSUME NEW i \in DOMAIN r, NEW j \in DOMAIN r, r[i].key = IpKey(c), i < j
             PROVE  r[j].key[2] # c
    BY DEF OwnCounterLast, r
<1>2. Len(r) \in Nat /\ DOMAIN r = 1..Len(r) /\ r[Len(r)].key = k
  BY <1>1 DEF Renewed, OneMore
<1>3. CASE j = Len(r) BY <1>2, <1>3
<1>4. CASE j # Len(r)
  <2>1. i \in 1..(Len(r) - 1) /\ j \in 1..(Len(r) - 1) BY <1>2, <1>4
  <2>2. /\ f[i] \in DOMAIN map /\ f[j] \in DOMAIN map /\ f[i] < f[j]
        /\ r[i] = map[f[i]] /\ r[j] = map[f[j]]
    BY <1>1, <2>1 DEF Renewed
  <2> QED BY <2>2 DEF OwnCounterLast
<1> QED BY <1>3, <1>4

LEMMA LastOfItsOwn ==
    ASSUME NEW map, WellKept(map), minute \in Nat, NEW c \in Client
    PROVE  OwnCounterLast(Failed(map, IpKey(c)), c)
<1> DEFINE k == IpKey(c)
           r == Failed(map, k)
<1>0. k \in Key BY DEF IpKey, Key
<1>1. PICK f, e : OneMore(e, map, k) /\ Renewed(f, r, map, e) BY <1>0, FailedMap
<1> HIDE DEF r
<1>2. Len(r) \in Nat /\ DOMAIN r = 1..Len(r) /\ e.key = k BY <1>1 DEF Renewed, OneMore
<1>3. \A i \in 1..(Len(r) - 1) : r[i].key # k BY <1>1, <1>2 DEF Renewed
<1>4. ASSUME NEW i \in DOMAIN r, NEW j \in DOMAIN r, r[i].key = IpKey(c), i < j PROVE FALSE
  BY <1>2, <1>3, <1>4
<1> QED BY <1>4 DEF OwnCounterLast, r

(* A failure of another key pushes the counter of a client out only if, from its *)
(* place on, the map holds nothing but keys of others.                           *)
LEMMA ThereOrCrowdedOut ==
    ASSUME NEW map, WellKept(map), NEW k \in Key, minute \in Nat, NEW t \in Tries,
           NEW c \in Client, k # IpKey(c), Recorded(map, t, c), OwnCounterLast(map, c),
           Counting(t), Has(map, IpKey(c)), ~Has(Failed(map, k), IpKey(c))
    PROVE  \E f, e : /\ OneMore(e, map, k) /\ Renewed(f, Failed(map, k), map, e)
                     /\ Len(Failed(map, k)) = MaxKeys
                     /\ \A n \in 1..(MaxKeys - 1) : map[f[n]].key[2] # c
<1> DEFINE r == Failed(map, k)
<1>1. PICK i \in DOMAIN map : map[i].key = IpKey(c) BY DEF Has
<1>2. ~ElapsedEntry(map[i])
  <2>1. /\ map[i].first = t.first /\ map[i].count >= t.count
        /\ map[i].count >= MaxAttempts => map[i].lockedUntil = t.last + WindowLength
    BY <1>1 DEF Recorded
  <2>2. map[i] \in Entry BY DEF WellKept
  <2>3. /\ map[i].count \in Nat /\ map[i].lockedUntil \in Int /\ t.count \in Nat /\ t.last \in Int
        /\ MaxAttempts \in Nat /\ WindowLength \in Nat
    BY <2>2, ThrottleAssumption DEF Entry, Tries
  <2>4. CASE ~Elapsed(t.first) BY <2>1, <2>4 DEF ElapsedEntry
  <2>5. CASE t.count >= MaxAttempts /\ minute < t.last + WindowLength
    BY <2>1, <2>3, <2>5 DEF ElapsedEntry
  <2> QED BY <2>4, <2>5 DEF Counting
<1>3. PICK f, e : /\ OneMore(e, map, k) /\ Renewed(f, r, map, e)
                  /\ map[i].key # k /\ ~ElapsedEntry(map[i]) => KeptOrCrowdedOut(f, r, i)
  BY FailedMap
<1> HIDE DEF r
<1>4. KeptOrCrowdedOut(f, r, i) BY <1>1, <1>2, <1>3
<1>5. ~Has(r, IpKey(c)) BY DEF r
<1>6. Len(r) \in Nat /\ DOMAIN r = 1..Len(r) BY <1>3 DEF Renewed
<1>7. ~(\E n \in 1..(Len(r) - 1) : f[n] = i)
  <2> SUFFICES ASSUME NEW n \in 1..(Len(r) - 1), f[n] = i PROVE FALSE OBVIOUS
  <2>1. r[n].key = IpKey(c) BY <1>1, <1>3 DEF Renewed
  <2> QED BY <1>5, <1>6, <2>1 DEF Has
<1>8. Len(r) = MaxKeys /\ \A n \in 1..(Len(r) - 1) : i < f[n]
  BY <1>4, <1>7 DEF KeptOrCrowdedOut
<1>9. ASSUME NEW n \in 1..(MaxKeys - 1) PROVE map[f[n]].key[2] # c
  <2>1. f[n] \in DOMAIN map /\ i < f[n] BY <1>3, <1>8 DEF Renewed
  <2> QED BY <1>1, <2>1 DEF OwnCounterLast
<1> QED BY <1>3, <1>8, <1>9 DEF r

(* So not if the others left it room before ...                                  *)
LEMMA ThereIfRoomBefore ==
    ASSUME NEW map, WellKept(map), NEW k \in Key, minute \in Nat, NEW t \in Tries,
           NEW c \in Client, k # IpKey(c), Recorded(map, t, c), OwnCounterLast(map, c),
           CounterThere(map, t, c), RoomIn(map, c)
    PROVE  CounterThere(Failed(map, k), t, c)
<1> SUFFICES ASSUME Counting(t), ~Has(Failed(map, k), IpKey(c)) PROVE FALSE
    BY DEF CounterThere
<1>1. Has(map, IpKey(c)) BY DEF CounterThere
<1>2. PICK f, e : /\ Renewed(f, Failed(map, k), map, e)
                  /\ Len(Failed(map, k)) = MaxKeys
                  /\ \A n \in 1..(MaxKeys - 1) : map[f[n]].key[2] # c
  BY <1>1, ThereOrCrowdedOut
<1> DEFINE O == OfOthers(map, c)
<1>3. MaxKeys \in Nat /\ MaxKeys >= 2 BY ThrottleAssumption
<1>4. /\ f \in [1..(MaxKeys - 1) -> DOMAIN map]
      /\ \A m, n \in 1..(MaxKeys - 1) : m < n => f[m] < f[n]
  BY <1>2 DEF Renewed
<1>5. /\ Len(map) \in Nat /\ DOMAIN map = 1..Len(map) BY DEF WellKept
<1>6. f \in Injection(1..(MaxKeys - 1), O)
  <2>1. f \in [1..(MaxKeys - 1) -> O] BY <1>2, <1>4 DEF OfOthers
  <2>2. ASSUME NEW m \in 1..(MaxKeys - 1), NEW n \in 1..(MaxKeys - 1), f[m] = f[n] PROVE m = n
    <3>1. f[m] \in Int /\ f[n] \in Int /\ m \in Int /\ n \in Int BY <1>4, <1>5
    <3> QED BY <1>4, <2>2, <3>1
  <2> QED BY <2>1, <2>2 DEF Injection, IsInjective
<1>7. IsFiniteSet(O)
  <2>1. O \in SUBSET (1..Len(map)) BY <1>5 DEF OfOthers
  <2>2. IsFiniteSet(1..Len(map)) BY <1>5, FS_Interval
  <2> QED BY <2>1, <2>2, FS_Subset
<1>8. Cardinality(1..(MaxKeys - 1)) = MaxKeys - 1 BY <1>3, FS_Interval
<1> HIDE DEF O
<1>9. Cardinality(1..(MaxKeys - 1)) <= Cardinality(O) BY <1>6, <1>7, FS_Injection
<1>10. Cardinality(O) \in Nat BY <1>7, FS_CardinalityType
<1> QED BY <1>3, <1>8, <1>9, <1>10 DEF RoomIn, O

(* ... nor if they leave it room afterwards.                                     *)
LEMMA ThereIfRoomAfter ==
    ASSUME NEW map, WellKept(map), NEW k \in Key, minute \in Nat, NEW t \in Tries,
           NEW c \in Client, k[2] # c, Recorded(map, t, c), OwnCounterLast(map, c),
           CounterThere(map, t, c), RoomIn(Failed(map, k), c)
    PROVE  CounterThere(Failed(map, k), t, c)
<1> SUFFICES ASSUME Counting(t), ~Has(Failed(map, k), IpKey(c)) PROVE FALSE
    BY DEF CounterThere
<1>1. Has(map, IpKey(c)) /\ k # IpKey(c) BY DEF CounterThere, IpKey
<1> DEFINE r == Failed(map, k)
<1>2. PICK f, e : /\ OneMore(e, map, k) /\ Renewed(f, r, map, e)
                  /\ Len(r) = MaxKeys
                  /\ \A n \in 1..(MaxKeys - 1) : map[f[n]].key[2] # c
  BY <1>1, ThereOrCrowdedOut
<1> HIDE DEF r
<1>3. MaxKeys \in Nat /\ MaxKeys >= 2 BY ThrottleAssumption
<1>4. DOMAIN r = 1..MaxKeys /\ r[MaxKeys].key = k BY <1>2 DEF Renewed, OneMore
<1>5. \A n \in 1..(MaxKeys - 1) : r[n] = map[f[n]] BY <1>2 DEF Renewed
<1>6. OfOthers(r, c) = 1..MaxKeys
  <2>1. ASSUME NEW n \in 1..MaxKeys PROVE r[n].key[2] # c
    <3>1. CASE n = MaxKeys BY <1>4, <3>1
    <3>2. CASE n # MaxKeys
      <4>1. n \in 1..(MaxKeys - 1) BY <1>3, <3>2
      <4> QED BY <1>2, <1>5, <4>1
    <3> QED BY <3>1, <3>2
  <2> QED BY <1>4, <2>1 DEF OfOthers
<1>7. Cardinality(1..MaxKeys) = MaxKeys BY <1>3, FS_Interval
<1> QED BY <1>3, <1>6, <1>7 DEF RoomIn, r

LEMMA TriedMoreIs ==
    ASSUME NEW t \in Tries, minute \in Nat
    PROVE  /\ TriedMore(t) \in Tries /\ TriedMore(t).count > 0
           /\ TriedMore(t).last = minute /\ ~Elapsed(TriedMore(t).first)
           /\ t.count = 0 \/ Elapsed(t.first) =>
                 TriedMore(t).count = 1 /\ TriedMore(t).first = minute
           /\ t.count # 0 /\ ~Elapsed(t.first) =>
                 TriedMore(t).count = t.count + 1 /\ TriedMore(t).first = t.first
<1>0. t.count \in Nat /\ t.first \in Int /\ t.last \in Int BY DEF Tries
<1>1. CASE t.count = 0 \/ Elapsed(t.first)
  <2>1. TriedMore(t) = [count |-> 1, first |-> minute, last |-> minute]
    BY <1>1 DEF TriedMore
  <2>2. ~Elapsed(minute) BY ThrottleAssumption DEF Elapsed
  <2> QED BY <1>1, <2>1, <2>2 DEF Tries
<1>2. CASE ~(t.count = 0 \/ Elapsed(t.first))
  <2>1. TriedMore(t) = [count |-> t.count + 1, first |-> t.first, last |-> minute]
    BY <1>2 DEF TriedMore
  <2>2. /\ TriedMore(t) \in Tries /\ TriedMore(t).count = t.count + 1
        /\ TriedMore(t).first = t.first /\ TriedMore(t).last = minute
    BY <1>0, <2>1 DEF Tries
  <2> QED BY <1>0, <1>2, <2>2
<1> QED BY <1>1, <1>2

(* The entry its own failure leaves is the only one of that key.                 *)
LEMMA OwnCounter ==
    ASSUME NEW map, WellKept(map), minute \in Nat, NEW c \in Client
    PROVE  \E e : /\ OneMore(e, map, IpKey(c))
                  /\ \E i \in DOMAIN Failed(map, IpKey(c)) :
                        Failed(map, IpKey(c))[i] = e
                  /\ \A i \in DOMAIN Failed(map, IpKey(c)) :
                        Failed(map, IpKey(c))[i].key = IpKey(c) =>
                            Failed(map, IpKey(c))[i] = e
<1> DEFINE k == IpKey(c)
           r == Failed(map, k)
<1>0. k \in Key BY DEF IpKey, Key
<1>1. PICK f, e : OneMore(e, map, k) /\ Renewed(f, r, map, e) BY <1>0, FailedMap
<1> HIDE DEF r
<1>2. Len(r) \in 1..MaxKeys /\ DOMAIN r = 1..Len(r) /\ r[Len(r)] = e /\ e.key = k
  BY <1>1 DEF Renewed, OneMore
<1>3. \A i \in 1..(Len(r) - 1) : r[i].key # k BY <1>1, <1>2 DEF Renewed
<1>4. \A i \in DOMAIN r : r[i].key = k => r[i] = e BY <1>2, <1>3, ThrottleAssumption
<1>5. Len(r) \in DOMAIN r BY <1>2, ThrottleAssumption
<1> QED BY <1>1, <1>2, <1>4, <1>5 DEF r

LEMMA OwnFailureCounts ==
    ASSUME NEW map, WellKept(map), minute \in Nat, NEW c \in Client, NEW t \in Tries,
           Recorded(map, t, c), CounterThere(map, t, c)
    PROVE  /\ Recorded(Failed(map, IpKey(c)), TriedMore(t), c)
           /\ Has(Failed(map, IpKey(c)), IpKey(c))
<1> DEFINE k == IpKey(c)
           r == Failed(map, k)
           more == TriedMore(t)
<1>1. PICK e : /\ OneMore(e, map, k)
               /\ \E i \in DOMAIN r : r[i] = e
               /\ \A i \in DOMAIN r : r[i].key = k => r[i] = e
  BY OwnCounter
<1>2. more \in Tries /\ more.count > 0 /\ more.last = minute BY TriedMoreIs
<1>3. t.count \in Nat /\ MaxAttempts \in Nat /\ WindowLength \in Nat /\ e.count \in Nat
  BY <1>1, ThrottleAssumption DEF Tries, OneMore, Entry
<1>4. e.first = more.first /\ e.count >= more.count
  <2>1. CASE Resumes(map, k)
    <3>1. PICK i \in DOMAIN map : map[i].key = k BY <2>1 DEF Resumes, Has
    <3>2. Get(map, k) = map[i] BY <3>1, GetFound DEF WellKept
    <3>3. t.count > 0 /\ map[i].first = t.first /\ map[i].count >= t.count
      BY <3>1 DEF Recorded
    <3>4. ~Elapsed(t.first) BY <2>1, <3>2, <3>3 DEF Resumes
    <3>5. more.count = t.count + 1 /\ more.first = t.first BY <1>3, <3>3, <3>4, TriedMoreIs
    <3>6. e.count = map[i].count + 1 /\ e.first = map[i].first
      BY <1>1, <2>1, <3>2 DEF OneMore
    <3>7. map[i].count \in Nat BY EntryCount DEF WellKept
    <3> HIDE DEF more
    <3> QED BY <1>3, <3>3, <3>5, <3>6, <3>7
  <2>2. CASE ~Resumes(map, k)
    <3>1. t.count = 0 \/ Elapsed(t.first)
      <4>1. CASE Has(map, k)
        <5>1. PICK i \in DOMAIN map : map[i].key = k BY <4>1 DEF Has
        <5>2. Get(map, k) = map[i] BY <5>1, GetFound DEF WellKept
        <5>3. map[i].first = t.first BY <5>1 DEF Recorded
        <5> QED BY <2>2, <4>1, <5>2, <5>3 DEF Resumes
      <4>2. CASE ~Has(map, k) BY <1>3, <4>2 DEF CounterThere, Counting
      <4> QED BY <4>1, <4>2
    <3>2. more.count = 1 /\ more.first = minute BY <3>1, TriedMoreIs
    <3> QED BY <1>1, <2>2, <3>2 DEF OneMore
  <2> QED BY <2>1, <2>2
<1>5. e.count >= MaxAttempts => e.lockedUntil = more.last + WindowLength
  BY <1>1, <1>2 DEF OneMore
<1>6. Has(r, k) BY <1>1 DEF Has, OneMore
<1> HIDE DEF r, more, k
<1>7. \A i \in DOMAIN r : r[i].key = k =>
        /\ more.count > 0
        /\ r[i].first = more.first /\ r[i].count >= more.count
        /\ r[i].count >= MaxAttempts => r[i].lockedUntil = more.last + WindowLength
  BY <1>1, <1>2, <1>4, <1>5
<1> QED BY <1>6, <1>7 DEF Recorded, r, more, k

(* A failure that counts for the client twice: its name is the AnyName of its    *)
(* address.                                                                      *)
LEMMA OwnFailureCountsAgain ==
    ASSUME NEW map, WellKept(map), minute \in Nat, NEW c \in Client, NEW t \in Tries,
           Recorded(map, TriedMore(t), c), Has(map, IpKey(c))
    PROVE  /\ Recorded(Failed(map, IpKey(c)), TriedMore(t), c)
           /\ Has(Failed(map, IpKey(c)), IpKey(c))
<1> DEFINE k == IpKey(c)
           r == Failed(map, k)
           more == TriedMore(t)
<1>1. PICK e : /\ OneMore(e, map, k)
               /\ \E i \in DOMAIN r : r[i] = e
               /\ \A i \in DOMAIN r : r[i].key = k => r[i] = e
  BY OwnCounter
<1>2. /\ more \in Tries /\ more.count > 0 /\ more.last = minute /\ ~Elapsed(more.first)
  BY TriedMoreIs
<1>3. PICK j \in DOMAIN map : map[j].key = k BY DEF Has
<1>4. Get(map, k) = map[j] BY <1>3, GetFound DEF WellKept
<1>5. map[j].first = more.first /\ map[j].count >= more.count BY <1>3 DEF Recorded
<1>6. e.count = map[j].count + 1 /\ e.first = map[j].first
  BY <1>1, <1>2, <1>4, <1>5 DEF OneMore, Resumes
<1>7. map[j].count \in Nat /\ more.count \in Nat
  <2>1. map[j].count \in Nat BY EntryCount DEF WellKept
  <2> HIDE DEF more
  <2> QED BY <1>2, <2>1 DEF Tries
<1>8. Has(r, k) BY <1>1 DEF Has, OneMore
<1> HIDE DEF r, more, k
<1>9. e.first = more.first /\ e.count >= more.count BY <1>5, <1>6, <1>7
<1>10. \A i \in DOMAIN r : r[i].key = k =>
        /\ more.count > 0
        /\ r[i].first = more.first /\ r[i].count >= more.count
        /\ r[i].count >= MaxAttempts => r[i].lockedUntil = more.last + WindowLength
  BY <1>1, <1>2, <1>9 DEF OneMore
<1> QED BY <1>8, <1>10 DEF Recorded, r, more, k

LEMMA WithoutKept ==
    ASSUME NEW map, WellKept(map), NEW k
    PROVE  /\ WellKept(Without(map, k))
           /\ \A i \in DOMAIN Without(map, k) : Without(map, k)[i].key # k
<1> DEFINE r == Without(map, k)
<1>1. map \in Seq(Entry) /\ Len(map) <= MaxKeys /\ NoKeyTwice(map) BY DEF WellKept
<1>2. r \in Seq(Entry) /\ Len(r) <= Len(map) BY <1>1, WithoutMap
<1>3. PICK f : InOrder(f, r, map) /\ \A n \in DOMAIN r : map[f[n]].key # k
  BY <1>1, WithoutMap
<1> HIDE DEF r
<1>4. NoKeyTwice(r) BY <1>1, <1>2, <1>3, NoKeyTwiceInOrder
<1>5. Len(r) \in Nat /\ Len(map) \in Nat /\ MaxKeys \in Nat
  BY <1>1, <1>2, LenProperties, ThrottleAssumption
<1>6. Len(r) <= MaxKeys BY <1>1, <1>2, <1>5
<1>7. \A i \in DOMAIN r : r[i].key # k BY <1>3 DEF InOrder
<1> QED BY <1>2, <1>4, <1>6, <1>7 DEF WellKept, r

LEMMA WithoutOfOthers ==
    ASSUME NEW map, WellKept(map), NEW k, NEW t, NEW c \in Client, k # IpKey(c),
           Recorded(map, t, c), OwnCounterLast(map, c), CounterThere(map, t, c)
    PROVE  /\ Recorded(Without(map, k), t, c)
           /\ OwnCounterLast(Without(map, k), c)
           /\ CounterThere(Without(map, k), t, c)
<1> DEFINE r == Without(map, k)
<1>1. map \in Seq(Entry) BY DEF WellKept
<1>2. PICK f : /\ InOrder(f, r, map)
               /\ \A i \in DOMAIN map : map[i].key # k => \E n \in DOMAIN r : f[n] = i
  BY <1>1, WithoutMap
<1> HIDE DEF r
<1>3. /\ f \in [DOMAIN r -> DOMAIN map]
      /\ \A m, n \in DOMAIN r : m < n => f[m] < f[n]
      /\ \A n \in DOMAIN r : r[n] = map[f[n]]
  BY <1>2 DEF InOrder
<1>4. Recorded(r, t, c) BY <1>3 DEF Recorded
<1>5. OwnCounterLast(r, c) BY <1>3 DEF OwnCounterLast
<1>6. ASSUME Has(map, IpKey(c)) PROVE Has(r, IpKey(c))
  <2>1. PICK i \in DOMAIN map : map[i].key = IpKey(c) BY <1>6 DEF Has
  <2>2. PICK n \in DOMAIN r : f[n] = i BY <1>2, <2>1
  <2> QED BY <1>3, <2>1, <2>2 DEF Has
<1>7. CounterThere(r, t, c) BY <1>6 DEF CounterThere
<1> QED BY <1>4, <1>5, <1>7 DEF r

(* A key that is taken out stays out when another is.                            *)
LEMMA StaysOut ==
    ASSUME NEW map, WellKept(map), NEW k, NEW l, \A i \in DOMAIN map : map[i].key # l
    PROVE  \A i \in DOMAIN Without(map, k) : Without(map, k)[i].key # l
<1>1. PICK f : InOrder(f, Without(map, k), map) BY WithoutMap DEF WellKept
<1> QED BY <1>1 DEF InOrder

-----------------------------------------------------------------------------

(* The map is well formed, whatever fails: never over its limit, one counter a   *)
(* key (registerFail deletes the key before it evicts and sets).                 *)
ThrottleKept ==
    /\ minute \in 0..LastMinute
    /\ WellKept(attempts)
    /\ tried \in [Client -> Tries]

LEMMA FailsKept ==
    ASSUME ThrottleKept, NEW u \in UserName, NEW c \in Client, LoginFails(u, c)
    PROVE  /\ <<u, c>> \in Key /\ IpKey(c) \in Key /\ minute \in Nat
           /\ WellKept(Failed(attempts, <<u, c>>))
           /\ attempts' = Failed(Failed(attempts, <<u, c>>), IpKey(c))
           /\ ThrottleKept'
<1>1. <<u, c>> \in Key /\ IpKey(c) \in Key BY DEF Key, IpKey
<1>2. minute \in Nat BY ThrottleAssumption DEF ThrottleKept
<1>3. WellKept(Failed(attempts, <<u, c>>)) BY <1>1, <1>2, FailedMap DEF ThrottleKept
<1>4. attempts' = Failed(Failed(attempts, <<u, c>>), IpKey(c)) BY DEF LoginFails, IpKey
<1>5. WellKept(Failed(Failed(attempts, <<u, c>>), IpKey(c))) BY <1>1, <1>2, <1>3, FailedMap
<1>6. tried' \in [Client -> Tries]
  <2>1. TriedMore(tried[c]) \in Tries BY <1>2, TriedMoreIs DEF ThrottleKept
  <2>2. tried' = [tried EXCEPT ![c] = TriedMore(tried[c])] BY DEF LoginFails
  <2> QED BY <2>1, <2>2 DEF ThrottleKept
<1>7. minute' = minute BY DEF LoginFails
<1>8. WellKept(attempts') BY <1>4, <1>5
<1>9. WellKept(attempts)' BY <1>8 DEF WellKept, NoKeyTwice, Entry, Key
<1> QED BY <1>1, <1>2, <1>3, <1>4, <1>6, <1>7, <1>9 DEF ThrottleKept, Tries

LEMMA SucceedsKept ==
    ASSUME ThrottleKept, NEW u \in UserName, NEW c \in Client, LoginSucceeds(u, c)
    PROVE  /\ WellKept(Without(attempts, <<u, c>>))
           /\ attempts' = Without(Without(attempts, <<u, c>>), IpKey(c))
           /\ ThrottleKept'
<1>1. WellKept(Without(attempts, <<u, c>>)) BY WithoutKept DEF ThrottleKept
<1>2. attempts' = Without(Without(attempts, <<u, c>>), IpKey(c)) BY DEF LoginSucceeds, IpKey
<1>3. WellKept(attempts') BY <1>1, <1>2, WithoutKept
<1>4. WellKept(attempts)' BY <1>3 DEF WellKept, NoKeyTwice, Entry, Key
<1>5. tried' \in [Client -> Tries]
  <2>1. NoTries \in Tries BY DEF NoTries, Tries
  <2>2. tried' = [tried EXCEPT ![c] = NoTries] BY DEF LoginSucceeds
  <2> QED BY <2>1, <2>2 DEF ThrottleKept
<1>6. minute' = minute BY DEF LoginSucceeds
<1> QED BY <1>1, <1>2, <1>4, <1>5, <1>6 DEF ThrottleKept, Tries

LEMMA ThrottleKeptNext == ThrottleKept /\ [ThrottleNext]_throttleVars => ThrottleKept'
<1> SUFFICES ASSUME ThrottleKept, [ThrottleNext]_throttleVars PROVE ThrottleKept' OBVIOUS
<1>1. CASE MinutePasses
  BY <1>1, ThrottleAssumption DEF MinutePasses, ThrottleKept, WellKept, NoKeyTwice, Entry, Key, Tries
<1>2. CASE UNCHANGED throttleVars
  BY <1>2 DEF throttleVars, ThrottleKept, WellKept, NoKeyTwice, Entry, Key, Tries
<1>3. ASSUME NEW u \in UserName, NEW c \in Client, LoginFails(u, c) PROVE ThrottleKept'
  BY <1>3, FailsKept
<1>4. ASSUME NEW u \in UserName, NEW c \in Client, LoginSucceeds(u, c) PROVE ThrottleKept'
  BY <1>4, SucceedsKept
<1> QED BY <1>1, <1>2, <1>3, <1>4 DEF ThrottleNext

LEMMA ThrottleKeptInit == ThrottleInit => ThrottleKept
<1> SUFFICES ASSUME ThrottleInit PROVE ThrottleKept OBVIOUS
<1>1. NoTries \in Tries BY DEF NoTries, Tries
<1>2. WellKept(<<>>) BY ThrottleAssumption DEF WellKept, NoKeyTwice
<1> QED BY <1>1, <1>2, ThrottleAssumption DEF ThrottleInit, ThrottleKept

(* The login map stays within its limit and holds one counter a key, with the    *)
(* clock within its bound (registerFail evicts before it sets).                  *)
THEOREM ThrottleMapBounded == ThrottleSpec => []ThrottleTypes
<1>1. ThrottleKept => ThrottleTypes
  BY DEF ThrottleKept, ThrottleTypes, WellKept, NoKeyTwice, Tries
<1> QED BY <1>1, ThrottleKeptInit, ThrottleKeptNext, PTL DEF ThrottleSpec

(* The counter of client c agrees with the failures it had: it is the last of    *)
(* its own keys, and is there for as long as they count or lock it.              *)
CounterInv(c) ==
    /\ Recorded(attempts, tried[c], c)
    /\ OwnCounterLast(attempts, c)
    /\ CounterThere(attempts, tried[c], c)

(* The keys of the other clients leave two places of the map: the client's own,  *)
(* and that of the name it tries.                                                *)
RoomFor(c) == RoomIn(attempts, c)

(* Client c is locked out for a whole window after the last of MaxAttempts       *)
(* failures in one.                                                              *)
Throttled(c) ==
    tried[c].count >= MaxAttempts /\ minute < tried[c].last + WindowLength
        => Locked(<<AnyName, c>>)

LEMMA FailsOfOthers ==
    ASSUME ThrottleKept, NEW u \in UserName, NEW d \in Client, NEW c \in Client, c # d,
           LoginFails(u, d), CounterInv(c), RoomFor(c), RoomFor(c)'
    PROVE  CounterInv(c)'
<1> DEFINE t == tried[c]
           m1 == Failed(attempts, <<u, d>>)
           m2 == Failed(m1, IpKey(d))
<1>1. /\ <<u, d>> \in Key /\ IpKey(d) \in Key /\ minute \in Nat
      /\ WellKept(attempts) /\ WellKept(m1) /\ attempts' = m2
  BY FailsKept DEF ThrottleKept
<1>2. t \in Tries BY DEF ThrottleKept
<1>3. <<u, d>>[2] # c /\ IpKey(d)[2] # c /\ <<u, d>> # IpKey(c) /\ IpKey(d) # IpKey(c)
  BY DEF IpKey
<1>4. Recorded(attempts, t, c) /\ OwnCounterLast(attempts, c) /\ CounterThere(attempts, t, c)
  BY DEF CounterInv
<1>5. RoomIn(attempts, c) /\ RoomIn(m2, c) BY <1>1 DEF RoomFor, RoomIn, OfOthers
<1> HIDE DEF t
<1>6. Recorded(m1, t, c) /\ OwnCounterLast(m1, c) /\ CounterThere(m1, t, c)
  BY <1>1, <1>2, <1>3, <1>4, <1>5, RecordedByOthers, LastAmongOthers, ThereIfRoomBefore
<1> HIDE DEF m1
<1>7. Recorded(m2, t, c) /\ OwnCounterLast(m2, c) /\ CounterThere(m2, t, c)
  BY <1>1, <1>2, <1>3, <1>5, <1>6, RecordedByOthers, LastAmongOthers, ThereIfRoomAfter
<1> HIDE DEF m2
<1>8. tried'[c] = t /\ minute' = minute BY DEF LoginFails, ThrottleKept, t
<1> QED BY <1>1, <1>7, <1>8
        DEF CounterInv, Recorded, OwnCounterLast, CounterThere, Counting, Has, Elapsed

LEMMA FailsOfItsOwn ==
    ASSUME ThrottleKept, NEW u \in UserName, NEW c \in Client,
           LoginFails(u, c), CounterInv(c), RoomFor(c)
    PROVE  CounterInv(c)'
<1> DEFINE t == tried[c]
           more == TriedMore(t)
           m1 == Failed(attempts, <<u, c>>)
           m2 == Failed(m1, IpKey(c))
<1>1. /\ <<u, c>> \in Key /\ minute \in Nat
      /\ WellKept(attempts) /\ WellKept(m1) /\ attempts' = m2
  BY FailsKept DEF ThrottleKept
<1>2. t \in Tries BY DEF ThrottleKept
<1>3. Recorded(attempts, t, c) /\ OwnCounterLast(attempts, c) /\ CounterThere(attempts, t, c)
  BY DEF CounterInv
<1>4. RoomIn(attempts, c) BY DEF RoomFor
<1>5. tried'[c] = more /\ minute' = minute BY DEF LoginFails, ThrottleKept
<1> HIDE DEF t
<1>6. Recorded(m2, more, c) /\ Has(m2, IpKey(c))
  <2>1. CASE <<u, c>> = IpKey(c)
    <3>1. m1 = Failed(attempts, IpKey(c)) BY <2>1
    <3>2. Recorded(m1, more, c) /\ Has(m1, IpKey(c))
      BY <1>1, <1>2, <1>3, <3>1, OwnFailureCounts
    <3> HIDE DEF m1
    <3> QED BY <1>1, <1>2, <3>2, OwnFailureCountsAgain
  <2>2. CASE <<u, c>> # IpKey(c)
    <3>1. Recorded(m1, t, c) /\ CounterThere(m1, t, c)
      BY <1>1, <1>2, <1>3, <1>4, <2>2, RecordedByOthers, ThereIfRoomBefore
    <3> HIDE DEF m1
    <3> QED BY <1>1, <1>2, <3>1, OwnFailureCounts
  <2> QED BY <2>1, <2>2
<1>7. OwnCounterLast(m2, c)
  <2> HIDE DEF m1
  <2> QED BY <1>1, LastOfItsOwn
<1> HIDE DEF m2, more
<1> QED BY <1>1, <1>5, <1>6, <1>7
        DEF CounterInv, Recorded, OwnCounterLast, CounterThere, Counting, Has, Elapsed

LEMMA SucceedsCounted ==
    ASSUME ThrottleKept, NEW u \in UserName, NEW d \in Client, NEW c \in Client,
           LoginSucceeds(u, d), CounterInv(c)
    PROVE  CounterInv(c)'
<1> DEFINE t == tried[c]
           m1 == Without(attempts, <<u, d>>)
           m2 == Without(m1, IpKey(d))
<1>1. WellKept(attempts) /\ WellKept(m1) /\ attempts' = m2 BY SucceedsKept DEF ThrottleKept
<1>2. Recorded(attempts, t, c) /\ OwnCounterLast(attempts, c) /\ CounterThere(attempts, t, c)
  BY DEF CounterInv
<1>3. minute' = minute BY DEF LoginSucceeds
<1>4. CASE c = d
  <2>1. \A i \in DOMAIN m2 : m2[i].key # IpKey(c)
    <3> HIDE DEF m1
    <3> QED BY <1>1, <1>4, WithoutKept
  <2>2. tried'[c] = NoTries BY <1>4 DEF LoginSucceeds, ThrottleKept
  <2>3. ~(NoTries.count > 0) BY DEF NoTries
  <2> HIDE DEF m2
  <2> QED BY <1>1, <2>1, <2>2, <2>3
          DEF CounterInv, Recorded, OwnCounterLast, CounterThere, Counting
<1>5. CASE c # d
  <2>1. <<u, d>> # IpKey(c) /\ IpKey(d) # IpKey(c) BY <1>5 DEF IpKey
  <2>2. tried'[c] = t BY <1>5 DEF LoginSucceeds, ThrottleKept
  <2> HIDE DEF t
  <2>3. Recorded(m1, t, c) /\ OwnCounterLast(m1, c) /\ CounterThere(m1, t, c)
    BY <1>1, <1>2, <2>1, WithoutOfOthers
  <2> HIDE DEF m1
  <2>4. Recorded(m2, t, c) /\ OwnCounterLast(m2, c) /\ CounterThere(m2, t, c)
    BY <1>1, <2>1, <2>3, WithoutOfOthers
  <2> HIDE DEF m2
  <2> QED BY <1>1, <1>3, <2>2, <2>4
          DEF CounterInv, Recorded, OwnCounterLast, CounterThere, Counting, Has, Elapsed
<1> QED BY <1>4, <1>5

LEMMA TimeCounted ==
    ASSUME ThrottleKept, NEW c \in Client, MinutePasses, CounterInv(c)
    PROVE  CounterInv(c)'
<1>1. attempts' = attempts /\ tried' = tried /\ minute' = minute + 1 /\ minute \in Nat
  BY ThrottleAssumption DEF MinutePasses, ThrottleKept
<1>2. tried[c] \in Tries BY DEF ThrottleKept
<1>3. tried[c].first \in Int /\ tried[c].last \in Int /\ WindowLength \in Nat
  BY <1>2, ThrottleAssumption DEF Tries
<1>4. Counting(tried[c])' => Counting(tried[c]) BY <1>1, <1>3 DEF Counting, Elapsed
<1> QED BY <1>1, <1>4 DEF CounterInv, Recorded, OwnCounterLast, CounterThere, Has

LEMMA CounterNext ==
    ASSUME ThrottleKept, NEW c \in Client, CounterInv(c), RoomFor(c), RoomFor(c)',
           [ThrottleNext]_throttleVars
    PROVE  CounterInv(c)'
<1>1. CASE MinutePasses BY <1>1, TimeCounted
<1>2. CASE UNCHANGED throttleVars
  BY <1>2 DEF throttleVars, CounterInv, Recorded, OwnCounterLast, CounterThere, Counting, Has,
              Elapsed
<1>3. ASSUME NEW u \in UserName, NEW d \in Client, LoginFails(u, d) PROVE CounterInv(c)'
  BY <1>3, FailsOfOthers, FailsOfItsOwn
<1>4. ASSUME NEW u \in UserName, NEW d \in Client, LoginSucceeds(u, d) PROVE CounterInv(c)'
  BY <1>4, SucceedsCounted
<1> QED BY <1>1, <1>2, <1>3, <1>4 DEF ThrottleNext

LEMMA CounterInit == ASSUME ThrottleInit, NEW c \in Client PROVE CounterInv(c)
<1>1. tried[c] = NoTries /\ attempts = <<>> BY DEF ThrottleInit
<1>2. ~(NoTries.count > 0) BY DEF NoTries
<1> QED BY <1>1, <1>2 DEF CounterInv, Recorded, OwnCounterLast, CounterThere, Counting

LEMMA CounterThrottles ==
    ASSUME ThrottleKept, NEW c \in Client, CounterInv(c)
    PROVE  Throttled(c)
<1> SUFFICES ASSUME tried[c].count >= MaxAttempts, minute < tried[c].last + WindowLength
             PROVE  Locked(IpKey(c))
    BY DEF Throttled, IpKey
<1>1. tried[c].count \in Nat /\ MaxAttempts \in Nat \ {0}
  BY ThrottleAssumption DEF ThrottleKept, Tries
<1>2. Counting(tried[c]) BY <1>1 DEF Counting
<1>3. PICK i \in DOMAIN attempts : attempts[i].key = IpKey(c)
  BY <1>2 DEF CounterInv, CounterThere, Has
<1>4. /\ attempts[i].count >= tried[c].count
      /\ attempts[i].count >= MaxAttempts =>
            attempts[i].lockedUntil = tried[c].last + WindowLength
  BY <1>3 DEF CounterInv, Recorded
<1>5. attempts[i].count \in Nat BY EntryCount DEF ThrottleKept, WellKept
<1>6. attempts[i].lockedUntil = tried[c].last + WindowLength BY <1>1, <1>4, <1>5
<1>7. Has(attempts, IpKey(c)) /\ Get(attempts, IpKey(c)) = attempts[i]
  BY <1>3, GetFound DEF ThrottleKept, WellKept
<1> QED BY <1>6, <1>7 DEF Locked

(* The throttle of one client, whatever it and all the others do: as long as the *)
(* keys of the others leave it two places of the map, MaxAttempts failures in a  *)
(* window lock it out (registerFail, the refreshed order of insertion).          *)
THEOREM ClientThrottled ==
    ASSUME NEW c \in Client
    PROVE  ThrottleSpec /\ []RoomFor(c) => []Throttled(c)
<1>1. ThrottleInit => CounterInv(c) BY CounterInit
<1>2. ThrottleKept /\ CounterInv(c) /\ RoomFor(c) /\ RoomFor(c)' /\ [ThrottleNext]_throttleVars
          => CounterInv(c)'
  BY CounterNext
<1>3. ThrottleKept /\ CounterInv(c) => Throttled(c) BY CounterThrottles
<1> QED BY <1>1, <1>2, <1>3, ThrottleKeptInit, ThrottleKeptNext, PTL DEF ThrottleSpec

(* The keys a login of another client can count for.                             *)
KeysOfOthers(c) == (UserName \cup {AnyName}) \X (Client \ {c})

FewOthers ==
    \A c \in Client : /\ IsFiniteSet(KeysOfOthers(c))
                      /\ Cardinality(KeysOfOthers(c)) + 2 <= MaxKeys

LEMMA FewLeaveRoom ==
    ASSUME FewOthers, ThrottleKept, NEW c \in Client
    PROVE  RoomFor(c)
<1> DEFINE O == OfOthers(attempts, c)
           K == KeysOfOthers(c)
           keyAt == [i \in O |-> attempts[i].key]
<1>1. attempts \in Seq(Entry) /\ NoKeyTwice(attempts) BY DEF ThrottleKept, WellKept
<1>2. ASSUME NEW i \in O PROVE attempts[i].key \in K
  <2>1. i \in DOMAIN attempts /\ attempts[i].key[2] # c BY DEF OfOthers
  <2>2. attempts[i] \in Entry BY <1>1, <2>1
  <2>3. attempts[i].key \in Key BY <2>2 DEF Entry
  <2> QED BY <2>1, <2>3 DEF Key, KeysOfOthers
<1>3. \A i, j \in O : attempts[i].key = attempts[j].key => i = j
  BY <1>1 DEF OfOthers, NoKeyTwice
<1> HIDE DEF O, K
<1>4. keyAt \in Injection(O, K) BY <1>2, <1>3 DEF Injection, IsInjective
<1>5. IsFiniteSet(K) /\ Cardinality(K) + 2 <= MaxKeys BY DEF FewOthers, K
<1> HIDE DEF keyAt
<1>6. IsFiniteSet(O) /\ Cardinality(O) <= Cardinality(K) BY <1>4, <1>5, FS_Injection
<1>7. Cardinality(O) \in Nat /\ Cardinality(K) \in Nat /\ MaxKeys \in Nat
  BY <1>5, <1>6, FS_CardinalityType, ThrottleAssumption
<1>8. Cardinality(O) + 2 <= MaxKeys BY <1>5, <1>6, <1>7
<1> QED BY <1>8 DEF RoomFor, RoomIn, O

(* Where the map is large enough for the keys of all clients but one, as when    *)
(* one client alone sprays any number of names, every client is throttled.       *)
THEOREM SpraysAreThrottled == FewOthers => (ThrottleSpec => []SprayThrottled)
<1> SUFFICES ASSUME FewOthers PROVE ThrottleSpec => []SprayThrottled OBVIOUS
<1> DEFINE Inv == ThrottleKept /\ \A c \in Client : CounterInv(c)
<1>0. ASSUME NEW c \in Client PROVE (ThrottleKept => RoomFor(c))'
  <2>1. ThrottleKept => RoomFor(c) BY FewLeaveRoom
  <2> QED BY <2>1, PTL
<1>1. ThrottleInit => Inv BY CounterInit, ThrottleKeptInit
<1>2. Inv /\ [ThrottleNext]_throttleVars => Inv'
  <2> SUFFICES ASSUME Inv, [ThrottleNext]_throttleVars PROVE Inv' OBVIOUS
  <2>1. ThrottleKept' BY ThrottleKeptNext
  <2>2. ASSUME NEW c \in Client PROVE CounterInv(c)'
    <3>1. RoomFor(c) /\ RoomFor(c)'
      <4>1. ThrottleKept => RoomFor(c) BY FewLeaveRoom
      <4>2. (ThrottleKept => RoomFor(c))' BY <1>0
      <4> QED BY <2>1, <4>1, <4>2
    <3> QED BY <3>1, CounterNext
  <2> QED BY <2>1, <2>2
<1>3. Inv => SprayThrottled BY CounterThrottles DEF SprayThrottled, Throttled
<1> QED BY <1>1, <1>2, <1>3, PTL DEF ThrottleSpec

------------------------------------------------------------------------------
(* The control plane *)

(* Each component starts as it does alone, and a step of the control plane is a  *)
(* step of one component: the others stutter.                                    *)
LEMMA ComponentsStart ==
    ControlPlaneInit =>
        /\ Init /\ SessionInit /\ ProvisioningInit /\ ThrottleInit
        /\ ParsePoolInit /\ RestoreInit /\ PolicyStoreInit
BY DEF ControlPlaneInit

LEMMA ComponentsStep ==
    [ControlPlaneNext]_ControlPlaneVars =>
        /\ [Next]_vars /\ [SessionNext]_sessionVars
        /\ [ProvisioningNext]_provisioningVars /\ [ThrottleNext]_throttleVars
        /\ [ParsePoolNext]_poolVars /\ [RestoreNext]_restoreVars
        /\ [PolicyStoreNext]_policyStoreVars
BY DEF ControlPlaneNext, ControlPlaneVars

(* Every part of the control plane keeps its state well formed, for any number   *)
(* of processes, instances, accounts, clients, workers, restores and editors:    *)
(* no queue, pool, map or table above its limit, no field outside its range.     *)
THEOREM ControlPlaneTyped == ControlPlaneSpec => []ControlPlaneTypes
<1>1. ControlPlaneSpec => SafetySpec
    BY ComponentsStart, ComponentsStep, PTL DEF ControlPlaneSpec, SafetySpec
<1>2. ControlPlaneSpec => SessionSpec
    BY ComponentsStart, ComponentsStep, PTL DEF ControlPlaneSpec, SessionSpec
<1>3. ControlPlaneSpec => ProvisioningSpec
    BY ComponentsStart, ComponentsStep, PTL DEF ControlPlaneSpec, ProvisioningSpec
<1>4. ControlPlaneSpec => ThrottleSpec
    BY ComponentsStart, ComponentsStep, PTL DEF ControlPlaneSpec, ThrottleSpec
<1>5. ControlPlaneSpec => ParsePoolInit /\ [][ParsePoolNext]_poolVars
    BY ComponentsStart, ComponentsStep, PTL DEF ControlPlaneSpec
<1>6. ControlPlaneSpec => RestoreSpec
    BY ComponentsStart, ComponentsStep, PTL DEF ControlPlaneSpec, RestoreSpec
<1>7. ControlPlaneSpec => PolicyStoreInit /\ [][PolicyStoreNext]_policyStoreVars
    BY ComponentsStart, ComponentsStep, PTL DEF ControlPlaneSpec
<1>8. /\ TypeOK /\ SessionTypes /\ ProvisioningTypes /\ ThrottleTypes
      /\ ParsePoolTypes /\ RestoreTypes /\ PolicyStoreTypes
      => ControlPlaneTypes
    BY DEF ControlPlaneTypes
<1> QED
    BY <1>1, <1>2, <1>3, <1>4, <1>5, <1>6, <1>7, <1>8, LockTyped, SessionsTyped,
       ProvisioningTyped, ThrottleMapBounded, PoolTyped, RestoreTyped, PolicyStoreTyped, PTL
=============================================================================
