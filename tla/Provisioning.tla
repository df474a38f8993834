---------------------------- MODULE Provisioning ----------------------------
(* How accounts come into being: invitations to local accounts, and SCIM users *)
(* (src/server/db.js, admin.js, scim.js and the handlers in app.js).  Instances *)
(* on Postgres run their transactions at the same time; the advisory locks of   *)
(* lockRowForUpdate order those that meet.                                      *)
EXTENDS Integers, FiniteSets

CONSTANTS
    Node,        \* control plane instances on one database
    Name,        \* user names
    Invitation,  \* identities of the invitations that may be created
    InviteToken, \* bearer tokens that may be issued
    Nothing,     \* no record, token or lock owner
    Validity,    \* how many days a token is valid
    LastDay      \* bound: how long the clock runs

Status == {"pending", "expired", "accepted", "revoked"}

Invite == [status : Status, token : InviteToken, name : Name, expiresAt : Nat]

ASSUME ProvisioningAssumption ==
    /\ Nothing \notin InviteToken /\ Nothing \notin Node /\ Nothing \notin Invite
    /\ Validity \in Nat /\ LastDay \in Nat

VARIABLES
    day,         \* the clock
    invitations, \* admin_invitations
    localUsers,  \* admin_users: the token that created the account of each name
    scimUsers,   \* scim_users: whether each name has an account there
    inviteLock,  \* advisory lock admin-invitation:<id>
    nameLock,    \* advisory lock identity:<name>
    task,        \* the request each instance serves
    dead         \* ghost: tokens that were replaced, or revoked before they were used

provisioningVars == <<day, invitations, localUsers, scimUsers, inviteLock, nameLock, task, dead>>

NoTask == [op |-> "none"]

\* `seen' is what a request read before its transaction, or at its lock.
Requests ==
    {NoTask}
    \cup [op : {"resend", "revoke", "accept", "expire"}, id : Invitation, seen : Invite,
          stage : {"read", "locked", "named"}]
    \cup [op : {"provision"}, name : Name, stage : {"read", "named"}]

ProvisioningTypes ==
    /\ day \in 0..LastDay
    /\ invitations \in [Invitation -> Invite \cup {Nothing}]
    /\ localUsers \in [Name -> InviteToken \cup {Nothing}]
    /\ scimUsers \in [Name -> BOOLEAN]
    /\ inviteLock \in [Invitation -> Node \cup {Nothing}]
    /\ nameLock \in [Name -> Node \cup {Nothing}]
    /\ task \in [Node -> Requests]
    /\ dead \subseteq InviteToken

ProvisioningInit ==
    /\ day = 0
    /\ invitations = [i \in Invitation |-> Nothing]
    /\ localUsers = [n \in Name |-> Nothing] /\ scimUsers = [n \in Name |-> FALSE]
    /\ inviteLock = [i \in Invitation |-> Nothing]
    /\ nameLock = [n \in Name |-> Nothing]
    /\ task = [p \in Node |-> NoTask]
    /\ dead = {}

Exists(n) == localUsers[n] # Nothing \/ scimUsers[n]

Issuable == InviteToken \ (dead \cup {invitations[i].token : i \in {k \in Invitation :
                                                            invitations[k] # Nothing}})

\* Tokens are random and never issued twice.
FreshToken == CHOOSE t \in Issuable : TRUE

DayPasses ==
    /\ day < LastDay /\ day' = day + 1
    /\ UNCHANGED <<invitations, localUsers, scimUsers, inviteLock, nameLock, task, dead>>

\* POST /api/admin/users/invitations: several invitations may name one user.
CreateInvitation(i, n) ==
    /\ invitations[i] = Nothing /\ ~Exists(n)
    /\ Issuable # {}
    /\ invitations' = [invitations EXCEPT ![i] =
          [status |-> "pending", token |-> FreshToken, name |-> n, expiresAt |-> day + Validity]]
    /\ UNCHANGED <<day, localUsers, scimUsers, inviteLock, nameLock, task, dead>>

------------------------------------------------------------------------------
(* What a request reads before it locks anything *)

Reads(p, op, i) ==
    /\ task[p] = NoTask
    /\ task' = [task EXCEPT ![p] =
          [op |-> op, id |-> i, seen |-> invitations[i], stage |-> "read"]]
    /\ UNCHANGED <<day, invitations, localUsers, scimUsers, inviteLock, nameLock, dead>>

\* Resend and revoke: an accepted or revoked invitation is not found.
ManageReads(p, i) ==
    /\ invitations[i] # Nothing /\ invitations[i].status \in {"pending", "expired"}
    /\ \E op \in {"resend", "revoke"} : Reads(p, op, i)

Lapsed(v) == v.expiresAt <= day

\* inspectAdminInvitationRecord
InvitationInspected(v) == v.status = "pending" /\ ~Lapsed(v) /\ ~Exists(v.name)

\* POST /api/invitations/accept inspects the token it was given.
AcceptReads(p, i) ==
    /\ invitations[i] # Nothing
    /\ IF invitations[i].status = "pending" /\ Lapsed(invitations[i])
       THEN Reads(p, "expire", i)
       ELSE InvitationInspected(invitations[i]) /\ Reads(p, "accept", i)

ProvisionReads(p, n) ==
    /\ task[p] = NoTask /\ ~scimUsers[n]
    /\ task' = [task EXCEPT ![p] = [op |-> "provision", name |-> n, stage |-> "read"]]
    /\ UNCHANGED <<day, invitations, localUsers, scimUsers, inviteLock, nameLock, dead>>

------------------------------------------------------------------------------
(* Transactions *)

\* COMMIT and ROLLBACK release the advisory locks.
Finish(p) ==
    /\ task' = [task EXCEPT ![p] = NoTask]
    /\ inviteLock' = [i \in Invitation |-> IF inviteLock[i] = p THEN Nothing ELSE inviteLock[i]]
    /\ nameLock' = [n \in Name |-> IF nameLock[n] = p THEN Nothing ELSE nameLock[n]]

\* Mutant: the invitation is compared with what was read, whatever is there now.
StillSeen_NoCas(p) == TRUE

\* assertInvitationCas and assertFreshEntity, and the token of
\* lockedAdminInvitationForToken: statuses and tokens never recur together.
StillSeen(p) ==
    LET now == invitations[task[p].id] IN
    /\ now.token = task[p].seen.token
    /\ task[p].op \in {"resend", "revoke"} => now = task[p].seen

\* What accept and expire inspect again once they hold the invitation.
StillFit(p) ==
    LET now == invitations[task[p].id] IN
    CASE task[p].op = "accept" -> InvitationInspected(now)
      [] task[p].op = "expire" -> now.status = "pending" /\ Lapsed(now)
      [] OTHER -> TRUE

LockInvitation(p) ==
    /\ task[p].op \notin {"none", "provision"} /\ task[p].stage = "read"
    /\ inviteLock[task[p].id] = Nothing
    /\ IF StillSeen(p) /\ StillFit(p)
       THEN /\ inviteLock' = [inviteLock EXCEPT ![task[p].id] = p]
            /\ task' = [task EXCEPT ![p].stage = "locked"]
       ELSE task' = [task EXCEPT ![p] = NoTask] /\ UNCHANGED inviteLock
    /\ UNCHANGED <<day, invitations, localUsers, scimUsers, nameLock, dead>>

\* Mutant: the name is not locked.
NameFree_Always(n) == TRUE

NameFree(n) == nameLock[n] = Nothing

NameOf(p) == IF task[p].op = "provision" THEN task[p].name ELSE task[p].seen.name

\* saveAdminUser and saveScimUser: the name is locked, the record of the own
\* source read again, and the name looked for in the other source.
LockName(p) ==
    /\ \/ task[p].op = "accept" /\ task[p].stage = "locked"
       \/ task[p].op = "provision" /\ task[p].stage = "read"
    /\ NameFree(NameOf(p))
    /\ IF Exists(NameOf(p))
       THEN Finish(p)
       ELSE /\ nameLock' = [nameLock EXCEPT ![NameOf(p)] = p]
            /\ task' = [task EXCEPT ![p].stage = "named"]
            /\ UNCHANGED inviteLock
    /\ UNCHANGED <<day, invitations, localUsers, scimUsers, dead>>

SetInvitation(p, status) ==
    invitations' = [invitations EXCEPT ![task[p].id].status = status]

CommitResend(p) ==
    /\ task[p].op = "resend" /\ task[p].stage = "locked"
    /\ Issuable # {}
    /\ invitations' = [invitations EXCEPT ![task[p].id] =
          [@ EXCEPT !.status = "pending", !.token = FreshToken, !.expiresAt = day + Validity]]
    /\ dead' = dead \cup {task[p].seen.token}
    /\ Finish(p)
    /\ UNCHANGED <<day, localUsers, scimUsers>>

CommitRevoke(p) ==
    /\ task[p].op = "revoke" /\ task[p].stage = "locked"
    /\ SetInvitation(p, "revoked")
    /\ dead' = dead \cup {task[p].seen.token}
    /\ Finish(p)
    /\ UNCHANGED <<day, localUsers, scimUsers>>

CommitExpire(p) ==
    /\ task[p].op = "expire" /\ task[p].stage = "locked"
    /\ SetInvitation(p, "expired")
    /\ Finish(p)
    /\ UNCHANGED <<day, localUsers, scimUsers, dead>>

\* The account and the accepted invitation are one transaction.
CommitAccept(p) ==
    /\ task[p].op = "accept" /\ task[p].stage = "named"
    /\ localUsers' = [localUsers EXCEPT ![NameOf(p)] = task[p].seen.token]
    /\ SetInvitation(p, "accepted")
    /\ Finish(p)
    /\ UNCHANGED <<day, scimUsers, dead>>

CommitProvision(p) ==
    /\ task[p].op = "provision" /\ task[p].stage = "named"
    /\ scimUsers' = [scimUsers EXCEPT ![NameOf(p)] = TRUE]
    /\ Finish(p)
    /\ UNCHANGED <<day, invitations, localUsers, dead>>

\* The transaction fails, a lock times out, or the instance dies.
RollBackTask(p) ==
    /\ task[p] # NoTask
    /\ Finish(p)
    /\ UNCHANGED <<day, invitations, localUsers, scimUsers, dead>>

------------------------------------------------------------------------------

ProvisioningNext ==
    \/ DayPasses
    \/ \E i \in Invitation, n \in Name : CreateInvitation(i, n)
    \/ \E p \in Node :
          \/ LockInvitation(p) \/ LockName(p) \/ RollBackTask(p)
          \/ CommitResend(p) \/ CommitRevoke(p) \/ CommitExpire(p)
          \/ CommitAccept(p) \/ CommitProvision(p)
          \/ \E i \in Invitation : ManageReads(p, i) \/ AcceptReads(p, i)
          \/ \E n \in Name : ProvisionReads(p, n)

ProvisioningSpec == ProvisioningInit /\ [][ProvisioningNext]_provisioningVars

------------------------------------------------------------------------------
(* Properties *)

\* A name has an account in one source, however invitations of it and SCIM
\* requests meet on several instances (assertCrossSourceIdentityAvailable).
OneSource == \A n \in Name : ~(localUsers[n] # Nothing /\ scimUsers[n])

\* A token that was replaced or revoked creates no account, even when it was
\* found good just before (acceptAdminInvitation), and an account goes with an
\* accepted invitation that holds its token.
TokensSpentOnce ==
    \A n \in Name : localUsers[n] # Nothing =>
        /\ localUsers[n] \notin dead
        /\ \E i \in Invitation :
              /\ invitations[i] # Nothing /\ invitations[i].status = "accepted"
              /\ invitations[i].token = localUsers[n]
=============================================================================
