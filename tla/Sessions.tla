------------------------------ MODULE Sessions ------------------------------
(* Console sessions of the control plane (src/server/auth.js,                   *)
(* session-authorization.js, the revocations of db.js and their handlers in     *)
(* app.js).  A cookie is signed and never stored: what ends it early is a row   *)
(* with a time in identity_revocations, written by whichever instance changes   *)
(* the account or logs the session out.                                         *)
EXTENDS Integers, FiniteSets

CONSTANTS
    Server,        \* control plane instances on one database
    Account,       \* user names
    AccountRole,   \* roles an account may have
    Login,         \* identities (jti) of the sessions that may be created
    RecoveryCode,  \* MFA recovery codes
    SharedWriters, \* TRUE on Postgres: transactions of instances overlap
    SessionTtl,    \* SESSION_TTL_MS
    RevocationRetention, \* SESSION_REVOCATION_RETENTION_MS
    LastTick       \* bound: how long the clock runs

ASSUME SessionAssumption ==
    /\ SharedWriters \in BOOLEAN
    /\ SessionTtl \in Nat /\ RevocationRetention \in Nat
    /\ SessionTtl <= RevocationRetention
    /\ LastTick \in Nat

VARIABLES
    tick,      \* the clock the instances share
    account,   \* active, effective role and source of each account
    revokedAt, \* identity_revocations: time of each account's row
    loggedOut, \* identity_revocations: time of each session:<jti> row
    used,      \* mfa_recovery_used
    cookies,   \* every cookie that was ever signed
    handler,   \* what each instance is in the middle of
    ended,     \* ghost: logins that a log-out or a change of the account ended
    granted    \* ghost: logins each recovery code was taken for

sessionVars == <<tick, account, revokedAt, loggedOut, used, cookies, handler, ended,
                 granted>>

Never == -1
Time  == 0..LastTick

AccountState == [active : BOOLEAN, role : AccountRole, source : {"local", "scim"}]

\* A cookie's payload, without its elevation.
Cookie == [jti : Login, user : Account, role : AccountRole, iat : Time]

Free == [op |-> "none"]

Handler ==
    {Free}
    \cup [op : {"login"}, user : Account, role : AccountRole]
    \cup [op : {"redeem"}, user : Account, role : AccountRole, code : RecoveryCode]
    \cup [op : {"save", "group"}, user : Account, next : AccountState,
          revokes : BOOLEAN, at : Time, before : SUBSET Login]
    \cup [op : {"logout"}, jti : Login, at : Time]

SessionTypes ==
    /\ tick \in Time
    /\ account \in [Account -> AccountState]
    /\ revokedAt \in [Account -> Time \cup {Never}]
    /\ loggedOut \in [Login -> Time \cup {Never}]
    /\ used \subseteq RecoveryCode
    /\ cookies \subseteq Cookie
    /\ handler \in [Server -> Handler]
    /\ ended \subseteq Login
    /\ granted \in [RecoveryCode -> Nat]

SessionInit ==
    /\ tick = 0
    /\ account \in [Account -> AccountState] /\ \A a \in Account : account[a].active
    /\ revokedAt = [a \in Account |-> Never]
    /\ loggedOut = [j \in Login |-> Never]
    /\ used = {} /\ cookies = {}
    /\ handler = [s \in Server |-> Free]
    /\ ended = {} /\ granted = [c \in RecoveryCode |-> 0]

------------------------------------------------------------------------------
(* Verification of a cookie *)

\* identityRevokedSince, for the identity and for the session.
Revoked(c) == c.iat <= revokedAt[c.user] \/ c.iat <= loggedOut[c.jti]

\* auth.verify with the check of createSessionAuthorizationCheck.
Authorized(c) ==
    /\ tick <= c.iat + SessionTtl
    /\ ~Revoked(c)
    /\ account[c.user].active /\ account[c.user].role = c.role

------------------------------------------------------------------------------
(* Transactions: BEGIN IMMEDIATE on SQLite, row locks on Postgres *)

Writing(s) == handler[s].op \in {"save", "group", "logout"}

WriterFreeFor(s) == SharedWriters \/ \A r \in Server \ {s} : ~Writing(r)

Starts(s, h) ==
    /\ handler[s] = Free /\ WriterFreeFor(s)
    /\ handler' = [handler EXCEPT ![s] = h]

End(s) == handler' = [handler EXCEPT ![s] = Free]

Abandon(s) ==
    /\ handler[s] # Free
    /\ End(s)
    /\ UNCHANGED <<tick, account, revokedAt, loggedOut, used, cookies, ended, granted>>

TickPasses ==
    /\ tick < LastTick /\ tick' = tick + 1
    /\ UNCHANGED <<account, revokedAt, loggedOut, used, cookies, handler, ended, granted>>

------------------------------------------------------------------------------
(* Login *)

Issued == {c.jti : c \in cookies}

\* A recovery code may stand for the second factor of an administrator's password.
Usable(a) ==
    IF account[a].source = "local" /\ account[a].role = "security_admin"
    THEN RecoveryCode \ used ELSE {}

\* POST /api/login and the OIDC callback read the account; the session is
\* created after an audit entry, or after what the callback awaits.
LoginReads(s, a) ==
    LET login == [op |-> "login", user |-> a, role |-> account[a].role] IN
    /\ handler[s] = Free /\ account[a].active
    /\ \/ handler' = [handler EXCEPT ![s] = login]
       \/ \E code \in Usable(a) :
             handler' = [handler EXCEPT ![s] =
                 [op |-> "redeem", user |-> a, role |-> account[a].role, code |-> code]]
    /\ UNCHANGED <<tick, account, revokedAt, loggedOut, used, cookies, ended, granted>>

\* Mutant: an index that is there already is left as it is.
Redeemable_Ignored(code) == TRUE

\* The insert into mfa_recovery_used has the index as its primary key.
Redeemable(code) == code \notin used

\* consumeMfaRecoveryCodeWithAudits, whose check was made by LoginReads.
Redeem(s) ==
    /\ handler[s].op = "redeem" /\ WriterFreeFor(s)
    /\ IF Redeemable(handler[s].code)
       THEN /\ used' = used \cup {handler[s].code}
            /\ granted' = [granted EXCEPT ![handler[s].code] = @ + 1]
            /\ handler' = [handler EXCEPT ![s] =
                  [op |-> "login", user |-> handler[s].user, role |-> handler[s].role]]
       ELSE End(s) /\ UNCHANGED <<used, granted>>
    /\ UNCHANGED <<tick, account, revokedAt, loggedOut, cookies, ended>>

LoginIssues(s) ==
    /\ handler[s].op = "login"
    /\ \E j \in Login \ Issued :
          cookies' = cookies \cup
              {[jti |-> j, user |-> handler[s].user, role |-> handler[s].role,
                iat |-> tick]}
    /\ End(s)
    /\ UNCHANGED <<tick, account, revokedAt, loggedOut, used, ended, granted>>

\* Mutant: the stepped-up session begins anew.
Resigned_Now(c) == [c EXCEPT !.iat = tick]

\* elevateSession signs the session again and keeps its jti and its iat.
Resigned(c) == c

StepUp(s, c) ==
    /\ handler[s] = Free /\ Authorized(c)
    /\ cookies' = cookies \cup {Resigned(c)}
    /\ UNCHANGED <<tick, account, revokedAt, loggedOut, used, handler, ended, granted>>

------------------------------------------------------------------------------
(* Log-out, and changes of an account *)

LogoutBegins(s, c) ==
    /\ Authorized(c)
    /\ Starts(s, [op |-> "logout", jti |-> c.jti, at |-> tick])
    /\ UNCHANGED <<tick, account, revokedAt, loggedOut, used, cookies, ended, granted>>

\* staleSessionRevocationsDelete
Stale(j) == loggedOut[j] < tick - RevocationRetention

\* revokeIdentity of session:<jti>, which prunes once in a while.
LogoutCommits(s) ==
    /\ handler[s].op = "logout"
    /\ LET mine == [loggedOut EXCEPT ![handler[s].jti] = handler[s].at] IN
       \/ loggedOut' = mine
       \/ loggedOut' = [j \in Login |-> IF j # handler[s].jti /\ Stale(j)
                                        THEN Never ELSE mine[j]]
    /\ ended' = ended \cup {handler[s].jti}
    /\ End(s)
    /\ UNCHANGED <<tick, account, revokedAt, used, cookies, granted>>

\* What saveAdminUser and saveScimUser revoke.
Ends(a, next) ==
    account[a].active /\ (~next.active \/ next.role # account[a].role)

\* PATCH, disable and reactivate; SCIM users.  The account's row is locked.
SaveBegins(s, a, next) ==
    /\ \A r \in Server : ~(handler[r].op = "save" /\ handler[r].user = a)
    /\ next.source = account[a].source
    /\ next.source = "scim" => next.role = account[a].role
    /\ Starts(s, [op |-> "save", user |-> a, next |-> next, revokes |-> Ends(a, next),
                 at |-> tick, before |-> {c.jti : c \in {k \in cookies : k.user = a}}])
    /\ UNCHANGED <<tick, account, revokedAt, loggedOut, used, cookies, ended, granted>>

\* saveScimGroup and deleteScimGroup revoke every member, and lock the group only.
GroupBegins(s, a, role) ==
    /\ account[a].source = "scim"
    /\ Starts(s, [op |-> "group", user |-> a, next |-> [account[a] EXCEPT !.role = role],
                 revokes |-> TRUE, at |-> tick,
                 before |-> {c.jti : c \in {k \in cookies : k.user = a}}])
    /\ UNCHANGED <<tick, account, revokedAt, loggedOut, used, cookies, ended, granted>>

\* What a committed change leaves: a SCIM account takes its role from its groups.
Changed(h) ==
    IF h.next.source = "local" THEN h.next
    ELSE IF h.op = "save" THEN [account[h.user] EXCEPT !.active = h.next.active]
    ELSE [account[h.user] EXCEPT !.role = h.next.role]

\* Whether it takes something from an account that could be used.
Deprives(h) == account[h.user].active /\ Changed(h) # account[h.user]

\* revocationUpsert: the time of the row is replaced.
ChangeCommits(s) ==
    LET h == handler[s] IN
    /\ h.op \in {"save", "group"}
    /\ account' = [account EXCEPT ![h.user] = Changed(h)]
    /\ revokedAt' = IF h.revokes THEN [revokedAt EXCEPT ![h.user] = h.at] ELSE revokedAt
    /\ ended' = IF Deprives(h) THEN ended \cup h.before ELSE ended
    /\ End(s)
    /\ UNCHANGED <<tick, loggedOut, used, cookies, granted>>

------------------------------------------------------------------------------

SessionNext ==
    \/ TickPasses
    \/ \E s \in Server :
          \/ Abandon(s) \/ Redeem(s) \/ LoginIssues(s) \/ LogoutCommits(s) \/ ChangeCommits(s)
          \/ \E a \in Account : LoginReads(s, a)
          \/ \E c \in cookies : StepUp(s, c) \/ LogoutBegins(s, c)
          \/ \E a \in Account, next \in AccountState : SaveBegins(s, a, next)
          \/ \E a \in Account, role \in AccountRole : GroupBegins(s, a, role)

SessionSpec == SessionInit /\ [][SessionNext]_sessionVars

------------------------------------------------------------------------------
(* Properties *)

\* A session that was ended by its log-out, by a deactivation or by a change of
\* role or membership is not let in again: not by a stepped-up copy of its
\* cookie, not when the account is reactivated or gets its role back, and not
\* when the row that ended it is pruned (verify, identityRevokedSince).
EndedStaysEnded == \A c \in cookies : c.jti \in ended => ~Authorized(c)

\* A recovery code opens one session, whichever instances it is sent to at once
\* (consumeMfaRecoveryCode checks and inserts in two statements).
RecoveryCodeOnce == \A c \in RecoveryCode : granted[c] <= 1
=============================================================================
