---------------------------- MODULE LoginThrottle ----------------------------
(* Brute-force throttling (src/server/auth.js, POST /api/login in app.js): a    *)
(* bounded map of failure counters, one per client and one per user name and    *)
(* client, in the order of their last failure.                                  *)
EXTENDS Integers, Sequences, FiniteSets

CONSTANTS
    Client,       \* network addresses
    UserName,     \* names that are tried
    MaxAttempts,  \* MAX_ATTEMPTS
    WindowLength, \* WINDOW_MS
    MaxKeys,      \* MAX_ATTEMPT_KEYS
    LastMinute    \* bound: how long the clock runs

ASSUME ThrottleAssumption ==
    /\ MaxAttempts \in Nat \ {0} /\ WindowLength \in Nat \ {0}
    /\ MaxKeys \in Nat /\ MaxKeys >= 2 /\ LastMinute \in Nat

VARIABLES
    minute,   \* the clock
    attempts, \* the map, as the sequence of its entries in insertion order
    tried     \* ghost: failures of each client in its window, first and last of them

throttleVars == <<minute, attempts, tried>>

\* A key names a client, and a user name or none.
AnyName == "login-ip"

Key == (UserName \cup {AnyName}) \X Client

Entry == [key : Key, count : Nat, first : Int, lockedUntil : Int]

NoTries == [count |-> 0, first |-> 0, last |-> 0]

ThrottleTypes ==
    /\ minute \in 0..LastMinute
    /\ attempts \in Seq(Entry) /\ Len(attempts) <= MaxKeys
    /\ \A i, j \in DOMAIN attempts : attempts[i].key = attempts[j].key => i = j
    /\ tried \in [Client -> [count : Nat, first : Int, last : Int]]

ThrottleInit ==
    /\ minute = 0 /\ attempts = <<>>
    /\ tried = [c \in Client |-> NoTries]

------------------------------------------------------------------------------

\* The n-th of the places S, and the entries at those places in their order.
Place(S, n) == CHOOSE i \in S : Cardinality({j \in S : j <= i}) = n

Picked(map, S) == [n \in 1..Cardinality(S) |-> map[Place(S, n)]]

Without(map, k) == Picked(map, {i \in DOMAIN map : map[i].key # k})

Has(map, k) == \E i \in DOMAIN map : map[i].key = k

Get(map, k) == map[CHOOSE i \in DOMAIN map : map[i].key = k]

Elapsed(first) == minute - first > WindowLength

\* loginStatus
Locked(k) == Has(attempts, k) /\ minute < Get(attempts, k).lockedUntil

\* pruneAttempts, which runs at the limit only.
Pruned(map) ==
    IF Len(map) < MaxKeys THEN map
    ELSE Picked(map, {i \in DOMAIN map :
                          ~(Elapsed(map[i].first) /\ map[i].lockedUntil <= minute)})

\* The counter k has after one more failure.
Counted(map, k) ==
    LET old == IF Has(map, k) /\ ~Elapsed(Get(map, k).first) THEN Get(map, k)
               ELSE [key |-> k, count |-> 0, first |-> minute, lockedUntil |-> 0] IN
    [key |-> k, count |-> old.count + 1, first |-> old.first,
     lockedUntil |-> IF old.count + 1 >= MaxAttempts THEN minute + WindowLength
                     ELSE old.lockedUntil]

\* Mutant: a counter that is there keeps its place.
Refreshed_InPlace(map, e) ==
    IF Has(map, e.key)
    THEN [i \in DOMAIN map |-> IF map[i].key = e.key THEN e ELSE map[i]]
    ELSE Append(IF Len(map) >= MaxKeys THEN Tail(map) ELSE map, e)

\* The counter goes to the end of the order; at the limit the oldest make room.
Refreshed(map, e) ==
    LET others == Without(map, e.key)
        excess == IF Len(others) >= MaxKeys THEN Len(others) - MaxKeys + 1 ELSE 0 IN
    Append(SubSeq(others, excess + 1, Len(others)), e)

\* registerFail
Failed(map, k) == LET kept == Pruned(map) IN Refreshed(kept, Counted(kept, k))

TriedMore(t) ==
    IF t.count = 0 \/ Elapsed(t.first)
    THEN [count |-> 1, first |-> minute, last |-> minute]
    ELSE [count |-> t.count + 1, first |-> t.first, last |-> minute]

\* A wrong password or code counts for the name and for the client.
LoginFails(u, c) ==
    /\ ~Locked(<<u, c>>) /\ ~Locked(<<AnyName, c>>)
    /\ attempts' = Failed(Failed(attempts, <<u, c>>), <<AnyName, c>>)
    /\ tried' = [tried EXCEPT ![c] = TriedMore(@)]
    /\ UNCHANGED minute

\* registerSuccess forgets both counters.
LoginSucceeds(u, c) ==
    /\ ~Locked(<<u, c>>) /\ ~Locked(<<AnyName, c>>)
    /\ attempts' = Without(Without(attempts, <<u, c>>), <<AnyName, c>>)
    /\ tried' = [tried EXCEPT ![c] = NoTries]
    /\ UNCHANGED minute

MinutePasses ==
    /\ minute < LastMinute /\ minute' = minute + 1
    /\ UNCHANGED <<attempts, tried>>

ThrottleNext ==
    \/ MinutePasses
    \/ \E u \in UserName, c \in Client : LoginFails(u, c) \/ LoginSucceeds(u, c)

ThrottleSpec == ThrottleInit /\ [][ThrottleNext]_throttleVars

------------------------------------------------------------------------------
(* Properties *)

\* A client that failed MaxAttempts times in its window is locked out for a whole
\* one after its last failure, however many names it sprays: at the limit of the map
\* its own counter survives and those of the names fall out (registerFail, "one-shot
\* username spray keys fall out first"). With fewer than two places that the keys of
\* other clients leave free it does not hold: they too can make a counter fall out.
SprayThrottled ==
    \A c \in Client :
        tried[c].count >= MaxAttempts /\ minute < tried[c].last + WindowLength
            => Locked(<<AnyName, c>>)
=============================================================================
