------------------------------ MODULE PgBridge ------------------------------
(* The bridge that keeps the database calls of the control plane synchronous on *)
(* Postgres: the main thread waits for a worker thread that owns the connection *)
(* (src/server/storage/pg-driver.js, pg-worker.js).  A call may time out while  *)
(* its statement still runs, and the connection may be lost at any moment.      *)
(* Savepoints, the tenant setting and `close' are left out.                     *)
EXTENDS Integers, Sequences, FiniteSets

CONSTANTS
    LastCall,   \* bound: how many statements are called
    MaxTimeouts,\* bound: how many calls time out
    MaxLosses   \* bound: how often a connection is lost, refused or a write fails

ASSUME PgBridgeAssumption == LastCall \in Nat /\ MaxTimeouts \in Nat /\ MaxLosses \in Nat

VARIABLES
    callSeq,      \* main thread: the number of the last call
    caller,       \* what it does: the call it waits for, and the transaction around it
    replies,      \* messages on the port
    client,       \* worker: the generation of the live connection, or 0
    connecting,   \* a connect cycle is under way
    generation,
    txGeneration, \* the generation a transaction began on, or 0
    running,      \* calls the worker has taken and not answered, in order
    session,      \* Postgres: the transaction of the live connection
    table,        \* committed writes, named by the calls that made them
    timeouts, losses,
    reported,     \* ghost: what the program was told of its writes
    stray         \* ghost: a BEGIN timed out; transaction() sends no ROLLBACK after it

bridgeVars == <<callSeq, caller, replies, client, connecting, generation, txGeneration, running,
                session, table, timeouts, losses, reported, stray>>

Call == 1..LastCall

Kind == {"begin", "write", "commit", "rollback"}

\* `acked' and `tried' are the writes of the open transaction.
Caller == [waits : BOOLEAN, kind : Kind, inTx : BOOLEAN, mustRollBack : BOOLEAN,
           commitTried : BOOLEAN, acked : SUBSET Call, tried : SUBSET Call]

\* `on' is the connection a statement was sent on, 0 while there is none; `done'
\* says that Postgres ran it, and `ok' how.
Statement == [seq : Call, kind : Kind, on : 0..(MaxLosses + 1), done : BOOLEAN, ok : BOOLEAN]

PgBridgeTypes ==
    /\ callSeq \in 0..LastCall
    /\ caller \in Caller
    /\ replies \in Seq([seq : Call, ok : BOOLEAN])
    /\ client \in 0..generation /\ connecting \in BOOLEAN
    /\ generation \in 0..(MaxLosses + 1) /\ txGeneration \in 0..generation
    /\ running \in Seq(Statement)
    /\ session \in [open : BOOLEAN, failed : BOOLEAN, writes : SUBSET Call]
    /\ table \subseteq Call
    /\ timeouts \in 0..MaxTimeouts /\ losses \in 0..MaxLosses
    /\ reported \in [committed : SUBSET Call, rolledBack : SUBSET Call, single : SUBSET Call]
    /\ stray \in BOOLEAN

NoTx == [open |-> FALSE, failed |-> FALSE, writes |-> {}]

PgBridgeInit ==
    /\ callSeq = 0
    /\ caller = [waits |-> FALSE, kind |-> "write", inTx |-> FALSE, mustRollBack |-> FALSE,
                 commitTried |-> FALSE, acked |-> {}, tried |-> {}]
    /\ replies = <<>> /\ client = 0 /\ connecting = TRUE
    /\ generation = 0 /\ txGeneration = 0
    /\ running = <<>> /\ session = NoTx /\ table = {}
    /\ timeouts = 0 /\ losses = 0
    /\ reported = [committed |-> {}, rolledBack |-> {}, single |-> {}]
    /\ stray = FALSE

------------------------------------------------------------------------------
(* The main thread calls, the worker takes the call *)

\* Mutant: the worker goes on with whatever connection it has.
LostMidTx_Ignored == FALSE

LostMidTx == txGeneration # 0 /\ (client = 0 \/ generation # txGeneration)

\* runQuery, up to its first await.  A statement of a transaction whose connection
\* is gone is refused; ROLLBACK may run anywhere and BEGIN starts afresh.
RunQuery(kind) ==
    /\ txGeneration' = IF kind \in {"commit", "rollback"} THEN 0 ELSE txGeneration
    /\ IF kind \in {"write", "commit"} /\ LostMidTx
       THEN /\ replies' = Append(replies, [seq |-> callSeq + 1, ok |-> FALSE])
            /\ UNCHANGED <<running, connecting>>
       ELSE /\ running' = Append(running, [seq |-> callSeq + 1, kind |-> kind, on |-> client,
                                           done |-> FALSE, ok |-> FALSE])
            /\ connecting' = (connecting \/ client = 0)
            /\ UNCHANGED replies

\* Which statement the program may call next: transaction() sends BEGIN first, then
\* what its function runs, COMMIT after the function and ROLLBACK after any error.
MayCall(kind) ==
    CASE kind = "begin"    -> ~caller.inTx
      [] kind = "write"    -> ~caller.mustRollBack
      [] kind = "commit"   -> caller.inTx /\ ~caller.mustRollBack
      [] kind = "rollback" -> caller.inTx

Calls(kind) ==
    /\ ~caller.waits /\ callSeq < LastCall /\ MayCall(kind)
    /\ callSeq' = callSeq + 1
    /\ caller' = [caller EXCEPT !.waits = TRUE, !.kind = kind,
                                !.commitTried = @ \/ kind = "commit",
                                !.tried = IF caller.inTx /\ kind = "write"
                                          THEN @ \cup {callSeq + 1} ELSE @]
    /\ RunQuery(kind)
    /\ UNCHANGED <<client, generation, session, table, timeouts, losses, reported,
                   stray>>

------------------------------------------------------------------------------
(* The main thread gets an answer, or none *)

\* transaction() and run(), when a call has come back or thrown.
Returns(ok) ==
    LET k == caller.kind
        ended == [caller EXCEPT !.waits = FALSE, !.inTx = FALSE, !.mustRollBack = FALSE,
                                !.commitTried = FALSE, !.acked = {}, !.tried = {}] IN
    /\ caller' =
          CASE k = "begin" /\ ok -> [caller EXCEPT !.waits = FALSE, !.inTx = TRUE]
            [] k = "write" /\ ok /\ caller.inTx ->
                  [caller EXCEPT !.waits = FALSE, !.acked = @ \cup {callSeq}]
            [] k \in {"write", "commit"} /\ ~ok /\ caller.inTx ->
                  [caller EXCEPT !.waits = FALSE, !.mustRollBack = TRUE]
            [] (k = "commit" /\ ok) \/ k = "rollback" -> ended
            [] OTHER -> [caller EXCEPT !.waits = FALSE]
    /\ reported' =
          [committed |-> reported.committed \cup
               (IF k = "commit" /\ ok THEN caller.acked ELSE {}),
           rolledBack |-> reported.rolledBack \cup
               (IF k = "rollback" /\ ~caller.commitTried THEN caller.tried ELSE {}),
           single |-> reported.single \cup
               (IF k = "write" /\ ok /\ ~caller.inTx THEN {callSeq} ELSE {})]

Mine(r) == r.seq = callSeq

\* takeReply drops the late replies before its own.
TakesReply ==
    \E i \in DOMAIN replies :
        /\ caller.waits /\ Mine(replies[i]) /\ \A j \in 1..(i - 1) : ~Mine(replies[j])
        /\ replies' = SubSeq(replies, i + 1, Len(replies))
        /\ Returns(replies[i].ok)
        /\ UNCHANGED <<callSeq, client, connecting, generation, txGeneration, running, session,
                       table, timeouts, losses, stray>>

\* 'postgres bridge timeout': the port was drained, the statement may run later.
TimesOut ==
    /\ caller.waits /\ timeouts < MaxTimeouts
    /\ \A i \in DOMAIN replies : ~Mine(replies[i])
    /\ replies' = <<>>
    /\ timeouts' = timeouts + 1
    /\ stray' = (stray \/ caller.kind = "begin")
    /\ Returns(FALSE)
    /\ UNCHANGED <<callSeq, client, connecting, generation, txGeneration, running, session,
                   table, losses>>

------------------------------------------------------------------------------
(* The worker's connection *)

Main == <<callSeq, caller, timeouts, reported, stray>>

Refused(s) == [seq |-> s.seq, ok |-> FALSE]

\* connectWithRetry succeeds: what waited for the connection is sent on it.
Connects ==
    /\ connecting /\ generation <= MaxLosses
    /\ connecting' = FALSE
    /\ generation' = generation + 1 /\ client' = generation + 1
    /\ session' = NoTx
    /\ running' = [i \in DOMAIN running |-> [running[i] EXCEPT !.on = generation + 1]]
    /\ UNCHANGED <<Main, replies, txGeneration, table, losses>>

\* Every attempt failed: the calls that waited are answered with the error.
ConnectFails ==
    /\ connecting /\ losses < MaxLosses
    /\ losses' = losses + 1
    /\ connecting' = FALSE
    /\ running' = <<>>
    /\ replies' = replies \o [i \in DOMAIN running |-> Refused(running[i])]
    /\ UNCHANGED <<Main, client, generation, txGeneration, session, table>>

\* The connection is gone, and with it the transaction; calls under way fail,
\* whether Postgres ran their statements or not.
ConnectionLost ==
    /\ client # 0 /\ losses < MaxLosses
    /\ losses' = losses + 1
    /\ client' = 0 /\ session' = NoTx
    /\ running' = <<>>
    /\ replies' = replies \o [i \in DOMAIN running |-> Refused(running[i])]
    /\ UNCHANGED <<Main, connecting, generation, txGeneration, table>>

------------------------------------------------------------------------------
(* Postgres *)

\* The first statement that was sent and has not been run; the driver sends one at
\* a time, in order.
Sent(i) == running[i].on # 0 /\ ~running[i].done /\ \A j \in 1..(i - 1) : running[j].done

Runs(i, ok) == running' = [running EXCEPT ![i].done = TRUE, ![i].ok = ok]

\* BEGIN in a transaction is a warning, and an error in one that failed; COMMIT of a
\* failed one rolls back without an error, and so does ROLLBACK outside one.
PostgresRuns(i) ==
    /\ Sent(i)
    /\ LET s == running[i] IN
       CASE s.kind = "begin" ->
              /\ Runs(i, ~session.failed) /\ UNCHANGED table
              /\ session' = IF session.open THEN session ELSE [NoTx EXCEPT !.open = TRUE]
         [] s.kind = "commit" ->
              /\ Runs(i, TRUE) /\ session' = NoTx
              /\ table' = IF session.failed THEN table ELSE table \cup session.writes
         [] s.kind = "rollback" ->
              Runs(i, TRUE) /\ session' = NoTx /\ UNCHANGED table
         [] s.kind = "write" /\ ~session.failed ->
              /\ Runs(i, TRUE)
              /\ IF session.open
                 THEN session' = [session EXCEPT !.writes = @ \cup {s.seq}] /\ UNCHANGED table
                 ELSE table' = table \cup {s.seq} /\ UNCHANGED session
         [] OTHER -> Runs(i, FALSE) /\ UNCHANGED <<session, table>>
    /\ UNCHANGED <<Main, replies, client, connecting, generation, txGeneration, losses>>

\* A constraint, or the statement timeout (SQLSTATE 57014): the connection stays.
StatementFails(i) ==
    /\ Sent(i) /\ running[i].kind = "write" /\ losses < MaxLosses
    /\ losses' = losses + 1
    /\ Runs(i, FALSE)
    /\ session' = IF session.open THEN [session EXCEPT !.failed = TRUE] ELSE session
    /\ UNCHANGED <<Main, replies, client, connecting, generation, txGeneration, table>>

\* runQuery goes on after its statement; a BEGIN that worked marks its connection.
Replies ==
    /\ running # <<>> /\ Head(running).done
    /\ running' = Tail(running)
    /\ replies' = Append(replies, [seq |-> Head(running).seq, ok |-> Head(running).ok])
    /\ txGeneration' = IF Head(running).kind = "begin" /\ Head(running).ok
                       THEN generation ELSE txGeneration
    /\ UNCHANGED <<Main, client, connecting, generation, session, table, losses>>

PgBridgeNext ==
    \/ \E k \in Kind : Calls(k)
    \/ TakesReply \/ TimesOut
    \/ Connects \/ ConnectFails \/ ConnectionLost
    \/ \E i \in DOMAIN running : PostgresRuns(i) \/ StatementFails(i)
    \/ Replies

PgBridgeSpec == PgBridgeInit /\ [][PgBridgeNext]_bridgeVars

------------------------------------------------------------------------------
(* Properties *)

\* What the program was told of its writes is what became of them: a transaction
\* whose COMMIT was reported is in the database whole, and so is a single write as
\* long as no BEGIN has timed out; one that was rolled back before COMMIT left
\* nothing behind, not even a statement that timed out and ran later.  No late reply
\* passes for an answer, and nothing commits by itself on a fresh session (call,
\* takeReply, runQuery).
ReportsAreTrue ==
    /\ reported.committed \subseteq table
    /\ stray \/ reported.single \subseteq table
    /\ reported.rolledBack \cap table = {}

\* A call that times out is only an error to its caller: docs/deployment/
\* MANAGED_POSTGRES.md, "callers will see `postgres bridge timeout` instead of the
\* retry error".  A later single write that is reported is not lost.
TimeoutOnlyFails == reported.single \subseteq table \cup session.writes
=============================================================================
