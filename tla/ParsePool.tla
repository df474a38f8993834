----------------------------- MODULE ParsePool -----------------------------
(* The pool of killable child processes that extract text from uploaded files   *)
(* (src/server/parse-pool.js).  Results, timers, exits and errors reach the     *)
(* pool as callbacks of one thread; the children run and die beside it.         *)
EXTENDS Integers, Sequences, FiniteSets

CONSTANTS
    PoolSize,      \* REDACTWALL_PARSE_POOL_SIZE
    QueueMax,      \* REDACTWALL_PARSE_QUEUE_MAX
    TasksPerChild, \* REDACTWALL_PARSE_CHILD_MAX_TASKS
    LastTask,      \* bound: how many files are handed to the pool
    MaxFailures      \* bound: how often a child fails on its own

ASSUME ParsePoolAssumption ==
    /\ PoolSize \in Nat \ {0} /\ QueueMax \in Nat \ {0} /\ TasksPerChild \in Nat \ {0}
    /\ LastTask \in Nat /\ MaxFailures \in Nat

VARIABLES
    asked,     \* nextTaskId - 1
    queue,     \* tasks that wait for a worker
    spawned,   \* workers that were ever forked
    workers,   \* the set the pool keeps, among them
    taskOf,    \* worker.task, or 0
    tasksDone, \* worker.tasksDone
    process,   \* the child itself; "ended" until the pool hears of it
    timers,    \* armed: <<worker, task>>, worker 0 for the timer of a queued task
    results,   \* result messages on their way, <<worker, task>>
    pumping,   \* the thread is inside pump()
    failures,    \* failures of children so far
    answers    \* what each task's promise was resolved with, and on whose account

poolVars == <<asked, queue, spawned, workers, taskOf, tasksDone, process, timers, results,
              pumping, failures, answers>>

Task == 1..LastTask

\* A worker is forked for a task at hand, never in reserve.
Worker == 1..LastTask

Answer == [what : {"result", "timeout", "extract_failed"}, owner : Task]

ParsePoolTypes ==
    /\ asked \in 0..LastTask
    /\ queue \in Seq(Task) /\ Len(queue) <= QueueMax
    /\ spawned \in 0..LastTask
    /\ workers \in SUBSET (1..spawned) /\ Cardinality(workers) <= PoolSize
    /\ taskOf \in [Worker -> Task \cup {0}]
    /\ tasksDone \in [Worker -> 0..TasksPerChild]
    /\ process \in [Worker -> {"none", "alive", "ended", "closed"}]
    /\ timers \subseteq (Worker \cup {0}) \X Task
    /\ results \subseteq Worker \X Task
    /\ pumping \in BOOLEAN
    /\ failures \in 0..MaxFailures
    /\ answers \in [Task -> Seq(Answer)]

ParsePoolInit ==
    /\ asked = 0 /\ queue = <<>> /\ spawned = 0 /\ workers = {}
    /\ taskOf = [w \in Worker |-> 0] /\ tasksDone = [w \in Worker |-> 0]
    /\ process = [w \in Worker |-> "none"]
    /\ timers = {} /\ results = {} /\ pumping = FALSE /\ failures = 0
    /\ answers = [t \in Task |-> <<>>]

------------------------------------------------------------------------------

Waiting == {queue[i] : i \in 1..Len(queue)}

\* queue.splice(i, 1)
Spliced(q, i) == SubSeq(q, 1, i - 1) \o SubSeq(q, i + 1, Len(q))

Answering(t, what, owner) ==
    [answers EXCEPT ![t] = Append(@, [what |-> what, owner |-> owner])]

\* extractText: over the limit of the queue a file is refused at once.
ExtractText ==
    /\ ~pumping /\ asked < LastTask
    /\ asked' = asked + 1
    /\ IF Len(queue) >= QueueMax
       THEN /\ answers' = Answering(asked + 1, "extract_failed", asked + 1)
            /\ UNCHANGED <<queue, timers, pumping>>
       ELSE /\ queue' = Append(queue, asked + 1)
            /\ timers' = timers \cup {<<0, asked + 1>>}
            /\ pumping' = TRUE
            /\ UNCHANGED answers
    /\ UNCHANGED <<spawned, workers, taskOf, tasksDone, process, results, failures>>

IdleWorkers == {w \in workers : taskOf[w] = 0}

\* The worker pump() finds or forks for the head of the queue.
Forks == IdleWorkers = {} /\ Cardinality(workers) < PoolSize

Chosen(w) == IF Forks THEN w = spawned + 1 ELSE w \in IdleWorkers

SpawnWorker ==
    IF Forks THEN /\ spawned' = spawned + 1 /\ process' = [process EXCEPT ![spawned + 1] = "alive"]
    ELSE UNCHANGED <<spawned, process>>

\* Mutant: nobody times the worker.
RunTimer_None(w, t) == {}

RunTimer(w, t) == {<<w, t>>}

\* pump() and assign(): the task leaves the queue for a worker.
Assign(w) ==
    LET t == Head(queue) IN
    /\ pumping /\ queue # <<>> /\ Chosen(w)
    /\ queue' = Tail(queue)
    /\ workers' = workers \cup {w}
    /\ taskOf' = [taskOf EXCEPT ![w] = t]
    /\ timers' = (timers \ {<<0, t>>}) \cup RunTimer(w, t)
    /\ SpawnWorker
    /\ UNCHANGED <<asked, tasksDone, results, pumping, failures, answers>>

\* assign() whose send throws: the worker is dropped with its task, and pump goes on.
AssignThrows(w) ==
    LET t == Head(queue) IN
    /\ pumping /\ queue # <<>> /\ Chosen(w) /\ failures < MaxFailures
    /\ queue' = Tail(queue)
    /\ workers' = workers \ {w}
    /\ timers' = timers \ {<<0, t>>}
    /\ answers' = Answering(t, "extract_failed", t)
    /\ failures' = failures + 1
    /\ SpawnWorker
    /\ UNCHANGED <<asked, taskOf, tasksDone, results, pumping>>

\* pump() returns: nothing waits, or no worker is free.
PumpReturns ==
    /\ pumping /\ (queue = <<>> \/ (IdleWorkers = {} /\ ~Forks))
    /\ pumping' = FALSE
    /\ UNCHANGED <<asked, queue, spawned, workers, taskOf, tasksDone, process, timers, results,
                   failures, answers>>

------------------------------------------------------------------------------
(* Callbacks *)

Killed(w) == [process EXCEPT ![w] = IF @ = "alive" THEN "ended" ELSE @]

Cleared(w, t) == timers \ {<<w, t>>}

\* settle: a worker that has served its share is retired.
Settle(w, t) ==
    /\ ~pumping /\ <<w, t>> \in results
    /\ results' = results \ {<<w, t>>}
    /\ IF taskOf[w] # t
       THEN UNCHANGED <<workers, taskOf, tasksDone, process, timers, pumping, answers>>
       ELSE /\ taskOf' = [taskOf EXCEPT ![w] = 0]
            /\ tasksDone' = [tasksDone EXCEPT ![w] = @ + 1]
            /\ timers' = Cleared(w, t)
            /\ answers' = Answering(t, "result", t)
            /\ IF tasksDone[w] + 1 >= TasksPerChild
               THEN workers' = workers \ {w} /\ process' = Killed(w)
               ELSE UNCHANGED <<workers, process>>
            /\ pumping' = TRUE
    /\ UNCHANGED <<asked, queue, spawned, failures>>

\* Mutant: the worker keeps its task when it is killed.
Released_Kept(w) == taskOf

Released(w) == [taskOf EXCEPT ![w] = 0]

PumpsOn == TRUE

\* preempt: the timer of task t answers what its worker holds now.
Preempt(w, t) ==
    /\ ~pumping /\ w # 0 /\ <<w, t>> \in timers
    /\ timers' = timers \ {<<w, t>>}
    /\ workers' = workers \ {w}
    /\ process' = Killed(w)
    /\ taskOf' = Released(w)
    /\ answers' = IF taskOf[w] = 0 THEN answers ELSE Answering(taskOf[w], "timeout", t)
    /\ pumping' = PumpsOn
    /\ UNCHANGED <<asked, queue, spawned, tasksDone, results, failures>>

\* expireQueued takes the task out of the queue, wherever it stands.
ExpireQueued(t) ==
    /\ ~pumping /\ <<0, t>> \in timers
    /\ timers' = timers \ {<<0, t>>}
    /\ \/ \E i \in 1..Len(queue) :
             /\ queue[i] = t
             /\ queue' = Spliced(queue, i)
             /\ answers' = Answering(t, "timeout", t)
       \/ t \notin Waiting /\ UNCHANGED <<queue, answers>>
    /\ UNCHANGED <<asked, spawned, workers, taskOf, tasksDone, process, results, pumping, failures>>

Reap(w) ==
    /\ workers' = workers \ {w}
    /\ taskOf' = [taskOf EXCEPT ![w] = 0]
    /\ timers' = timers \ {<<w, taskOf[w]>>}
    /\ answers' = IF taskOf[w] = 0 THEN answers
                  ELSE Answering(taskOf[w], "extract_failed", taskOf[w])
    /\ pumping' = TRUE
    /\ UNCHANGED <<asked, queue, spawned, tasksDone, results>>

\* The exit event of a child, killed long ago or dead of itself.
Exit(w) ==
    /\ ~pumping /\ process[w] = "ended"
    /\ process' = [process EXCEPT ![w] = "closed"]
    /\ Reap(w) /\ UNCHANGED failures

\* The error event of a child, which may well be alive.
ErrorEvent(w) ==
    /\ ~pumping /\ process[w] # "none" /\ failures < MaxFailures
    /\ failures' = failures + 1
    /\ Reap(w) /\ UNCHANGED process

\* shutdown
Shutdown ==
    LET held == {taskOf[w] : w \in workers} \ {0} IN
    /\ ~pumping /\ (queue # <<>> \/ workers # {})
    /\ queue' = <<>> /\ workers' = {}
    /\ taskOf' = [w \in Worker |-> IF w \in workers THEN 0 ELSE taskOf[w]]
    /\ timers' = {x \in timers : x[2] \notin Waiting \cup held}
    /\ process' = [w \in Worker |-> IF w \in workers THEN Killed(w)[w] ELSE process[w]]
    /\ answers' = [t \in Task |->
          IF t \in Waiting \cup held THEN Answering(t, "extract_failed", t)[t]
          ELSE answers[t]]
    /\ UNCHANGED <<asked, spawned, tasksDone, results, pumping, failures>>

------------------------------------------------------------------------------
(* The children *)

\* parse-child.js sends the result of the task it was given.
ChildFinishes(w) ==
    /\ process[w] = "alive" /\ taskOf[w] # 0 /\ <<w, taskOf[w]>> \notin results
    /\ results' = results \cup {<<w, taskOf[w]>>}
    /\ UNCHANGED <<asked, queue, spawned, workers, taskOf, tasksDone, process, timers, pumping,
                   failures, answers>>

\* A crash, an exhausted heap.
ChildDies(w) ==
    /\ process[w] = "alive" /\ failures < MaxFailures
    /\ process' = Killed(w)
    /\ failures' = failures + 1
    /\ UNCHANGED <<asked, queue, spawned, workers, taskOf, tasksDone, timers, results, pumping,
                   answers>>

Timer(w, t) == Preempt(w, t) \/ (w = 0 /\ ExpireQueued(t))

PumpStep == PumpReturns \/ \E w \in Worker : Assign(w)

ParsePoolNext ==
    \/ ExtractText \/ PumpStep \/ Shutdown
    \/ \E w \in Worker : \/ AssignThrows(w) \/ Exit(w) \/ ErrorEvent(w)
                         \/ ChildFinishes(w) \/ ChildDies(w)
    \/ \E w \in Worker \cup {0}, t \in Task : Timer(w, t)
    \/ \E w \in Worker, t \in Task : Settle(w, t)

\* Callbacks return and timers fire; a child owes nothing.
ParsePoolFairness ==
    /\ WF_poolVars(PumpStep)
    /\ \A w \in Worker \cup {0}, t \in Task : WF_poolVars(Timer(w, t))

ParsePoolSpec == ParsePoolInit /\ [][ParsePoolNext]_poolVars /\ ParsePoolFairness

------------------------------------------------------------------------------
(* Properties *)

\* A task is answered once, and on its own account: no late result, stale timer or
\* late exit of a killed child (settle, preempt, reap) answers another's promise or
\* answers again, and no task that waits or runs has been answered.
AnsweredOnce ==
    \A t \in Task :
        /\ Len(answers[t]) <= 1 /\ \A i \in DOMAIN answers[t] : answers[t][i].owner = t
        /\ (t \in Waiting \/ \E w \in workers : taskOf[w] = t) => answers[t] = <<>>

\* Whenever the thread is back in its event loop, a task waits only if every worker
\* of a full pool is busy: each way a worker is freed or lost ends in pump().
NoTaskWaitsInVain ==
    ~pumping /\ queue # <<>> => IdleWorkers = {} /\ Cardinality(workers) = PoolSize

\* Both together: what the pool owes the requests whose files it holds (pump, settle).
QueueServed == AnsweredOnce /\ NoTaskWaitsInVain

\* Every file handed to the pool gets an answer, even if no child ever sends one.
EveryTaskAnswered ==
    \A t \in Task : asked >= t ~> answers[t] # <<>>
=============================================================================
