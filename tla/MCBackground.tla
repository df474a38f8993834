---------------------------- MODULE MCBackground ----------------------------
(* What must happen in the end: the file mutation lock, the native handoff and  *)
(* the parse pool, each under the fairness of its own specification.  They      *)
(* share no state: a behaviour moves the one its initial state names, and no    *)
(* fair action of the others is ever enabled.                                   *)
EXTENDS NativeHandoff, ParsePool, TLC

CONSTANTS p1, p2, lockHost, Absent, Empty, f1, event

VARIABLES
    subject,
    dir, pc, mode, mine, expected, moved, remembered, inc, lastToken, crashes, deleted, stranded

OneFile == [f \in {f1} |-> event]

Lock == INSTANCE FileMutationLock WITH
    Proc <- {p1, p2}, Host <- [p \in {p1, p2} |-> lockHost], StartsEmpty <- FALSE,
    EmptyBlocks <- TRUE, PidReuse <- FALSE,
    MaxTokens <- 2, MaxCrashes <- 1

lockVars == <<dir, pc, mode, mine, expected, moved, remembered, inc, lastToken, crashes, deleted, stranded>>

Vars == <<subject, lockVars, handoffVars, poolVars>>

Init ==
    /\ subject \in {"lock", "handoff", "pool"}
    /\ Lock!Init /\ HandoffInit /\ ParsePoolInit

Next ==
    /\ UNCHANGED subject
    /\ \/ subject = "lock" /\ Lock!Next /\ UNCHANGED <<handoffVars, poolVars>>
       \/ subject = "handoff" /\ HandoffNext /\ UNCHANGED <<lockVars, poolVars>>
       \/ subject = "pool" /\ ParsePoolNext /\ UNCHANGED <<lockVars, handoffVars>>

\* No pid is reused in this instance, so that whoever looks at a dead owner proves it.
Spec ==
    /\ Init /\ [][Next]_Vars
    /\ \A p \in {p1, p2} :
          /\ WF_lockVars(subject = "lock" /\ Lock!Continue(p))
          /\ WF_lockVars(subject = "lock" /\ Lock!Restart(p))
          /\ SF_lockVars(subject = "lock" /\ Lock!RenameAway(p))
          /\ SF_lockVars(subject = "lock" /\ Lock!Confirm(p))
          /\ SF_lockVars(subject = "lock" /\ Lock!PublishBlocked(p) /\ pc'[p] = "contend")
    /\ \A f \in File : WF_handoffVars(subject = "handoff" /\ AgentWorks(f))
    /\ WF_handoffVars(subject = "handoff" /\ \E m \in requests : m.waited /\ GateWorks(m))
    /\ WF_poolVars(subject = "pool" /\ PumpStep)
    /\ \A w \in Worker \cup {0}, t \in Task : WF_poolVars(subject = "pool" /\ Timer(w, t))

------------------------------------------------------------------------------

\* A lock whose owner died is reclaimed when processes keep asking for it.
DeadOwnerReclaimed == Lock!DeadOwnerReclaimed
=============================================================================
