------------------------------- MODULE Updater -------------------------------
(* Updates of a source checkout from its Git remote (src/server/updater.js and   *)
(* its handlers in app.js): check, backup, fast-forward, install, and a restart  *)
(* that somebody has to bring about.  A run awaits a child process at every      *)
(* stage and leaves its progress in update-state.json; the server may die        *)
(* anywhere, and comes back with whatever the checkout holds by then.            *)
EXTENDS Integers

CONSTANTS
    NoRun,       \* no update is under way
    LastCommit,  \* bound: commits are pushed to the remote branch one after the other
    MaxRuns,     \* bound: updates that are asked for
    MaxDeaths,   \* bound: times the server dies
    MaxBadCommands  \* bound: commands that fail

ASSUME UpdaterAssumption ==
    LastCommit \in Nat /\ MaxRuns \in Nat /\ MaxDeaths \in Nat /\ MaxBadCommands \in Nat

VARIABLES
    pushed,     \* the remote branch
    fetched,    \* the remote-tracking reference of the checkout
    head,       \* HEAD
    dirty,      \* git status names local changes
    installed,  \* the commit whose dependencies are installed; Broken when npm ci stopped halfway
    loaded,     \* commit and dependencies the server process was started with
    activeRun,  \* stage of the update, and the commit it found
    timer,      \* a restart is scheduled
    file,       \* update-state.json: status, restartRequired, toCommit
    saved,      \* ghost: HEAD when the last backup was taken, -1 before
    runs, deaths, badCommands \* ghosts: what the bounds count

checkout == <<pushed, fetched, head, dirty, installed>>
counts == <<runs, deaths, badCommands>>
updaterVars == <<checkout, loaded, activeRun, timer, file, saved, counts>>

Commit == 0..LastCommit

Broken == -1

RunStage == {"checking", "backup", "fast-forward", "install", "conclude"}

UpdateStatus == {"none", "running", "up-to-date", "updated", "failed", "restart-scheduled",
           "restart-command-ran", "restart-failed"}

UpdaterTypes ==
    /\ pushed \in Commit /\ fetched \in 0..pushed /\ head \in 0..fetched
    /\ dirty \in BOOLEAN /\ installed \in Commit \cup {Broken}
    /\ loaded \in Commit \X (Commit \cup {Broken})
    /\ activeRun \in {NoRun} \cup [stage : RunStage, from : Commit]
    /\ timer \in BOOLEAN
    /\ file \in [status : UpdateStatus, restart : BOOLEAN, to : Commit]
    /\ saved \in Commit \cup {-1}
    /\ runs \in 0..MaxRuns /\ deaths \in 0..MaxDeaths /\ badCommands \in 0..MaxBadCommands

UpdaterInit ==
    /\ pushed = 0 /\ fetched = 0 /\ head = 0 /\ dirty = FALSE /\ installed = 0
    /\ loaded = <<0, 0>>
    /\ activeRun = NoRun /\ timer = FALSE
    /\ file = [status |-> "none", restart |-> FALSE, to |-> 0]
    /\ saved = -1 /\ runs = 0 /\ deaths = 0 /\ badCommands = 0

------------------------------------------------------------------------------
(* What the updater does not control *)

Pushes ==
    /\ pushed < LastCommit /\ pushed' = pushed + 1
    /\ UNCHANGED <<fetched, head, dirty, installed, loaded, activeRun, timer, file, saved, counts>>

\* Somebody edits the source tree, or takes the edits back.
Edits ==
    /\ dirty' = ~dirty
    /\ UNCHANGED <<pushed, fetched, head, installed, loaded, activeRun, timer, file, saved, counts>>

------------------------------------------------------------------------------
(* A run *)

\* writeState keeps what it does not set.
Records(status) == file' = [file EXCEPT !.status = status]

EntersStage(stage) == activeRun' = [activeRun EXCEPT !.stage = stage]

Ready(stage) == activeRun # NoRun /\ activeRun.stage = stage

\* POST /api/update/apply: one update at a time in a process.
ApplyUpdate ==
    /\ activeRun = NoRun /\ runs < MaxRuns /\ runs' = runs + 1
    /\ activeRun' = [stage |-> "checking", from |-> head]
    /\ Records("running")
    /\ UNCHANGED <<checkout, loaded, timer, saved, deaths, badCommands>>

Fails ==
    /\ Records("failed") /\ activeRun' = NoRun

\* checkForUpdates, also by itself (POST /api/update/check), while a run awaits.
Fetch ==
    /\ fetched # pushed /\ fetched' = pushed
    /\ UNCHANGED <<pushed, head, dirty, installed, loaded, activeRun, timer, file, saved, counts>>

\* There is nothing to do, so no restart is required.
UpToDate == file' = [file EXCEPT !.status = "up-to-date", !.restart = FALSE, !.to = fetched']

\* The check of a run, and the comparison of HEAD with what was fetched; the
\* tracking reference only advances, so HEAD is an ancestor of it.
CheckRun ==
    /\ Ready("checking")
    /\ fetched' = pushed
    /\ IF dirty THEN Fails
       ELSE IF head = fetched'
       THEN activeRun' = NoRun /\ UpToDate
       ELSE activeRun' = [stage |-> "backup", from |-> head] /\ Records("running")
    /\ UNCHANGED <<pushed, head, dirty, installed, loaded, timer, saved, counts>>

\* Mutant: the backup is taken while the checkout moves on.
BackupTaken_Background == UNCHANGED saved

\* createBackup: the database as the code that is to be replaced has it.
BackupTaken == saved' = head

BackUp ==
    /\ Ready("backup")
    /\ BackupTaken /\ EntersStage("fast-forward") /\ Records("running")
    /\ UNCHANGED <<checkout, loaded, timer, counts>>

\* git merge --ff-only to the tracking reference as it is by now; local changes
\* that came in between may stop it.
FastForward ==
    /\ Ready("fast-forward")
    /\ \/ head' = fetched /\ EntersStage("install") /\ file' = [file EXCEPT !.to = fetched]
       \/ dirty /\ Fails /\ UNCHANGED head
    /\ UNCHANGED <<pushed, fetched, dirty, installed, loaded, timer, saved, counts>>

\* npm ci, or nothing when the dependencies are somebody else's business.
Install ==
    /\ Ready("install")
    /\ installed' = head /\ EntersStage("conclude")
    /\ UNCHANGED <<pushed, fetched, head, dirty, loaded, timer, file, saved, counts>>

Conclude ==
    /\ Ready("conclude")
    /\ file' = [file EXCEPT !.status = "updated", !.restart = TRUE]
    /\ activeRun' = NoRun
    /\ UNCHANGED <<checkout, loaded, timer, saved, counts>>

\* npm ci removes the dependencies before it installs them.
InstallStops ==
    /\ installed' \in IF Ready("install") THEN {installed, Broken} ELSE {installed}
    /\ UNCHANGED <<pushed, fetched, head, dirty>>

\* A command of the run fails: the fetch, the backup, the merge, the install.
CommandFails ==
    /\ activeRun # NoRun /\ activeRun.stage # "conclude"
    /\ badCommands < MaxBadCommands /\ badCommands' = badCommands + 1
    /\ Fails /\ InstallStops
    /\ UNCHANGED <<loaded, timer, saved, runs, deaths>>

------------------------------------------------------------------------------
(* Restarts *)

\* scheduleRestart: after a run that is configured to, or on request at any time.
ScheduleRestart ==
    /\ ~timer /\ timer' = TRUE
    /\ file' = [file EXCEPT !.status = "restart-scheduled", !.restart = TRUE]
    /\ UNCHANGED <<checkout, loaded, activeRun, saved, counts>>

Started == InstallStops /\ activeRun' = NoRun /\ loaded' = <<head, installed'>>

\* The command restarts the server, which seldom lives to see its result; it
\* may leave that to a supervisor.
RestartRuns ==
    /\ timer /\ timer' = FALSE
    /\ \/ Started /\ UNCHANGED <<file, badCommands>>
       \/ /\ Started
          /\ file' = [file EXCEPT !.status = "restart-command-ran", !.restart = FALSE]
          /\ UNCHANGED badCommands
       \/ /\ badCommands < MaxBadCommands /\ badCommands' = badCommands + 1
          /\ file' = [file EXCEPT !.status = "restart-failed", !.restart = TRUE]
          /\ UNCHANGED <<checkout, loaded, activeRun>>
    /\ UNCHANGED <<saved, runs, deaths>>

\* The server dies and is started again by its supervisor.
Restarts ==
    /\ deaths < MaxDeaths /\ deaths' = deaths + 1
    /\ Started /\ timer' = FALSE
    /\ UNCHANGED <<file, saved, runs, badCommands>>

------------------------------------------------------------------------------

UpdaterNext ==
    \/ Pushes \/ Edits \/ Fetch
    \/ ApplyUpdate \/ CheckRun \/ BackUp \/ FastForward \/ Install \/ Conclude \/ CommandFails
    \/ ScheduleRestart \/ RestartRuns \/ Restarts

UpdaterSpec == UpdaterInit /\ [][UpdaterNext]_updaterVars

------------------------------------------------------------------------------
(* Properties *)

\* Whatever fails, dies or is pushed in between: a run that has moved the checkout
\* left the very commit it backed up last, and what is reported as updated is
\* checked out, has its dependencies and is marked for a restart (runApplyUpdate).
UpdatesAreSafe ==
    /\ Ready("install") \/ Ready("conclude") => saved = activeRun.from
    /\ file.status = "updated" => file.to = head /\ installed = head /\ file.restart

\* An update "Marks restart required" (docs/deployment/DEPLOYMENT.md, In-App
\* Updates From GitHub): when nothing is left to do and no restart required, the
\* server runs HEAD with its dependencies.  The code keeps it only while no
\* install fails and nobody asks for an update twice before the restart.
UpToDateIsRunning ==
    file.status = "up-to-date" /\ ~file.restart /\ file.to = head => loaded = <<head, head>>
=============================================================================
