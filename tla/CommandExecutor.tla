--------------------------- MODULE CommandExecutor ---------------------------
(***************************************************************************)
(* CommandExecutor (command-executor.ts) in the headless agent wrapper:    *)
(* the child processes of commands, their cancellation and their timers.   *)
(* A run is one accepted call of executeCommand; a later run may have the  *)
(* id of an earlier one.                                                   *)
(***************************************************************************)
EXTENDS Naturals, FiniteSets

CONSTANTS
    CommandIds,
    MaxRuns      \* bound of the model: commands that are executed

ASSUME ExecutorAssumption == MaxRuns \in Nat /\ IsFiniteSet(CommandIds)

VARIABLES
    run,         \* the runs
    active,      \* activeCommands: the run of a command id, or NoRun
    linked,      \* the wrapper is connected: completions are sent
    shutDown     \* cancelAllCommands was called for good

executorVars == <<run, active, linked, shutDown>>

NoRun == 0
Runs == 1..MaxRuns

\* child: "alive", "exited" (its streams may still hold output) or "closed".
\* signalled: Node's child.killed.  report: the status that was sent.
NewRun == [id |-> "none", child |-> "none", stubborn |-> FALSE, timeLimit |-> FALSE,
           killTimer |-> FALSE, cancelled |-> FALSE, signalled |-> FALSE, bySignal |-> FALSE,
           failed |-> FALSE, errored |-> FALSE, report |-> "none"]

ExecutorInit ==
    /\ run = [r \in Runs |-> NewRun]
    /\ active = [c \in CommandIds |-> NoRun]
    /\ linked = TRUE /\ shutDown = FALSE

Started == {r \in Runs : run[r].child # "none"}

-----------------------------------------------------------------------------
\* Slip: a command that is already running is started a second time.
MayExecuteAgain(c) == TRUE

MayExecute(c) == active[c] = NoRun

(* A stubborn child does not end on SIGTERM.                                *)
ExecuteCommand(r, c) ==
    /\ r \notin Started /\ \A s \in 1..(r - 1) : s \in Started
    /\ MayExecute(c) /\ ~shutDown
    /\ \E stubborn, timeLimit \in BOOLEAN :
          run' = [run EXCEPT ![r] = [NewRun EXCEPT !.id = c, !.child = "alive",
                                       !.stubborn = stubborn, !.timeLimit = timeLimit]]
    /\ active' = [active EXCEPT ![c] = r]
    /\ UNCHANGED <<linked, shutDown>>

(* cancelCommand: SIGTERM and a timer.  kill() of a process that is gone    *)
(* does nothing and leaves child.killed unset.                              *)
Cancelled(x) ==
    [x EXCEPT !.cancelled = TRUE, !.killTimer = TRUE,
              !.signalled = @ \/ x.child = "alive"]

CancelActive(ids) ==
    run' = [r \in Runs |-> IF \E c \in ids : active[c] = r THEN Cancelled(run[r]) ELSE run[r]]

\* The timer of a run is never cleared: it cancels whatever has the id by then.
TimeLimit(r) ==
    /\ run[r].timeLimit
    /\ LET hit == active[run[r].id] IN
       run' = [s \in Runs |->
                 LET x == IF s = hit THEN Cancelled(run[s]) ELSE run[s]
                 IN  IF s = r THEN [x EXCEPT !.timeLimit = FALSE] ELSE x]
    /\ UNCHANGED <<active, linked, shutDown>>

\* child.killed is set by the SIGTERM already.
ForcesKill(x) == x.child = "alive" /\ ~x.signalled

KillTimer(r) ==
    /\ run[r].killTimer
    /\ run' = [run EXCEPT ![r].killTimer = FALSE,
                          ![r].child = IF ForcesKill(run[r]) THEN "exited" ELSE @,
                          ![r].bySignal = @ \/ ForcesKill(run[r])]
    /\ UNCHANGED <<active, linked, shutDown>>

CancelAll ==
    /\ ~shutDown /\ shutDown' = TRUE
    /\ CancelActive(CommandIds)
    /\ UNCHANGED <<active, linked>>

-----------------------------------------------------------------------------
(* The child ends by itself, well or not, or of the SIGTERM.                *)
ChildExits(r) ==
    /\ run[r].child = "alive"
    /\ \/ \E failed \in BOOLEAN :
             run' = [run EXCEPT ![r].child = "exited", ![r].failed = failed]
       \/ /\ run[r].signalled /\ ~run[r].stubborn
          /\ run' = [run EXCEPT ![r].child = "exited", ![r].bySignal = TRUE]
    /\ UNCHANGED <<active, linked, shutDown>>

\* code is null after a signal, and `code || 0` success.
Status(x) == IF x.failed THEN "FAILED" ELSE "COMPLETED"

\* Whichever run has the id.
Without(r) == [active EXCEPT ![run[r].id] = NoRun]

(* 'close': the child is gone and its streams have ended.                   *)
ChildClosed(r) ==
    /\ run[r].child = "exited"
    /\ run' = [run EXCEPT ![r].child = "closed",
                          ![r].report = IF linked THEN Status(run[r]) ELSE "dropped"]
    /\ active' = Without(r)
    /\ UNCHANGED <<linked, shutDown>>

(* 'error': the child could not be spawned; 'close' may still follow.       *)
ChildError(r) ==
    /\ run[r].child = "alive" /\ ~run[r].errored /\ ~run[r].cancelled
    /\ \E next \in {"exited", "closed"} :
          run' = [run EXCEPT ![r].child = next, ![r].errored = TRUE, ![r].failed = TRUE]
    /\ active' = Without(r)
    /\ UNCHANGED <<linked, shutDown>>

Link ==
    /\ linked' = ~linked
    /\ UNCHANGED <<run, active, shutDown>>

ExecutorNext ==
    \/ \E r \in Runs :
          \/ \E c \in CommandIds : ExecuteCommand(r, c)
          \/ TimeLimit(r) \/ KillTimer(r) \/ ChildExits(r) \/ ChildClosed(r) \/ ChildError(r)
    \/ CancelAll \/ Link

ExecutorSpec == ExecutorInit /\ [][ExecutorNext]_executorVars

(* Timers fire; a child ends of a SIGTERM it does not ignore, and an ended  *)
(* one closes.  A child need not end by itself.                             *)
EndsBySignal(r) == run[r].signalled /\ ~run[r].stubborn /\ ChildExits(r)

FairExecutorSpec ==
    /\ ExecutorSpec
    /\ \A r \in Runs : /\ WF_executorVars(KillTimer(r)) /\ WF_executorVars(TimeLimit(r))
                       /\ WF_executorVars(ChildClosed(r)) /\ WF_executorVars(EndsBySignal(r))

-----------------------------------------------------------------------------
ExecutorTypeOK ==
    /\ active \in [CommandIds -> Runs \cup {NoRun}]
    /\ \A c \in CommandIds : active[c] # NoRun => run[active[c]].id = c
    /\ \A r \in Runs :
          /\ run[r].child \in {"none", "alive", "exited", "closed"}
          /\ run[r].report \in {"none", "COMPLETED", "FAILED", "dropped"}
          /\ run[r].report # "none" => run[r].child = "closed"
    /\ linked \in BOOLEAN /\ shutDown \in BOOLEAN

(* A child that runs is in the table under its id, so that the time limit   *)
(* and the shutdown find it, although every end deletes by id: no end of an *)
(* earlier run of that id comes later (but for one that had an error).      *)
LiveIsActive ==
    \A r \in Runs :
        run[r].child = "alive" /\ (\A s \in Runs : run[s].id = run[r].id => ~run[s].errored)
            => active[run[r].id] = r

(* "Force kill after 5 seconds": a cancelled command's child ends, whether  *)
(* it listens to SIGTERM or not.                                            *)
CancelledEnds ==
    \A r \in Runs : run[r].cancelled ~> run[r].child # "alive"
=============================================================================
