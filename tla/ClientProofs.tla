---------------------------- MODULE ClientProofs ----------------------------
(***************************************************************************)
(* Proofs about five clients of the server, which share no state: the      *)
(* commands of the agent wrapper (CommandExecutor), the browser's          *)
(* connection (DashboardClient), the tokens of the command line (CliLogin),*)
(* the connection of the agent wrapper (AgentClient) and the output of a   *)
(* command (StreamCapture).  Each has its own inductive invariant; at the  *)
(* end they are put together.                                              *)
(***************************************************************************)
EXTENDS MCClients, ArrangementProofs, SequenceTheorems

-----------------------------------------------------------------------------
(* Commands.                                                                *)

Children == {"none", "alive", "exited", "closed"}
Running == {"alive", "exited"}

RunShape ==
    [id : CommandIds \cup {"none"}, child : Children, stubborn : BOOLEAN, timeLimit : BOOLEAN,
     killTimer : BOOLEAN, cancelled : BOOLEAN, signalled : BOOLEAN, bySignal : BOOLEAN,
     failed : BOOLEAN, errored : BOOLEAN, report : {"none", "COMPLETED", "FAILED", "dropped"}]

RunsTyped ==
    /\ run \in [Runs -> RunShape]
    /\ active \in [CommandIds -> Runs \cup {NoRun}]
    /\ linked \in BOOLEAN /\ shutDown \in BOOLEAN

(* The table has runs of the right command that have not closed.            *)
IdsMatch ==
    /\ \A c \in CommandIds :
          active[c] # NoRun => run[active[c]].id = c /\ run[active[c]].child \in Running
    /\ \A r \in Runs : run[r].child \in Running => run[r].id \in CommandIds
    /\ \A r \in Runs : run[r].report # "none" => run[r].child = "closed"
    /\ \A r \in Runs : run[r].errored => run[r].child # "none"

HadError(c) == \E s \in Runs : run[s].id = c /\ run[s].errored

(* Also a child that exited, whose close is to come, still is in the table. *)
RunningIsActive ==
    \A r \in Runs :
        run[r].child \in Running /\ ~HadError(run[r].id) => active[run[r].id] = r

ExecutorInv == RunsTyped /\ IdsMatch /\ RunningIsActive

(* A step that starts and ends nothing, and cancels or times what it likes, *)
(* keeps the invariant.                                                     *)
Alike(x, y) ==
    /\ y.id = x.id /\ y.errored = x.errored /\ y.report = x.report
    /\ \/ y.child = x.child
       \/ x.child \in Running /\ y.child \in Running

LEMMA AlikeKeeps ==
    ASSUME ExecutorInv, run' \in [Runs -> RunShape], UNCHANGED active, linked' \in BOOLEAN,
           shutDown' \in BOOLEAN, \A r \in Runs : Alike(run[r], run'[r])
    PROVE  ExecutorInv'
<1>1. RunsTyped'
  BY DEF ExecutorInv, RunsTyped
<1>2. \A r \in Runs : /\ run'[r].id = run[r].id /\ run'[r].errored = run[r].errored
                      /\ run'[r].report = run[r].report
                      /\ run'[r].child \in Running <=> run[r].child \in Running
                      /\ run[r].child = "closed" => run'[r].child = "closed"
                      /\ run[r].child # "none" => run'[r].child # "none"
  BY DEF Alike, Running
<1>3. IdsMatch'
  <2>1. \A c \in CommandIds : active'[c] # NoRun =>
          run'[active'[c]].id = c /\ run'[active'[c]].child \in Running
    BY <1>2 DEF ExecutorInv, RunsTyped, IdsMatch, NoRun
  <2> QED BY <1>2, <2>1 DEF ExecutorInv, IdsMatch
<1>4. RunningIsActive'
  <2>1. \A c : HadError(c)' <=> HadError(c)
    BY <1>2 DEF HadError
  <2> QED BY <1>2, <2>1 DEF ExecutorInv, RunningIsActive
<1> QED BY <1>1, <1>3, <1>4 DEF ExecutorInv

LEMMA CancelledIsAlike ==
    ASSUME NEW x \in RunShape
    PROVE  Cancelled(x) \in RunShape /\ Alike(x, Cancelled(x))
BY DEF RunShape, Cancelled, Alike, Running, Children

LEMMA ExecuteCommandKeeps ==
    ASSUME ExecutorInv, NEW r \in Runs, NEW c \in CommandIds, ExecuteCommand(r, c)
    PROVE  ExecutorInv'
<1>1. PICK stubborn, timeLimit \in BOOLEAN :
         run' = [run EXCEPT ![r] = [NewRun EXCEPT !.id = c, !.child = "alive",
                                     !.stubborn = stubborn, !.timeLimit = timeLimit]]
  BY DEF ExecuteCommand
<1> DEFINE new == [NewRun EXCEPT !.id = c, !.child = "alive", !.stubborn = stubborn,
                                  !.timeLimit = timeLimit]
<1>2. new \in RunShape /\ new.id = c /\ new.child = "alive" /\ ~new.errored /\ new.report = "none"
  BY DEF RunShape, NewRun, Children
<1> HIDE DEF new
<1>3. run \in [Runs -> RunShape] /\ run' = [run EXCEPT ![r] = new]
  BY <1>1 DEF new, ExecutorInv, RunsTyped
<1>4. /\ run' \in [Runs -> RunShape] /\ run'[r] = new
      /\ \A s \in Runs \ {r} : run'[s] = run[s]
  BY <1>2, <1>3
<1>5. /\ active \in [CommandIds -> Runs \cup {NoRun}] /\ active[c] = NoRun
      /\ active' = [active EXCEPT ![c] = r] /\ run[r].child = "none"
      /\ UNCHANGED <<linked, shutDown>>
  BY DEF ExecuteCommand, MayExecute, ExecutorInv, RunsTyped, Started
<1>6. RunsTyped'
  BY <1>4, <1>5 DEF ExecutorInv, RunsTyped
<1>7. \A d \in CommandIds \ {c} : active'[d] = active[d] /\ active[d] # r
  BY <1>5 DEF ExecutorInv, IdsMatch, Running, NoRun, Runs
<1>8. active'[c] = r
  BY <1>5
<1>9. IdsMatch'
  <2>1. \A d \in CommandIds : active'[d] # NoRun =>
          run'[active'[d]].id = d /\ run'[active'[d]].child \in Running
    BY <1>2, <1>4, <1>5, <1>7, <1>8 DEF ExecutorInv, IdsMatch, Running
  <2>2. \A s \in Runs : run'[s].child \in Running => run'[s].id \in CommandIds
    BY <1>2, <1>4 DEF ExecutorInv, IdsMatch
  <2>3. \A s \in Runs : run'[s].report # "none" => run'[s].child = "closed"
    BY <1>2, <1>4 DEF ExecutorInv, IdsMatch
  <2>4. \A s \in Runs : run'[s].errored => run'[s].child # "none"
    BY <1>2, <1>4 DEF ExecutorInv, IdsMatch
  <2> QED BY <2>1, <2>2, <2>3, <2>4 DEF IdsMatch
<1>10. RunningIsActive'
  <2> SUFFICES ASSUME NEW s \in Runs, run'[s].child \in Running, ~HadError(run[s].id)', s # r
               PROVE  active'[run'[s].id] = s
    BY <1>2, <1>4, <1>8 DEF RunningIsActive, HadError
  <2>1. run'[s] = run[s] /\ run[s].child \in Running
    BY <1>4
  <2>2. run[s].id \in CommandIds
    BY <2>1 DEF ExecutorInv, IdsMatch
  <2>3. ~HadError(run[s].id)
    BY <1>2, <1>4, <1>5, <2>1 DEF HadError, ExecutorInv, IdsMatch
  <2>4. active[run[s].id] = s
    BY <2>1, <2>3 DEF ExecutorInv, RunningIsActive
  <2>5. run[s].id # c
    BY <1>5, <2>4 DEF NoRun, Runs
  <2> QED BY <1>7, <2>1, <2>2, <2>4, <2>5
<1> QED BY <1>6, <1>9, <1>10 DEF ExecutorInv

LEMMA TimeLimitKeeps ==
    ASSUME ExecutorInv, NEW r \in Runs, TimeLimit(r)
    PROVE  ExecutorInv'
<1> DEFINE hit == active[run[r].id]
           x(s) == IF s = hit THEN Cancelled(run[s]) ELSE run[s]
<1>1. /\ run' = [s \in Runs |-> IF s = r THEN [x(s) EXCEPT !.timeLimit = FALSE] ELSE x(s)]
      /\ UNCHANGED <<active, linked, shutDown>>
  BY DEF TimeLimit
<1>2. run \in [Runs -> RunShape]
  BY DEF ExecutorInv, RunsTyped
<1>3. \A s \in Runs : x(s) \in RunShape /\ Alike(run[s], x(s))
  BY <1>2, CancelledIsAlike DEF Alike
<1> HIDE DEF x, hit
<1>4. \A s \in Runs : /\ [x(s) EXCEPT !.timeLimit = FALSE] \in RunShape
                      /\ Alike(run[s], [x(s) EXCEPT !.timeLimit = FALSE])
  BY <1>3 DEF RunShape, Alike
<1>5. run' \in [Runs -> RunShape] /\ \A s \in Runs : Alike(run[s], run'[s])
  BY <1>1, <1>3, <1>4
<1> QED BY <1>1, <1>5, AlikeKeeps DEF ExecutorInv, RunsTyped

LEMMA KillTimerKeeps ==
    ASSUME ExecutorInv, NEW r \in Runs, KillTimer(r)
    PROVE  ExecutorInv'
<1> DEFINE forced == ForcesKill(run[r])
           child == IF forced THEN "exited" ELSE run[r].child
           bySignal == run[r].bySignal \/ forced
           y == [run[r] EXCEPT !.killTimer = FALSE, !.child = child, !.bySignal = bySignal]
<1>1. run \in [Runs -> RunShape]
  BY DEF ExecutorInv, RunsTyped
<1>2. /\ child \in Children /\ (child = run[r].child \/ {child, run[r].child} \subseteq Running)
      /\ bySignal \in BOOLEAN
  BY <1>1 DEF ForcesKill, RunShape, Children, Running
<1>3. run' = [run EXCEPT ![r] = y]
  BY <1>1 DEF KillTimer, RunShape
<1> HIDE DEF child, bySignal
<1>4. y \in RunShape /\ Alike(run[r], y)
  <2>1. run[r] \in RunShape
    BY <1>1
  <2>2. y \in RunShape
    BY <1>2, <2>1 DEF RunShape
  <2>3. /\ y.id = run[r].id /\ y.errored = run[r].errored /\ y.report = run[r].report
        /\ y.child = child
    BY <2>1 DEF RunShape
  <2> HIDE DEF y
  <2> QED BY <1>2, <2>2, <2>3 DEF Alike
<1> HIDE DEF y
<1>5. run' \in [Runs -> RunShape] /\ \A s \in Runs : Alike(run[s], run'[s])
  BY <1>1, <1>3, <1>4 DEF Alike
<1> QED BY <1>5, AlikeKeeps DEF ExecutorInv, RunsTyped, KillTimer

LEMMA CancelAllKeeps ==
    ASSUME ExecutorInv, CancelAll
    PROVE  ExecutorInv'
<1>1. run \in [Runs -> RunShape]
  BY DEF ExecutorInv, RunsTyped
<1>2. \A s \in Runs : run'[s] \in {run[s], Cancelled(run[s])}
  BY DEF CancelAll, CancelActive
<1>3. \A s \in Runs : run'[s] \in RunShape /\ Alike(run[s], run'[s])
  BY <1>1, <1>2, CancelledIsAlike DEF Alike
<1>4. run' \in [Runs -> RunShape]
  BY <1>3 DEF CancelAll, CancelActive
<1> QED BY <1>3, <1>4, AlikeKeeps DEF ExecutorInv, RunsTyped, CancelAll

LEMMA ChildExitsKeeps ==
    ASSUME ExecutorInv, NEW r \in Runs, ChildExits(r)
    PROVE  ExecutorInv'
<1>1. run \in [Runs -> RunShape] /\ run[r].child = "alive"
  BY DEF ChildExits, ExecutorInv, RunsTyped
<1>2. PICK failed, bySignal \in BOOLEAN :
        run' = [run EXCEPT ![r] = [run[r] EXCEPT !.child = "exited", !.failed = failed,
                                                 !.bySignal = bySignal]]
  <2>1. CASE \E failed \in BOOLEAN :
               run' = [run EXCEPT ![r].child = "exited", ![r].failed = failed]
    <3>1. PICK failed \in BOOLEAN :
                run' = [run EXCEPT ![r].child = "exited", ![r].failed = failed]
      BY <2>1
    <3>2. run[r].bySignal \in BOOLEAN /\ run[r] \in RunShape
      BY <1>1 DEF RunShape
    <3>3. [run[r] EXCEPT !.child = "exited", !.failed = failed]
            = [run[r] EXCEPT !.child = "exited", !.failed = failed, !.bySignal = run[r].bySignal]
      BY <3>2 DEF RunShape
    <3>4. run' = [run EXCEPT ![r] = [run[r] EXCEPT !.child = "exited", !.failed = failed]]
      BY <1>1, <3>1
    <3> QED BY <3>2, <3>3, <3>4
  <2>2. CASE run' = [run EXCEPT ![r].child = "exited", ![r].bySignal = TRUE]
    <3>2. run[r].failed \in BOOLEAN /\ run[r] \in RunShape
      BY <1>1 DEF RunShape
    <3>3. [run[r] EXCEPT !.child = "exited", !.bySignal = TRUE]
            = [run[r] EXCEPT !.child = "exited", !.failed = run[r].failed, !.bySignal = TRUE]
      BY <3>2 DEF RunShape
    <3>4. run' = [run EXCEPT ![r] = [run[r] EXCEPT !.child = "exited", !.bySignal = TRUE]]
      BY <1>1, <2>2
    <3> QED BY <3>2, <3>3, <3>4
  <2> QED BY <2>1, <2>2 DEF ChildExits
<1> DEFINE y == [run[r] EXCEPT !.child = "exited", !.failed = failed, !.bySignal = bySignal]
<1>3. y \in RunShape /\ Alike(run[r], y)
  BY <1>1 DEF RunShape, Alike, Running, Children
<1>4. run' = [run EXCEPT ![r] = y]
  BY <1>2
<1> HIDE DEF y
<1>5. run' \in [Runs -> RunShape] /\ \A s \in Runs : Alike(run[s], run'[s])
  BY <1>1, <1>3, <1>4 DEF Alike
<1> QED BY <1>5, AlikeKeeps DEF ExecutorInv, RunsTyped, ChildExits

(* A child that ends: its entry, if it has one, is deleted.                 *)
LEMMA EndingKeeps ==
    ASSUME ExecutorInv, NEW r \in Runs, NEW y \in RunShape,
           run[r].child \in Running, y.id = run[r].id, y.child \in {"exited", "closed"},
           run[r].errored => y.errored, y.errored \/ y.child = "closed",
           y.report # "none" => y.child = "closed",
           run' = [run EXCEPT ![r] = y], active' = Without(r), UNCHANGED <<linked, shutDown>>
    PROVE  ExecutorInv'
<1> DEFINE c == run[r].id
<1>1. /\ run \in [Runs -> RunShape] /\ active \in [CommandIds -> Runs \cup {NoRun}]
      /\ c \in CommandIds
  BY DEF ExecutorInv, RunsTyped, IdsMatch
<1>2. run' \in [Runs -> RunShape] /\ run'[r] = y /\ \A s \in Runs \ {r} : run'[s] = run[s]
  BY <1>1
<1>3. /\ active' \in [CommandIds -> Runs \cup {NoRun}] /\ active'[c] = NoRun
      /\ \A d \in CommandIds \ {c} : active'[d] = active[d]
  BY <1>1 DEF Without
<1>4. \A d \in CommandIds \ {c} : active[d] # r
  BY <1>1 DEF ExecutorInv, IdsMatch, NoRun, Runs
<1>5. RunsTyped'
  BY <1>2, <1>3 DEF ExecutorInv, RunsTyped
<1>6. IdsMatch'
  <2>1. \A d \in CommandIds : active'[d] # NoRun =>
          run'[active'[d]].id = d /\ run'[active'[d]].child \in Running
    BY <1>1, <1>2, <1>3, <1>4 DEF ExecutorInv, IdsMatch
  <2>2. \A s \in Runs : run'[s].child \in Running => run'[s].id \in CommandIds
    BY <1>1, <1>2 DEF ExecutorInv, IdsMatch
  <2>3. \A s \in Runs : run'[s].report # "none" => run'[s].child = "closed"
    BY <1>2 DEF ExecutorInv, IdsMatch
  <2>4. \A s \in Runs : run'[s].errored => run'[s].child # "none"
    BY <1>2 DEF ExecutorInv, IdsMatch
  <2> QED BY <2>1, <2>2, <2>3, <2>4 DEF IdsMatch
<1>7. RunningIsActive'
  <2> SUFFICES ASSUME NEW s \in Runs, run'[s].child \in Running, ~HadError(run[s].id)'
               PROVE  active'[run'[s].id] = s
    BY <1>2 DEF RunningIsActive, HadError
  <2>1. s # r
    BY <1>2 DEF HadError, Running
  <2>2. run'[s] = run[s]
    BY <1>2, <2>1
  <2>3. ~HadError(run[s].id)
    BY <1>2 DEF HadError
  <2>4. run[s].id \in CommandIds /\ active[run[s].id] = s
    BY <2>2, <2>3 DEF ExecutorInv, RunningIsActive, IdsMatch
  <2>5. CASE run[s].id # c
    BY <1>3, <2>2, <2>4, <2>5
  <2>6. CASE run[s].id = c
    <3>1. ~HadError(c)
      BY <2>3, <2>6
    <3>2. active[c] = r
      BY <3>1 DEF ExecutorInv, RunningIsActive
    <3> QED BY <2>1, <2>4, <2>6, <3>2
  <2> QED BY <2>5, <2>6
<1> QED BY <1>5, <1>6, <1>7 DEF ExecutorInv

LEMMA ChildClosedKeeps ==
    ASSUME ExecutorInv, NEW r \in Runs, ChildClosed(r)
    PROVE  ExecutorInv'
<1> DEFINE status == IF linked THEN Status(run[r]) ELSE "dropped"
           y == [run[r] EXCEPT !.child = "closed", !.report = status]
<1>1. run \in [Runs -> RunShape] /\ run[r].child = "exited"
  BY DEF ChildClosed, ExecutorInv, RunsTyped
<1>2. run' = [run EXCEPT ![r] = y]
  BY <1>1 DEF ChildClosed
<1>3. status \in {"COMPLETED", "FAILED", "dropped"}
  BY DEF Status
<1> HIDE DEF status
<1>4. y \in RunShape /\ y.id = run[r].id /\ y.child = "closed" /\ y.errored = run[r].errored
  BY <1>1, <1>3 DEF RunShape, Children
<1> HIDE DEF y
<1> QED BY <1>1, <1>2, <1>4, EndingKeeps DEF ChildClosed, Running

LEMMA ChildErrorKeeps ==
    ASSUME ExecutorInv, NEW r \in Runs, ChildError(r)
    PROVE  ExecutorInv'
<1>1. run \in [Runs -> RunShape] /\ run[r].child = "alive"
  BY DEF ChildError, ExecutorInv, RunsTyped
<1>2. PICK next \in {"exited", "closed"} :
        run' = [run EXCEPT ![r].child = next, ![r].errored = TRUE, ![r].failed = TRUE]
  BY DEF ChildError
<1> DEFINE y == [run[r] EXCEPT !.child = next, !.errored = TRUE, !.failed = TRUE]
<1>3. run' = [run EXCEPT ![r] = y]
  BY <1>1, <1>2
<1>4. /\ y \in RunShape /\ y.id = run[r].id /\ y.child = next /\ y.errored
      /\ y.report = run[r].report
  BY <1>1 DEF RunShape, Children
<1>5. y.report = "none"
  BY <1>1, <1>4 DEF ExecutorInv, IdsMatch
<1> HIDE DEF y
<1> QED BY <1>1, <1>3, <1>4, <1>5, EndingKeeps DEF ChildError, Running

(* What the runs and the table satisfy in every state.                      *)
THEOREM ExecutorInvariant == ExecutorSpec => []ExecutorInv
<1>1. ExecutorInit => ExecutorInv
  <2> SUFFICES ASSUME ExecutorInit PROVE ExecutorInv
    OBVIOUS
  <2>1. \A r \in Runs : run[r] = NewRun
    BY DEF ExecutorInit
  <2>2. NewRun \in RunShape
    BY DEF NewRun, RunShape, Children
  <2>3. RunsTyped
    BY <2>2 DEF ExecutorInit, RunsTyped
  <2>4. IdsMatch
    BY <2>1 DEF ExecutorInit, IdsMatch, NewRun, Running
  <2>5. RunningIsActive
    BY <2>1 DEF RunningIsActive, NewRun, Running
  <2> QED BY <2>3, <2>4, <2>5 DEF ExecutorInv
<1>2. ExecutorInv /\ [ExecutorNext]_executorVars => ExecutorInv'
  <2> SUFFICES ASSUME ExecutorInv, [ExecutorNext]_executorVars PROVE ExecutorInv'
    OBVIOUS
  <2>1. CASE UNCHANGED executorVars
    BY <2>1 DEF executorVars, ExecutorInv, RunsTyped, IdsMatch, RunningIsActive, HadError
  <2>2. ASSUME NEW r \in Runs, NEW c \in CommandIds, ExecuteCommand(r, c) PROVE ExecutorInv'
    BY <2>2, ExecuteCommandKeeps
  <2>3. ASSUME NEW r \in Runs, TimeLimit(r) PROVE ExecutorInv'
    BY <2>3, TimeLimitKeeps
  <2>4. ASSUME NEW r \in Runs, KillTimer(r) PROVE ExecutorInv'
    BY <2>4, KillTimerKeeps
  <2>5. ASSUME NEW r \in Runs, ChildExits(r) PROVE ExecutorInv'
    BY <2>5, ChildExitsKeeps
  <2>6. ASSUME NEW r \in Runs, ChildClosed(r) PROVE ExecutorInv'
    BY <2>6, ChildClosedKeeps
  <2>7. ASSUME NEW r \in Runs, ChildError(r) PROVE ExecutorInv'
    BY <2>7, ChildErrorKeeps
  <2>8. CASE CancelAll
    BY <2>8, CancelAllKeeps
  <2>9. CASE Link
    BY <2>9 DEF Link, ExecutorInv, RunsTyped, IdsMatch, RunningIsActive, HadError
  <2> QED BY <2>1, <2>2, <2>3, <2>4, <2>5, <2>6, <2>7, <2>8, <2>9 DEF ExecutorNext
<1> QED BY <1>1, <1>2, PTL DEF ExecutorSpec

(* executeCommand and the handlers of a child: a child that runs is found   *)
(* by the time limit and by the shutdown, however many runs its id had, if  *)
(* none of them had an error.                                               *)
THEOREM LiveCommandsAreActive == ExecutorSpec => []LiveIsActive
<1>1. ExecutorInv => LiveIsActive
  BY DEF ExecutorInv, RunningIsActive, HadError, Running, LiveIsActive
<1> QED BY <1>1, ExecutorInvariant, PTL

(* Where the second timer of a cancellation is set and the child is alive,  *)
(* SIGTERM was sent to it, and child.killed says so.                        *)
TimerMeansSignalled ==
    \A r \in Runs : run[r].killTimer /\ run[r].child = "alive" => run[r].signalled

LEMMA SignalledStep ==
    ASSUME RunsTyped, TimerMeansSignalled, [ExecutorNext]_executorVars
    PROVE  TimerMeansSignalled'
<1>1. \A r \in Runs : run[r] \in RunShape
  BY DEF RunsTyped
<1>2. ASSUME NEW x \in RunShape
      PROVE  Cancelled(x).child = x.child /\ (x.child = "alive" => Cancelled(x).signalled)
  BY DEF Cancelled, RunShape
<1>3. CASE UNCHANGED run
  BY <1>3 DEF TimerMeansSignalled
<1>4. ASSUME NEW r \in Runs, NEW c \in CommandIds, ExecuteCommand(r, c)
      PROVE  TimerMeansSignalled'
  BY <1>1, <1>4 DEF ExecuteCommand, NewRun, TimerMeansSignalled, RunsTyped
<1>5. ASSUME NEW r \in Runs, TimeLimit(r) PROVE TimerMeansSignalled'
  <2> SUFFICES ASSUME NEW s \in Runs, run'[s].killTimer, run'[s].child = "alive"
               PROVE  run'[s].signalled
    BY DEF TimerMeansSignalled
  <2> DEFINE hit == active[run[r].id]
             x == IF s = hit THEN Cancelled(run[s]) ELSE run[s]
  <2>1. run'[s] = IF s = r THEN [x EXCEPT !.timeLimit = FALSE] ELSE x
    BY <1>5 DEF TimeLimit
  <2>2. x \in RunShape
    BY <1>1, CancelledIsAlike
  <2>3. x.child = "alive" /\ x.killTimer => x.signalled
    BY <1>1, <1>2 DEF TimerMeansSignalled
  <2> HIDE DEF x
  <2>4. run'[s].child = x.child /\ run'[s].killTimer = x.killTimer
        /\ run'[s].signalled = x.signalled
    BY <2>1, <2>2 DEF RunShape
  <2> QED BY <2>3, <2>4
<1>6. ASSUME NEW r \in Runs,
             KillTimer(r) \/ ChildExits(r) \/ ChildClosed(r) \/ ChildError(r)
      PROVE  TimerMeansSignalled'
  <2>1. \A s \in Runs \ {r} : run'[s] = run[s]
    BY <1>6 DEF KillTimer, ChildExits, ChildClosed, ChildError, RunsTyped
  <2>2. run'[r].child # "alive" \/ ~run'[r].killTimer
    BY <1>1, <1>6 DEF KillTimer, ChildExits, ChildClosed, ChildError, RunsTyped, RunShape
  <2> QED BY <2>1, <2>2 DEF TimerMeansSignalled
<1>7. CASE CancelAll
  BY <1>1, <1>2, <1>7 DEF CancelAll, CancelActive, TimerMeansSignalled
<1>8. CASE Link \/ UNCHANGED executorVars
  BY <1>3, <1>8 DEF Link, executorVars
<1> QED BY <1>4, <1>5, <1>6, <1>7, <1>8 DEF ExecutorNext

(* No child is ever killed (command-executor.ts:193): whatever is cancelled *)
(* and however the timers run, the timer that should send SIGKILL finds     *)
(* child.killed set and leaves a child that is alive as it is.              *)
THEOREM NobodyIsKilled ==
    ExecutorSpec => [][\A r \in Runs : KillTimer(r) => run'[r].child = run[r].child]_executorVars
<1>1. ExecutorInit => TimerMeansSignalled
  BY DEF ExecutorInit, NewRun, TimerMeansSignalled
<1>2. ExecutorSpec => []TimerMeansSignalled
  <2>1. ExecutorInv /\ TimerMeansSignalled /\ [ExecutorNext]_executorVars => TimerMeansSignalled'
    BY SignalledStep DEF ExecutorInv
  <2> QED BY <1>1, <2>1, ExecutorInvariant, PTL DEF ExecutorSpec
<1>3. ExecutorInv /\ TimerMeansSignalled /\ [ExecutorNext]_executorVars =>
          [\A r \in Runs : KillTimer(r) => run'[r].child = run[r].child]_executorVars
  <2> SUFFICES ASSUME ExecutorInv, TimerMeansSignalled, NEW r \in Runs, KillTimer(r)
               PROVE  run'[r].child = run[r].child
    OBVIOUS
  <2>1. run[r] \in RunShape /\ run \in [Runs -> RunShape] /\ ~ForcesKill(run[r])
    BY DEF ExecutorInv, RunsTyped, TimerMeansSignalled, ForcesKill, KillTimer
  <2> QED BY <2>1 DEF KillTimer, RunShape
<1> QED BY <1>2, <1>3, ExecutorInvariant, PTL DEF ExecutorSpec

-----------------------------------------------------------------------------
(* The browser's connection.                                                *)

SockStates == {"gone", "connecting", "aborting", "open", "dead", "left", "failing"}
Callers == {"nobody", "provider", "manager", "former"}

SocketsTyped ==
    /\ dashSock \in [DashSockets -> SockStates]
    /\ first \in [DashSockets -> {"nothing", "init", "command"}]
    /\ caller \in [DashSockets -> Callers]
    /\ current \in DashSockets \cup {NoDashSock}
    /\ initialized \in BOOLEAN /\ watched \in BOOLEAN

(* DASHBOARD_INIT is sent when a socket opens, once for the endpoint: while *)
(* there is no open one, it is still to be sent.                            *)
InitOnOpened ==
    /\ \A s \in DashSockets : dashSock[s] \in {"open", "dead"} => initialized
    /\ initialized => HasEntry /\ dashSock[current] # "connecting"

SocketsInv == SocketsTyped /\ SoleAnnounced /\ InitOnOpened

\* The manager waits for its timer only as long as attempts are left.
ManagerInv ==
    /\ circuit \in [state : {"closed", "open", "half-open"}, failures : 0..BreakerLimit]
    /\ reconnector \in [on : BOOLEAN, attempts : 0..MaxReconnects, timer : BOOLEAN]
    /\ reconnector.on /\ reconnector.timer => reconnector.attempts < MaxReconnects
    /\ givenUp \in BOOLEAN

\* What a retry's timer has captured allows one more.
Counts == 0..(MaxRetries - 1)

ProviderInv ==
    /\ provider \in [in : BOOLEAN, retries : 0..MaxRetries, known : BOOLEAN]
    /\ retryTimers \in Seq(Counts)
    /\ outbox \in 0..OutboxLimit /\ sessions \in 0..MaxSessions /\ losses \in 0..MaxLosses

DashInv == SocketsInv /\ ManagerInv /\ ProviderInv

LEMMA DashBounds ==
    /\ {MaxReconnects, BreakerLimit, MaxRetries, OutboxLimit} \subseteq Nat \ {0}
    /\ {MaxSessions, MaxLosses} \subseteq Nat
    /\ NoDashSock \notin DashSockets
BY DashboardAssumption

(* What disconnect() leaves of the sockets: none in use.                    *)
LEMMA ClosedSockets ==
    ASSUME SocketsInv
    PROVE  /\ SocketClosed \in [DashSockets -> SockStates]
           /\ \A s \in DashSockets : SocketClosed[s] \notin {"connecting", "open", "dead"}
           /\ \A s \in DashSockets : dashSock[s] = "gone" => SocketClosed[s] = "gone"
           /\ CallersLeft \in [DashSockets -> Callers]
           /\ ~InitializedAfter
<1>1. CASE HasEntry
  <2>1. current \in DashSockets
    BY <1>1 DEF HasEntry, SocketsInv, SocketsTyped
  <2>2. \A s \in DashSockets \ {current} : SocketClosed[s] = dashSock[s]
    BY <1>1, <2>1 DEF SocketClosed, SocketsInv, SocketsTyped
  <2>3. SocketClosed[current] = CASE dashSock[current] = "connecting" -> "aborting"
                                  [] dashSock[current] = "open" -> "left"
                                  [] dashSock[current] = "dead" -> "failing"
                                  [] OTHER -> dashSock[current]
    BY <1>1, <2>1 DEF SocketClosed, SocketsInv, SocketsTyped
  <2>4. dashSock[current] \in SockStates
    BY <2>1 DEF SocketsInv, SocketsTyped
  <2>5. /\ SocketClosed[current] \in SockStates \ {"connecting", "open", "dead"}
        /\ dashSock[current] = "gone" => SocketClosed[current] = "gone"
    BY <2>3, <2>4 DEF SockStates
  <2>6. DOMAIN SocketClosed = DashSockets /\ SocketClosed = [s \in DashSockets |-> SocketClosed[s]]
    BY <1>1 DEF SocketClosed, SocketsInv, SocketsTyped
  <2>7. \A s \in DashSockets : SocketClosed[s] \in SockStates
    BY <2>2, <2>5 DEF SocketsInv, SocketsTyped
  <2>8. SocketClosed \in [DashSockets -> SockStates]
    BY <2>6, <2>7
  <2>9. \A s \in DashSockets : SocketClosed[s] \notin {"connecting", "open", "dead"}
    BY <2>2, <2>5 DEF SocketsInv, SoleAnnounced
  <2>10. CallersLeft \in [DashSockets -> Callers]
    BY DEF CallersLeft, SocketsInv, SocketsTyped, Callers
  <2> QED BY <1>1, <2>2, <2>5, <2>8, <2>9, <2>10 DEF InitializedAfter
<1>2. CASE ~HasEntry
  <2>1. SocketClosed = dashSock /\ dashSock \in [DashSockets -> SockStates]
    BY <1>2 DEF SocketClosed, SocketsInv, SocketsTyped
  <2>2. \A s \in DashSockets : s # current
    BY <1>2, DashBounds DEF HasEntry
  <2>3. \A s \in DashSockets : dashSock[s] \notin {"connecting", "open", "dead"}
    BY <2>2 DEF SocketsInv, SoleAnnounced
  <2>4. CallersLeft \in [DashSockets -> Callers]
    BY DEF CallersLeft, SocketsInv, SocketsTyped, Callers
  <2> QED BY <1>2, <2>1, <2>3, <2>4 DEF InitializedAfter, SocketsInv, InitOnOpened
<1> QED BY <1>1, <1>2

LEMMA NewDashSockKeeps ==
    ASSUME SocketsInv, NEW who \in Callers, NewDashSock(who)
    PROVE  SocketsInv'
<1> DEFINE closed == SocketClosed
           callers == CallersLeft
<1>1. /\ closed \in [DashSockets -> SockStates] /\ callers \in [DashSockets -> Callers]
      /\ \A q \in DashSockets : closed[q] \notin {"connecting", "open", "dead"}
      /\ ~InitializedAfter
  BY ClosedSockets
<1>2. PICK s \in DashSockets : /\ dashSock' = [closed EXCEPT ![s] = "connecting"]
                               /\ first' = [first EXCEPT ![s] = "nothing"]
                               /\ caller' = [callers EXCEPT ![s] = who]
                               /\ current' = s /\ initialized' = InitializedAfter
                               /\ watched' = (watched /\ ~HasEntry)
  BY DEF NewDashSock
<1> HIDE DEF closed, callers
<1>3. SocketsTyped'
  <2>1. dashSock' \in [DashSockets -> SockStates]
    BY <1>1, <1>2 DEF SockStates
  <2>2. first' \in [DashSockets -> {"nothing", "init", "command"}]
    BY <1>2 DEF SocketsInv, SocketsTyped
  <2>3. initialized' \in BOOLEAN /\ watched' \in BOOLEAN
    BY <1>2 DEF InitializedAfter
  <2> QED BY <1>1, <1>2, <2>1, <2>2, <2>3 DEF SocketsTyped
<1>4. /\ dashSock'[s] = "connecting"
      /\ \A q \in DashSockets \ {s} : dashSock'[q] \notin {"connecting", "open", "dead"}
  BY <1>1, <1>2
<1>5. SoleAnnounced' /\ InitOnOpened'
  BY <1>1, <1>2, <1>4 DEF SoleAnnounced, InitOnOpened
<1> QED BY <1>3, <1>5 DEF SocketsInv

LEMMA DisconnectKeeps ==
    ASSUME SocketsInv, DisconnectDashboard, UNCHANGED first
    PROVE  SocketsInv'
<1>1. /\ dashSock' \in [DashSockets -> SockStates] /\ caller' \in [DashSockets -> Callers]
      /\ \A q \in DashSockets : dashSock'[q] \notin {"connecting", "open", "dead"}
      /\ ~initialized' /\ initialized' \in BOOLEAN
  BY ClosedSockets DEF DisconnectDashboard, InitializedAfter
<1>2. current' = NoDashSock /\ watched' \in BOOLEAN
  BY DEF DisconnectDashboard
<1>3. SocketsTyped'
  BY <1>1, <1>2 DEF SocketsInv, SocketsTyped
<1> QED BY <1>1, <1>2, <1>3 DEF SocketsInv, SoleAnnounced, InitOnOpened

(* A socket that comes to an end, or the one in use that dies.              *)
LEMMA SocketChanges ==
    ASSUME SocketsInv, NEW s \in DashSockets, NEW state \in SockStates \ {"connecting", "open"},
           dashSock' = [dashSock EXCEPT ![s] = state], state = "dead" => dashSock[s] = "open",
           caller' \in [DashSockets -> Callers], watched' \in BOOLEAN,
           UNCHANGED <<first, current, initialized>>
    PROVE  SocketsInv'
<1>1. /\ dashSock' \in [DashSockets -> SockStates] /\ dashSock'[s] = state
      /\ \A q \in DashSockets \ {s} : dashSock'[q] = dashSock[q]
  BY DEF SocketsInv, SocketsTyped
<1>2. SocketsTyped'
  BY <1>1 DEF SocketsInv, SocketsTyped
<1>3. SoleAnnounced'
  BY <1>1 DEF SocketsInv, SoleAnnounced
<1>4. InitOnOpened'
  BY <1>1 DEF SocketsInv, SocketsTyped, InitOnOpened, HasEntry
<1> QED BY <1>2, <1>3, <1>4 DEF SocketsInv

LEMMA OpeningKeeps ==
    ASSUME SocketsInv, NEW s \in DashSockets, DashOpens(s)
    PROVE  SocketsInv'
<1>1. dashSock[s] = "connecting" /\ s = current /\ ~initialized
  BY DEF DashOpens, SocketsInv, SoleAnnounced, InitOnOpened
<1>2. /\ dashSock' \in [DashSockets -> SockStates] /\ dashSock'[s] = "open"
      /\ \A q \in DashSockets \ {s} : dashSock'[q] = dashSock[q]
  BY DEF SocketsInv, SocketsTyped, DashOpens, SockStates
<1>3. /\ first' \in [DashSockets -> {"nothing", "init", "command"}] /\ first'[s] = "init"
      /\ \A q \in DashSockets \ {s} : first'[q] = first[q]
  BY <1>1 DEF SocketsInv, SocketsTyped, DashOpens, FirstSent
<1>4. SocketsTyped'
  BY <1>2, <1>3 DEF SocketsInv, SocketsTyped, DashOpens, Callers
<1>5. SoleAnnounced'
  BY <1>1, <1>2, <1>3 DEF SocketsInv, SoleAnnounced, DashOpens
<1>6. InitOnOpened'
  BY <1>1, <1>2, DashBounds DEF InitOnOpened, HasEntry, DashOpens
<1> QED BY <1>4, <1>5, <1>6 DEF SocketsInv

LEMMA SendingKeeps ==
    ASSUME SocketsInv, SendCommand
    PROVE  SocketsInv'
<1>1. /\ first' \in [DashSockets -> {"nothing", "init", "command"}]
      /\ \A s \in DashSockets : first[s] = "init" => first'[s] = "init"
  BY DEF SendCommand, SocketsInv, SocketsTyped, HasEntry
<1> QED BY <1>1 DEF SendCommand, SocketsInv, SocketsTyped, SoleAnnounced, InitOnOpened, HasEntry

(* The manager and the breaker.                                             *)
LEMMA BreakerTyped ==
    ASSUME NEW c \in [state : {"closed", "open", "half-open"}, failures : 0..BreakerLimit]
    PROVE  BreakerFailure(c) \in [state : {"closed", "open", "half-open"}, failures : 0..BreakerLimit]
<1> DEFINE n == IF c.failures < BreakerLimit THEN c.failures + 1 ELSE BreakerLimit
<1>1. BreakerLimit \in Nat /\ c.failures \in 0..BreakerLimit
  BY DashBounds
<1>2. n \in 0..BreakerLimit
  BY <1>1
<1> HIDE DEF n
<1>3. BreakerFailure(c) =
        [state |-> IF c.state = "half-open" \/ n >= BreakerLimit THEN "open" ELSE c.state,
         failures |-> n]
  BY DEF BreakerFailure, n
<1> QED BY <1>2, <1>3

LEMMA ManagerMoves ==
    ASSUME ManagerInv,
           circuit' \in {circuit, BreakerFailure(circuit), BreakerFailure(BreakerFailure(circuit)),
                         BreakerSuccess},
           reconnector' \in {reconnector, ReconnectorStarted, NoManager},
           givenUp' \in BOOLEAN
    PROVE  ManagerInv'
<1>1. circuit' \in [state : {"closed", "open", "half-open"}, failures : 0..BreakerLimit]
  <2>1. circuit \in [state : {"closed", "open", "half-open"}, failures : 0..BreakerLimit]
    BY DEF ManagerInv
  <2>2. BreakerFailure(circuit) \in
          [state : {"closed", "open", "half-open"}, failures : 0..BreakerLimit]
    BY <2>1, BreakerTyped
  <2>3. BreakerFailure(BreakerFailure(circuit)) \in
          [state : {"closed", "open", "half-open"}, failures : 0..BreakerLimit]
    BY <2>2, BreakerTyped
  <2>4. BreakerSuccess \in [state : {"closed", "open", "half-open"}, failures : 0..BreakerLimit]
    BY DashBounds DEF BreakerSuccess
  <2> QED BY <2>1, <2>2, <2>3, <2>4
<1>2. /\ reconnector' \in [on : BOOLEAN, attempts : 0..MaxReconnects, timer : BOOLEAN]
      /\ reconnector'.on /\ reconnector'.timer => reconnector'.attempts < MaxReconnects
  <2>1. MaxReconnects \in Nat /\ 0 < MaxReconnects /\ 0 \in 0..MaxReconnects
    BY DashBounds
  <2>2. CASE reconnector' = reconnector
    BY <2>2 DEF ManagerInv
  <2>3. CASE reconnector' = NoManager
    BY <2>1, <2>3 DEF NoManager
  <2>4. CASE reconnector' = [on |-> TRUE, attempts |-> 0, timer |-> TRUE]
    BY <2>1, <2>4
  <2> QED BY <2>2, <2>3, <2>4 DEF ReconnectorStarted
<1> QED BY <1>1, <1>2 DEF ManagerInv

LEMMA RejectedAttempt ==
    ASSUME ManagerInv, NEW n \in Nat, AttemptRejected(n),
           circuit' \in {circuit, BreakerFailure(circuit)}
    PROVE  ManagerInv'
<1>1. circuit' \in [state : {"closed", "open", "half-open"}, failures : 0..BreakerLimit]
  BY BreakerTyped DEF ManagerInv
<1>2. /\ reconnector' \in [on : BOOLEAN, attempts : 0..MaxReconnects, timer : BOOLEAN]
      /\ reconnector'.on /\ reconnector'.timer => reconnector'.attempts < MaxReconnects
      /\ givenUp' \in BOOLEAN
  <2>1. MaxReconnects \in Nat /\ 0 \in 0..MaxReconnects
    BY DashBounds
  <2>2. CASE n < MaxReconnects
    <3>1. reconnector' = [on |-> TRUE, attempts |-> n, timer |-> TRUE] /\ givenUp' = givenUp
      BY <2>2 DEF AttemptRejected
    <3>2. n \in 0..MaxReconnects
      BY <2>1, <2>2
    <3> QED BY <2>2, <3>1, <3>2 DEF ManagerInv
  <2>3. CASE ~(n < MaxReconnects)
    <3>1. reconnector' = NoManager /\ givenUp' = TRUE
      BY <2>3 DEF AttemptRejected
    <3> QED BY <2>1, <3>1 DEF NoManager
  <2> QED BY <2>2, <2>3
<1> QED BY <1>1, <1>2 DEF ManagerInv

(* The provider's retries.                                                  *)
LEMMA RemovedTyped ==
    ASSUME NEW S, NEW q \in Seq(S), NEW i \in DOMAIN q
    PROVE  RemoveAt(q, i) \in Seq(S)
<1>1. Len(q) \in Nat /\ i \in 1..Len(q) /\ \A k \in 1..Len(q) : q[k] \in S
  OBVIOUS
<1>2. SubSeq(q, 1, i - 1) \in Seq(S) /\ SubSeq(q, i + 1, Len(q)) \in Seq(S)
  BY <1>1, SubSeqProperties
<1> QED BY <1>2, ConcatProperties DEF RemoveAt

LEMMA LaterTyped ==
    ASSUME NEW queue \in Seq(Counts), provider.retries \in 0..MaxRetries, givenUp \in BOOLEAN,
           RetryLater(queue)
    PROVE  retryTimers' \in Seq(Counts) /\ givenUp' \in BOOLEAN
<1>1. MaxRetries \in Nat
  BY DashBounds
<1>2. provider.retries < MaxRetries => provider.retries \in Counts
  BY <1>1 DEF Counts
<1>3. CASE provider.retries < MaxRetries
  <2>1. Append(queue, provider.retries) \in Seq(Counts)
    BY <1>2, <1>3, AppendProperties
  <2> QED BY <1>3, <2>1 DEF RetryLater
<1>4. CASE ~(provider.retries < MaxRetries)
  BY <1>4 DEF RetryLater
<1> QED BY <1>3, <1>4

LEMMA SocketsSame ==
    ASSUME SocketsInv, UNCHANGED <<dashSock, first, caller, current, initialized>>,
           watched' \in BOOLEAN
    PROVE  SocketsInv'
BY DEF SocketsInv, SocketsTyped, SoleAnnounced, InitOnOpened, HasEntry

LEMMA ProviderSame ==
    ASSUME ProviderInv, UNCHANGED <<provider, retryTimers, outbox, sessions>>,
           \/ UNCHANGED losses
           \/ losses < MaxLosses /\ losses' = losses + 1
    PROVE  ProviderInv'
<1>1. MaxLosses \in Nat
  BY DashBounds
<1> QED BY <1>1 DEF ProviderInv

LEMMA ReconnectNowKeeps ==
    ASSUME DashInv, ReconnectNow
    PROVE  DashInv'
<1>1. /\ SocketsInv /\ ManagerInv /\ ProviderInv /\ MaxReconnects \in Nat
      /\ reconnector \in [on : BOOLEAN, attempts : 0..MaxReconnects, timer : BOOLEAN]
      /\ reconnector.attempts < MaxReconnects
      /\ UNCHANGED <<outbox, circuit, provider, retryTimers, sessions, losses>>
  BY DashBounds DEF DashInv, ManagerInv, ReconnectNow
<1>2. ProviderInv'
  BY <1>1, ProviderSame
<1>3. CASE /\ AttemptRejected(reconnector.attempts + 1)
           /\ UNCHANGED <<dashSock, first, caller, current, initialized, watched>>
  <2>1. reconnector.attempts + 1 \in Nat
    BY <1>1
  <2>2. ManagerInv'
    BY <1>1, <1>3, <2>1, RejectedAttempt
  <2>3. SocketsInv'
    BY <1>1, <1>3, SocketsSame DEF SocketsInv, SocketsTyped
  <2> QED BY <1>2, <2>2, <2>3 DEF DashInv
<1>4. CASE /\ NewDashSock(IF HasEntry THEN "former" ELSE "manager")
           /\ reconnector' = IF HasEntry THEN NoManager
                             ELSE [reconnector EXCEPT !.attempts = @ + 1, !.timer = FALSE]
           /\ UNCHANGED givenUp
  <2>1. SocketsInv'
    BY <1>1, <1>4, NewDashSockKeeps DEF Callers
  <2>2. reconnector' = NoManager => ManagerInv'
    BY <1>1, <1>4, ManagerMoves DEF ManagerInv
  <2>3. ASSUME reconnector' = [reconnector EXCEPT !.attempts = @ + 1, !.timer = FALSE]
        PROVE  ManagerInv'
    <3> DEFINE n == reconnector.attempts + 1
    <3>1. n \in 0..MaxReconnects
      BY <1>1
    <3>2. reconnector' = [reconnector EXCEPT !.attempts = n, !.timer = FALSE]
      BY <2>3
    <3> HIDE DEF n
    <3>3. /\ reconnector' \in [on : BOOLEAN, attempts : 0..MaxReconnects, timer : BOOLEAN]
          /\ reconnector'.timer = FALSE
      BY <1>1, <3>1, <3>2
    <3> QED BY <1>1, <1>4, <3>3 DEF ManagerInv
  <2> QED BY <1>2, <1>4, <2>1, <2>2, <2>3 DEF DashInv
<1> QED BY <1>3, <1>4 DEF ReconnectNow

LEMMA SessionStartsKeeps ==
    ASSUME DashInv, SessionStarts
    PROVE  DashInv'
<1>1. /\ SocketsInv /\ ManagerInv /\ ProviderInv /\ givenUp \in BOOLEAN
      /\ provider.retries \in 0..MaxRetries /\ UNCHANGED <<outbox, circuit, losses>>
      /\ retryTimers \in Seq(Counts)
  BY DEF DashInv, ManagerInv, ProviderInv, SessionStarts
<1>2. /\ provider' \in [in : BOOLEAN, retries : 0..MaxRetries, known : BOOLEAN]
      /\ sessions' \in 0..MaxSessions
  <2>1. provider' = [provider EXCEPT !.in = TRUE]
    BY DEF SessionStarts
  <2>2. provider' \in [in : BOOLEAN, retries : 0..MaxRetries, known : BOOLEAN]
    BY <2>1 DEF DashInv, ProviderInv
  <2>3. sessions' \in 0..MaxSessions
    BY DashBounds DEF DashInv, ProviderInv, SessionStarts
  <2> QED BY <2>2, <2>3
<1>3. CASE /\ NewDashSock("provider") /\ reconnector' = ManagerDestroyed
           /\ givenUp' = FALSE /\ UNCHANGED retryTimers
  <2>1. SocketsInv'
    BY <1>1, <1>3, NewDashSockKeeps DEF Callers
  <2>2. ManagerInv'
    BY <1>1, <1>3, ManagerMoves DEF ManagerDestroyed
  <2>3. ProviderInv'
    BY <1>1, <1>2, <1>3 DEF ProviderInv
  <2> QED BY <2>1, <2>2, <2>3 DEF DashInv
<1>4. CASE /\ IF provider.in \/ provider.known
              THEN DisconnectDashboard
              ELSE UNCHANGED <<dashSock, reconnector, caller, current, initialized, watched>>
           /\ RetryLater(retryTimers)
           /\ UNCHANGED first
  <2>1. retryTimers' \in Seq(Counts) /\ givenUp' \in BOOLEAN
    BY <1>1, <1>4, LaterTyped
  <2>2. SocketsInv' /\ ManagerInv'
    <3>1. CASE DisconnectDashboard
      <4>1. SocketsInv'
        BY <1>1, <1>4, <3>1, DisconnectKeeps
      <4>2. ManagerInv'
        BY <1>1, <2>1, <3>1, ManagerMoves DEF DisconnectDashboard, ManagerDestroyed
      <4> QED BY <4>1, <4>2
    <3>2. CASE UNCHANGED <<dashSock, reconnector, caller, current, initialized, watched>>
      <4>1. SocketsInv'
        BY <1>1, <1>4, <3>2, SocketsSame DEF SocketsInv, SocketsTyped
      <4>2. ManagerInv'
        BY <1>1, <2>1, <3>2, ManagerMoves
      <4> QED BY <4>1, <4>2
    <3> QED BY <1>4, <3>1, <3>2
  <2>3. ProviderInv'
    BY <1>1, <1>2, <2>1 DEF ProviderInv
  <2> QED BY <2>2, <2>3 DEF DashInv
<1> QED BY <1>3, <1>4 DEF SessionStarts

LEMMA SignOutKeeps ==
    ASSUME DashInv, SignOut
    PROVE  DashInv'
<1>1. SocketsInv /\ ManagerInv /\ ProviderInv
  BY DEF DashInv
<1>2. SocketsInv'
  BY <1>1, DisconnectKeeps DEF SignOut
<1>3. ManagerInv'
  BY <1>1, ManagerMoves DEF SignOut, DisconnectDashboard, ManagerDestroyed, ManagerInv
<1>4. ProviderInv'
  BY <1>1 DEF SignOut, ProviderInv
<1> QED BY <1>2, <1>3, <1>4 DEF DashInv

LEMMA RetryKeeps ==
    ASSUME DashInv, NEW i \in DOMAIN retryTimers, Retry(i)
    PROVE  DashInv'
<1> DEFINE rest == RemoveAt(retryTimers, i)
           count == retryTimers[i] + 1
<1>1. /\ SocketsInv /\ ManagerInv /\ ProviderInv /\ givenUp \in BOOLEAN
      /\ retryTimers \in Seq(Counts) /\ MaxRetries \in Nat
      /\ UNCHANGED <<outbox, circuit, sessions, losses>>
  BY DashBounds DEF DashInv, ManagerInv, ProviderInv, Retry
<1>2. rest \in Seq(Counts) /\ retryTimers[i] \in Counts
  BY <1>1, RemovedTyped
<1>3. count \in 0..MaxRetries /\ (count < MaxRetries => count \in Counts)
  BY <1>1, <1>2 DEF Counts
<1>4. provider' = [provider EXCEPT !.retries = count]
  BY DEF Retry
<1>5. provider' \in [in : BOOLEAN, retries : 0..MaxRetries, known : BOOLEAN]
  BY <1>1, <1>3, <1>4 DEF ProviderInv
<1>6. CASE /\ NewDashSock("provider") /\ reconnector' = ManagerDestroyed
           /\ retryTimers' = rest /\ UNCHANGED givenUp
  <2>1. SocketsInv'
    BY <1>1, <1>6, NewDashSockKeeps DEF Callers
  <2>2. ManagerInv'
    BY <1>1, <1>6, ManagerMoves DEF ManagerDestroyed
  <2>3. ProviderInv'
    BY <1>1, <1>2, <1>5, <1>6 DEF ProviderInv
  <2> QED BY <2>1, <2>2, <2>3 DEF DashInv
<1>7. CASE /\ IF count < MaxRetries
              THEN retryTimers' = Append(rest, count) /\ UNCHANGED givenUp
              ELSE retryTimers' = rest /\ givenUp' = TRUE
           /\ UNCHANGED <<dashSock, first, caller, current, initialized, watched, reconnector>>
  <2>1. count < MaxRetries => Append(rest, count) \in Seq(Counts)
    BY <1>2, <1>3, AppendProperties
  <2> HIDE DEF rest, count
  <2>2. retryTimers' \in Seq(Counts) /\ givenUp' \in BOOLEAN
    BY <1>1, <1>2, <1>7, <2>1
  <2>3. SocketsInv'
    BY <1>1, <1>7, SocketsSame DEF SocketsInv, SocketsTyped
  <2>4. ManagerInv'
    BY <1>1, <1>7, <2>2, ManagerMoves
  <2>5. ProviderInv'
    BY <1>1, <1>5, <2>2 DEF ProviderInv
  <2> QED BY <2>3, <2>4, <2>5 DEF DashInv
<1> QED BY <1>6, <1>7 DEF Retry

LEMMA OpensKeeps ==
    ASSUME DashInv, NEW s \in DashSockets, DashOpens(s)
    PROVE  DashInv'
<1>1. SocketsInv /\ ManagerInv /\ ProviderInv
  BY DEF DashInv
<1>2. SocketsInv'
  BY <1>1, OpeningKeeps
<1>3. ManagerInv'
  BY <1>1, ManagerMoves DEF DashOpens
<1>4. provider' \in [in : BOOLEAN, retries : 0..MaxRetries, known : BOOLEAN]
  <2>1. 0 \in 0..MaxRetries /\ provider \in [in : BOOLEAN, retries : 0..MaxRetries, known : BOOLEAN]
    BY <1>1, DashBounds DEF ProviderInv
  <2>2. [provider EXCEPT !.retries = 0, !.known = TRUE] \in
          [in : BOOLEAN, retries : 0..MaxRetries, known : BOOLEAN]
    BY <2>1
  <2> QED BY <2>1, <2>2 DEF DashOpens
<1>5. ProviderInv'
  BY <1>1, <1>4, DashBounds DEF DashOpens, ProviderInv
<1> QED BY <1>2, <1>3, <1>5 DEF DashInv

LEMMA FailsKeeps ==
    ASSUME DashInv, NEW s \in DashSockets, DashFails(s)
    PROVE  DashInv'
<1>1. SocketsInv /\ ManagerInv /\ ProviderInv
  BY DEF DashInv
<1>2. caller' \in [DashSockets -> Callers]
  BY <1>1 DEF DashFails, SocketsInv, SocketsTyped, Callers
<1>3. "gone" \in SockStates \ {"connecting", "open"} /\ "gone" # "dead"
  BY DEF SockStates
<1>4. SocketsInv'
  BY <1>1, <1>2, <1>3, SocketChanges DEF DashFails
<1>5. ManagerInv'
  BY <1>1, ManagerMoves DEF DashFails, ManagerInv
<1>6. ProviderInv'
  BY <1>1, ProviderSame DEF DashFails, Loses
<1> QED BY <1>4, <1>5, <1>6 DEF DashInv

LEMMA TimesOutKeeps ==
    ASSUME DashInv, NEW s \in DashSockets, DashTimesOut(s)
    PROVE  DashInv'
<1>1. /\ SocketsInv /\ ManagerInv /\ ProviderInv /\ givenUp \in BOOLEAN
      /\ retryTimers \in Seq(Counts) /\ provider.retries \in 0..MaxRetries
      /\ UNCHANGED <<provider, outbox, sessions>>
  BY DEF DashInv, ManagerInv, ProviderInv, DashTimesOut
<1>2. caller' \in [DashSockets -> Callers]
  BY <1>1 DEF DashTimesOut, SocketsInv, SocketsTyped, Callers
<1>3. "aborting" \in SockStates \ {"connecting", "open"} /\ "aborting" # "dead"
  BY DEF SockStates
<1>4. SocketsInv'
  BY <1>1, <1>2, <1>3, SocketChanges DEF DashTimesOut
<1>5. losses' \in 0..MaxLosses
  BY <1>1, DashBounds DEF DashTimesOut, Loses, ProviderInv
<1>6. CASE RetryLater(retryTimers) /\ UNCHANGED reconnector
  <2>1. retryTimers' \in Seq(Counts) /\ givenUp' \in BOOLEAN
    BY <1>1, <1>6, LaterTyped
  <2>2. ManagerInv'
    BY <1>1, <1>6, <2>1, ManagerMoves DEF DashTimesOut
  <2>3. ProviderInv'
    BY <1>1, <1>5, <2>1 DEF ProviderInv
  <2> QED BY <1>4, <2>2, <2>3 DEF DashInv
<1>7. CASE AttemptRejected(reconnector.attempts) /\ UNCHANGED retryTimers
  <2>1. reconnector.attempts \in Nat
    BY <1>1, DashBounds DEF ManagerInv
  <2>2. ManagerInv'
    BY <1>1, <1>7, <2>1, RejectedAttempt DEF DashTimesOut
  <2>3. ProviderInv'
    BY <1>1, <1>5, <1>7 DEF ProviderInv
  <2> QED BY <1>4, <2>2, <2>3 DEF DashInv
<1>8. CASE UNCHANGED <<reconnector, retryTimers, givenUp>>
  <2>1. ManagerInv'
    BY <1>1, <1>8, ManagerMoves DEF DashTimesOut
  <2>2. ProviderInv'
    BY <1>1, <1>5, <1>8 DEF ProviderInv
  <2> QED BY <1>4, <2>1, <2>2 DEF DashInv
<1> QED BY <1>6, <1>7, <1>8 DEF DashTimesOut

LEMMA ClosesKeeps ==
    ASSUME DashInv, NEW s \in DashSockets, DashCloses(s)
    PROVE  DashInv'
<1>1. SocketsInv /\ ManagerInv /\ ProviderInv /\ givenUp \in BOOLEAN
  BY DEF DashInv, ManagerInv
<1>2. "gone" \in SockStates \ {"connecting", "open"} /\ "gone" # "dead"
  BY DEF SockStates
<1>3. SocketsInv'
  BY <1>1, <1>2, SocketChanges DEF DashCloses, SocketsInv, SocketsTyped
<1>4. ManagerInv'
  BY <1>1, ManagerMoves DEF DashCloses
<1>5. ProviderInv'
  BY <1>1, ProviderSame DEF DashCloses, Loses
<1> QED BY <1>3, <1>4, <1>5 DEF DashInv

LEMMA DiesKeeps ==
    ASSUME DashInv, NEW s \in DashSockets, DashDies(s)
    PROVE  DashInv'
<1>1. SocketsInv /\ ManagerInv /\ ProviderInv /\ givenUp \in BOOLEAN
  BY DEF DashInv, ManagerInv
<1>2. "dead" \in SockStates \ {"connecting", "open"}
  BY DEF SockStates
<1>3. SocketsInv'
  BY <1>1, <1>2, SocketChanges DEF DashDies, SocketsInv, SocketsTyped
<1>4. ManagerInv'
  BY <1>1, ManagerMoves DEF DashDies
<1>5. ProviderInv'
  BY <1>1, ProviderSame DEF DashDies, Loses
<1> QED BY <1>3, <1>4, <1>5 DEF DashInv

LEMMA WatchdogKeeps ==
    ASSUME DashInv, Watchdog
    PROVE  DashInv'
<1>1. SocketsInv /\ ManagerInv /\ ProviderInv /\ givenUp \in BOOLEAN /\ current \in DashSockets
  BY DEF DashInv, ManagerInv, SocketsInv, SocketsTyped, Watchdog, HasEntry
<1>2. "failing" \in SockStates \ {"connecting", "open"} /\ "failing" # "dead"
  BY DEF SockStates
<1>3. SocketsInv'
  BY <1>1, <1>2, SocketChanges DEF Watchdog, SocketsInv, SocketsTyped
<1>4. ManagerInv'
  BY <1>1, ManagerMoves DEF Watchdog
<1>5. ProviderInv'
  BY <1>1, ProviderSame DEF Watchdog, Loses
<1> QED BY <1>3, <1>4, <1>5 DEF DashInv

LEMMA RecoversKeeps ==
    ASSUME DashInv, BreakerRecovers
    PROVE  DashInv'
<1>1. SocketsInv /\ ManagerInv /\ ProviderInv
  BY DEF DashInv
<1>2. SocketsInv'
  BY <1>1, SocketsSame DEF BreakerRecovers, SocketsInv, SocketsTyped
<1>3. ManagerInv'
  BY <1>1 DEF BreakerRecovers, ManagerInv
<1>4. ProviderInv'
  BY <1>1, ProviderSame DEF BreakerRecovers
<1> QED BY <1>2, <1>3, <1>4 DEF DashInv

LEMMA ArrivesKeeps ==
    ASSUME DashInv, NEW s \in DashSockets, MessageArrives(s)
    PROVE  DashInv'
<1>1. SocketsInv /\ ManagerInv /\ ProviderInv
  BY DEF DashInv
<1>2. SocketsInv'
  BY <1>1, SocketsSame DEF MessageArrives
<1>3. ManagerInv'
  BY <1>1 DEF MessageArrives, ManagerInv
<1>4. ProviderInv'
  BY <1>1, ProviderSame DEF MessageArrives
<1> QED BY <1>2, <1>3, <1>4 DEF DashInv

LEMMA SendCommandKeeps ==
    ASSUME DashInv, SendCommand
    PROVE  DashInv'
<1>1. SocketsInv /\ ManagerInv /\ ProviderInv
  BY DEF DashInv
<1>2. SocketsInv'
  BY <1>1, SendingKeeps
<1>3. ManagerInv'
  BY <1>1 DEF SendCommand, ManagerInv
<1>4. ProviderInv'
  <2>1. OutboxLimit \in Nat /\ outbox \in 0..OutboxLimit
    BY <1>1, DashBounds DEF ProviderInv
  <2>2. outbox' \in 0..OutboxLimit
    BY <2>1 DEF SendCommand
  <2> QED BY <1>1, <2>2 DEF SendCommand, ProviderInv
<1> QED BY <1>2, <1>3, <1>4 DEF DashInv

(* What the browser's connection satisfies in every state.                  *)
THEOREM DashInvariant == DashSpec => []DashInv
<1>1. DashInit => DashInv
  <2> SUFFICES ASSUME DashInit PROVE DashInv
    OBVIOUS
  <2>1. SocketsInv
    BY DEF DashInit, SocketsInv, SocketsTyped, SockStates, Callers, SoleAnnounced, InitOnOpened
  <2>2. ManagerInv
    <3>1. 0 \in 0..MaxReconnects /\ 0 \in 0..BreakerLimit
      BY DashBounds
    <3>2. reconnector \in [on : BOOLEAN, attempts : 0..MaxReconnects, timer : BOOLEAN]
      BY <3>1 DEF DashInit, NoManager
    <3>3. circuit \in [state : {"closed", "open", "half-open"}, failures : 0..BreakerLimit]
      BY <3>1 DEF DashInit
    <3> QED BY <3>2, <3>3 DEF DashInit, ManagerInv, NoManager
  <2>3. provider \in [in : BOOLEAN, retries : 0..MaxRetries, known : BOOLEAN]
    BY DashBounds DEF DashInit
  <2>4. retryTimers \in Seq(Counts)
    BY DEF DashInit
  <2>5. ProviderInv
    BY <2>3, <2>4, DashBounds DEF DashInit, ProviderInv
  <2> QED BY <2>1, <2>2, <2>5 DEF DashInv
<1>2. DashInv /\ [DashNext]_dashVars => DashInv'
  <2> SUFFICES ASSUME DashInv, [DashNext]_dashVars PROVE DashInv'
    OBVIOUS
  <2>1. CASE UNCHANGED dashVars
    <3>1. SocketsInv' /\ ProviderInv'
      BY <2>1, SocketsSame, ProviderSame DEF dashVars, DashInv, SocketsInv, SocketsTyped
    <3>2. ManagerInv'
      BY <2>1 DEF dashVars, DashInv, ManagerInv
    <3> QED BY <3>1, <3>2 DEF DashInv
  <2>2. CASE SessionStarts
    BY <2>2, SessionStartsKeeps
  <2>3. CASE SignOut
    BY <2>3, SignOutKeeps
  <2>4. CASE RetryFires
    BY <2>4, RetryKeeps DEF RetryFires
  <2>5. CASE ReconnectNow
    BY <2>5, ReconnectNowKeeps
  <2>6. CASE BreakerRecovers
    BY <2>6, RecoversKeeps
  <2>7. CASE Watchdog
    BY <2>7, WatchdogKeeps
  <2>8. CASE SendCommand
    BY <2>8, SendCommandKeeps
  <2>9. ASSUME NEW s \in DashSockets,
               DashOpens(s) \/ DashFails(s) \/ DashTimesOut(s) \/ DashCloses(s)
               \/ DashDies(s) \/ MessageArrives(s)
        PROVE  DashInv'
    BY <2>9, OpensKeeps, FailsKeeps, TimesOutKeeps, ClosesKeeps, DiesKeeps, ArrivesKeeps
  <2> QED BY <2>1, <2>2, <2>3, <2>4, <2>5, <2>6, <2>7, <2>8, <2>9 DEF DashNext
<1> QED BY <1>1, <1>2, PTL DEF DashSpec

(* connect, disconnect and the handlers of a socket: whoever connects, and  *)
(* however late the events of replaced sockets are, the socket in use is    *)
(* the current one, and the server was told first whose it is.              *)
THEOREM OneSocketAnnounced == DashSpec => []SoleAnnounced
BY DashInvariant, PTL DEF DashInv, SocketsInv

(* The outbox, the attempts of the manager and the provider's retries stay  *)
(* within their limits.                                                     *)
THEOREM DashTypeCorrect == DashSpec => []DashTypeOK
<1>1. DashInv => DashTypeOK
  <2> SUFFICES ASSUME DashInv PROVE DashTypeOK
    OBVIOUS
  <2>1. \A i \in DOMAIN retryTimers : retryTimers[i] \in 0..(MaxRetries - 1)
    <3>1. retryTimers \in Seq(Counts)
      BY DEF DashInv, ProviderInv
    <3>2. \A i \in DOMAIN retryTimers : retryTimers[i] \in Counts
      BY <3>1
    <3> QED BY <3>2 DEF Counts
  <2> QED BY <2>1 DEF DashInv, SocketsInv, SocketsTyped, SockStates, Callers, ManagerInv,
                      ProviderInv, DashTypeOK
<1> QED BY <1>1, DashInvariant, PTL

-----------------------------------------------------------------------------
(* The tokens of the command line.                                          *)

RowShape == [at : {"none", "live", "revoked"}, pair : 0..MaxPairs, open : BOOLEAN]
CliShape == [at : {"idle", "polling", "validating", "due", "asking", "found", "granted",
                   "clearing", "revoking", "leaving"},
             row : Logins \cup {NoLogin}, pair : 0..MaxPairs]
CredsShape == [row : Logins \cup {NoLogin}, pair : 0..MaxPairs, fresh : BOOLEAN]

CliTyped ==
    /\ tokenRows \in [Logins -> RowShape]
    /\ tabs \in [Tabs -> Logins \cup {NoLogin}]
    /\ cli \in [Clis -> CliShape]
    /\ creds \in CredsShape
    /\ signed \in 0..MaxPairs /\ failures \in 0..MaxFailures /\ disturbed \in BOOLEAN

\* Of a process: it waits to be confirmed; it holds a pair of tokens.
LoggingIn(x) == x.at \in {"polling", "validating"}
Holding(x) == x.at \in {"validating", "asking", "found", "granted", "revoking", "leaving"}
Busy(x) == x.at \notin {"idle", "polling", "validating"}

(* A pair is of one row.                                                    *)
RowsApart ==
    /\ \A l \in Logins : tokenRows[l].pair <= signed
    /\ \A l \in Logins : tokenRows[l].at = "none" => tokenRows[l].pair = 0
    /\ \A l, m \in Logins : tokenRows[l].pair = tokenRows[m].pair /\ tokenRows[l].pair # 0 => l = m
    /\ \A t \in Tabs : tabs[t] # NoLogin => tokenRows[tabs[t]].at # "none"

(* What a process, or the store, holds is a pair of the row it holds it     *)
(* with, or of none any more.                                               *)
OfRow(pair, row) ==
    /\ pair # 0 /\ pair <= signed
    /\ \A l \in Logins : tokenRows[l].pair = pair => l = row

RowKnown(x) ==
    /\ x.row # NoLogin => tokenRows[x.row].at # "none"
    /\ LoggingIn(x) \/ Holding(x) => x.row # NoLogin
    /\ Holding(x) => OfRow(x.pair, x.row)

StoreKnown ==
    creds # NoCreds =>
        creds.row # NoLogin /\ tokenRows[creds.row].at # "none" /\ OfRow(creds.pair, creds.row)

AllKnown == StoreKnown /\ \A c \in Clis : RowKnown(cli[c])

(* The row of a login under way is nobody else's.                           *)
LoginsApart ==
    \A c \in Clis : LoggingIn(cli[c]) =>
        /\ creds.row # cli[c].row
        /\ \A d \in Clis \ {c} : cli[d].row # cli[c].row

(* Without a disturbance one process at most is at work on the store, it    *)
(* has what is stored, and what a process was given is what the server has. *)
InOrder(x) ==
    /\ x.at \in {"validating", "granted"} =>
          tokenRows[x.row].at = "live" /\ tokenRows[x.row].pair = x.pair
    /\ x.at \in {"asking", "found", "granted", "revoking"} => creds # NoCreds /\ x.row = creds.row
    /\ x.at \in {"asking", "found", "revoking"} => x.pair = creds.pair
    /\ x.at # "clearing"

Undisturbed ==
    ~disturbed =>
        /\ \A c, d \in Clis : Busy(cli[c]) /\ Busy(cli[d]) => c = d
        /\ \A c \in Clis : InOrder(cli[c])

CliInv ==
    CliTyped /\ RowsApart /\ AllKnown /\ LoginsApart /\ Undisturbed /\ StoredIsHonoured

LEMMA CliBounds ==
    MaxPairs \in Nat /\ MaxFailures \in Nat /\ NoLogin \notin Logins
BY CliAssumption

(* A step of one process that leaves rows and store alone.                  *)
LEMMA ProcessMoves ==
    ASSUME CliInv, NEW c \in Clis, NEW x \in CliShape, cli' = [cli EXCEPT ![c] = x],
           UNCHANGED <<tokenRows, tabs, creds, signed>>, failures' \in 0..MaxFailures,
           disturbed' \in BOOLEAN, disturbed => disturbed',
           RowKnown(x),
           LoggingIn(x) => LoggingIn(cli[c]),
           x.row \in {cli[c].row, creds.row, NoLogin},
           LoggingIn(x) => x.row = cli[c].row,
           ~disturbed' => /\ InOrder(x)
                          /\ Busy(x) => \A d \in Clis \ {c} : ~Busy(cli[d])
                          /\ cli[c].at \in {"granted", "leaving"} => x.at \in {"granted", "leaving"}
    PROVE  CliInv'
<1>1. cli'[c] = x /\ \A d \in Clis \ {c} : cli'[d] = cli[d]
  BY DEF CliInv, CliTyped
<1>2. CliTyped'
  BY DEF CliInv, CliTyped
<1>3. RowsApart'
  BY DEF CliInv, RowsApart
<1>4. AllKnown'
  <2>1. StoreKnown'
    BY DEF CliInv, AllKnown, StoreKnown, OfRow
  <2>2. \A y : RowKnown(y) => RowKnown(y)'
    BY DEF RowKnown, OfRow
  <2>3. \A d \in Clis : RowKnown(cli[d])'
    BY <1>1, <2>2 DEF CliInv, AllKnown, RowKnown, OfRow
  <2> QED BY <2>1, <2>3 DEF AllKnown
<1>5. LoginsApart'
  <2>1. ASSUME NEW d \in Clis, NEW e \in Clis \ {d}, LoggingIn(cli'[d])
        PROVE  creds'.row # cli'[d].row /\ cli'[e].row # cli'[d].row
    <3>1. LoggingIn(cli[d]) /\ cli'[d].row = cli[d].row
      BY <1>1, <2>1
    <3>2. creds.row # cli[d].row /\ cli[e].row # cli[d].row
      BY <3>1 DEF CliInv, LoginsApart
    <3>3. cli[d].row # NoLogin
      BY <3>1 DEF CliInv, AllKnown, RowKnown
    <3> QED BY <1>1, <3>1, <3>2, <3>3
  <2>2. ASSUME NEW d \in Clis, LoggingIn(cli'[d]) PROVE creds'.row # cli'[d].row
    <3>1. LoggingIn(cli[d]) /\ cli'[d].row = cli[d].row
      BY <1>1, <2>2
    <3> QED BY <3>1 DEF CliInv, LoginsApart
  <2> QED BY <2>1, <2>2 DEF LoginsApart, LoggingIn
<1>6. Undisturbed'
  <2>1. \A y : InOrder(y) => InOrder(y)'
    BY DEF InOrder
  <2>2. ASSUME ~disturbed' PROVE \A d \in Clis : InOrder(cli[d])'
    BY <1>1, <2>1, <2>2 DEF CliInv, Undisturbed, InOrder
  <2>3. ASSUME ~disturbed', NEW d \in Clis, NEW e \in Clis, Busy(cli'[d]), Busy(cli'[e])
        PROVE  d = e
    BY <1>1, <2>3 DEF CliInv, Undisturbed
  <2> QED BY <2>2, <2>3 DEF Undisturbed, Busy
<1>7. StoredIsHonoured'
  BY <1>1 DEF CliInv, StoredIsHonoured, Honoured
<1> QED BY <1>2, <1>3, <1>4, <1>5, <1>6, <1>7 DEF CliInv

LEMMA IdleKept ==
    /\ IdleCli \in CliShape /\ IdleCli.row = NoLogin
    /\ RowKnown(IdleCli) /\ ~LoggingIn(IdleCli) /\ InOrder(IdleCli) /\ ~Busy(IdleCli)
<1>1. 0 \in 0..MaxPairs
  BY CliBounds
<1> QED BY <1>1 DEF IdleCli, CliShape, RowKnown, LoggingIn, Holding, InOrder, Busy

LEMMA PollKeeps ==
    ASSUME CliInv, NEW c \in Clis, Poll(c)
    PROVE  CliInv'
<1> DEFINE row == tokenRows[cli[c].row]
           x == [cli[c] EXCEPT !.at = "validating", !.pair = row.pair]
<1>1. /\ cli[c].at = "polling" /\ cli[c] \in CliShape /\ cli[c].row \in Logins
      /\ RowKnown(cli[c]) /\ failures \in 0..MaxFailures /\ disturbed \in BOOLEAN
      /\ cli \in [Clis -> CliShape] /\ row \in RowShape
  BY DEF Poll, CliInv, CliTyped, AllKnown, RowKnown, LoggingIn, CliShape
<1>2. CASE row.at = "live" /\ row.pair # 0 /\ cli' = [cli EXCEPT ![c].at = "validating", ![c].pair = row.pair]
  <2>1. row.pair \in 0..MaxPairs
    BY <1>1 DEF RowShape
  <2>2. /\ x \in CliShape /\ x.at = "validating" /\ x.row = cli[c].row /\ x.pair = row.pair
        /\ cli' = [cli EXCEPT ![c] = x]
    BY <1>1, <1>2, <2>1 DEF CliShape
  <2> HIDE DEF x
  <2>3. OfRow(x.pair, x.row)
    BY <1>1, <1>2, <2>2 DEF CliInv, RowsApart, OfRow
  <2>4. RowKnown(x)
    BY <1>1, <2>2, <2>3 DEF RowKnown, LoggingIn
  <2>5. InOrder(x) /\ ~Busy(x) /\ LoggingIn(x) /\ LoggingIn(cli[c])
    BY <1>1, <1>2, <2>2 DEF InOrder, Busy, LoggingIn
  <2> QED BY <1>1, <2>2, <2>4, <2>5, ProcessMoves DEF Poll
<1>3. CASE cli' = [cli EXCEPT ![c] = IdleCli]
  BY <1>1, <1>3, IdleKept, ProcessMoves DEF Poll
<1> QED BY <1>2, <1>3 DEF Poll

LEMMA LoginFailsKeeps ==
    ASSUME CliInv, NEW c \in Clis, LoginFails(c)
    PROVE  CliInv'
BY IdleKept, ProcessMoves DEF LoginFails, CliInv, CliTyped

LEMMA NeedsRefreshKeeps ==
    ASSUME CliInv, NEW c \in Clis, NeedsRefresh(c)
    PROVE  CliInv'
<1> DEFINE x == [cli[c] EXCEPT !.at = "due"]
<1>1. /\ cli[c].at = "idle" /\ cli[c] \in CliShape /\ RowKnown(cli[c])
      /\ failures' \in 0..MaxFailures /\ disturbed' \in BOOLEAN /\ (disturbed => disturbed')
      /\ cli \in [Clis -> CliShape]
  BY DEF NeedsRefresh, CliInv, CliTyped, AllKnown, Overlaps
<1>2. /\ x \in CliShape /\ x.at = "due" /\ x.row = cli[c].row /\ cli' = [cli EXCEPT ![c] = x]
  BY <1>1 DEF NeedsRefresh, CliShape
<1> HIDE DEF x
<1>3. RowKnown(x) /\ InOrder(x) /\ ~LoggingIn(x)
  BY <1>1, <1>2 DEF RowKnown, LoggingIn, Holding, InOrder
<1>4. ~disturbed' => \A d \in Clis \ {c} : ~Busy(cli[d])
  BY DEF NeedsRefresh, Overlaps, AtWork, Busy
<1> QED BY <1>1, <1>2, <1>3, <1>4, ProcessMoves DEF NeedsRefresh

LEMMA AskRefreshKeeps ==
    ASSUME CliInv, NEW c \in Clis, AskRefresh(c)
    PROVE  CliInv'
<1> DEFINE x == [at |-> "asking", row |-> creds.row, pair |-> creds.pair]
<1>1. /\ cli[c].at = "due" /\ creds \in CredsShape /\ StoreKnown
      /\ failures' \in 0..MaxFailures /\ disturbed' \in BOOLEAN /\ disturbed' = disturbed
      /\ UNCHANGED <<tokenRows, tabs, creds, signed>>
  BY DEF AskRefresh, CliInv, CliTyped, AllKnown
<1>2. ~disturbed' => \A d \in Clis \ {c} : ~Busy(cli[d])
  BY <1>1 DEF CliInv, Undisturbed, Busy
<1>3. CASE creds = NoCreds
  <2>1. cli' = [cli EXCEPT ![c] = IdleCli]
    BY <1>3 DEF AskRefresh
  <2> QED BY <1>1, <2>1, IdleKept, ProcessMoves
<1>4. CASE creds # NoCreds
  <2>1. x \in CliShape /\ x.at = "asking" /\ x.row = creds.row /\ x.pair = creds.pair
    BY <1>1 DEF CliShape, CredsShape
  <2>2. cli' = [cli EXCEPT ![c] = x]
    BY <1>4 DEF AskRefresh
  <2> HIDE DEF x
  <2>3. RowKnown(x) /\ InOrder(x) /\ ~LoggingIn(x)
    BY <1>1, <1>4, <2>1 DEF RowKnown, StoreKnown, LoggingIn, InOrder
  <2> QED BY <1>1, <1>2, <2>1, <2>2, <2>3, ProcessMoves
<1> QED BY <1>3, <1>4

LEMMA FindPairKeeps ==
    ASSUME CliInv, NEW c \in Clis, FindPair(c)
    PROVE  CliInv'
<1> DEFINE finds == \E l \in Logins : tokenRows[l].at = "live" /\ tokenRows[l].pair = cli[c].pair
           x == [cli[c] EXCEPT !.at = IF finds THEN "found" ELSE "clearing"]
<1>1. /\ cli[c].at = "asking" /\ cli[c] \in CliShape /\ RowKnown(cli[c])
      /\ failures' \in 0..MaxFailures /\ disturbed' \in BOOLEAN /\ disturbed' = disturbed
      /\ UNCHANGED <<tokenRows, tabs, creds, signed>> /\ cli \in [Clis -> CliShape]
  BY DEF FindPair, CliInv, CliTyped, AllKnown
<1>2. ~disturbed => /\ \A d \in Clis \ {c} : ~Busy(cli[d])
                    /\ InOrder(cli[c])
  BY <1>1 DEF CliInv, Undisturbed, Busy
<1>3. ~disturbed => finds
  <2> SUFFICES ASSUME ~disturbed PROVE finds
    OBVIOUS
  <2>1. \A d \in Clis : cli[d].at \notin {"granted", "leaving"}
    BY <1>1, <1>2 DEF Busy
  <2>2. creds # NoCreds /\ cli[c].pair = creds.pair
    BY <1>1, <1>2 DEF InOrder
  <2>3. Honoured
    BY <2>1, <2>2 DEF CliInv, StoredIsHonoured
  <2>4. creds.row \in Logins
    BY <2>2 DEF CliInv, CliTyped, CredsShape, AllKnown, StoreKnown
  <2> QED BY <2>2, <2>3, <2>4 DEF Honoured
<1>4. cli' = [cli EXCEPT ![c] = x]
  BY <1>1 DEF FindPair
<1>5. x \in CliShape /\ x.row = cli[c].row /\ x.pair = cli[c].pair
      /\ x.at \in {"found", "clearing"} /\ (finds => x.at = "found")
  BY <1>1 DEF CliShape
<1> HIDE DEF x, finds
<1>6. RowKnown(x) /\ ~LoggingIn(x)
  BY <1>1, <1>5 DEF RowKnown, LoggingIn, Holding
<1>7. ~disturbed' => InOrder(x)
  BY <1>1, <1>2, <1>3, <1>5 DEF InOrder
<1> QED BY <1>1, <1>2, <1>4, <1>5, <1>6, <1>7, ProcessMoves

LEMMA RefreshLostKeeps ==
    ASSUME CliInv, NEW c \in Clis, RefreshLost(c)
    PROVE  CliInv'
<1> DEFINE x == [cli[c] EXCEPT !.at = "clearing"]
<1>1. /\ cli[c] \in CliShape /\ RowKnown(cli[c]) /\ cli \in [Clis -> CliShape]
      /\ UNCHANGED <<tokenRows, tabs, creds, signed>> /\ disturbed' = TRUE
  BY DEF RefreshLost, CliInv, CliTyped, AllKnown
<1>2. failures' \in 0..MaxFailures
  BY CliBounds DEF RefreshLost, CliInv, CliTyped
<1>3. /\ x \in CliShape /\ x.at = "clearing" /\ x.row = cli[c].row
      /\ cli' = [cli EXCEPT ![c] = x]
  BY <1>1 DEF RefreshLost, CliShape
<1> HIDE DEF x
<1>4. RowKnown(x) /\ ~LoggingIn(x)
  BY <1>1, <1>3 DEF RowKnown, LoggingIn, Holding
<1> QED BY <1>1, <1>2, <1>3, <1>4, ProcessMoves

LEMMA LogoutKeeps ==
    ASSUME CliInv, NEW c \in Clis, Logout(c)
    PROVE  CliInv'
<1> DEFINE x == [at |-> "revoking", row |-> creds.row, pair |-> creds.pair]
<1>1. /\ cli[c].at = "idle" /\ creds \in CredsShape /\ StoreKnown /\ creds # NoCreds
      /\ failures' \in 0..MaxFailures /\ disturbed' \in BOOLEAN /\ (disturbed => disturbed')
      /\ UNCHANGED <<tokenRows, tabs, creds, signed>>
  BY DEF Logout, CliInv, CliTyped, AllKnown, Overlaps
<1>2. ~disturbed' => \A d \in Clis \ {c} : ~Busy(cli[d])
  BY DEF Logout, Overlaps, AtWork, Busy
<1>3. /\ x \in CliShape /\ x.at = "revoking" /\ x.row = creds.row /\ x.pair = creds.pair
      /\ cli' = [cli EXCEPT ![c] = x]
  BY <1>1 DEF CliShape, CredsShape, Logout
<1> HIDE DEF x
<1>4. RowKnown(x) /\ InOrder(x) /\ ~LoggingIn(x)
  BY <1>1, <1>3 DEF RowKnown, StoreKnown, LoggingIn, InOrder
<1> QED BY <1>1, <1>2, <1>3, <1>4, ProcessMoves

LEMMA RevokeFailsKeeps ==
    ASSUME CliInv, NEW c \in Clis, RevokeFails(c)
    PROVE  CliInv'
<1> DEFINE x == [cli[c] EXCEPT !.at = "leaving"]
<1>1. /\ cli[c] \in CliShape /\ RowKnown(cli[c]) /\ cli \in [Clis -> CliShape]
      /\ UNCHANGED <<tokenRows, tabs, creds, signed>> /\ disturbed' = TRUE
      /\ cli[c].at = "revoking"
  BY DEF RevokeFails, CliInv, CliTyped, AllKnown
<1>2. failures' \in 0..MaxFailures
  BY CliBounds DEF RevokeFails, CliInv, CliTyped
<1>3. /\ x \in CliShape /\ x.at = "leaving" /\ x.row = cli[c].row /\ x.pair = cli[c].pair
      /\ cli' = [cli EXCEPT ![c] = x]
  BY <1>1 DEF RevokeFails, CliShape
<1> HIDE DEF x
<1>4. RowKnown(x) /\ ~LoggingIn(x)
  BY <1>1, <1>3 DEF RowKnown, LoggingIn, Holding
<1> QED BY <1>1, <1>2, <1>3, <1>4, ProcessMoves

(* A step that ends a process's work on the store, with what it leaves      *)
(* there.                                                                   *)
LEMMA StoreMoves ==
    ASSUME CliInv, NEW c \in Clis, cli' = [cli EXCEPT ![c] = IdleCli],
           creds' \in CredsShape, StoreKnown',
           creds' = NoCreds \/ creds'.row = cli[c].row,
           UNCHANGED <<tokenRows, tabs, signed, failures>>,
           disturbed' \in BOOLEAN, disturbed => disturbed',
           ~disturbed' => /\ \A d \in Clis \ {c} : ~Busy(cli[d])
                          /\ creds' # NoCreds => Honoured'
    PROVE  CliInv'
<1>1. cli'[c] = IdleCli /\ \A d \in Clis \ {c} : cli'[d] = cli[d]
  BY DEF CliInv, CliTyped
<1>2. CliTyped'
  BY IdleKept DEF CliInv, CliTyped
<1>3. RowsApart'
  BY DEF CliInv, RowsApart
<1>4. AllKnown'
  <2>1. \A y : RowKnown(y) => RowKnown(y)'
    BY DEF RowKnown, OfRow
  <2>2. \A d \in Clis : RowKnown(cli[d])'
    BY <1>1, <2>1, IdleKept DEF CliInv, AllKnown, RowKnown, OfRow
  <2> QED BY <2>2 DEF AllKnown
<1>5. LoginsApart'
  <2>1. ASSUME NEW d \in Clis, LoggingIn(cli'[d])
        PROVE  /\ creds'.row # cli'[d].row
               /\ \A e \in Clis \ {d} : cli'[e].row # cli'[d].row
    <3>1. d # c /\ cli'[d] = cli[d] /\ LoggingIn(cli[d])
      BY <1>1, <2>1, IdleKept
    <3>2. cli[d].row # NoLogin /\ cli[c].row # cli[d].row
      BY <3>1 DEF CliInv, LoginsApart, AllKnown, RowKnown
    <3>3. creds'.row # cli[d].row
      BY <3>2 DEF NoCreds
    <3>4. \A e \in Clis \ {d} : cli'[e].row # cli[d].row
      BY <1>1, <3>1, <3>2, IdleKept DEF CliInv, LoginsApart
    <3> QED BY <3>1, <3>3, <3>4
  <2> QED BY <2>1 DEF LoginsApart, LoggingIn
<1>6. Undisturbed'
  <2>1. ASSUME ~disturbed', NEW d \in Clis PROVE InOrder(cli[d])'
    <3>1. CASE d = c
      BY <1>1, <3>1, IdleKept DEF InOrder, IdleCli
    <3>2. CASE d # c
      <4>1. InOrder(cli[d]) /\ ~Busy(cli[d]) /\ cli'[d] = cli[d]
        BY <1>1, <2>1, <3>2 DEF CliInv, Undisturbed
      <4> QED BY <4>1 DEF InOrder, Busy
    <3> QED BY <3>1, <3>2
  <2>2. ASSUME ~disturbed', NEW d \in Clis, NEW e \in Clis, Busy(cli'[d]), Busy(cli'[e])
        PROVE  d = e
    BY <1>1, <2>2, IdleKept
  <2> QED BY <2>1, <2>2 DEF Undisturbed, Busy
<1>7. StoredIsHonoured'
  BY DEF StoredIsHonoured
<1> QED BY <1>2, <1>3, <1>4, <1>5, <1>6, <1>7 DEF CliInv

LEMMA CredsCleared ==
    creds' = NoCreds => creds' \in CredsShape /\ StoreKnown'
<1>1. 0 \in 0..MaxPairs
  BY CliBounds
<1> QED BY <1>1 DEF NoCreds, CredsShape, StoreKnown

LEMMA StoreLoginKeeps ==
    ASSUME CliInv, NEW c \in Clis, StoreLogin(c)
    PROVE  CliInv'
<1>1. /\ cli[c].at = "validating" /\ cli[c] \in CliShape /\ RowKnown(cli[c])
      /\ disturbed' \in BOOLEAN /\ (disturbed => disturbed')
      /\ UNCHANGED <<tokenRows, tabs, signed, failures>>
  BY DEF StoreLogin, CliInv, CliTyped, AllKnown, Overlaps
<1>2. /\ creds' = [row |-> cli[c].row, pair |-> cli[c].pair, fresh |-> TRUE]
      /\ cli' = [cli EXCEPT ![c] = IdleCli]
  BY DEF StoreLogin
<1>3. creds' \in CredsShape /\ creds'.row = cli[c].row /\ creds'.pair = cli[c].pair
  BY <1>1, <1>2 DEF CliShape, CredsShape
<1>4. StoreKnown'
  BY <1>1, <1>3 DEF StoreKnown, RowKnown, Holding, OfRow
<1>5. ~disturbed' => \A d \in Clis \ {c} : ~Busy(cli[d])
  BY DEF StoreLogin, Overlaps, AtWork, Busy
<1>6. ~disturbed' => Honoured'
  BY <1>1, <1>3 DEF CliInv, Undisturbed, InOrder, Honoured
<1> QED BY <1>1, <1>2, <1>3, <1>4, <1>5, <1>6, StoreMoves

LEMMA StoreRefreshKeeps ==
    ASSUME CliInv, NEW c \in Clis, StoreRefresh(c)
    PROVE  CliInv'
<1>1. /\ cli[c].at = "granted" /\ cli[c] \in CliShape /\ RowKnown(cli[c])
      /\ disturbed' \in BOOLEAN /\ disturbed' = disturbed
      /\ UNCHANGED <<tokenRows, tabs, signed, failures>>
  BY DEF StoreRefresh, CliInv, CliTyped, AllKnown
<1>2. /\ creds' = [row |-> cli[c].row, pair |-> cli[c].pair, fresh |-> TRUE]
      /\ cli' = [cli EXCEPT ![c] = IdleCli]
  BY DEF StoreRefresh, NewTokens
<1>3. creds' \in CredsShape /\ creds'.row = cli[c].row /\ creds'.pair = cli[c].pair
  BY <1>1, <1>2 DEF CliShape, CredsShape
<1>4. StoreKnown'
  BY <1>1, <1>3 DEF StoreKnown, RowKnown, Holding, OfRow
<1>5. ~disturbed' => \A d \in Clis \ {c} : ~Busy(cli[d])
  BY <1>1 DEF CliInv, Undisturbed, Busy
<1>6. ~disturbed' => Honoured'
  BY <1>1, <1>3 DEF CliInv, Undisturbed, InOrder, Honoured
<1> QED BY <1>1, <1>2, <1>3, <1>4, <1>5, <1>6, StoreMoves

LEMMA ClearCredentialsKeeps ==
    ASSUME CliInv, NEW c \in Clis, ClearCredentials(c)
    PROVE  CliInv'
<1>1. disturbed
  BY DEF ClearCredentials, CliInv, CliTyped, Undisturbed, InOrder
<1> QED BY <1>1, CredsCleared, StoreMoves DEF ClearCredentials, CliInv, CliTyped

LEMMA DeleteCredentialsKeeps ==
    ASSUME CliInv, NEW c \in Clis, DeleteCredentials(c)
    PROVE  CliInv'
<1>1. ~disturbed => \A d \in Clis \ {c} : ~Busy(cli[d])
  BY DEF DeleteCredentials, CliInv, Undisturbed, Busy
<1> QED BY <1>1, CredsCleared, StoreMoves DEF DeleteCredentials, CliInv, CliTyped

(* Rows that keep their pairs and their existence.                          *)
LEMMA RowsKept ==
    ASSUME CliInv, UNCHANGED <<tabs, signed>>,
           \A l \in Logins : /\ tokenRows'[l].pair = tokenRows[l].pair
                             /\ tokenRows[l].at # "none" => tokenRows'[l].at # "none"
    PROVE  /\ RowsApart'
           /\ \A pair, row : OfRow(pair, row) => OfRow(pair, row)'
           /\ \A y \in CliShape : RowKnown(y) => RowKnown(y)'
           /\ UNCHANGED creds => StoreKnown'
<1>1. RowsApart'
  <2>1. \A l \in Logins : tokenRows'[l].pair <= signed'
    BY DEF CliInv, RowsApart
  <2>2. \A l \in Logins : tokenRows'[l].at = "none" => tokenRows'[l].pair = 0
    BY DEF CliInv, RowsApart
  <2>3. \A l, m \in Logins :
          tokenRows'[l].pair = tokenRows'[m].pair /\ tokenRows'[l].pair # 0 => l = m
    BY DEF CliInv, RowsApart
  <2>4. \A t \in Tabs : tabs'[t] # NoLogin => tokenRows'[tabs'[t]].at # "none"
    BY DEF CliInv, CliTyped, RowsApart
  <2> QED BY <2>1, <2>2, <2>3, <2>4 DEF RowsApart
<1>2. \A pair, row : OfRow(pair, row) => OfRow(pair, row)'
  BY DEF OfRow
<1>3. \A y \in CliShape : RowKnown(y) => RowKnown(y)'
  BY <1>2 DEF RowKnown, CliShape
<1>4. UNCHANGED creds => StoreKnown'
  BY <1>2 DEF CliInv, CliTyped, CredsShape, AllKnown, StoreKnown
<1> QED BY <1>1, <1>2, <1>3, <1>4

LEMMA AuthorizeKeeps ==
    ASSUME CliInv, NEW c \in Clis, Authorize(c)
    PROVE  CliInv'
<1>1. PICK l \in Logins :
        /\ tokenRows[l].at = "none"
        /\ tokenRows' = [tokenRows EXCEPT ![l] = [at |-> "live", pair |-> 0, open |-> TRUE]]
        /\ cli' = [cli EXCEPT ![c] = [at |-> "polling", row |-> l, pair |-> 0]]
  BY DEF Authorize
<1> DEFINE x == [at |-> "polling", row |-> l, pair |-> 0]
           new == [at |-> "live", pair |-> 0, open |-> TRUE]
<1>2. 0 \in 0..MaxPairs
  BY CliBounds
<1>3. /\ x \in CliShape /\ x.at = "polling" /\ x.row = l /\ cli' = [cli EXCEPT ![c] = x]
      /\ new \in RowShape /\ new.at = "live" /\ new.pair = 0
      /\ tokenRows' = [tokenRows EXCEPT ![l] = new]
  BY <1>1, <1>2 DEF CliShape, RowShape
<1> HIDE DEF x, new
<1>4. /\ cli' \in [Clis -> CliShape] /\ cli'[c] = x /\ \A d \in Clis \ {c} : cli'[d] = cli[d]
      /\ tokenRows' \in [Logins -> RowShape] /\ tokenRows'[l] = new
      /\ \A m \in Logins \ {l} : tokenRows'[m] = tokenRows[m]
      /\ cli[c].at = "idle" /\ UNCHANGED <<tabs, creds, signed, failures, disturbed>>
  BY <1>3 DEF CliInv, CliTyped, Authorize
<1>5. tokenRows[l].pair = 0
  BY <1>1 DEF CliInv, RowsApart
<1>6. /\ RowsApart' /\ StoreKnown' /\ \A y \in CliShape : RowKnown(y) => RowKnown(y)'
  BY <1>3, <1>4, <1>5, RowsKept
<1>7. CliTyped'
  BY <1>4 DEF CliInv, CliTyped
<1>8. RowKnown(x)'
  BY <1>3, <1>4, CliBounds DEF RowKnown, Holding
<1>9. AllKnown'
  <2>1. \A d \in Clis \ {c} : RowKnown(cli[d])'
    BY <1>4, <1>6 DEF CliInv, CliTyped, AllKnown, RowKnown, OfRow
  <2>2. RowKnown(cli[c])'
    BY <1>4, <1>8 DEF RowKnown, OfRow
  <2> QED BY <1>6, <2>1, <2>2 DEF AllKnown
<1>10. creds.row # l /\ \A d \in Clis : cli[d].row # l
  BY <1>1, CliBounds DEF CliInv, AllKnown, StoreKnown, RowKnown, NoCreds
<1>11. LoginsApart'
  BY <1>3, <1>4, <1>10 DEF CliInv, LoginsApart, LoggingIn
<1>12. Undisturbed'
  <2>1. ASSUME ~disturbed', NEW d \in Clis PROVE InOrder(cli[d])'
    <3>1. CASE d = c
      BY <1>3, <1>4, <3>1 DEF InOrder
    <3>2. CASE d # c
      <4>1. InOrder(cli[d]) /\ cli'[d] = cli[d] /\ cli[d].row # l /\ RowKnown(cli[d])
            /\ cli[d].row \in Logins \cup {NoLogin}
        BY <1>4, <1>10, <2>1, <3>2 DEF CliInv, CliTyped, CliShape, Undisturbed, AllKnown
      <4>2. cli[d].at \in {"validating", "granted"} => cli[d].row \in Logins \ {l}
        BY <4>1 DEF RowKnown, Holding
      <4> QED BY <1>4, <4>1, <4>2 DEF InOrder
    <3> QED BY <3>1, <3>2
  <2>2. ASSUME ~disturbed', NEW d \in Clis, NEW e \in Clis, Busy(cli'[d]), Busy(cli'[e])
        PROVE  d = e
    BY <1>3, <1>4, <2>2 DEF CliInv, Undisturbed, Busy
  <2> QED BY <2>1, <2>2 DEF Undisturbed, Busy
<1>13. StoredIsHonoured'
  <2> SUFFICES ASSUME ~disturbed', creds' # NoCreds,
                      \A d \in Clis : cli'[d].at \notin {"granted", "leaving"}
               PROVE  Honoured'
    BY DEF StoredIsHonoured
  <2>1. \A d \in Clis : cli[d].at \notin {"granted", "leaving"}
    BY <1>4
  <2>2. Honoured /\ creds.row \in Logins \ {l}
    BY <1>4, <1>10, <2>1 DEF CliInv, StoredIsHonoured, CliTyped, CredsShape, AllKnown, StoreKnown
  <2> QED BY <1>4, <2>2 DEF Honoured
<1> QED BY <1>6, <1>7, <1>9, <1>11, <1>12, <1>13 DEF CliInv

LEMMA FindCodeKeeps ==
    ASSUME CliInv, NEW t \in Tabs, FindCode(t)
    PROVE  CliInv'
<1>1. PICK l \in Logins : tokenRows[l].at = "live" /\ tabs' = [tabs EXCEPT ![t] = l]
  BY DEF FindCode
<1>2. UNCHANGED <<tokenRows, cli, creds, signed, failures, disturbed>>
  BY DEF FindCode
<1>3. CliTyped' /\ RowsApart'
  BY <1>1, <1>2 DEF CliInv, CliTyped, RowsApart
<1>4. AllKnown' /\ LoginsApart'
  BY <1>2 DEF CliInv, AllKnown, StoreKnown, RowKnown, OfRow, LoginsApart, LoggingIn, Holding
<1>5. Undisturbed' /\ StoredIsHonoured'
  BY <1>2 DEF CliInv, Undisturbed, InOrder, Busy, StoredIsHonoured, Honoured
<1> QED BY <1>3, <1>4, <1>5 DEF CliInv

LEMMA CodeExpiresKeeps ==
    ASSUME CliInv, NEW l \in Logins, CodeExpires(l)
    PROVE  CliInv'
<1>1. /\ tokenRows' \in [Logins -> RowShape]
      /\ \A m \in Logins : tokenRows'[m].at = tokenRows[m].at /\ tokenRows'[m].pair = tokenRows[m].pair
      /\ UNCHANGED <<tabs, cli, creds, signed, failures, disturbed>>
  BY DEF CodeExpires, CliInv, CliTyped, RowShape
<1>2. /\ RowsApart' /\ StoreKnown' /\ \A y \in CliShape : RowKnown(y) => RowKnown(y)'
  BY <1>1, RowsKept
<1>3. CliTyped' /\ LoginsApart'
  BY <1>1 DEF CliInv, CliTyped, LoginsApart, LoggingIn
<1>4. AllKnown'
  BY <1>1, <1>2 DEF CliInv, CliTyped, AllKnown, RowKnown, OfRow
<1>5. Undisturbed'
  <2>1. \A c \in Clis : InOrder(cli[c]) => InOrder(cli[c])'
    <3> SUFFICES ASSUME NEW c \in Clis, InOrder(cli[c]) PROVE InOrder(cli[c])'
      OBVIOUS
    <3>1. cli[c].at \in {"validating", "granted"} => cli[c].row \in Logins
      BY DEF CliInv, CliTyped, CliShape, AllKnown, RowKnown, Holding
    <3> QED BY <1>1, <3>1 DEF InOrder
  <2> QED BY <1>1, <2>1 DEF CliInv, Undisturbed, Busy
<1>6. StoredIsHonoured'
  <2>1. creds # NoCreds => creds.row \in Logins
    BY DEF CliInv, CliTyped, CredsShape, AllKnown, StoreKnown
  <2> QED BY <1>1, <2>1 DEF CliInv, StoredIsHonoured, Honoured
<1> QED BY <1>2, <1>3, <1>4, <1>5, <1>6 DEF CliInv

LEMMA TokenAgesKeeps ==
    ASSUME CliInv, TokenAges
    PROVE  CliInv'
<1>1. /\ creds' \in CredsShape /\ creds'.row = creds.row /\ creds'.pair = creds.pair
      /\ UNCHANGED <<tokenRows, tabs, cli, signed, failures, disturbed>>
  BY DEF TokenAges, CliInv, CliTyped, CredsShape
<1>0. creds # NoCreds
  BY DEF TokenAges, NoCreds
<1>2. CliTyped' /\ RowsApart'
  BY <1>1 DEF CliInv, CliTyped, RowsApart
<1>3. creds' # NoCreds
  BY <1>0, <1>1 DEF CliInv, AllKnown, StoreKnown, NoCreds
<1>4. StoreKnown'
  BY <1>0, <1>1 DEF CliInv, AllKnown, StoreKnown, OfRow
<1>5. AllKnown'
  BY <1>1, <1>4 DEF CliInv, AllKnown, RowKnown, OfRow
<1>6. LoginsApart'
  BY <1>1 DEF CliInv, LoginsApart, LoggingIn
<1>7. \A c \in Clis : InOrder(cli[c]) => InOrder(cli[c])'
  BY <1>0, <1>1, <1>3 DEF InOrder
<1>8. Undisturbed'
  BY <1>1, <1>7 DEF CliInv, Undisturbed, Busy
<1>9. StoredIsHonoured'
  BY <1>0, <1>1 DEF CliInv, StoredIsHonoured, Honoured
<1> QED BY <1>2, <1>5, <1>6, <1>8, <1>9 DEF CliInv

(* A new pair in the row l: no pair that is held is of l any more.          *)
LEMMA PairSigned ==
    ASSUME CliInv, NEW l \in Logins, tokenRows[l].at # "none",
           signed < MaxPairs, signed' = signed + 1,
           tokenRows' \in [Logins -> RowShape],
           tokenRows'[l].at = tokenRows[l].at, tokenRows'[l].pair = signed',
           \A m \in Logins \ {l} : tokenRows'[m] = tokenRows[m],
           UNCHANGED creds, \A t \in Tabs : tabs'[t] \in {tabs[t], NoLogin}
    PROVE  /\ RowsApart' /\ StoreKnown'
           /\ \A pair \in Nat : \A row : OfRow(pair, row) => OfRow(pair, row)'
           /\ \A y \in CliShape : RowKnown(y) => RowKnown(y)'
           /\ OfRow(signed, l)'
<1>1. MaxPairs \in Nat /\ signed \in Nat
  BY CliBounds DEF CliInv, CliTyped
<1>2. \A m \in Logins : tokenRows[m].pair \in Nat /\ tokenRows[m].pair <= signed
  BY <1>1 DEF CliInv, CliTyped, RowShape, RowsApart
<1>3. \A m \in Logins \ {l} : tokenRows'[m].pair # signed'
  BY <1>1, <1>2
<1>4. RowsApart'
  <2>1. \A m \in Logins : tokenRows'[m].pair <= signed'
    BY <1>1, <1>2
  <2>2. \A m \in Logins : tokenRows'[m].at = "none" => tokenRows'[m].pair = 0
    BY DEF CliInv, RowsApart
  <2>3. \A m, n \in Logins :
          tokenRows'[m].pair = tokenRows'[n].pair /\ tokenRows'[m].pair # 0 => m = n
    BY <1>3 DEF CliInv, RowsApart
  <2>4. \A t \in Tabs : tabs'[t] # NoLogin => tokenRows'[tabs'[t]].at # "none"
    BY CliBounds DEF CliInv, CliTyped, RowsApart
  <2> QED BY <2>1, <2>2, <2>3, <2>4 DEF RowsApart
<1>5. \A pair \in Nat : \A row : OfRow(pair, row) => OfRow(pair, row)'
  <2> SUFFICES ASSUME NEW pair \in Nat, NEW row, OfRow(pair, row) PROVE OfRow(pair, row)'
    OBVIOUS
  <2>1. pair # 0 /\ pair <= signed
    BY DEF OfRow
  <2>2. pair <= signed' /\ pair # signed'
    BY <1>1, <2>1
  <2>3. \A m \in Logins : tokenRows'[m].pair = pair => m # l /\ tokenRows[m].pair = pair
    BY <2>2
  <2> QED BY <2>1, <2>2, <2>3 DEF OfRow
<1>6. \A y \in CliShape : RowKnown(y) => RowKnown(y)'
  <2> SUFFICES ASSUME NEW y \in CliShape, RowKnown(y) PROVE RowKnown(y)'
    OBVIOUS
  <2>1. y.pair \in Nat /\ y.row \in Logins \cup {NoLogin}
    BY CliBounds DEF CliShape
  <2>2. y.row # NoLogin => tokenRows'[y.row].at # "none"
    BY <2>1 DEF RowKnown
  <2>3. Holding(y) => OfRow(y.pair, y.row)'
    BY <1>5, <2>1 DEF RowKnown
  <2> QED BY <2>2, <2>3 DEF RowKnown
<1>7. StoreKnown'
  <2>1. creds.pair \in Nat /\ creds.row \in Logins \cup {NoLogin}
    BY CliBounds DEF CliInv, CliTyped, CredsShape
  <2>2. creds # NoCreds => OfRow(creds.pair, creds.row)'
    BY <1>5, <2>1 DEF CliInv, AllKnown, StoreKnown
  <2>3. creds # NoCreds => creds.row # NoLogin /\ tokenRows'[creds.row].at # "none"
    BY <2>1 DEF CliInv, AllKnown, StoreKnown
  <2> QED BY <2>2, <2>3 DEF StoreKnown, OfRow
<1>8. OfRow(signed, l)'
  <2>1. \A m \in Logins : tokenRows'[m].pair = signed' => m = l
    BY <1>3
  <2>2. signed' # 0 /\ signed' <= signed'
    BY <1>1
  <2> QED BY <2>1, <2>2 DEF OfRow
<1> QED BY <1>4, <1>5, <1>6, <1>7, <1>8

LEMMA ConfirmKeeps ==
    ASSUME CliInv, NEW t \in Tabs, Confirm(t)
    PROVE  CliInv'
<1> DEFINE l == tabs[t]
<1>1. /\ l \in Logins /\ tokenRows[l].at # "none" /\ signed < MaxPairs /\ signed' = signed + 1
      /\ signed' \in 0..MaxPairs
      /\ tokenRows' = [tokenRows EXCEPT ![l].pair = signed']
      /\ tabs' = [tabs EXCEPT ![t] = NoLogin]
      /\ disturbed' = (disturbed \/ tokenRows[l].pair # 0)
      /\ UNCHANGED <<cli, creds, failures>>
  BY CliBounds DEF Confirm, Sign, CliInv, CliTyped, RowsApart
<1> HIDE DEF l
<1>2. /\ tokenRows' \in [Logins -> RowShape]
      /\ tokenRows'[l].at = tokenRows[l].at /\ tokenRows'[l].pair = signed'
      /\ \A m \in Logins \ {l} : tokenRows'[m] = tokenRows[m]
  BY <1>1 DEF CliInv, CliTyped, RowShape
<1>3. \A u \in Tabs : tabs'[u] \in {tabs[u], NoLogin}
  BY <1>1 DEF CliInv, CliTyped
<1>4. RowsApart' /\ StoreKnown' /\ \A y \in CliShape : RowKnown(y) => RowKnown(y)'
  BY <1>1, <1>2, <1>3, PairSigned
<1>5. CliTyped' /\ LoginsApart'
  BY <1>1, <1>2 DEF CliInv, CliTyped, LoginsApart, LoggingIn
<1>6. AllKnown'
  BY <1>1, <1>4 DEF CliInv, CliTyped, AllKnown, RowKnown, OfRow
(* Undisturbed, the row had no pair, so nobody held one of it.              *)
<1>7. ASSUME ~disturbed', NEW c \in Clis PROVE InOrder(cli[c])'
  <2>1. ~disturbed /\ tokenRows[l].pair = 0 /\ InOrder(cli[c]) /\ RowKnown(cli[c])
        /\ cli[c].row \in Logins \cup {NoLogin}
    BY <1>1, <1>7 DEF CliInv, CliTyped, CliShape, Undisturbed, AllKnown
  <2>2. cli[c].at \in {"validating", "granted"} => cli[c].row \in Logins \ {l}
    BY <2>1 DEF InOrder, RowKnown, Holding, OfRow
  <2> QED BY <1>1, <1>2, <2>1, <2>2 DEF InOrder
<1>8. Undisturbed'
  BY <1>1, <1>7 DEF CliInv, Undisturbed, Busy
<1>9. StoredIsHonoured'
  <2> SUFFICES ASSUME ~disturbed', creds' # NoCreds,
                      \A c \in Clis : cli'[c].at \notin {"granted", "leaving"}
               PROVE  Honoured'
    BY DEF StoredIsHonoured
  <2>1. ~disturbed /\ tokenRows[l].pair = 0 /\ Honoured /\ creds.row \in Logins /\ creds.pair # 0
    BY <1>1 DEF CliInv, StoredIsHonoured, CliTyped, CredsShape, AllKnown, StoreKnown, OfRow
  <2> QED BY <1>1, <1>2, <2>1 DEF Honoured
<1> QED BY <1>4, <1>5, <1>6, <1>8, <1>9 DEF CliInv

LEMMA RotateKeeps ==
    ASSUME CliInv, NEW c \in Clis, Rotate(c)
    PROVE  CliInv'
<1>0. PICK l \in Logins : l = cli[c].row
  BY DEF Rotate, CliInv, CliTyped, CliShape, AllKnown, RowKnown, Holding
<1> DEFINE x == [cli[c] EXCEPT !.at = "granted", !.pair = signed']
<1>1. /\ cli[c].at = "found" /\ cli[c] \in CliShape /\ RowKnown(cli[c])
      /\ tokenRows[l].at # "none" /\ signed < MaxPairs /\ signed' = signed + 1
      /\ signed' \in 0..MaxPairs
      /\ tokenRows' = [tokenRows EXCEPT ![l].pair = signed', ![l].open = TRUE]
      /\ UNCHANGED <<tabs, creds, failures, disturbed>>
  BY <1>0, CliBounds DEF Rotate, CliInv, CliTyped, CliShape, AllKnown, RowKnown, Holding
<1>2. /\ x \in CliShape /\ x.at = "granted" /\ x.row = l /\ x.pair = signed'
      /\ cli' = [cli EXCEPT ![c] = x]
  BY <1>0, <1>1 DEF Rotate, CliInv, CliTyped, CliShape
<1> HIDE DEF x
<1>3. /\ tokenRows' \in [Logins -> RowShape]
      /\ tokenRows'[l].at = tokenRows[l].at /\ tokenRows'[l].pair = signed'
      /\ \A m \in Logins \ {l} : tokenRows'[m] = tokenRows[m]
  BY <1>1 DEF CliInv, CliTyped, RowShape
<1>4. cli' \in [Clis -> CliShape] /\ cli'[c] = x /\ \A d \in Clis \ {c} : cli'[d] = cli[d]
  BY <1>2 DEF CliInv, CliTyped
<1>5. /\ RowsApart' /\ StoreKnown' /\ \A y \in CliShape : RowKnown(y) => RowKnown(y)'
      /\ OfRow(signed, l)'
  BY <1>1, <1>3, PairSigned
<1>6. CliTyped'
  BY <1>1, <1>3, <1>4 DEF CliInv, CliTyped
<1>7. AllKnown'
  <2>1. \A d \in Clis \ {c} : RowKnown(cli[d])'
    BY <1>4, <1>5 DEF CliInv, CliTyped, AllKnown, RowKnown, OfRow
  <2>2. RowKnown(cli[c])'
    BY <1>1, <1>2, <1>3, <1>4, <1>5, CliBounds DEF RowKnown, OfRow
  <2> QED BY <1>5, <2>1, <2>2 DEF AllKnown
<1>8. LoginsApart'
  BY <1>0, <1>1, <1>2, <1>4 DEF CliInv, LoginsApart, LoggingIn
<1>9. ASSUME ~disturbed' PROVE \A d \in Clis \ {c} : ~Busy(cli[d]) /\ cli'[d] = cli[d]
  BY <1>1, <1>4, <1>9 DEF CliInv, Undisturbed, Busy
<1>10. ASSUME ~disturbed', NEW d \in Clis PROVE InOrder(cli[d])'
  <2>1. CASE d = c
    <3>1. InOrder(cli[c])
      BY <1>1, <1>10 DEF CliInv, Undisturbed
    <3>2. creds # NoCreds /\ l = creds.row
      BY <1>0, <1>1, <3>1 DEF InOrder
    <3>3. tokenRows[l].at = "live"
      <4>1. Honoured
        <5>1. \A d1 \in Clis : cli[d1].at \notin {"granted", "leaving"}
          BY <1>1, <1>9, <1>10 DEF Busy
        <5> QED BY <1>1, <1>10, <3>2, <5>1 DEF CliInv, StoredIsHonoured
      <4> QED BY <3>2, <4>1 DEF Honoured
    <3> QED BY <1>1, <1>2, <1>3, <1>4, <2>1, <3>2, <3>3 DEF InOrder
  <2>2. CASE d # c
    <3>1. /\ ~Busy(cli[d]) /\ cli'[d] = cli[d] /\ InOrder(cli[d]) /\ RowKnown(cli[d])
          /\ cli[d].row \in Logins \cup {NoLogin}
      BY <1>1, <1>9, <1>10, <2>2 DEF CliInv, CliTyped, CliShape, Undisturbed, AllKnown
    <3>2. cli[d].at = "validating" => cli[d].row \in Logins \ {l}
      BY <1>0, <2>2, <3>1 DEF CliInv, LoginsApart, LoggingIn, RowKnown, Holding
    <3> QED BY <1>3, <3>1, <3>2 DEF InOrder, Busy
  <2> QED BY <2>1, <2>2
<1>11. Undisturbed'
  <2>1. ASSUME ~disturbed', NEW d \in Clis, NEW e \in Clis, Busy(cli'[d]), Busy(cli'[e])
        PROVE  d = e
    BY <1>9, <2>1
  <2> QED BY <1>10, <2>1 DEF Undisturbed, Busy
<1>12. StoredIsHonoured'
  BY <1>2, <1>4 DEF StoredIsHonoured
<1> QED BY <1>5, <1>6, <1>7, <1>8, <1>11, <1>12 DEF CliInv

(* Undisturbed, the pair that is revoked is the stored one, and nobody      *)
(* else's.                                                                  *)
LEMMA RevokeKeeps ==
    ASSUME CliInv, NEW c \in Clis, Revoke(c)
    PROVE  CliInv'
<1>1. /\ cli[c].at = "revoking" /\ cli[c] \in CliShape /\ RowKnown(cli[c])
      /\ cli \in [Clis -> CliShape] /\ tokenRows \in [Logins -> RowShape]
      /\ tokenRows' = Revoked(c) /\ UNCHANGED <<tabs, creds, signed, failures, disturbed>>
  BY DEF Revoke, CliInv, CliTyped, AllKnown
<1>2. PICK x \in CliShape : /\ x.at = "leaving" /\ x.row = cli[c].row /\ x.pair = cli[c].pair
                            /\ cli' = [cli EXCEPT ![c] = x]
  <2> DEFINE y == [cli[c] EXCEPT !.at = "leaving"]
  <2>1. y \in CliShape /\ y.at = "leaving" /\ y.row = cli[c].row /\ y.pair = cli[c].pair
    BY <1>1 DEF CliShape
  <2>2. cli' = [cli EXCEPT ![c] = y]
    BY <1>1 DEF Revoke
  <2> QED BY <2>1, <2>2
<1>3. cli' \in [Clis -> CliShape] /\ cli'[c] = x /\ \A d \in Clis \ {c} : cli'[d] = cli[d]
  BY <1>1, <1>2
<1>4. \A l \in Logins :
        /\ tokenRows'[l] \in RowShape /\ tokenRows'[l].pair = tokenRows[l].pair
        /\ tokenRows'[l].at \in {tokenRows[l].at, "revoked"}
        /\ tokenRows[l].pair # cli[c].pair => tokenRows'[l] = tokenRows[l]
  BY <1>1 DEF Revoked, RowShape
<1>5. tokenRows' \in [Logins -> RowShape]
  BY <1>1, <1>4 DEF Revoked
<1>6. RowsApart' /\ StoreKnown' /\ \A y \in CliShape : RowKnown(y) => RowKnown(y)'
  BY <1>1, <1>4, RowsKept
<1>7. CliTyped'
  BY <1>1, <1>3, <1>5 DEF CliInv, CliTyped
<1>8. AllKnown'
  <2>1. RowKnown(x) /\ ~LoggingIn(x)
    BY <1>1, <1>2 DEF RowKnown, LoggingIn, Holding
  <2>2. RowKnown(x)'
    BY <1>2, <1>6, <2>1
  <2>3. RowKnown(cli[c])'
    BY <1>3, <2>2 DEF RowKnown, OfRow
  <2>4. \A d \in Clis \ {c} : RowKnown(cli[d])'
    BY <1>3, <1>6 DEF CliInv, CliTyped, AllKnown, RowKnown, OfRow
  <2> QED BY <1>6, <2>3, <2>4 DEF AllKnown
<1>9. LoginsApart'
  BY <1>1, <1>2, <1>3 DEF CliInv, LoginsApart, LoggingIn
<1>10. ASSUME ~disturbed' PROVE \A d \in Clis \ {c} : ~Busy(cli[d]) /\ cli'[d] = cli[d]
  BY <1>1, <1>3, <1>10 DEF CliInv, Undisturbed, Busy
<1>11. ASSUME ~disturbed', NEW d \in Clis PROVE InOrder(cli[d])'
  <2>1. CASE d = c
    BY <1>2, <1>3, <2>1 DEF InOrder
  <2>2. CASE d # c
    <3>1. /\ ~Busy(cli[d]) /\ cli'[d] = cli[d] /\ InOrder(cli[d]) /\ RowKnown(cli[d])
          /\ cli[d].row \in Logins \cup {NoLogin}
      BY <1>1, <1>10, <1>11, <2>2 DEF CliInv, CliTyped, CliShape, Undisturbed, AllKnown
    <3>2. ASSUME cli[d].at = "validating"
          PROVE  /\ cli[d].row \in Logins
                 /\ tokenRows[cli[d].row].pair # cli[c].pair
      <4>1. cli[d].row \in Logins /\ cli[c].row # cli[d].row
        BY <2>2, <3>1, <3>2 DEF CliInv, LoginsApart, LoggingIn, RowKnown
      <4>2. OfRow(cli[c].pair, cli[c].row)
        BY <1>1 DEF RowKnown, Holding
      <4> QED BY <4>1, <4>2 DEF OfRow
    <3>3. cli[d].at = "validating" => tokenRows'[cli[d].row] = tokenRows[cli[d].row]
      BY <1>4, <3>2
    <3> QED BY <3>1, <3>3 DEF InOrder, Busy
  <2> QED BY <2>1, <2>2
<1>12. Undisturbed'
  <2>1. ASSUME ~disturbed', NEW d \in Clis, NEW e \in Clis, Busy(cli'[d]), Busy(cli'[e])
        PROVE  d = e
    BY <1>10, <2>1
  <2> QED BY <1>11, <2>1 DEF Undisturbed, Busy
<1>13. StoredIsHonoured'
  BY <1>2, <1>3 DEF StoredIsHonoured
<1> QED BY <1>6, <1>7, <1>8, <1>9, <1>12, <1>13 DEF CliInv

(* What rows, processes and the store satisfy in every state.               *)
THEOREM CliInvariant == CliSpec => []CliInv
<1>1. CliInit => CliInv
  <2> SUFFICES ASSUME CliInit PROVE CliInv
    OBVIOUS
  <2>1. 0 \in 0..MaxPairs /\ 0 \in 0..MaxFailures
    BY CliBounds
  <2>2. \A c \in Clis : cli[c] = IdleCli
    BY DEF CliInit
  <2>3. CliTyped
    <3>1. tokenRows \in [Logins -> RowShape]
      BY <2>1 DEF CliInit, RowShape
    <3>2. cli \in [Clis -> CliShape]
      BY IdleKept DEF CliInit
    <3>3. creds \in CredsShape
      BY <2>1 DEF CliInit, NoCreds, CredsShape
    <3> QED BY <2>1, <3>1, <3>2, <3>3 DEF CliInit, CliTyped
  <2>4. RowsApart
    BY DEF CliInit, RowsApart
  <2>5. AllKnown
    <3>1. \A c \in Clis : RowKnown(cli[c])
      BY <2>2, IdleKept DEF RowKnown
    <3> QED BY <3>1 DEF CliInit, AllKnown, StoreKnown
  <2>6. LoginsApart
    BY <2>2, IdleKept DEF LoginsApart
  <2>7. Undisturbed
    BY <2>2, IdleKept DEF Undisturbed
  <2>8. StoredIsHonoured
    BY DEF CliInit, StoredIsHonoured
  <2> QED BY <2>3, <2>4, <2>5, <2>6, <2>7, <2>8 DEF CliInv
<1>2. CliInv /\ [CliNext]_cliVars => CliInv'
  <2> SUFFICES ASSUME CliInv, [CliNext]_cliVars PROVE CliInv'
    OBVIOUS
  <2>1. CASE UNCHANGED cliVars
    BY <2>1 DEF cliVars, CliInv, CliTyped, RowsApart, AllKnown, StoreKnown, RowKnown, OfRow,
                LoginsApart, LoggingIn, Holding, Undisturbed, InOrder, Busy, StoredIsHonoured,
                Honoured
  <2>2. ASSUME NEW c \in Clis, Authorize(c) \/ Poll(c) \/ LoginFails(c) \/ StoreLogin(c)
        PROVE  CliInv'
    BY <2>2, AuthorizeKeeps, PollKeeps, LoginFailsKeeps, StoreLoginKeeps
  <2>3. ASSUME NEW c \in Clis, NeedsRefresh(c) \/ AskRefresh(c) \/ FindPair(c) \/ Rotate(c)
                               \/ StoreRefresh(c) \/ RefreshLost(c) \/ ClearCredentials(c)
        PROVE  CliInv'
    BY <2>3, NeedsRefreshKeeps, AskRefreshKeeps, FindPairKeeps, RotateKeeps, StoreRefreshKeeps,
       RefreshLostKeeps, ClearCredentialsKeeps
  <2>4. ASSUME NEW c \in Clis, Logout(c) \/ Revoke(c) \/ RevokeFails(c) \/ DeleteCredentials(c)
        PROVE  CliInv'
    BY <2>4, LogoutKeeps, RevokeKeeps, RevokeFailsKeeps, DeleteCredentialsKeeps
  <2>5. ASSUME NEW t \in Tabs, FindCode(t) \/ Confirm(t) PROVE CliInv'
    BY <2>5, FindCodeKeeps, ConfirmKeeps
  <2>6. ASSUME NEW l \in Logins, CodeExpires(l) PROVE CliInv'
    BY <2>6, CodeExpiresKeeps
  <2>7. CASE TokenAges
    BY <2>7, TokenAgesKeeps
  <2> QED BY <2>1, <2>2, <2>3, <2>4, <2>5, <2>6, <2>7 DEF CliNext
<1> QED BY <1>1, <1>2, PTL DEF CliSpec

(* The token endpoints and AuthManager: through any logins, renewals and    *)
(* expired codes, what is stored is what the server will renew, as long as  *)
(* no answer was lost and no two steps on the store overlapped.             *)
THEOREM StoredPairIsHonoured == CliSpec => []StoredIsHonoured
<1>1. CliInv => StoredIsHonoured
  BY DEF CliInv
<1> QED BY <1>1, CliInvariant, PTL

-----------------------------------------------------------------------------
(* The connection of the agent wrapper.                                     *)

AgentStates == {"connecting", "aborting", "open", "closing", "closingNormally", "closed"}
ManagerShape == [on : BOOLEAN, attempts : Nat, timer : BOOLEAN, stray : Nat]
CallShape == [stage : {"none", "token", "opening"}, owner : Managers \cup {"none"}]

AgentTyped ==
    /\ headless \in BOOLEAN /\ timedOut \in BOOLEAN /\ ws \in Slots \cup {NoSocket}
    /\ agentSock \in [Slots -> AgentStates]
    /\ call \in [Slots -> CallShape]
    /\ manager \in [Managers -> ManagerShape]

(* A socket that opens has its call, and none that timed out is waited for. *)
CallsMatch ==
    /\ \A s \in Slots : call[s].stage = "none" => call[s].owner = "none"
    /\ \A s \in Slots : call[s].stage = "token" => agentSock[s] = "closed"
    /\ \A s \in Slots : call[s].stage = "opening" /\ wrapper # "hung" =>
          agentSock[s] \in {"connecting", "aborting"}
    /\ \A s \in Slots : agentSock[s] \in {"connecting", "aborting"} =>
          call[s].stage = "opening" \/ timedOut

(* The open socket in use was announced, and stays so.                      *)
NewestAnnounced == ws # NoSocket /\ agentSock[ws] = "open" => ws \in announced \/ timedOut

InUse(s) == call[s].stage # "none" \/ agentSock[s] # "closed"

(* The client's manager waits for its timer, with no socket in use, or for  *)
(* the one call it made.                                                    *)
OneManager ==
    /\ manager["cli"] = Idle /\ manager["client"].stray = 0
    /\ manager["client"].timer => manager["client"].on /\ \A s \in Slots : ~InUse(s)
    /\ manager["client"].on /\ ~manager["client"].timer =>
          \E s \in Slots : call[s].owner = "client"
    /\ \A s \in Slots : call[s].owner = "client" =>
          manager["client"].on /\ ~manager["client"].timer
    /\ \A s \in Slots : call[s].owner # "cli"

(* One slot is in use at a time: the next is taken when the last was left.  *)
OneSocket ==
    /\ \A s, t \in Slots : InUse(s) /\ InUse(t) => s = t
    /\ \A s \in Slots : agentSock[s] = "connecting" => ws = s
    /\ wrapper # "hung"

(* What the interactive wrapper keeps as long as no call has timed out: the *)
(* second manager and the left sockets are what breaks it.                  *)
InteractiveAlone == ~timedOut /\ ~headless => OneManager /\ OneSocket

AgentInv == AgentTyped /\ CallsMatch /\ NewestAnnounced /\ InteractiveAlone

(* What the operators of a manager do.                                      *)
LEMMA Scheduled ==
    ASSUME NEW m \in ManagerShape
    PROVE  /\ ScheduleNextAttempt(m) \in ManagerShape
           /\ ~m.on => ScheduleNextAttempt(m) = m
           /\ m.on => /\ ScheduleNextAttempt(m).on /\ ScheduleNextAttempt(m).timer
                      /\ ~m.timer => ScheduleNextAttempt(m).stray = m.stray
<1>1. CASE ~m.on
  BY <1>1 DEF ScheduleNextAttempt
<1>2. CASE m.on
  <2> DEFINE n == IF m.timer THEN m.stray + 1 ELSE m.stray
  <2>1. n \in Nat /\ (~m.timer => n = m.stray)
    BY DEF ManagerShape
  <2>2. ScheduleNextAttempt(m) = [m EXCEPT !.timer = TRUE, !.stray = n]
    BY <1>2 DEF ScheduleNextAttempt, ManagerShape
  <2> HIDE DEF n
  <2> QED BY <1>2, <2>1, <2>2 DEF ManagerShape
<1> QED BY <1>1, <1>2

LEMMA StartedManager ==
    ASSUME NEW m \in ManagerShape
    PROVE  /\ StartReconnection(m) \in ManagerShape
           /\ m.on => StartReconnection(m) = m
           /\ ~m.on /\ ~m.timer => /\ StartReconnection(m).on /\ StartReconnection(m).timer
                                   /\ StartReconnection(m).stray = m.stray
<1> DEFINE n == [m EXCEPT !.on = TRUE, !.attempts = 0]
<1>1. n \in ManagerShape /\ n.on /\ n.timer = m.timer /\ n.stray = m.stray
  BY DEF ManagerShape
<1>2. StartReconnection(m) = IF m.on THEN m ELSE ScheduleNextAttempt(n)
  BY DEF StartReconnection
<1> HIDE DEF n
<1> QED BY <1>1, <1>2, Scheduled

LEMMA StoppedManager ==
    ASSUME NEW m \in ManagerShape
    PROVE  /\ StopReconnection(m) \in ManagerShape
           /\ AttemptSucceeded(m) \in ManagerShape
           /\ AttemptSucceeded(m).timer = m.timer /\ AttemptSucceeded(m).stray = m.stray
           /\ ~AttemptSucceeded(m).on /\ ~StopReconnection(m).on
           /\ StopReconnection(m).stray = m.stray
           /\ ~m.on => StopReconnection(m) = m
           /\ m.on => ~StopReconnection(m).timer
BY DEF StopReconnection, AttemptSucceeded, ManagerShape

LEMMA FailedManager ==
    ASSUME NEW m \in ManagerShape
    PROVE  /\ AttemptFailed(m) \in ManagerShape
           /\ ~GivesUp(m) => AttemptFailed(m) = ScheduleNextAttempt(m)
<1>1. [m EXCEPT !.on = FALSE] \in ManagerShape
  BY DEF ManagerShape
<1> QED BY <1>1, Scheduled DEF AttemptFailed

LEMMA IdleShape == Idle \in ManagerShape
BY DEF Idle, ManagerShape

LEMMA OrphanedCalls ==
    ASSUME NEW cs \in [Slots -> CallShape]
    PROVE  /\ Orphaned(cs) \in [Slots -> CallShape]
           /\ \A s \in Slots : /\ Orphaned(cs)[s].stage = cs[s].stage
                               /\ Orphaned(cs)[s].owner # "client"
                               /\ Orphaned(cs)[s].owner \in {cs[s].owner, "none"}
BY DEF Orphaned, CallShape, Managers

(* The managers ms and the calls cs after an attempt of owner o failed.     *)
LEMMA FailedOwner ==
    ASSUME NEW o \in Managers \cup {"none"}, NEW ms \in [Managers -> ManagerShape],
           NEW cs \in [Slots -> CallShape], OwnerFails(o, ms, cs), wrapper # "hung"
    PROVE  /\ manager' \in [Managers -> ManagerShape] /\ call' \in [Slots -> CallShape]
           /\ wrapper' # "hung"
           /\ \A p \in Managers \ {o} : manager'[p] = ms[p]
           /\ \A s \in Slots : /\ call'[s].stage = cs[s].stage
                               /\ call'[s].owner \in {cs[s].owner, "none"}
           /\ o = "client" => \/ /\ manager'["client"] = Idle
                                 /\ \A s \in Slots : call'[s].owner # "client"
                              \/ /\ manager'["client"] = ScheduleNextAttempt(ms["client"])
                                 /\ call' = cs
           /\ o # "client" => call' = cs
<1> DEFINE last == o # "none" /\ GivesUp(ms[o])
<1>1. wrapper' # "hung"
  BY DEF OwnerFails
<1>2. CASE o = "none"
  BY <1>1, <1>2 DEF OwnerFails
<1>3. CASE o = "client"
  <2>1. "client" \in Managers /\ ms["client"] \in ManagerShape
    BY DEF Managers
  <2>2. CASE GivesUp(ms["client"])
    <3>1. manager' = [ms EXCEPT !["client"] = Idle] /\ call' = Orphaned(cs)
      BY <1>3, <2>2 DEF OwnerFails
    <3> QED BY <1>1, <1>3, <2>1, <3>1, OrphanedCalls, IdleShape
  <2>3. CASE ~GivesUp(ms["client"])
    <3>1. manager' = [ms EXCEPT !["client"] = AttemptFailed(ms["client"])] /\ call' = cs
      BY <1>3, <2>3 DEF OwnerFails
    <3> QED BY <1>1, <1>3, <2>1, <2>3, <3>1, FailedManager
  <2> QED BY <2>2, <2>3
<1>4. CASE o = "cli"
  <2>1. "cli" \in Managers /\ ms["cli"] \in ManagerShape
    BY DEF Managers
  <2>2. manager' = [ms EXCEPT !["cli"] = AttemptFailed(ms["cli"])] /\ call' = cs
    BY <1>4 DEF OwnerFails
  <2> QED BY <1>1, <1>4, <2>1, <2>2, FailedManager
<1> QED BY <1>2, <1>3, <1>4 DEF Managers

(* The managers after a socket that closed.                                 *)
LEMMA ReconnectingManagers ==
    ASSUME NEW unexpected \in BOOLEAN, manager \in [Managers -> ManagerShape]
    PROVE  LET ms == Reconnecting(manager, unexpected)
           IN  /\ ms \in [Managers -> ManagerShape]
               /\ ~headless => ms["cli"] = manager["cli"]
               /\ ms["client"] = IF unexpected THEN StartReconnection(manager["client"])
                                 ELSE manager["client"]
<1> DEFINE ms == Reconnecting(manager, unexpected)
<1>1. \A o \in Managers : ms[o] = IF (o = "cli" /\ headless /\ wrapper = "up")
                                       \/ (o = "client" /\ unexpected)
                                  THEN StartReconnection(manager[o]) ELSE manager[o]
  BY DEF Reconnecting
<1>2. ms = [o \in Managers |-> ms[o]]
  BY DEF Reconnecting
<1> HIDE DEF ms
<1>3. \A o \in Managers : ms[o] \in ManagerShape
  BY <1>1, StartedManager
<1>4. ms \in [Managers -> ManagerShape]
  BY <1>2, <1>3
<1>5. ms["cli"] = IF headless /\ wrapper = "up" THEN StartReconnection(manager["cli"])
                  ELSE manager["cli"]
  BY <1>1 DEF Managers
<1>6. ms["client"] = IF unexpected THEN StartReconnection(manager["client"])
                     ELSE manager["client"]
  BY <1>1 DEF Managers
<1> QED BY <1>4, <1>5, <1>6 DEF ms

LEMMA TimersGone ==
    ASSUME NEW m \in ManagerShape, NEW n \in TimerGone(m)
    PROVE  /\ n \in ManagerShape /\ n.on = m.on
           /\ m.stray = 0 => m.timer /\ ~n.timer /\ n.stray = 0
<1> DEFINE k == IF m.stray = 0 THEN 0 ELSE m.stray - 1
<1>1. k \in Nat
  BY DEF ManagerShape
<1>2. n # m /\ (n = [m EXCEPT !.timer = FALSE] \/ n = [m EXCEPT !.stray = k])
  BY DEF TimerGone
<1>3. CASE n = [m EXCEPT !.timer = FALSE]
  <2>1. m.timer
    BY <1>2, <1>3 DEF ManagerShape
  <2> QED BY <1>3, <2>1 DEF ManagerShape
<1>4. CASE n = [m EXCEPT !.stray = k]
  <2>1. m.stray # 0
    BY <1>2, <1>4 DEF ManagerShape
  <2> HIDE DEF k
  <2> QED BY <1>1, <1>4, <2>1 DEF ManagerShape
<1> QED BY <1>2, <1>3, <1>4

(* With one manager: the one slot in use, and what the manager then does.   *)
LEMMA LastSlot ==
    ASSUME AgentTyped, CallsMatch, OneManager, OneSocket, NEW s \in Slots, InUse(s)
    PROVE  /\ \A t \in Slots \ {s} : ~InUse(t)
           /\ ~manager["client"].timer
           /\ manager["client"].on <=> call[s].owner = "client"
           /\ call[s].owner \in {"client", "none"}
<1>1. \A t \in Slots \ {s} : ~InUse(t)
  BY DEF OneSocket
<1>2. \A t \in Slots \ {s} : call[t].owner = "none"
  BY <1>1 DEF InUse, CallsMatch
<1>3. call[s].owner \in {"client", "none"}
  BY DEF AgentTyped, CallShape, Managers, OneManager
<1> QED BY <1>1, <1>2, <1>3 DEF OneManager

(* No slot is in use any more.                                              *)
LEMMA SlotFreed ==
    ASSUME manager'["cli"] = Idle, manager'["client"].stray = 0,
           manager'["client"].on <=> manager'["client"].timer,
           \A t \in Slots : call'[t].stage = "none" /\ agentSock'[t] = "closed",
           \A t \in Slots : call'[t].stage = "none" => call'[t].owner = "none",
           wrapper' # "hung"
    PROVE  OneManager' /\ OneSocket'
<1>1. \A t \in Slots : ~InUse(t)'
  BY DEF InUse
<1>2. OneManager'
  BY <1>1 DEF OneManager, InUse
<1>3. OneSocket'
  BY <1>1 DEF OneSocket, InUse
<1> QED BY <1>2, <1>3

LEMMA TimerOfIdleKeeps ==
    ASSUME AgentInv, NEW o \in Managers, TimerOfIdle(o), UNCHANGED headless
    PROVE  AgentInv'
<1>1. /\ manager[o] \in ManagerShape /\ ~manager[o].on /\ manager \in [Managers -> ManagerShape]
      /\ UNCHANGED <<ws, agentSock, call, announced, timedOut, wrapper>>
  BY DEF TimerOfIdle, AgentInv, AgentTyped
<1>2. PICK m \in TimerGone(manager[o]) : manager' = [manager EXCEPT ![o] = m]
  BY DEF TimerOfIdle
<1>3. m \in ManagerShape /\ (manager[o].stray = 0 => manager[o].timer)
  BY <1>1, TimersGone
<1>4. AgentTyped'
  BY <1>1, <1>2, <1>3 DEF AgentInv, AgentTyped
<1>5. CallsMatch' /\ NewestAnnounced'
  BY <1>1 DEF AgentInv, CallsMatch, NewestAnnounced
<1>6. timedOut \/ headless
  BY <1>1, <1>3 DEF AgentInv, InteractiveAlone, OneManager, Managers, Idle
<1> QED BY <1>1, <1>4, <1>5, <1>6 DEF AgentInv, InteractiveAlone

LEMMA AttemptKeeps ==
    ASSUME AgentInv, NEW o \in Managers, Attempt(o), UNCHANGED headless, wrapper # "hung"
    PROVE  AgentInv'
<1>1. /\ manager \in [Managers -> ManagerShape] /\ manager[o] \in ManagerShape /\ manager[o].on
      /\ call \in [Slots -> CallShape]
      /\ UNCHANGED <<ws, agentSock, announced, timedOut>>
  BY DEF Attempt, AgentInv, AgentTyped
<1>2. PICK m \in TimerGone(manager[o]) :
         LET tried == [manager EXCEPT ![o] = [m EXCEPT !.attempts = @ + 1]] IN
         \/ /\ manager' = [tried EXCEPT ![o] = AttemptSucceeded(@)]
            /\ UNCHANGED <<call, wrapper>>
         \/ OwnerFails(o, tried, call)
         \/ /\ \E s \in Slots :
                  /\ call[s] = NoCall /\ agentSock[s] = "closed"
                  /\ call' = [call EXCEPT ![s] = [stage |-> "token", owner |-> o]]
            /\ manager' = tried
            /\ UNCHANGED wrapper
  BY DEF Attempt
<1> DEFINE n == [m EXCEPT !.attempts = m.attempts + 1]
           tried == [manager EXCEPT ![o] = n]
<1>3. /\ m \in ManagerShape /\ m.on
      /\ manager[o].stray = 0 => manager[o].timer /\ ~m.timer /\ m.stray = 0
  BY <1>1, TimersGone
<1>4. n \in ManagerShape /\ n.on /\ n.timer = m.timer /\ n.stray = m.stray
  BY <1>3 DEF ManagerShape
<1>5. \/ /\ manager' = [tried EXCEPT ![o] = AttemptSucceeded(tried[o])]
         /\ UNCHANGED <<call, wrapper>>
      \/ OwnerFails(o, tried, call)
      \/ /\ \E s \in Slots :
               /\ call[s] = NoCall /\ agentSock[s] = "closed"
               /\ call' = [call EXCEPT ![s] = [stage |-> "token", owner |-> o]]
         /\ manager' = tried
         /\ UNCHANGED wrapper
  BY <1>1, <1>2
<1> HIDE DEF n
<1>6. /\ tried \in [Managers -> ManagerShape] /\ tried[o] = n
      /\ \A p \in Managers \ {o} : tried[p] = manager[p]
  BY <1>1, <1>4
<1> HIDE DEF tried
(* Alone, it is the client's manager, whose timer was the only thing to     *)
(* happen.                                                                  *)
<1>7. ASSUME ~timedOut, ~headless
      PROVE  /\ o = "client" /\ OneManager /\ OneSocket /\ \A s \in Slots : ~InUse(s)
             /\ ~n.timer /\ n.stray = 0
  <2>1. OneManager /\ OneSocket
    BY <1>7 DEF AgentInv, InteractiveAlone
  <2>2. o = "client"
    BY <1>1, <2>1 DEF OneManager, Managers, Idle
  <2> QED BY <1>3, <1>4, <2>1, <2>2 DEF OneManager
<1>8. CASE manager' = [tried EXCEPT ![o] = AttemptSucceeded(tried[o])] /\ UNCHANGED <<call, wrapper>>
  <2>1. /\ manager' \in [Managers -> ManagerShape] /\ manager'[o] = AttemptSucceeded(n)
        /\ \A p \in Managers \ {o} : manager'[p] = manager[p]
    BY <1>4, <1>6, <1>8, StoppedManager
  <2>2. AgentTyped' /\ CallsMatch' /\ NewestAnnounced'
    BY <1>1, <1>8, <2>1 DEF AgentInv, AgentTyped, CallsMatch, NewestAnnounced
  <2>3. ASSUME ~timedOut, ~headless PROVE OneManager' /\ OneSocket'
    <3>1. ~manager'["client"].on /\ ~manager'["client"].timer /\ manager'["client"].stray = 0
      BY <1>4, <1>7, <2>1, <2>3, StoppedManager
    <3>2. manager'["cli"] = Idle
      BY <1>7, <2>1, <2>3 DEF OneManager, Managers
    <3> QED BY <1>1, <1>7, <1>8, <2>3, <3>1, <3>2, SlotFreed DEF InUse, AgentInv, CallsMatch, OneSocket
  <2> QED BY <1>1, <2>2, <2>3 DEF AgentInv, InteractiveAlone
<1>9. CASE OwnerFails(o, tried, call)
  <2>1. /\ manager' \in [Managers -> ManagerShape] /\ call' \in [Slots -> CallShape]
        /\ wrapper' # "hung"
        /\ \A p \in Managers \ {o} : manager'[p] = manager[p]
        /\ \A s \in Slots : /\ call'[s].stage = call[s].stage
                            /\ call'[s].owner \in {call[s].owner, "none"}
        /\ o = "client" => \/ manager'["client"] = Idle
                           \/ manager'["client"] = ScheduleNextAttempt(n)
    BY <1>1, <1>6, <1>9, FailedOwner DEF Managers
  <2>2. AgentTyped' /\ CallsMatch' /\ NewestAnnounced'
    BY <1>1, <2>1 DEF AgentInv, AgentTyped, CallsMatch, NewestAnnounced
  <2>3. ASSUME ~timedOut, ~headless PROVE OneManager' /\ OneSocket'
    <3>1. /\ manager'["client"].on <=> manager'["client"].timer
          /\ manager'["client"].stray = 0
      BY <1>4, <1>7, <2>1, <2>3, Scheduled DEF Idle
    <3>2. manager'["cli"] = Idle
      BY <1>7, <2>1, <2>3 DEF OneManager, Managers
    <3>3. \A t \in Slots : call'[t].stage = "none" /\ agentSock'[t] = "closed"
      BY <1>1, <1>7, <2>1, <2>3 DEF InUse
    <3>4. \A t \in Slots : call'[t].stage = "none" => call'[t].owner = "none"
      BY <2>2 DEF CallsMatch
    <3> QED BY <2>1, <3>1, <3>2, <3>3, <3>4, SlotFreed
  <2> QED BY <1>1, <2>2, <2>3 DEF AgentInv, InteractiveAlone
<1>10. ASSUME NEW s \in Slots, call[s] = NoCall, agentSock[s] = "closed",
              call' = [call EXCEPT ![s] = [stage |-> "token", owner |-> o]],
              manager' = tried, UNCHANGED wrapper
       PROVE  AgentInv'
  <2>1. /\ call' \in [Slots -> CallShape] /\ call'[s].stage = "token" /\ call'[s].owner = o
        /\ \A t \in Slots \ {s} : call'[t] = call[t]
    BY <1>1, <1>10 DEF CallShape
  <2>2. AgentTyped' /\ CallsMatch' /\ NewestAnnounced'
    BY <1>1, <1>6, <1>10, <2>1 DEF AgentInv, AgentTyped, CallsMatch, NewestAnnounced, NoCall
  <2>3. ASSUME ~timedOut, ~headless PROVE OneManager' /\ OneSocket'
    <3>1. \A t \in Slots \ {s} : ~InUse(t)' /\ call'[t].owner = "none"
      BY <1>1, <1>7, <2>1, <2>3 DEF InUse, AgentInv, CallsMatch
    <3>2. manager'["cli"] = Idle /\ manager'["client"] = n
      BY <1>6, <1>7, <1>10, <2>3 DEF OneManager, Managers
    <3>3. OneManager'
      BY <1>4, <1>7, <2>1, <2>3, <3>1, <3>2 DEF OneManager
    <3>4. OneSocket'
      BY <1>1, <1>7, <1>10, <2>3, <3>1 DEF OneSocket, InUse
    <3> QED BY <3>3, <3>4
  <2> QED BY <1>1, <2>2, <2>3 DEF AgentInv, InteractiveAlone
<1> QED BY <1>5, <1>8, <1>9, <1>10

(* One slot is in use, with or without a call of the manager.               *)
LEMMA SlotKept ==
    ASSUME NEW s \in Slots, InUse(s)', wrapper' # "hung",
           \A t \in Slots \ {s} : /\ call'[t].stage = "none" /\ call'[t].owner = "none"
                                  /\ agentSock'[t] = "closed",
           agentSock'[s] = "connecting" => ws' = s,
           manager'["cli"] = Idle, manager'["client"].stray = 0, ~manager'["client"].timer,
           manager'["client"].on <=> call'[s].owner = "client",
           call'[s].owner # "cli"
    PROVE  OneManager' /\ OneSocket'
<1>1. \A t \in Slots \ {s} : ~InUse(t)'
  BY DEF InUse
<1>2. OneManager'
  BY <1>1 DEF OneManager
<1>3. OneSocket'
  BY <1>1 DEF OneSocket
<1> QED BY <1>2, <1>3

LEMMA TokenFailsKeeps ==
    ASSUME AgentInv, NEW s \in Slots, TokenFails(s), UNCHANGED headless, wrapper # "hung"
    PROVE  AgentInv'
<1> DEFINE o == call[s].owner
           cs == [call EXCEPT ![s] = NoCall]
<1>1. /\ manager \in [Managers -> ManagerShape] /\ call \in [Slots -> CallShape]
      /\ o \in Managers \cup {"none"} /\ call[s].stage = "token" /\ agentSock[s] = "closed"
      /\ OwnerFails(o, manager, cs)
      /\ UNCHANGED <<ws, agentSock, announced, timedOut>>
  BY DEF TokenFails, AgentInv, AgentTyped, CallsMatch, CallShape
<1>2. /\ cs \in [Slots -> CallShape] /\ cs[s].stage = "none" /\ cs[s].owner = "none"
      /\ \A t \in Slots \ {s} : cs[t] = call[t]
  BY <1>1 DEF NoCall, CallShape
<1> HIDE DEF cs
<1>3. /\ manager' \in [Managers -> ManagerShape] /\ call' \in [Slots -> CallShape]
      /\ wrapper' # "hung"
      /\ \A p \in Managers \ {o} : manager'[p] = manager[p]
      /\ \A t \in Slots : /\ call'[t].stage = cs[t].stage
                          /\ call'[t].owner \in {cs[t].owner, "none"}
      /\ o = "client" => \/ manager'["client"] = Idle
                         \/ manager'["client"] = ScheduleNextAttempt(manager["client"])
  BY <1>1, <1>2, FailedOwner
<1>4. AgentTyped' /\ NewestAnnounced'
  BY <1>1, <1>3 DEF AgentInv, AgentTyped, NewestAnnounced
<1>5. CallsMatch'
  <2>1. \A t \in Slots : call'[t].stage = "none" => call'[t].owner = "none"
    BY <1>2, <1>3 DEF AgentInv, CallsMatch
  <2>2. \A t \in Slots : t # s => call'[t].stage = call[t].stage
    BY <1>2, <1>3
  <2>3. call'[s].stage = "none"
    BY <1>2, <1>3
  <2> QED BY <1>1, <2>1, <2>2, <2>3 DEF AgentInv, CallsMatch
<1>6. ASSUME ~timedOut, ~headless PROVE OneManager' /\ OneSocket'
  <2>1. OneManager /\ OneSocket /\ InUse(s)
    BY <1>1, <1>6 DEF AgentInv, InteractiveAlone, InUse
  <2>2. /\ \A t \in Slots \ {s} : ~InUse(t)
        /\ ~manager["client"].timer /\ (manager["client"].on <=> o = "client")
        /\ o \in {"client", "none"}
    BY <2>1, LastSlot DEF AgentInv
  <2>3. manager'["cli"] = Idle
    BY <1>3, <2>1, <2>2 DEF OneManager, Managers
  <2>4. /\ manager'["client"].on <=> manager'["client"].timer
        /\ manager'["client"].stray = 0
    <3>1. manager["client"] \in ManagerShape /\ manager["client"].stray = 0
      BY <1>1, <2>1 DEF OneManager, Managers
    <3>2. CASE o = "client"
      BY <1>3, <2>2, <3>1, <3>2, Scheduled DEF Idle
    <3>3. CASE o = "none"
      BY <1>3, <2>2, <3>1, <3>3 DEF Managers
    <3> QED BY <2>2, <3>2, <3>3
  <2>5. \A t \in Slots : call'[t].stage = "none" /\ agentSock'[t] = "closed"
    BY <1>1, <1>2, <1>3, <2>2 DEF InUse
  <2>6. \A t \in Slots : call'[t].stage = "none" => call'[t].owner = "none"
    BY <1>5 DEF CallsMatch
  <2> QED BY <1>3, <2>3, <2>4, <2>5, <2>6, SlotFreed
<1> QED BY <1>1, <1>4, <1>5, <1>6 DEF AgentInv, InteractiveAlone

LEMMA CreateSocketKeeps ==
    ASSUME AgentInv, NEW s \in Slots, CreateSocket(s), UNCHANGED headless, wrapper # "hung"
    PROVE  AgentInv'
<1>1. /\ call \in [Slots -> CallShape] /\ agentSock \in [Slots -> AgentStates]
      /\ call[s].stage = "token" /\ agentSock[s] = "closed" /\ ws' = s
      /\ UNCHANGED <<manager, timedOut, wrapper>>
  BY DEF CreateSocket, AgentInv, AgentTyped, CallsMatch
<1>2. /\ call' \in [Slots -> CallShape] /\ call'[s].stage = "opening"
      /\ call'[s].owner = call[s].owner
      /\ \A t \in Slots \ {s} : call'[t] = call[t]
  BY <1>1 DEF CreateSocket, CallShape
<1>3. /\ agentSock' \in [Slots -> AgentStates] /\ agentSock'[s] = "connecting"
      /\ \A t \in Slots \ {s} : agentSock'[t] = agentSock[t]
  BY <1>1 DEF CreateSocket, AgentStates
<1>4. AgentTyped' /\ NewestAnnounced'
  BY <1>1, <1>2, <1>3 DEF AgentInv, AgentTyped, NewestAnnounced
<1>5. CallsMatch'
  BY <1>1, <1>2, <1>3 DEF AgentInv, CallsMatch
<1>6. ASSUME ~timedOut, ~headless PROVE OneManager' /\ OneSocket'
  <2>1. OneManager /\ OneSocket /\ InUse(s)
    BY <1>1, <1>6 DEF AgentInv, InteractiveAlone, InUse
  <2>2. /\ \A t \in Slots \ {s} : ~InUse(t)
        /\ ~manager["client"].timer /\ (manager["client"].on <=> call[s].owner = "client")
        /\ call[s].owner \in {"client", "none"}
    BY <2>1, LastSlot DEF AgentInv
  <2>3. \A t \in Slots \ {s} : /\ call'[t].stage = "none" /\ call'[t].owner = "none"
                               /\ agentSock'[t] = "closed"
    BY <1>2, <1>3, <2>2 DEF InUse, AgentInv, CallsMatch
  <2>4. InUse(s)'
    BY <1>2 DEF InUse
  <2> QED BY <1>1, <1>2, <2>1, <2>2, <2>3, <2>4, SlotKept DEF OneManager, OneSocket
<1> QED BY <1>1, <1>4, <1>5, <1>6 DEF AgentInv, InteractiveAlone

LEMMA CallTimesOutKeeps ==
    ASSUME AgentInv, NEW s \in Slots, CallTimesOut(s), UNCHANGED headless, wrapper # "hung"
    PROVE  AgentInv'
<1> DEFINE o == call[s].owner
           cs == [call EXCEPT ![s] = NoCall]
<1>1. /\ manager \in [Managers -> ManagerShape] /\ call \in [Slots -> CallShape]
      /\ o \in Managers \cup {"none"} /\ call[s].stage = "opening"
      /\ OwnerFails(o, manager, cs) /\ timedOut' = TRUE
      /\ UNCHANGED <<ws, agentSock>>
  BY DEF CallTimesOut, AgentInv, AgentTyped, CallShape
<1>2. /\ cs \in [Slots -> CallShape] /\ cs[s].stage = "none" /\ cs[s].owner = "none"
      /\ \A t \in Slots \ {s} : cs[t] = call[t]
  BY <1>1 DEF NoCall, CallShape
<1> HIDE DEF cs
<1>3. /\ manager' \in [Managers -> ManagerShape] /\ call' \in [Slots -> CallShape]
      /\ wrapper' # "hung"
      /\ \A t \in Slots : /\ call'[t].stage = cs[t].stage
                          /\ call'[t].owner \in {cs[t].owner, "none"}
  BY <1>1, <1>2, FailedOwner
<1>4. AgentTyped' /\ NewestAnnounced' /\ InteractiveAlone'
  BY <1>1, <1>3 DEF AgentInv, AgentTyped, NewestAnnounced, InteractiveAlone
<1>5. CallsMatch'
  BY <1>1, <1>2, <1>3 DEF AgentInv, CallsMatch
<1> QED BY <1>4, <1>5 DEF AgentInv

LEMMA OpenedInTimeKeeps ==
    ASSUME AgentInv, NEW s \in Slots, OpenedInTime(s), UNCHANGED headless, wrapper # "hung"
    PROVE  AgentInv'
<1> DEFINE o == call[s].owner
           cs == [call EXCEPT ![s] = NoCall]
<1>1. /\ manager \in [Managers -> ManagerShape] /\ call \in [Slots -> CallShape]
      /\ agentSock \in [Slots -> AgentStates] /\ ws \in Slots \cup {NoSocket}
      /\ o \in Managers \cup {"none"} /\ call[s].stage = "opening"
      /\ agentSock[s] = "connecting" /\ UNCHANGED <<ws, timedOut>>
  BY DEF OpenedInTime, AgentInv, AgentTyped, CallShape
<1>2. /\ cs \in [Slots -> CallShape] /\ cs[s].stage = "none" /\ cs[s].owner = "none"
      /\ \A t \in Slots \ {s} : cs[t] = call[t]
  BY <1>1 DEF NoCall, CallShape
<1>3. /\ agentSock' \in [Slots -> AgentStates] /\ agentSock'[s] = "open"
      /\ \A t \in Slots \ {s} : agentSock'[t] = agentSock[t]
  BY <1>1 DEF OpenedInTime, AgentStates
<1>4. \/ /\ ws # NoSocket /\ agentSock'[ws] = "connecting" /\ OwnerFails(o, manager, cs)
         /\ UNCHANGED announced
      \/ /\ ws = NoSocket /\ wrapper' = "hung" /\ UNCHANGED <<call, manager, announced>>
      \/ /\ ws # NoSocket
         /\ agentSock'[ws] = "open" => ws \in announced'
         /\ manager' = [p \in Managers |-> IF p = o
                                           THEN AttemptSucceeded(StopReconnection(manager[p]))
                                           ELSE StopReconnection(manager[p])]
         /\ call' = cs /\ UNCHANGED wrapper
  BY <1>1 DEF OpenedInTime, Sent
<1> HIDE DEF cs
<1>5. ASSUME ~timedOut, ~headless
      PROVE  /\ OneManager /\ OneSocket /\ ws = s /\ \A t \in Slots \ {s} : ~InUse(t)
             /\ ~manager["client"].timer /\ (manager["client"].on <=> o = "client")
             /\ o \in {"client", "none"}
  <2>1. OneManager /\ OneSocket /\ InUse(s)
    BY <1>1, <1>5 DEF AgentInv, InteractiveAlone, InUse
  <2> QED BY <1>1, <2>1, LastSlot DEF AgentInv, OneSocket
<1>6. CASE /\ ws # NoSocket /\ agentSock'[ws] = "connecting" /\ OwnerFails(o, manager, cs)
           /\ UNCHANGED announced
  <2>1. /\ manager' \in [Managers -> ManagerShape] /\ call' \in [Slots -> CallShape]
        /\ wrapper' # "hung"
        /\ \A t \in Slots : /\ call'[t].stage = cs[t].stage
                            /\ call'[t].owner \in {cs[t].owner, "none"}
    BY <1>1, <1>2, <1>6, FailedOwner
  <2>2. AgentTyped' /\ NewestAnnounced'
    BY <1>1, <1>3, <1>6, <2>1 DEF AgentInv, AgentTyped, NewestAnnounced
  <2>3. CallsMatch'
    BY <1>1, <1>2, <1>3, <2>1 DEF AgentInv, CallsMatch
  <2>4. timedOut \/ headless
    BY <1>3, <1>5, <1>6
  <2> QED BY <1>1, <2>2, <2>3, <2>4 DEF AgentInv, InteractiveAlone
<1>7. CASE ws = NoSocket /\ wrapper' = "hung" /\ UNCHANGED <<call, manager, announced>>
  <2>1. AgentTyped' /\ NewestAnnounced'
    BY <1>1, <1>3, <1>7 DEF AgentInv, AgentTyped, NewestAnnounced
  <2>2. CallsMatch'
    BY <1>1, <1>3, <1>7 DEF AgentInv, CallsMatch
  <2>3. timedOut \/ headless
    BY <1>5, <1>7 DEF Slots, NoSocket
  <2> QED BY <1>1, <2>1, <2>2, <2>3 DEF AgentInv, InteractiveAlone
<1>8. CASE /\ ws # NoSocket
           /\ agentSock'[ws] = "open" => ws \in announced'
           /\ manager' = [p \in Managers |-> IF p = o
                                             THEN AttemptSucceeded(StopReconnection(manager[p]))
                                             ELSE StopReconnection(manager[p])]
           /\ call' = cs /\ UNCHANGED wrapper
  <2>1. \A p \in Managers :
           /\ manager'[p] = IF p = o THEN AttemptSucceeded(StopReconnection(manager[p]))
                            ELSE StopReconnection(manager[p])
           /\ manager'[p] \in ManagerShape
    BY <1>1, <1>8, StoppedManager
  <2>2. manager' \in [Managers -> ManagerShape]
    BY <1>8, <2>1
  <2>3. AgentTyped' /\ NewestAnnounced'
    BY <1>1, <1>2, <1>3, <1>8, <2>2 DEF AgentInv, AgentTyped, NewestAnnounced
  <2>4. CallsMatch'
    BY <1>1, <1>2, <1>3, <1>8 DEF AgentInv, CallsMatch
  <2>5. ASSUME ~timedOut, ~headless PROVE OneManager' /\ OneSocket'
    <3>1. manager'["cli"] = Idle
      <4>1. "cli" \in Managers /\ "cli" # o /\ manager["cli"] = Idle
        BY <1>5, <2>5 DEF OneManager, Managers
      <4>2. manager'["cli"] = StopReconnection(Idle)
        BY <2>1, <4>1
      <4> QED BY <4>2 DEF StopReconnection, Idle
    <3>2. /\ ~manager'["client"].on /\ ~manager'["client"].timer
          /\ manager'["client"].stray = 0
      <4>1. manager["client"] \in ManagerShape /\ "client" \in Managers
        BY <1>1 DEF Managers
      <4>2. CASE o = "client"
        BY <1>5, <2>1, <2>5, <4>1, <4>2, StoppedManager DEF OneManager
      <4>3. CASE o = "none"
        BY <1>5, <2>1, <2>5, <4>1, <4>3, StoppedManager DEF OneManager
      <4> QED BY <1>5, <2>5, <4>2, <4>3
    <3>3. \A t \in Slots \ {s} : /\ call'[t].stage = "none" /\ call'[t].owner = "none"
                                 /\ agentSock'[t] = "closed"
      BY <1>2, <1>3, <1>5, <1>8, <2>5 DEF InUse, AgentInv, CallsMatch
    <3>4. InUse(s)' /\ call'[s].owner = "none"
      BY <1>2, <1>3, <1>8 DEF InUse
    <3> QED BY <1>1, <1>5, <1>8, <2>5, <3>1, <3>2, <3>3, <3>4, SlotKept
  <2> QED BY <1>1, <2>3, <2>4, <2>5 DEF AgentInv, InteractiveAlone
<1> QED BY <1>4, <1>6, <1>7, <1>8

LEMMA OpenedLateKeeps ==
    ASSUME AgentInv, NEW s \in Slots, OpenedLate(s), UNCHANGED headless
    PROVE  AgentInv'
<1>1. /\ agentSock \in [Slots -> AgentStates] /\ agentSock[s] = "connecting"
      /\ call[s].stage = "none"
      /\ UNCHANGED <<ws, call, manager, announced, timedOut, wrapper>>
  BY DEF OpenedLate, AgentInv, AgentTyped, NoCall
<1>2. timedOut
  BY <1>1 DEF AgentInv, CallsMatch
<1>3. /\ agentSock' \in [Slots -> AgentStates] /\ agentSock'[s] = "open"
      /\ \A t \in Slots \ {s} : agentSock'[t] = agentSock[t]
  BY <1>1 DEF OpenedLate, AgentStates
<1>4. AgentTyped' /\ CallsMatch'
  BY <1>1, <1>3 DEF AgentInv, AgentTyped, CallsMatch
<1> QED BY <1>1, <1>2, <1>4 DEF AgentInv, NewestAnnounced, InteractiveAlone

LEMMA SocketClosesKeeps ==
    ASSUME AgentInv, NEW s \in Slots, SocketCloses(s), UNCHANGED headless, wrapper # "hung"
    PROVE  AgentInv'
<1>1. PICK unexpected \in BOOLEAN :
         /\ agentSock[s] \in {"open", "closing", "closingNormally"}
         /\ agentSock' = [agentSock EXCEPT ![s] = "closed"]
         /\ manager' = Reconnecting(manager, unexpected)
         /\ UNCHANGED <<ws, call, announced, timedOut, wrapper>>
  BY DEF SocketCloses
<1>2. /\ manager \in [Managers -> ManagerShape] /\ call \in [Slots -> CallShape]
      /\ agentSock \in [Slots -> AgentStates]
      /\ call[s].stage = "none" /\ call[s].owner = "none"
  BY <1>1 DEF AgentInv, AgentTyped, CallsMatch, CallShape
<1>3. /\ agentSock' \in [Slots -> AgentStates] /\ agentSock'[s] = "closed"
      /\ \A t \in Slots \ {s} : agentSock'[t] = agentSock[t]
  BY <1>1, <1>2 DEF AgentStates
<1>4. /\ manager' \in [Managers -> ManagerShape]
      /\ ~headless => manager'["cli"] = manager["cli"]
      /\ manager'["client"] = IF unexpected THEN StartReconnection(manager["client"])
                              ELSE manager["client"]
  BY <1>1, <1>2, ReconnectingManagers
<1>5. AgentTyped' /\ CallsMatch'
  BY <1>1, <1>2, <1>3, <1>4 DEF AgentInv, AgentTyped, CallsMatch
<1>6. NewestAnnounced'
  BY <1>1, <1>3 DEF AgentInv, AgentTyped, NewestAnnounced
<1>7. ASSUME ~timedOut, ~headless PROVE OneManager' /\ OneSocket'
  <2>1. OneManager /\ OneSocket /\ InUse(s)
    BY <1>1, <1>7 DEF AgentInv, InteractiveAlone, InUse
  <2>2. /\ \A t \in Slots \ {s} : ~InUse(t)
        /\ ~manager["client"].timer /\ ~manager["client"].on
    BY <1>2, <2>1, LastSlot DEF AgentInv
  <2>3. manager["client"] \in ManagerShape
    BY <1>2 DEF Managers
  <2>4. /\ manager'["client"].on <=> manager'["client"].timer
        /\ manager'["client"].stray = 0
    BY <1>4, <2>1, <2>2, <2>3, StartedManager DEF OneManager
  <2>5. \A t \in Slots : call'[t].stage = "none" /\ agentSock'[t] = "closed"
    BY <1>1, <1>2, <1>3, <2>2 DEF InUse
  <2>6. \A t \in Slots : call'[t].stage = "none" => call'[t].owner = "none"
    BY <1>5 DEF CallsMatch
  <2> QED BY <1>1, <1>4, <1>7, <2>1, <2>4, <2>5, <2>6, SlotFreed DEF OneManager
<1> QED BY <1>1, <1>5, <1>6, <1>7 DEF AgentInv, InteractiveAlone

LEMMA OpenFailsKeeps ==
    ASSUME AgentInv, NEW s \in Slots, OpenFails(s), UNCHANGED headless, wrapper # "hung"
    PROVE  AgentInv'
<1> DEFINE o == call[s].owner
           cs == [call EXCEPT ![s] = NoCall]
           ms == Reconnecting(manager, TRUE)
<1>1. /\ manager \in [Managers -> ManagerShape] /\ call \in [Slots -> CallShape]
      /\ agentSock \in [Slots -> AgentStates] /\ o \in Managers \cup {"none"}
      /\ agentSock[s] \in {"connecting", "aborting"}
      /\ call[s].stage = "opening" \/ timedOut
      /\ call[s].stage # "token"
      /\ UNCHANGED <<ws, announced, timedOut>>
  BY DEF OpenFails, AgentInv, AgentTyped, CallsMatch, CallShape
<1>2. /\ cs \in [Slots -> CallShape] /\ cs[s].stage = "none" /\ cs[s].owner = "none"
      /\ \A t \in Slots \ {s} : cs[t] = call[t]
  BY <1>1 DEF NoCall, CallShape
<1>3. /\ agentSock' \in [Slots -> AgentStates] /\ agentSock'[s] = "closed"
      /\ \A t \in Slots \ {s} : agentSock'[t] = agentSock[t]
  BY <1>1 DEF OpenFails, AgentStates
<1>4. /\ ms \in [Managers -> ManagerShape]
      /\ ~headless => ms["cli"] = manager["cli"]
      /\ ms["client"] = StartReconnection(manager["client"])
  BY <1>1, ReconnectingManagers
<1>5. \/ call[s].stage = "opening" /\ OwnerFails(o, ms, cs)
      \/ call[s].stage # "opening" /\ manager' = ms /\ UNCHANGED <<call, wrapper>>
  BY DEF OpenFails
<1> HIDE DEF cs, ms
<1>6. NewestAnnounced'
  BY <1>1, <1>3 DEF AgentInv, AgentTyped, NewestAnnounced
<1>7. CASE call[s].stage # "opening" /\ manager' = ms /\ UNCHANGED <<call, wrapper>>
  <2>1. AgentTyped' /\ CallsMatch'
    BY <1>1, <1>3, <1>4, <1>7 DEF AgentInv, AgentTyped, CallsMatch
  <2>2. timedOut
    BY <1>1, <1>7
  <2> QED BY <1>1, <1>6, <2>1, <2>2 DEF AgentInv, InteractiveAlone
<1>8. CASE call[s].stage = "opening" /\ OwnerFails(o, ms, cs)
  <2>1. /\ manager' \in [Managers -> ManagerShape] /\ call' \in [Slots -> CallShape]
        /\ wrapper' # "hung"
        /\ \A p \in Managers \ {o} : manager'[p] = ms[p]
        /\ \A t \in Slots : /\ call'[t].stage = cs[t].stage
                            /\ call'[t].owner \in {cs[t].owner, "none"}
        /\ o = "client" => \/ manager'["client"] = Idle
                           \/ manager'["client"] = ScheduleNextAttempt(ms["client"])
    BY <1>1, <1>2, <1>4, <1>8, FailedOwner
  <2>2. AgentTyped' /\ CallsMatch'
    BY <1>1, <1>2, <1>3, <2>1 DEF AgentInv, AgentTyped, CallsMatch
  <2>3. ASSUME ~timedOut, ~headless PROVE OneManager' /\ OneSocket'
    <3>1. OneManager /\ OneSocket /\ InUse(s)
      BY <1>1, <2>3 DEF AgentInv, InteractiveAlone, InUse
    <3>2. /\ \A t \in Slots \ {s} : ~InUse(t)
          /\ ~manager["client"].timer /\ (manager["client"].on <=> o = "client")
          /\ o \in {"client", "none"}
      BY <3>1, LastSlot DEF AgentInv
    <3>3. manager'["cli"] = Idle
      BY <1>4, <2>1, <2>3, <3>1, <3>2 DEF OneManager, Managers
    <3>4. /\ manager'["client"].on <=> manager'["client"].timer
          /\ manager'["client"].stray = 0
      <4>1. manager["client"] \in ManagerShape /\ manager["client"].stray = 0
        BY <1>1, <3>1 DEF OneManager, Managers
      <4>2. CASE o = "client"
        <5>1. ms["client"] = manager["client"]
          BY <1>4, <3>2, <4>1, <4>2, StartedManager
        <5> QED BY <2>1, <3>2, <4>1, <4>2, <5>1, Scheduled DEF Idle
      <4>3. CASE o = "none"
        <5>1. manager'["client"] = ms["client"]
          BY <2>1, <4>3 DEF Managers
        <5> QED BY <1>4, <3>2, <4>1, <4>3, <5>1, StartedManager
      <4> QED BY <3>2, <4>2, <4>3
    <3>5. \A t \in Slots : call'[t].stage = "none" /\ agentSock'[t] = "closed"
      BY <1>2, <1>3, <2>1, <3>2 DEF InUse
    <3>6. \A t \in Slots : call'[t].stage = "none" => call'[t].owner = "none"
      BY <2>2 DEF CallsMatch
    <3> QED BY <2>1, <3>3, <3>4, <3>5, <3>6, SlotFreed
  <2> QED BY <1>1, <1>6, <2>2, <2>3 DEF AgentInv, InteractiveAlone
<1> QED BY <1>5, <1>7, <1>8

(* close() on the newest socket.                                            *)
LEMMA ClosedWs ==
    ASSUME AgentTyped, NEW how \in {"closing", "closingNormally"}
    PROVE  /\ CloseWs(how) \in [Slots -> AgentStates]
           /\ \A s \in Slots : /\ CloseWs(how)[s] = "open" => agentSock[s] = "open" /\ s # ws
                               /\ CloseWs(how)[s] = "connecting" =>
                                        agentSock[s] = "connecting" /\ s # ws
                               /\ CloseWs(how)[s] = "closed" <=> agentSock[s] = "closed"
                               /\ CloseWs(how)[s] \in {"connecting", "aborting"} <=>
                                        agentSock[s] \in {"connecting", "aborting"}
<1> DEFINE next == CASE agentSock[ws] = "open" -> how
                     [] agentSock[ws] = "connecting" -> "aborting"
                     [] OTHER -> agentSock[ws]
<1>1. agentSock \in [Slots -> AgentStates]
  BY DEF AgentTyped
<1>2. CASE ws = NoSocket
  <2>1. ws \notin Slots
    BY <1>2 DEF NoSocket, Slots
  <2> QED BY <1>1, <1>2, <2>1 DEF CloseWs
<1>3. CASE ws # NoSocket
  <2>1. ws \in Slots
    BY <1>3 DEF AgentTyped
  <2>2. CloseWs(how) = [agentSock EXCEPT ![ws] = next]
    BY <1>3 DEF CloseWs
  <2>3. /\ next \in AgentStates /\ next # "open" /\ next # "connecting"
        /\ next = "closed" <=> agentSock[ws] = "closed"
        /\ next = "aborting" <=> agentSock[ws] \in {"connecting", "aborting"}
    BY <1>1, <2>1 DEF AgentStates
  <2> HIDE DEF next
  <2> QED BY <1>1, <2>1, <2>2, <2>3
<1> QED BY <1>2, <1>3

LEMMA HeartbeatFailureKeeps ==
    ASSUME AgentInv, HeartbeatFailure, UNCHANGED headless, wrapper # "hung"
    PROVE  AgentInv'
<1>1. agentSock' = CloseWs("closing") /\ UNCHANGED <<ws, call, manager, announced, timedOut, wrapper>>
  BY DEF HeartbeatFailure
<1>2. /\ agentSock' \in [Slots -> AgentStates]
      /\ \A s \in Slots : /\ agentSock'[s] = "open" => agentSock[s] = "open"
                          /\ agentSock'[s] = "connecting" => agentSock[s] = "connecting"
                          /\ agentSock'[s] = "closed" <=> agentSock[s] = "closed"
                          /\ agentSock'[s] \in {"connecting", "aborting"} <=>
                                   agentSock[s] \in {"connecting", "aborting"}
  BY <1>1, ClosedWs DEF AgentInv
<1>3. AgentTyped' /\ CallsMatch'
  BY <1>1, <1>2 DEF AgentInv, AgentTyped, CallsMatch
<1>4. NewestAnnounced'
  BY <1>1, <1>2 DEF AgentInv, AgentTyped, NewestAnnounced
<1>5. \A s \in Slots : InUse(s)' <=> InUse(s)
  BY <1>1, <1>2 DEF InUse
<1>6. ASSUME OneManager, OneSocket PROVE OneManager' /\ OneSocket'
  <2>1. OneManager'
    BY <1>1, <1>5, <1>6 DEF OneManager
  <2>2. OneSocket'
    BY <1>1, <1>2, <1>5, <1>6 DEF OneSocket
  <2> QED BY <2>1, <2>2
<1> QED BY <1>1, <1>3, <1>4, <1>6 DEF AgentInv, InteractiveAlone

LEMMA AgentDisconnectKeeps ==
    ASSUME AgentInv, Disconnect, UNCHANGED headless
    PROVE  AgentInv'
<1>1. /\ agentSock' = CloseWs("closingNormally") /\ ws' = NoSocket
      /\ wrapper = "stopping" /\ wrapper' = "stopped"
      /\ manager' = [o \in Managers |-> IF o = "client" THEN Idle ELSE StopReconnection(manager[o])]
      /\ call' = Orphaned(call) /\ UNCHANGED <<announced, timedOut>>
  BY DEF Disconnect
<1>2. /\ agentSock' \in [Slots -> AgentStates]
      /\ \A s \in Slots : /\ agentSock'[s] = "open" => agentSock[s] = "open"
                          /\ agentSock'[s] = "connecting" => agentSock[s] = "connecting" /\ s # ws
                          /\ agentSock'[s] = "closed" <=> agentSock[s] = "closed"
                          /\ agentSock'[s] \in {"connecting", "aborting"} <=>
                                   agentSock[s] \in {"connecting", "aborting"}
  BY <1>1, ClosedWs DEF AgentInv
<1>3. /\ call' \in [Slots -> CallShape]
      /\ \A s \in Slots : /\ call'[s].stage = call[s].stage
                          /\ call'[s].owner # "client"
                          /\ call'[s].owner \in {call[s].owner, "none"}
  BY <1>1, OrphanedCalls DEF AgentInv, AgentTyped
<1>4. /\ manager' \in [Managers -> ManagerShape] /\ manager'["client"] = Idle
      /\ manager'["cli"] = StopReconnection(manager["cli"])
  <2>1. \A o \in Managers : manager'[o] \in ManagerShape
    BY <1>1, StoppedManager, IdleShape DEF AgentInv, AgentTyped
  <2> QED BY <1>1, <2>1 DEF Managers
<1>5. AgentTyped' /\ NewestAnnounced'
  BY <1>1, <1>2, <1>3, <1>4 DEF AgentInv, AgentTyped, NewestAnnounced
<1>6. CallsMatch'
  BY <1>1, <1>2, <1>3 DEF AgentInv, CallsMatch
<1>7. \A s \in Slots : InUse(s)' <=> InUse(s)
  BY <1>2, <1>3 DEF InUse
<1>8. ASSUME OneManager, OneSocket PROVE OneManager' /\ OneSocket'
  <2>1. OneManager'
    <3>1. manager'["cli"] = Idle
      BY <1>4, <1>8 DEF OneManager, StopReconnection, Idle
    <3>2. \A s \in Slots : call'[s].owner # "cli"
      BY <1>3, <1>8 DEF OneManager
    <3> QED BY <1>3, <1>4, <3>1, <3>2 DEF OneManager, Idle
  <2>2. OneSocket'
    BY <1>1, <1>2, <1>7, <1>8 DEF OneSocket
  <2> QED BY <2>1, <2>2
<1> QED BY <1>1, <1>5, <1>6, <1>8 DEF AgentInv, InteractiveAlone

LEMMA AgentUnchanged ==
    ASSUME AgentInv, wrapper # "hung", wrapper' # "hung",
           UNCHANGED <<headless, ws, agentSock, call, manager, announced, timedOut>>
    PROVE  AgentInv'
<1>1. AgentTyped' /\ CallsMatch' /\ NewestAnnounced'
  BY DEF AgentInv, AgentTyped, CallsMatch, NewestAnnounced
<1>2. \A s \in Slots : InUse(s)' <=> InUse(s)
  BY DEF InUse
<1>3. ASSUME OneManager, OneSocket PROVE OneManager' /\ OneSocket'
  BY <1>2, <1>3 DEF OneManager, OneSocket
<1> QED BY <1>1, <1>3 DEF AgentInv, InteractiveAlone

LEMMA AgentStep ==
    ASSUME AgentInv, AgentNext PROVE AgentInv'
<1>1. wrapper # "hung" /\ UNCHANGED headless
  BY DEF AgentNext
<1>2. ASSUME NEW o \in Managers, ManagerStep(o) PROVE AgentInv'
  BY <1>1, <1>2, AttemptKeeps, TimerOfIdleKeeps DEF ManagerStep
<1>3. ASSUME NEW s \in Slots, ConnectStep(s) PROVE AgentInv'
  BY <1>1, <1>3, TokenFailsKeeps, CreateSocketKeeps, CallTimesOutKeeps, OpenedInTimeKeeps,
     OpenedLateKeeps, OpenFailsKeeps DEF ConnectStep
<1>4. ASSUME NEW s \in Slots, SocketCloses(s) PROVE AgentInv'
  BY <1>1, <1>4, SocketClosesKeeps
<1>5. ASSUME NEW s \in Slots, Pong(s) PROVE AgentInv'
  BY <1>1, <1>5, AgentUnchanged DEF Pong
<1>6. CASE Heartbeat
  <2>1. CASE HeartbeatFailure
    BY <1>1, <2>1, HeartbeatFailureKeeps
  <2>2. CASE UNCHANGED <<ws, agentSock, call, manager, announced, timedOut, wrapper>>
    BY <1>1, <2>2, AgentUnchanged
  <2> QED BY <1>6, <2>1, <2>2 DEF Heartbeat
<1>7. CASE PongTimeout
  BY <1>1, <1>7, HeartbeatFailureKeeps DEF PongTimeout
<1>8. CASE Stop
  BY <1>1, <1>8, AgentUnchanged DEF Stop
<1>9. CASE Disconnect
  BY <1>1, <1>9, AgentDisconnectKeeps
<1> QED BY <1>2, <1>3, <1>4, <1>5, <1>6, <1>7, <1>8, <1>9 DEF AgentNext

LEMMA AgentStart == AgentInit => AgentInv
<1> SUFFICES ASSUME AgentInit PROVE AgentInv
  OBVIOUS
<1>1. 1 \in Slots
  BY AgentClientAssumption DEF Slots
<1>2. \A s \in Slots : call[s] = NoCall /\ agentSock[s] = IF s = 1 THEN "open" ELSE "closed"
  BY DEF AgentInit
<1>3. \A o \in Managers : manager[o] = Idle
  BY DEF AgentInit
<1>4. AgentTyped
  <2>1. call \in [Slots -> CallShape]
    BY DEF AgentInit, NoCall, CallShape
  <2>2. manager \in [Managers -> ManagerShape]
    BY IdleShape DEF AgentInit
  <2>3. agentSock \in [Slots -> AgentStates]
    BY DEF AgentInit, AgentStates
  <2> QED BY <1>1, <2>1, <2>2, <2>3 DEF AgentInit, AgentTyped
<1>5. CallsMatch
  BY <1>2 DEF CallsMatch, NoCall
<1>6. NewestAnnounced
  BY DEF NewestAnnounced, AgentInit
<1>7. OneManager
  BY <1>2, <1>3 DEF OneManager, Managers, Idle, NoCall
<1>8. OneSocket
  BY <1>2 DEF OneSocket, InUse, NoCall, AgentInit
<1> QED BY <1>4, <1>5, <1>6, <1>7, <1>8 DEF AgentInv, InteractiveAlone

(* Every step of the wrapper's connection keeps the invariant.             *)
THEOREM AgentInvariant == AgentSpec => []AgentInv
<1>1. AgentInv /\ UNCHANGED agentVars => AgentInv'
  <2> SUFFICES ASSUME AgentInv, UNCHANGED agentVars PROVE AgentInv'
    OBVIOUS
  <2> USE DEF agentVars
  <2>1. AgentTyped' /\ CallsMatch' /\ NewestAnnounced'
    BY DEF AgentInv, AgentTyped, CallsMatch, NewestAnnounced
  <2>2. \A s \in Slots : InUse(s)' <=> InUse(s)
    BY DEF InUse
  <2>3. ASSUME OneManager, OneSocket PROVE OneManager' /\ OneSocket'
    BY <2>2, <2>3 DEF OneManager, OneSocket
  <2> QED BY <2>1, <2>3 DEF AgentInv, InteractiveAlone
<1> QED BY <1>1, AgentStart, AgentStep, PTL DEF AgentSpec

(* The socket the wrapper sends over was announced to the server, and the   *)
(* interactive wrapper (websocket-client.ts with its one manager) has one   *)
(* socket at a time and never hangs in send(), unless a connect() gave a    *)
(* socket up without closing it.                                            *)
THEOREM OneSocketKnown == AgentSpec => []OneAnnouncedSocket
<1>1. AgentInv => OneAnnouncedSocket
  <2> SUFFICES ASSUME AgentInv, ~timedOut PROVE OneAnnouncedSocket
    BY DEF OneAnnouncedSocket
  <2>1. isConnected /\ ws # NoSocket /\ agentSock[ws] = "open" => ws \in announced
    BY DEF AgentInv, NewestAnnounced
  <2>2. ASSUME ~headless
        PROVE  /\ Cardinality({s \in Slots : agentSock[s] # "closed"}) <= 1
               /\ wrapper # "hung"
    <3> DEFINE used == {s \in Slots : agentSock[s] # "closed"}
    <3>1. OneSocket
      BY <2>2 DEF AgentInv, InteractiveAlone
    <3>2. \A s, t \in used : s = t
      BY <3>1 DEF OneSocket, InUse
    <3>3. Cardinality(used) <= 1
      <4>1. CASE used = {}
        BY <4>1, FS_EmptySet
      <4>2. CASE used # {}
        <5>1. PICK s : s \in used
          BY <4>2
        <5>2. used = {s}
          BY <3>2, <5>1
        <5>3. Cardinality({s}) = 1
          BY FS_Singleton
        <5> HIDE DEF used
        <5> QED BY <5>2, <5>3
      <4> QED BY <4>1, <4>2
    <3> QED BY <3>1, <3>3 DEF OneSocket
  <2> QED BY <2>1, <2>2 DEF OneAnnouncedSocket
<1> QED BY <1>1, AgentInvariant, PTL

BreakerShape == [state : {"closed", "open", "half-open"}, failures : 0..FailureThreshold]
WrapperStates == {"up", "stopping", "stopped", "hung"}

(* What the connection's invariant leaves out.                              *)
AgentRest ==
    /\ isConnected \in BOOLEAN /\ pongDue \in BOOLEAN
    /\ breaker \in BreakerShape
    /\ \A o \in Managers : manager[o].stray <= MaxStray
    /\ queued \in 0..MaxQueued /\ announced \subseteq Slots
    /\ wrapper \in WrapperStates

LEMMA BreakerMoves ==
    /\ Success \in BreakerShape
    /\ \A b \in BreakerShape : /\ Failure(b) \in BreakerShape
                               /\ [b EXCEPT !.state = "half-open"] \in BreakerShape
  <1>1. Success \in BreakerShape
    BY AgentClientAssumption DEF Success, BreakerShape
  <1>2. ASSUME NEW b \in BreakerShape
        PROVE  Failure(b) \in BreakerShape /\ [b EXCEPT !.state = "half-open"] \in BreakerShape
    <2> DEFINE n == IF b.failures < FailureThreshold THEN b.failures + 1 ELSE b.failures
               st == IF b.state = "half-open" \/ b.failures + 1 >= FailureThreshold
                     THEN "open" ELSE b.state
    <2>1. n \in 0..FailureThreshold
      BY AgentClientAssumption DEF BreakerShape
    <2>2. st \in {"closed", "open", "half-open"}
      BY DEF BreakerShape
    <2>3. Failure(b) = [failures |-> n, state |-> st]
      BY DEF Failure
    <2> HIDE DEF n, st
    <2>4. Failure(b) \in BreakerShape
      BY <2>1, <2>2, <2>3 DEF BreakerShape
    <2>5. QED  BY <2>4 DEF BreakerShape
  <1>3. QED  BY <1>1, <1>2

LEMMA BreakerStep ==
    ASSUME breaker \in BreakerShape, [AgentNext]_agentVars
    PROVE  breaker' \in BreakerShape
  <1>1. CASE UNCHANGED breaker
    BY <1>1
  <1>2. ASSUME NEW o \in Managers, ManagerStep(o) PROVE breaker' \in BreakerShape
    BY <1>1, <1>2, BreakerMoves DEF ManagerStep, Attempt, TimerOfIdle
  <1>3. ASSUME NEW s \in Slots, ConnectStep(s) PROVE breaker' \in BreakerShape
    <2>1. breaker' = breaker \/ breaker' = Failure(breaker) \/ breaker' = Failure(Failure(breaker))
          \/ breaker' = Success
      BY <1>3 DEF ConnectStep, TokenFails, CreateSocket, CallTimesOut, OpenedInTime, OpenedLate,
                  OpenFails
    <2>2. Failure(breaker) \in BreakerShape /\ Failure(Failure(breaker)) \in BreakerShape
      BY BreakerMoves
    <2>3. QED  BY <2>1, <2>2, BreakerMoves
  <1>4. ASSUME NEW s \in Slots, SocketCloses(s) \/ Pong(s) PROVE breaker' \in BreakerShape
    BY <1>4, BreakerMoves DEF SocketCloses, Pong
  <1>5. CASE Heartbeat \/ PongTimeout
    BY <1>5, BreakerMoves DEF Heartbeat, PongTimeout, HeartbeatFailure
  <1>6. CASE Stop \/ Disconnect \/ UNCHANGED agentVars
    BY <1>6 DEF Stop, Disconnect, agentVars
  <1>7. QED  BY <1>2, <1>3, <1>4, <1>5, <1>6 DEF AgentNext

LEMMA WrapperStep ==
    ASSUME wrapper \in WrapperStates, [AgentNext]_agentVars
    PROVE  wrapper' \in WrapperStates
  <1>1. CASE UNCHANGED wrapper
    BY <1>1
  <1>2. ASSUME NEW o, NEW ms, NEW cs, OwnerFails(o, ms, cs) PROVE wrapper' \in WrapperStates
    BY <1>2 DEF OwnerFails, WrapperStates
  <1>3. ASSUME NEW o \in Managers, ManagerStep(o) PROVE wrapper' \in WrapperStates
    BY <1>1, <1>2, <1>3 DEF ManagerStep, Attempt, TimerOfIdle
  <1>4. ASSUME NEW s \in Slots, ConnectStep(s) PROVE wrapper' \in WrapperStates
    BY <1>1, <1>2, <1>4 DEF ConnectStep, TokenFails, CreateSocket, CallTimesOut, OpenedInTime,
                            OpenedLate, OpenFails, WrapperStates
  <1>5. ASSUME NEW s \in Slots, SocketCloses(s) \/ Pong(s) PROVE wrapper' \in WrapperStates
    BY <1>5 DEF SocketCloses, Pong
  <1>6. CASE Heartbeat \/ PongTimeout
    BY <1>6 DEF Heartbeat, PongTimeout, HeartbeatFailure
  <1>7. CASE Stop \/ Disconnect \/ UNCHANGED agentVars
    BY <1>7 DEF Stop, Disconnect, agentVars, WrapperStates
  <1>8. QED  BY <1>3, <1>4, <1>5, <1>6, <1>7 DEF AgentNext

LEMMA QueueStep ==
    ASSUME ws \in Slots \cup {NoSocket}, queued \in 0..MaxQueued, announced \subseteq Slots,
           [AgentNext]_agentVars
    PROVE  queued' \in 0..MaxQueued /\ announced' \subseteq Slots
  <1>1. CASE UNCHANGED <<queued, announced>>
    BY <1>1
  <1>2. \A n \in 0..MaxQueued : Enqueued(n) \in 0..MaxQueued
    BY AgentClientAssumption DEF Enqueued
  <1>3. ASSUME NEW s \in Slots, OpenedInTime(s)
        PROVE  queued' \in 0..MaxQueued /\ announced' \subseteq Slots
    <2>1. \/ queued' = queued \/ queued' = 0
          \/ queued' = Enqueued(queued) \/ queued' = Enqueued(Enqueued(queued))
      BY <1>3 DEF OpenedInTime
    <2>2. Enqueued(queued) \in 0..MaxQueued
      BY <1>2
    <2>3. Enqueued(Enqueued(queued)) \in 0..MaxQueued /\ 0 \in 0..MaxQueued
      BY <1>2, <2>2, AgentClientAssumption
    <2>4. announced' = announced \/ (announced' = Sent(agentSock') /\ ws # NoSocket)
      BY <1>3 DEF OpenedInTime
    <2>5. QED  BY <2>1, <2>2, <2>3, <2>4 DEF Sent
  <1>4. ASSUME NEW s \in Slots, ConnectStep(s)
        PROVE  queued' \in 0..MaxQueued /\ announced' \subseteq Slots
    BY <1>3, <1>4 DEF ConnectStep, TokenFails, CreateSocket, CallTimesOut, OpenedLate, OpenFails
  <1>5. ASSUME NEW o \in Managers, ManagerStep(o) PROVE UNCHANGED <<queued, announced>>
    BY <1>5 DEF ManagerStep, Attempt, TimerOfIdle
  <1>6. ASSUME NEW s \in Slots, SocketCloses(s) \/ Pong(s) PROVE UNCHANGED <<queued, announced>>
    BY <1>6 DEF SocketCloses, Pong
  <1>7. CASE Heartbeat \/ PongTimeout \/ Stop \/ Disconnect \/ UNCHANGED agentVars
    BY <1>7 DEF Heartbeat, PongTimeout, HeartbeatFailure, Stop, Disconnect, agentVars
  <1>8. QED  BY <1>1, <1>4, <1>5, <1>6, <1>7 DEF AgentNext

LEMMA LinkStep ==
    ASSUME isConnected \in BOOLEAN, pongDue \in BOOLEAN, [AgentNext]_agentVars
    PROVE  isConnected' \in BOOLEAN /\ pongDue' \in BOOLEAN
  <1>1. ASSUME UNCHANGED isConnected PROVE isConnected' \in BOOLEAN
    BY <1>1
  <1>2. ASSUME UNCHANGED pongDue PROVE pongDue' \in BOOLEAN
    BY <1>2
  <1>3. ASSUME isConnected' = FALSE \/ isConnected' = TRUE PROVE isConnected' \in BOOLEAN
    BY <1>3
  <1>4. ASSUME pongDue' = FALSE \/ pongDue' = TRUE PROVE pongDue' \in BOOLEAN
    BY <1>4
  <1>5. ASSUME NEW o \in Managers, ManagerStep(o)
        PROVE  UNCHANGED isConnected /\ UNCHANGED pongDue
    BY <1>5 DEF ManagerStep, Attempt, TimerOfIdle
  <1>6. ASSUME NEW s \in Slots, ConnectStep(s) \/ SocketCloses(s) \/ Pong(s)
        PROVE  /\ UNCHANGED isConnected \/ isConnected' = FALSE \/ isConnected' = TRUE
               /\ UNCHANGED pongDue \/ pongDue' = FALSE \/ pongDue' = TRUE
    BY <1>6 DEF ConnectStep, TokenFails, CreateSocket, CallTimesOut, OpenedInTime, OpenedLate,
                OpenFails, SocketCloses, Pong
  <1>7. ASSUME Heartbeat \/ PongTimeout \/ Stop \/ Disconnect \/ UNCHANGED agentVars
        PROVE  /\ UNCHANGED isConnected \/ isConnected' = FALSE \/ isConnected' = TRUE
               /\ UNCHANGED pongDue \/ pongDue' = FALSE \/ pongDue' = TRUE
    BY <1>7 DEF Heartbeat, PongTimeout, HeartbeatFailure, Stop, Disconnect, agentVars
  <1>8. /\ UNCHANGED isConnected \/ isConnected' = FALSE \/ isConnected' = TRUE
        /\ UNCHANGED pongDue \/ pongDue' = FALSE \/ pongDue' = TRUE
    BY <1>5, <1>6, <1>7 DEF AgentNext
  <1>9. QED  BY <1>1, <1>2, <1>3, <1>4, <1>8

LEMMA AgentRestStart == AgentInit => AgentRest
  <1> SUFFICES ASSUME AgentInit PROVE AgentRest
    OBVIOUS
  <1>1. isConnected = TRUE /\ pongDue = FALSE
    BY DEF AgentInit
  <1>2. isConnected \in BOOLEAN /\ pongDue \in BOOLEAN
    BY <1>1
  <1>3. breaker \in BreakerShape
    BY AgentClientAssumption DEF AgentInit, BreakerShape
  <1>4. \A o \in Managers : manager[o].stray <= MaxStray
    BY AgentClientAssumption DEF AgentInit, Idle
  <1>5. queued \in 0..MaxQueued /\ announced \subseteq Slots /\ wrapper \in WrapperStates
    BY AgentClientAssumption DEF AgentInit, Slots, WrapperStates
  <1>6. QED  BY <1>2, <1>3, <1>4, <1>5 DEF AgentRest

LEMMA AgentRestStep == AgentInv /\ AgentRest /\ [AgentNext]_agentVars => AgentRest'
  <1> SUFFICES ASSUME AgentInv, AgentRest, [AgentNext]_agentVars PROVE AgentRest'
    OBVIOUS
  <1>1. isConnected' \in BOOLEAN /\ pongDue' \in BOOLEAN
    BY LinkStep DEF AgentRest
  <1>2. breaker' \in BreakerShape /\ wrapper' \in WrapperStates
    BY BreakerStep, WrapperStep DEF AgentRest
  <1>3. queued' \in 0..MaxQueued /\ announced' \subseteq Slots
    BY QueueStep DEF AgentRest, AgentInv, AgentTyped
  <1>4. \A o \in Managers : manager'[o].stray <= MaxStray
    BY DEF AgentNext, agentVars, AgentRest
  <1>5. QED  BY <1>1, <1>2, <1>3, <1>4 DEF AgentRest

LEMMA AgentTypesHold == AgentInv /\ AgentRest => AgentTypeOK
  <1> SUFFICES ASSUME AgentInv, AgentRest PROVE AgentTypeOK
    OBVIOUS
  <1>1. AgentTyped /\ CallsMatch
    BY DEF AgentInv
  <1>2. ASSUME NEW o \in Managers
        PROVE  /\ manager[o].on \in BOOLEAN /\ manager[o].timer \in BOOLEAN
               /\ manager[o].attempts \in Nat /\ manager[o].stray \in 0..MaxStray
    <2>1. manager[o] \in ManagerShape /\ manager[o].stray <= MaxStray
      BY <1>1 DEF AgentTyped, AgentRest
    <2>2. QED  BY <2>1, AgentClientAssumption DEF ManagerShape
  <1>3. headless \in BOOLEAN /\ timedOut \in BOOLEAN /\ ws \in Slots \cup {NoSocket}
    BY <1>1 DEF AgentTyped
  <1>4. isConnected \in BOOLEAN /\ pongDue \in BOOLEAN
    BY DEF AgentRest
  <1>5. agentSock \in [Slots -> {"connecting", "aborting", "open", "closing",
                                 "closingNormally", "closed"}]
    BY <1>1 DEF AgentTyped, AgentStates
  <1>6. call \in [Slots -> [stage : {"none", "token", "opening"}, owner : Managers \cup {"none"}]]
    BY <1>1 DEF AgentTyped, CallShape
  <1>7. \A s \in Slots : /\ call[s].stage = "token" => agentSock[s] = "closed"
                         /\ call[s].stage = "opening" /\ wrapper # "hung" =>
                               agentSock[s] \in {"connecting", "aborting"}
    BY <1>1 DEF CallsMatch
  <1>8. /\ breaker \in [state : {"closed", "open", "half-open"}, failures : 0..FailureThreshold]
        /\ queued \in 0..MaxQueued /\ announced \subseteq Slots
        /\ wrapper \in {"up", "stopping", "stopped", "hung"}
    BY DEF AgentRest, BreakerShape, WrapperStates
  <1>9. QED  BY <1>2, <1>3, <1>4, <1>5, <1>6, <1>7, <1>8 DEF AgentTypeOK

-----------------------------------------------------------------------------
(* The output of a command.                                                 *)

Bytes == {"x", "n", "h", "l", "bad"}
Chars == {"x", "n", "char", "bad"}
Torn(s) == \E i \in DOMAIN s : s[i] = "bad"

\* Where each character starts.
Starts(bytes) == Arranged(Kept(bytes), Ascending(Kept(bytes)))

CaptureTyped ==
    /\ written \in Seq(Bytes) /\ held \in Seq(Bytes) /\ pieces \in Seq(Chars)
    /\ taken \in 0..Len(written) /\ Len(written) <= MaxBytes
    /\ Len(held) <= OutputBufferSize
    /\ stream \in {"open", "ended", "closed"}
    /\ stream = "closed" => held = <<>>

(* What is held is the end of what was taken, and what was sent is the rest *)
(* of it, or a cut went through a character.                                *)
Faithful ==
    \/ Torn(pieces) \/ Torn(held)
    \/ \E k \in 0..taken : /\ held = SubSeq(written, k + 1, taken)
                           /\ pieces = Decode(SubSeq(written, 1, k))

CaptureInv == CaptureTyped /\ Faithful

-----------------------------------------------------------------------------
(* Decoding.                                                                *)

LEMMA KeptBytes ==
    ASSUME NEW b \in Seq(Bytes)
    PROVE  /\ Kept(b) \in SUBSET (1..Len(b)) /\ IsFiniteSet(Kept(b))
           /\ IsOrder(Kept(b), Ascending(Kept(b)))
           /\ \A i \in 1..Len(b) : i \notin Kept(b) <=> i > 1 /\ b[i] = "l" /\ b[i - 1] = "h"
<1>1. Len(b) \in Nat /\ DOMAIN b = 1..Len(b)
  OBVIOUS
<1>2. Kept(b) \in SUBSET (1..Len(b))
  BY <1>1 DEF Kept
<1>3. IsFiniteSet(Kept(b))
  <2>1. IsFiniteSet(1..Len(b))
    BY <1>1, FS_Interval
  <2>2. QED  BY <1>2, <2>1, FS_Subset
<1>4. IsOrder(Kept(b), Ascending(Kept(b)))
  <2>1. Kept(b) \in SUBSET Int
    BY <1>1, <1>2
  <2>2. QED  BY <2>1, AscendingIsOrder
<1>5. QED  BY <1>1, <1>2, <1>3, <1>4 DEF Kept, SecondHalf

LEMMA DecodeFacts ==
    ASSUME NEW b \in Seq(Bytes)
    PROVE  LET K == Kept(b)  n == Cardinality(K)  s == Starts(b)
           IN  /\ n \in Nat
               /\ s \in [1..n -> K]
               /\ \A i \in K : /\ Place(K, Ascending(K), i) \in 1..n
                               /\ s[Place(K, Ascending(K), i)] = i
               /\ \A k, l \in 1..n : s[k] < s[l] <=> k < l
               /\ \A k \in 1..n : Place(K, Ascending(K), s[k]) = k
               /\ Decode(b) = [k \in 1..n |-> CharAt(b, s[k])]
               /\ Decode(b) \in Seq(Chars) /\ Len(Decode(b)) = n
<1> DEFINE K == Kept(b)  n == Cardinality(K)  s == Starts(b)  after == Ascending(K)
<1>1. K \in SUBSET (1..Len(b)) /\ IsFiniteSet(K) /\ IsOrder(K, after)
  BY KeptBytes
<1>2. /\ n \in Nat /\ s \in [1..n -> K]
      /\ \A k \in 1..n : Place(K, after, s[k]) = k
      /\ \A i \in K : Place(K, after, i) \in 1..n /\ s[Place(K, after, i)] = i
      /\ \A k, l \in 1..n : s[l] \in after[s[k]] <=> k < l
  <2> HIDE DEF K, after
  <2> QED  BY <1>1, ArrangedInOrder DEF Starts, n, s, K, after
<1>3. \A k, l \in 1..n : s[k] < s[l] <=> k < l
  BY <1>2 DEF Ascending
<1>4. Decode(b) = [k \in 1..n |-> CharAt(b, s[k])]
  BY <1>2 DEF Decode, Starts
<1>5. \A i \in 1..Len(b) : CharAt(b, i) \in Chars
  BY DEF CharAt, Bytes, Chars
<1>6. Decode(b) \in [1..n -> Chars]
  <2> HIDE DEF s, n, K
  <2>1. \A k \in 1..n : s[k] \in 1..Len(b)
    BY <1>1, <1>2
  <2>2. QED  BY <1>4, <1>5, <2>1
<1>7. Decode(b) \in Seq(Chars) /\ Len(Decode(b)) = n
  <2> HIDE DEF n
  <2> QED  BY <1>2, <1>6
<1> HIDE DEF K, n, s, after
<1>8. QED  BY <1>2, <1>3, <1>4, <1>7 DEF K, n, s, after

LEMMA DecodeNothing == Decode(<<>>) = <<>>
<1>1. <<>> \in Seq(Bytes) /\ Kept(<<>>) = {}
  BY DEF Kept
<1>2. Len(Decode(<<>>)) = 0 /\ Decode(<<>>) \in Seq(Chars)
  BY <1>1, DecodeFacts, FS_EmptySet
<1>3. QED  BY <1>2

(* What runs through the starts in order is them.                           *)
LEMMA StartsAre ==
    ASSUME NEW b \in Seq(Bytes), NEW m \in Nat, NEW g \in [1..m -> Kept(b)],
           \A i \in Kept(b) : \E k \in 1..m : g[k] = i,
           \A k, l \in 1..m : k < l => g[k] < g[l]
    PROVE  Len(Decode(b)) = m /\ Decode(b) = [k \in 1..m |-> CharAt(b, g[k])]
<1>1. \A k, l \in 1..m : k < l => g[l] \in Ascending(Kept(b))[g[k]]
  BY DEF Ascending
<1>2. Cardinality(Kept(b)) = m /\ Starts(b) = g
  <2> DEFINE K == Kept(b)  after == Ascending(K)
  <2>1. IsOrder(K, after)
    BY KeptBytes
  <2> HIDE DEF K, after
  <2>2. Cardinality(K) = m /\ Arranged(K, after) = g
    BY <1>1, <2>1, OnlyArranged DEF K, after
  <2>3. QED  BY <2>2 DEF Starts, K, after
<1>3. QED  BY <1>2, DecodeFacts

(* Decoding piece by piece is decoding the whole, but where a cut goes      *)
(* through a character.                                                     *)
LEMMA DecodeJoins ==
    ASSUME NEW a \in Seq(Bytes), NEW b \in Seq(Bytes),
           ~(a # <<>> /\ a[Len(a)] = "h" /\ b # <<>> /\ b[1] = "l")
    PROVE  Decode(a \o b) = Decode(a) \o Decode(b)
<1> DEFINE c == a \o b
           sa == Starts(a)  na == Len(Decode(a))
           sb == Starts(b)  nb == Len(Decode(b))
           g == [k \in 1..(na + nb) |-> IF k <= na THEN sa[k] ELSE Len(a) + sb[k - na]]
<1>1. /\ c \in Seq(Bytes) /\ Len(c) = Len(a) + Len(b) /\ Len(a) \in Nat /\ Len(b) \in Nat
      /\ \A i \in 1..Len(a) : c[i] = a[i]
      /\ \A i \in 1..Len(b) : c[Len(a) + i] = b[i]
  OBVIOUS
<1>2. /\ na \in Nat /\ sa \in [1..na -> Kept(a)] /\ \A i \in Kept(a) : \E k \in 1..na : sa[k] = i
      /\ \A k, l \in 1..na : k < l => sa[k] < sa[l]
      /\ Decode(a) = [k \in 1..na |-> CharAt(a, sa[k])] /\ Decode(a) \in Seq(Chars)
  BY DecodeFacts
<1>3. /\ nb \in Nat /\ sb \in [1..nb -> Kept(b)] /\ \A i \in Kept(b) : \E k \in 1..nb : sb[k] = i
      /\ \A k, l \in 1..nb : k < l => sb[k] < sb[l]
      /\ Decode(b) = [k \in 1..nb |-> CharAt(b, sb[k])] /\ Decode(b) \in Seq(Chars)
  BY DecodeFacts
<1>. HIDE DEF c
<1>14. /\ \A i \in 1..Len(c) : i \notin Kept(c) <=> i > 1 /\ c[i] = "l" /\ c[i - 1] = "h"
       /\ Kept(c) \in SUBSET (1..Len(c))
  BY <1>1, KeptBytes
<1>4. \A i \in 1..Len(a) : i \in Kept(c) <=> i \in Kept(a)
  <2> SUFFICES ASSUME NEW i \in 1..Len(a) PROVE i \in Kept(c) <=> i \in Kept(a)
    OBVIOUS
  <2>1. i \in 1..Len(c) /\ c[i] = a[i] /\ (i > 1 => c[i - 1] = a[i - 1])
    BY <1>1
  <2>2. i \notin Kept(a) <=> i > 1 /\ a[i] = "l" /\ a[i - 1] = "h"
    BY KeptBytes
  <2>3. QED  BY <1>14, <2>1, <2>2
<1>5. \A i \in 1..Len(b) : Len(a) + i \in Kept(c) <=> i \in Kept(b)
  <2> SUFFICES ASSUME NEW i \in 1..Len(b) PROVE Len(a) + i \in Kept(c) <=> i \in Kept(b)
    OBVIOUS
  <2>1. Len(a) + i \in 1..Len(c) /\ c[Len(a) + i] = b[i]
    BY <1>1
  <2>2. Len(a) + i \notin Kept(c) <=> Len(a) + i > 1 /\ b[i] = "l" /\ c[Len(a) + i - 1] = "h"
    BY <2>1, <1>14
  <2>3. i \notin Kept(b) <=> i > 1 /\ b[i] = "l" /\ b[i - 1] = "h"
    BY KeptBytes
  <2>4. CASE i > 1
    <3>1. i - 1 \in 1..Len(b) /\ Len(a) + i - 1 = Len(a) + (i - 1)
      BY <2>4, <1>1
    <3>2. c[Len(a) + i - 1] = b[i - 1]
      BY <3>1, <1>1
    <3>3. Len(a) + i > 1
      BY <2>4, <1>1
    <3>4. QED  BY <2>2, <2>3, <2>4, <3>2, <3>3
  <2>5. CASE i = 1
    <3>1. Len(a) > 0 => c[Len(a) + i - 1] = a[Len(a)]
      BY <2>5, <1>1
    <3>2. Len(a) + i > 1 => Len(a) > 0 /\ a # <<>>
      BY <2>5, <1>1
    <3>3. b # <<>>
      BY <2>5
    <3>4. QED  BY <2>2, <2>3, <2>5, <3>1, <3>2, <3>3
  <2>6. QED  BY <2>4, <2>5
<1>6. g \in [1..(na + nb) -> Kept(c)]
  <2> SUFFICES ASSUME NEW k \in 1..(na + nb) PROVE g[k] \in Kept(c)
    OBVIOUS
  <2>1. CASE k <= na
    <3>1. sa[k] \in Kept(a) /\ sa[k] \in 1..Len(a)
      <4>1. k \in 1..na
        BY <2>1, <1>2
      <4> HIDE DEF sa, na
      <4>2. QED  BY <4>1, <1>2, KeptBytes
    <3>2. QED  BY <2>1, <3>1, <1>4
  <2>2. CASE ~(k <= na)
    <3>1. k - na \in 1..nb
      BY <2>2, <1>2, <1>3
    <3>2. sb[k - na] \in Kept(b) /\ sb[k - na] \in 1..Len(b)
      BY <3>1, <1>3, KeptBytes
    <3>3. QED  BY <2>2, <3>2, <1>5
  <2>3. QED  BY <2>1, <2>2
<1>7. ASSUME NEW i \in Kept(c) PROVE \E k \in 1..(na + nb) : g[k] = i
  <2>1. i \in 1..Len(c)
    BY <1>1, KeptBytes
  <2>2. CASE i <= Len(a)
    <3>1. i \in Kept(a)
      BY <2>1, <2>2, <1>1, <1>4
    <3>2. PICK k \in 1..na : sa[k] = i
      BY <3>1, <1>2
    <3>3. k \in 1..(na + nb) /\ g[k] = i
      BY <3>2, <1>2, <1>3
    <3>4. QED  BY <3>3
  <2>3. CASE i > Len(a)
    <3>1. i - Len(a) \in 1..Len(b) /\ Len(a) + (i - Len(a)) = i
      BY <2>1, <2>3, <1>1
    <3>2. i - Len(a) \in Kept(b)
      BY <3>1, <1>5
    <3>3. PICK k \in 1..nb : sb[k] = i - Len(a)
      BY <3>2, <1>3
    <3>4. na + k \in 1..(na + nb) /\ ~(na + k <= na) /\ (na + k) - na = k
      BY <3>3, <1>2, <1>3
    <3>5. g[na + k] = i
      BY <3>1, <3>3, <3>4
    <3>6. QED  BY <3>4, <3>5
  <2>4. QED  BY <2>1, <2>2, <2>3, <1>1
<1>8. ASSUME NEW k \in 1..(na + nb), NEW l \in 1..(na + nb), k < l PROVE g[k] < g[l]
  <2>1. \A i \in 1..na : sa[i] \in 1..Len(a)
    BY <1>2, KeptBytes
  <2>2. \A i \in 1..nb : sb[i] \in 1..Len(b)
    BY <1>3, KeptBytes
  <2>3. CASE l <= na
    <3>1. k \in 1..na /\ l \in 1..na
      BY <2>3, <1>2, <1>3, <1>8
    <3>2. QED  BY <3>1, <1>2, <1>8
  <2>4. CASE k <= na /\ ~(l <= na)
    <3>1. k \in 1..na /\ l - na \in 1..nb
      BY <2>4, <1>2, <1>3
    <3>2. g[k] = sa[k] /\ g[l] = Len(a) + sb[l - na]
      BY <2>4
    <3>3. sa[k] <= Len(a) /\ sb[l - na] >= 1 /\ sa[k] \in Nat /\ sb[l - na] \in Nat
      BY <3>1, <2>1, <2>2, <1>1
    <3> HIDE DEF g, sa, sb, na
    <3>4. QED  BY <3>2, <3>3, <1>1
  <2>5. CASE ~(k <= na)
    <3>1. ~(l <= na) /\ k - na \in 1..nb /\ l - na \in 1..nb /\ k - na < l - na
      BY <2>5, <1>2, <1>3, <1>8
    <3>2. sb[k - na] < sb[l - na]
      BY <3>1, <1>3
    <3>3. g[k] = Len(a) + sb[k - na] /\ g[l] = Len(a) + sb[l - na]
      BY <2>5, <3>1
    <3>4. sb[k - na] \in Nat /\ sb[l - na] \in Nat
      BY <3>1, <2>2, <1>1
    <3> HIDE DEF g, sb, na
    <3>5. QED  BY <3>2, <3>3, <3>4, <1>1
  <2>6. QED  BY <2>3, <2>4, <2>5
<1>9. Len(Decode(c)) = na + nb /\ Decode(c) = [k \in 1..(na + nb) |-> CharAt(c, g[k])]
  <2>1. na + nb \in Nat
    BY <1>2, <1>3
  <2> HIDE DEF g, na, nb
  <2>2. QED  BY <2>1, <1>1, <1>6, <1>7, <1>8, StartsAre
<1>10. \A i \in 1..Len(a) : CharAt(c, i) = CharAt(a, i)
  <2> SUFFICES ASSUME NEW i \in 1..Len(a) PROVE CharAt(c, i) = CharAt(a, i)
    OBVIOUS
  <2>1. c[i] = a[i] /\ i <= Len(c)
    BY <1>1
  <2>2. CASE i < Len(a)
    <3>1. c[i + 1] = a[i + 1] /\ i < Len(c)
      BY <2>2, <1>1
    <3>2. QED  BY <2>1, <2>2, <3>1 DEF CharAt
  <2>3. CASE i = Len(a) /\ i < Len(c)
    <3>1. c[i + 1] = b[1] /\ b # <<>> /\ a # <<>>
      BY <2>3, <1>1
    <3>2. ~(a[i] = "h" /\ c[i + 1] = "l")
      BY <2>3, <3>1
    <3>3. QED  BY <2>1, <2>3, <3>2 DEF CharAt
  <2>4. CASE i = Len(a) /\ i = Len(c)
    BY <2>1, <2>4 DEF CharAt
  <2>5. QED  BY <1>1, <2>1, <2>2, <2>3, <2>4
<1>11. \A i \in 1..Len(b) : CharAt(c, Len(a) + i) = CharAt(b, i)
  <2> SUFFICES ASSUME NEW i \in 1..Len(b) PROVE CharAt(c, Len(a) + i) = CharAt(b, i)
    OBVIOUS
  <2>1. c[Len(a) + i] = b[i] /\ (Len(a) + i < Len(c) <=> i < Len(b))
    BY <1>1
  <2>2. i < Len(b) => c[Len(a) + i + 1] = b[i + 1]
    <3> SUFFICES ASSUME i < Len(b) PROVE c[Len(a) + i + 1] = b[i + 1]
      OBVIOUS
    <3>1. i + 1 \in 1..Len(b) /\ Len(a) + i + 1 = Len(a) + (i + 1)
      BY <1>1
    <3>2. QED  BY <3>1, <1>1
  <2>3. QED  BY <2>1, <2>2 DEF CharAt
<1>12. ASSUME NEW k \in 1..(na + nb) PROVE Decode(c)[k] = (Decode(a) \o Decode(b))[k]
  <2>1. Decode(c)[k] = CharAt(c, g[k])
    BY <1>9
  <2>2. CASE k <= na
    <3>1. k \in 1..na
      BY <2>2, <1>2
    <3>2. sa[k] \in 1..Len(a) /\ g[k] = sa[k]
      BY <2>2, <3>1, <1>2, KeptBytes
    <3>3. Decode(c)[k] = Decode(a)[k]
      BY <2>1, <3>1, <3>2, <1>10, <1>2
    <3>4. QED  BY <3>1, <3>3, <1>2, <1>3
  <2>3. CASE ~(k <= na)
    <3>1. k - na \in 1..nb
      BY <2>3, <1>2, <1>3
    <3>2. sb[k - na] \in 1..Len(b) /\ g[k] = Len(a) + sb[k - na]
      BY <2>3, <3>1, <1>3, KeptBytes
    <3>3. Decode(c)[k] = Decode(b)[k - na]
      <4>1. CharAt(c, g[k]) = CharAt(b, sb[k - na])
        BY <3>2, <1>11
      <4>2. Decode(b)[k - na] = CharAt(b, sb[k - na])
        BY <3>1, <1>3
      <4>3. QED  BY <2>1, <4>1, <4>2
    <3>4. QED  BY <2>3, <3>1, <3>3, <1>2, <1>3
  <2>4. QED  BY <2>2, <2>3
<1>13. QED
  <2> DEFINE d == Decode(c)  da == Decode(a)  db == Decode(b)
  <2>1. d \in Seq(Chars) /\ Len(d) = na + nb
    BY <1>1, <1>9, DecodeFacts
  <2>2. da \o db \in Seq(Chars) /\ Len(da \o db) = na + nb
    BY <1>2, <1>3
  <2> HIDE DEF d, na, nb, da, db
  <2>3. d = da \o db
    BY <2>1, <2>2, <1>12, SeqEqual DEF d, da, db
  <2>4. QED  BY <2>3 DEF d, da, db, c

LEMMA TornTogether ==
    ASSUME NEW S, NEW a \in Seq(S), NEW b \in Seq(S)
    PROVE  Torn(a \o b) <=> Torn(a) \/ Torn(b)
<1>1. /\ Len(a) \in Nat /\ Len(b) \in Nat /\ DOMAIN a = 1..Len(a) /\ DOMAIN b = 1..Len(b)
      /\ DOMAIN (a \o b) = 1..(Len(a) + Len(b))
      /\ \A i \in 1..Len(a) : (a \o b)[i] = a[i]
      /\ \A i \in 1..Len(b) : (a \o b)[Len(a) + i] = b[i]
  OBVIOUS
<1>2. ASSUME NEW i \in 1..(Len(a) + Len(b)), (a \o b)[i] = "bad"
      PROVE  Torn(a) \/ Torn(b)
  <2>1. CASE i <= Len(a)
    BY <1>1, <1>2, <2>1 DEF Torn
  <2>2. CASE i > Len(a)
    <3>1. i - Len(a) \in 1..Len(b) /\ Len(a) + (i - Len(a)) = i
      BY <1>1, <2>2
    <3>2. b[i - Len(a)] = "bad"
      BY <1>1, <1>2, <3>1
    <3>3. QED  BY <1>1, <3>1, <3>2 DEF Torn
  <2>3. QED  BY <1>1, <2>1, <2>2
<1>3. Torn(a) => Torn(a \o b)
  <2>1. \A i \in 1..Len(a) : i \in 1..(Len(a) + Len(b))
    BY <1>1
  <2>2. QED  BY <1>1, <2>1 DEF Torn
<1>4. Torn(b) => Torn(a \o b)
  <2>1. \A i \in 1..Len(b) : Len(a) + i \in 1..(Len(a) + Len(b))
    BY <1>1
  <2>2. QED  BY <1>1, <2>1 DEF Torn
<1>5. Torn(a \o b) => Torn(a) \/ Torn(b)
  BY <1>1, <1>2 DEF Torn
<1>6. QED  BY <1>3, <1>4, <1>5

(* A replaced half stays one, and a half at the end is replaced.            *)
LEMMA DecodeTorn ==
    ASSUME NEW b \in Seq(Bytes), Torn(b) \/ (b # <<>> /\ b[Len(b)] = "h")
    PROVE  Torn(Decode(b))
<1>1. PICK i \in 1..Len(b) : b[i] = "bad" \/ (b[i] = "h" /\ i = Len(b))
  <2>1. CASE Torn(b)
    BY <2>1 DEF Torn
  <2>2. CASE b # <<>> /\ b[Len(b)] = "h"
    <3>1. Len(b) \in 1..Len(b)
      BY <2>2
    <3>2. QED  BY <2>2, <3>1
  <2>3. QED  BY <2>1, <2>2
<1>2. i \in Kept(b)
  BY <1>1, KeptBytes
<1>3. CharAt(b, i) = "bad"
  BY <1>1 DEF CharAt
<1>4. PICK k \in 1..Len(Decode(b)) : Starts(b)[k] = i
  BY <1>2, DecodeFacts
<1>5. Decode(b)[k] = "bad"
  BY <1>3, <1>4, DecodeFacts
<1>6. DOMAIN Decode(b) = 1..Len(Decode(b))
  BY DecodeFacts
<1>7. QED  BY <1>5, <1>6 DEF Torn

(* A text can be cut after a newline where its bytes can.                   *)
LEMMA CutAtNewline ==
    ASSUME NEW b \in Seq(Bytes), NEW last \in 1..Len(Decode(b)), Decode(b)[last] = "n"
    PROVE  \E p \in 1..Len(b) :
              /\ SubSeq(Decode(b), 1, last) = Decode(SubSeq(b, 1, p))
              /\ SubSeq(Decode(b), last + 1, Len(Decode(b))) = Decode(SubSeq(b, p + 1, Len(b)))
<1> DEFINE p == Starts(b)[last]  n == Len(Decode(b))
           front == SubSeq(b, 1, p)  rest == SubSeq(b, p + 1, Len(b))
           g == [k \in 1..last |-> Starts(b)[k]]
<1>1. /\ n \in Nat /\ Starts(b) \in [1..n -> Kept(b)] /\ Len(b) \in Nat
      /\ \A i \in Kept(b) : \E k \in 1..n : Starts(b)[k] = i
      /\ \A k, l \in 1..n : Starts(b)[k] < Starts(b)[l] <=> k < l
      /\ Decode(b) = [k \in 1..n |-> CharAt(b, Starts(b)[k])] /\ Decode(b) \in Seq(Chars)
  BY DecodeFacts
<1>2. p \in Kept(b) /\ p \in 1..Len(b)
  <2>1. p \in Kept(b)
    BY <1>1
  <2> HIDE DEF p
  <2>2. QED  BY <2>1, KeptBytes
<1>3. b[p] = "n"
  <2>1. CharAt(b, p) = "n"
    BY <1>1
  <2> HIDE DEF p
  <2>2. QED  BY <2>1, <1>2 DEF CharAt
<1>4. /\ front \in Seq(Bytes) /\ Len(front) = p /\ \A i \in 1..p : front[i] = b[i]
      /\ rest \in Seq(Bytes) /\ front \o rest = b
  <2> HIDE DEF p
  <2>1. front \in Seq(Bytes) /\ Len(front) = p /\ \A i \in 1..p : front[i] = b[i]
    BY <1>2
  <2>2. rest \in Seq(Bytes) /\ Len(rest) = Len(b) - p /\ \A i \in 1..(Len(b) - p) : rest[i] = b[p + i]
    BY <1>1, <1>2
  <2>3. front \o rest \in Seq(Bytes) /\ Len(front \o rest) = Len(b)
    BY <1>1, <1>2, <2>1, <2>2
  <2>4. \A i \in 1..Len(b) : (front \o rest)[i] = b[i]
    <3> SUFFICES ASSUME NEW i \in 1..Len(b) PROVE (front \o rest)[i] = b[i]
      OBVIOUS
    <3> HIDE DEF front, rest
    <3>1. CASE i <= p
      BY <1>1, <1>2, <2>1, <2>2, <3>1
    <3>2. CASE i > p
      <4> DEFINE j == i - p
      <4>1. j \in 1..(Len(b) - p) /\ p + j = i
        BY <1>1, <1>2, <3>2
      <4> HIDE DEF j
      <4>2. (front \o rest)[p + j] = rest[j]
        BY <1>1, <1>2, <2>1, <2>2, <4>1
      <4>3. rest[j] = b[p + j]
        BY <2>2, <4>1
      <4>4. i = p + j
        BY <4>1
      <4>5. QED  BY <4>2, <4>3, <4>4, Zenon
    <3>3. i \in Int /\ p \in Int
      BY <1>1, <1>2
    <3>4. i <= p \/ i > p
      BY <3>3
    <3>5. QED  BY <3>1, <3>2, <3>4
  <2> HIDE DEF front, rest
  <2>5. QED  BY <2>1, <2>2, <2>3, <2>4, SeqEqual
<1>5. Decode(b) = Decode(front) \o Decode(rest)
  <2> HIDE DEF front, rest, p
  <2>1. front[Len(front)] # "h"
    BY <1>2, <1>3, <1>4
  <2>2. Decode(front \o rest) = Decode(front) \o Decode(rest)
    BY <1>4, <2>1, DecodeJoins
  <2>3. QED  BY <1>4, <2>2
<1>6. Len(Decode(front)) = last
  <2>1. \A i \in 1..p : i \in Kept(front) <=> i \in Kept(b)
    <3> HIDE DEF front, p
    <3>1. \A i \in 1..p : i \notin Kept(front) <=> i > 1 /\ front[i] = "l" /\ front[i - 1] = "h"
      BY <1>4, KeptBytes
    <3>2. \A i \in 1..p : i \notin Kept(b) <=> i > 1 /\ b[i] = "l" /\ b[i - 1] = "h"
      BY <1>2, KeptBytes
    <3>3. ASSUME NEW i \in 1..p PROVE i \in Kept(front) <=> i \in Kept(b)
      <4>1. front[i] = b[i] /\ (i > 1 => front[i - 1] = b[i - 1])
        BY <1>2, <1>4
      <4>2. QED  BY <3>1, <3>2, <4>1
    <3>4. QED  BY <3>3
  <2>2. \A k \in 1..last : k \in 1..n /\ Starts(b)[k] \in Kept(b) /\ Starts(b)[k] \in 1..p
    <3> SUFFICES ASSUME NEW k \in 1..last
                 PROVE  k \in 1..n /\ Starts(b)[k] \in Kept(b) /\ Starts(b)[k] \in 1..p
      OBVIOUS
    <3>1. k \in 1..n /\ (k < last \/ k = last)
      BY <1>1
    <3>2. Starts(b)[k] \in Kept(b) /\ (Starts(b)[k] < p \/ Starts(b)[k] = p)
      BY <1>1, <3>1
    <3>3. Starts(b)[k] \in 1..Len(b)
      BY <3>2, KeptBytes
    <3> HIDE DEF p
    <3>4. QED  BY <1>1, <1>2, <3>1, <3>2, <3>3
  <2>3. g \in [1..last -> Kept(front)]
    BY <2>1, <2>2
  <2>4. ASSUME NEW i \in Kept(front) PROVE \E k \in 1..last : g[k] = i
    <3>1. i \in 1..p
      <4> HIDE DEF front, p
      <4> QED  BY <1>4, KeptBytes
    <3>2. i \in Kept(b)
      BY <2>1, <3>1
    <3>3. PICK k \in 1..n : Starts(b)[k] = i
      BY <1>1, <3>2
    <3>4. ~(p < i)
      <4> HIDE DEF p
      <4> QED  BY <1>2, <3>1
    <3>5. ~(last < k)
      BY <1>1, <3>3, <3>4
    <3>6. k \in 1..last
      BY <1>1, <3>5
    <3>7. QED  BY <3>3, <3>6
  <2>5. \A k, l \in 1..last : k < l => g[k] < g[l]
    BY <1>1, <2>2
  <2>6. last \in Nat
    BY <1>1
  <2> HIDE DEF front, g
  <2>7. QED  BY <1>4, <2>3, <2>4, <2>5, <2>6, StartsAre
<1>7. Decode(front) \in Seq(Chars) /\ Decode(rest) \in Seq(Chars)
  <2> HIDE DEF front, rest
  <2> QED  BY <1>4, DecodeFacts
<1>8. /\ SubSeq(Decode(b), 1, last) = Decode(front)
      /\ SubSeq(Decode(b), last + 1, Len(Decode(b))) = Decode(rest)
  <2> DEFINE s == Decode(front)  t == Decode(rest)
  <2> HIDE DEF s, t, front, rest
  <2>1. s \in Seq(Chars) /\ t \in Seq(Chars) /\ Decode(b) = s \o t /\ Len(s) = last
    BY <1>5, <1>6, <1>7 DEF s, t
  <2>2. SubSeq(s \o t, 1, Len(s)) = s
    <3>1. SubSeq(s \o t, 1, Len(s)) \in Seq(Chars) /\ Len(SubSeq(s \o t, 1, Len(s))) = Len(s)
      BY <2>1
    <3>2. \A i \in 1..Len(s) : SubSeq(s \o t, 1, Len(s))[i] = s[i]
      BY <2>1
    <3>3. QED  BY <2>1, <3>1, <3>2, SeqEqual
  <2>3. SubSeq(s \o t, Len(s) + 1, Len(s \o t)) = t
    <3> DEFINE u == SubSeq(s \o t, Len(s) + 1, Len(s \o t))
    <3>1. u \in Seq(Chars) /\ Len(u) = Len(t)
      <4>1. s \o t \in Seq(Chars) /\ Len(s \o t) = Len(s) + Len(t)
        BY <2>1, ConcatProperties
      <4>2. Len(s) \in Nat /\ Len(t) \in Nat
        BY <2>1
      <4>3. QED  BY <4>1, <4>2, SubSeqProperties
    <3>2. ASSUME NEW i \in 1..Len(t) PROVE u[i] = t[i]
      <4>1. u[i] = (s \o t)[Len(s) + i]
        BY <2>1
      <4>2. (s \o t)[Len(s) + i] = t[i]
        BY <2>1
      <4>3. QED  BY <4>1, <4>2
    <3> HIDE DEF u
    <3>3. u = t
      BY <2>1, <3>1, <3>2, SeqEqual
    <3>4. QED  BY <3>3 DEF u
  <2>4. SubSeq(Decode(b), 1, last) = s /\ SubSeq(Decode(b), last + 1, Len(Decode(b))) = t
    BY <2>1, <2>2, <2>3
  <2>5. QED  BY <2>4 DEF s, t
<1>9. QED  BY <1>2, <1>8

-----------------------------------------------------------------------------
(* Encoding.                                                                *)

LEMMA HalfFacts ==
    ASSUME NEW text \in Seq(Chars)
    PROVE  /\ IsFiniteSet(Halves(text)) /\ Halves(text) \in SUBSET ((1..Len(text)) \X {1, 2})
           /\ IsOrder(Halves(text), HalfOrder(Halves(text)))
           /\ \A k \in 1..Len(text) : <<k, 1>> \in Halves(text)
           /\ \A k \in 1..Len(text) : text[k] = "char" <=> <<k, 2>> \in Halves(text)
<1>1. Len(text) \in Nat /\ DOMAIN text = 1..Len(text)
  OBVIOUS
<1>2. Halves(text) \in SUBSET ((1..Len(text)) \X {1, 2})
  BY <1>1 DEF Halves
<1>3. IsFiniteSet(Halves(text))
  <2>1. IsFiniteSet(1..Len(text))
    BY <1>1, FS_Interval
  <2>2. IsFiniteSet({1, 2})
    <3>1. IsFiniteSet({1}) /\ IsFiniteSet({2})
      BY FS_Singleton
    <3>2. {1, 2} = {1} \cup {2}
      OBVIOUS
    <3>3. QED  BY <3>1, <3>2, FS_Union
  <2>3. IsFiniteSet((1..Len(text)) \X {1, 2})
    BY <2>1, <2>2, FS_Product
  <2>4. QED  BY <1>2, <2>3, FS_Subset
<1>4. IsOrder(Halves(text), HalfOrder(Halves(text)))
  <2> DEFINE H == Halves(text)
  <2>1. \A p \in H : p[1] \in Nat /\ p[2] \in Nat /\ p = <<p[1], p[2]>>
    BY <1>1, <1>2
  <2> HIDE DEF H
  <2>2. \A p, q \in H : p = q \/ p[1] # q[1] \/ p[2] # q[2]
    BY <2>1
  <2>3. \A p, q \in H :
           q \in HalfOrder(H)[p] <=> p[1] < q[1] \/ (p[1] = q[1] /\ p[2] < q[2])
    BY DEF HalfOrder
  <2>4. QED  BY <2>1, <2>2, <2>3 DEF IsOrder, H
<1>5. QED  BY <1>1, <1>2, <1>3, <1>4 DEF Halves

LEMMA EncodeFacts ==
    ASSUME NEW text \in Seq(Chars)
    PROVE  /\ Encode(text) \in Seq(Bytes) /\ Len(Encode(text)) = Cardinality(Halves(text))
           /\ \A p \in Halves(text) : \E k \in DOMAIN Encode(text) : Encode(text)[k] = ByteOf(text, p)
<1> DEFINE H == Halves(text)  after == HalfOrder(H)  n == Cardinality(H)  f == Arranged(H, after)
<1>1. IsFiniteSet(H) /\ IsOrder(H, after)
  BY HalfFacts
<1>2. /\ n \in Nat /\ f \in [1..n -> H]
      /\ \A p \in H : \E k \in 1..n : f[k] = p
  <2> HIDE DEF H, after
  <2> QED  BY <1>1, ArrangedInOrder DEF n, f
<1>3. Encode(text) = [k \in 1..n |-> ByteOf(text, f[k])]
  BY <1>2 DEF Encode
<1>4. \A p \in H : ByteOf(text, p) \in Bytes
  <2> SUFFICES ASSUME NEW p \in H PROVE ByteOf(text, p) \in Bytes
    OBVIOUS
  <2>1. p[1] \in 1..Len(text)
    BY HalfFacts
  <2>2. text[p[1]] \in Chars
    BY <2>1
  <2>3. QED  BY <2>2 DEF ByteOf, Bytes, Chars
<1>5. Encode(text) \in [1..n -> Bytes]
  <2> HIDE DEF H, n, f
  <2> QED  BY <1>2, <1>3, <1>4
<1>6. Encode(text) \in Seq(Bytes) /\ Len(Encode(text)) = n /\ DOMAIN Encode(text) = 1..n
  <2> HIDE DEF n
  <2> QED  BY <1>2, <1>5
<1> HIDE DEF H, n, f
<1>7. QED  BY <1>2, <1>3, <1>6 DEF H, n

(* A replaced half stays one.                                               *)
LEMMA EncodeTorn ==
    ASSUME NEW text \in Seq(Chars), Torn(text)
    PROVE  Torn(Encode(text))
<1>1. PICK k \in 1..Len(text) : text[k] = "bad"
  BY DEF Torn
<1>2. <<k, 1>> \in Halves(text) /\ ByteOf(text, <<k, 1>>) = "bad"
  BY <1>1, HalfFacts DEF ByteOf
<1>3. QED  BY <1>2, EncodeFacts DEF Torn

(* Whole characters come back as they were.                                 *)
LEMMA EncodeUndoes ==
    ASSUME NEW b \in Seq(Bytes), ~Torn(Decode(b))
    PROVE  Encode(Decode(b)) = b
<1> DEFINE text == Decode(b)  K == Kept(b)  n == Len(Decode(b))
           at(i) == Place(K, Ascending(K), i)
           g == [i \in 1..Len(b) |-> IF i \in K THEN <<at(i), 1>> ELSE <<at(i - 1), 2>>]
           H == Halves(text)
<1>1. Len(b) \in Nat /\ K \in SUBSET (1..Len(b))
  BY KeptBytes
<1>2. /\ n \in Nat /\ text \in Seq(Chars) /\ Len(text) = n
      /\ \A i \in K : at(i) \in 1..n /\ Starts(b)[at(i)] = i /\ text[at(i)] = CharAt(b, i)
      /\ \A k \in 1..n : Starts(b)[k] \in K /\ at(Starts(b)[k]) = k
      /\ \A k, l \in 1..n : Starts(b)[k] < Starts(b)[l] <=> k < l
  BY DecodeFacts
<1>3. \A i, j \in K : i < j => at(i) < at(j)
  <2> HIDE DEF at
  <2> QED  BY <1>2
<1>4. \A i \in 1..Len(b) : i \notin K => /\ i - 1 \in K /\ b[i] = "l" /\ b[i - 1] = "h"
                                        /\ CharAt(b, i - 1) = "char"
  <2> SUFFICES ASSUME NEW i \in 1..Len(b), i \notin K
               PROVE  /\ i - 1 \in K /\ b[i] = "l" /\ b[i - 1] = "h"
                      /\ CharAt(b, i - 1) = "char"
    OBVIOUS
  <2>1. i > 1 /\ b[i] = "l" /\ b[i - 1] = "h"
    BY KeptBytes
  <2>2. i - 1 \in 1..Len(b) /\ i - 1 < Len(b) /\ (i - 1) + 1 = i
    BY <2>1
  <2>3. i - 1 \in K
    BY <2>1, <2>2, KeptBytes
  <2>4. QED  BY <2>1, <2>2, <2>3 DEF CharAt
<1>5. \A i \in K : IF CharAt(b, i) = "char" THEN b[i] = "h" /\ i + 1 \in 1..Len(b) /\ i + 1 \notin K
                   ELSE b[i] = CharAt(b, i)
  <2> SUFFICES ASSUME NEW i \in K
               PROVE  IF CharAt(b, i) = "char"
                      THEN b[i] = "h" /\ i + 1 \in 1..Len(b) /\ i + 1 \notin K
                      ELSE b[i] = CharAt(b, i)
    OBVIOUS
  <2>1. i \in 1..Len(b) /\ b[i] \in Bytes
    BY <1>1
  <2>2. CharAt(b, i) # "bad"
    <3>1. text[at(i)] # "bad"
      BY <1>2 DEF Torn
    <3>2. QED  BY <1>2, <3>1
  <2>3. CASE CharAt(b, i) = "char"
    <3>1. b[i] = "h" /\ i < Len(b) /\ b[i + 1] = "l"
      BY <2>1, <2>3 DEF CharAt, Bytes
    <3>2. i + 1 \in 1..Len(b) /\ (i + 1) - 1 = i /\ i + 1 > 1
      BY <1>1, <2>1, <3>1
    <3>3. i + 1 \notin K
      BY <3>1, <3>2, KeptBytes
    <3>4. QED  BY <2>3, <3>1, <3>2, <3>3
  <2>4. CASE CharAt(b, i) # "char"
    BY <2>1, <2>2, <2>4 DEF CharAt
  <2>5. QED  BY <2>3, <2>4
<1>6. /\ \A k \in 1..n : <<k, 1>> \in H
      /\ \A k \in 1..n : text[k] = "char" <=> <<k, 2>> \in H
      /\ H \in SUBSET ((1..n) \X {1, 2}) /\ IsOrder(H, HalfOrder(H))
  BY <1>2, HalfFacts
<1> HIDE DEF K, at, n, H, text
<1>7. g \in [1..Len(b) -> H]
  <2> SUFFICES ASSUME NEW i \in 1..Len(b) PROVE g[i] \in H
    OBVIOUS
  <2>1. CASE i \in K
    BY <2>1, <1>2, <1>6
  <2>2. CASE i \notin K
    <3>1. i - 1 \in K /\ CharAt(b, i - 1) = "char"
      BY <2>2, <1>4
    <3>2. at(i - 1) \in 1..n /\ text[at(i - 1)] = "char"
      BY <3>1, <1>2
    <3>3. QED  BY <2>2, <3>2, <1>6
  <2>3. QED  BY <2>1, <2>2
<1>8. ASSUME NEW p \in H PROVE \E i \in 1..Len(b) : g[i] = p
  <2>1. p[1] \in 1..n /\ p = <<p[1], p[2]>> /\ p[2] \in {1, 2}
    BY <1>6
  <2> DEFINE i == Starts(b)[p[1]]
  <2>2. i \in K /\ at(i) = p[1]
    BY <2>1, <1>2
  <2>3. i \in 1..Len(b)
    BY <2>2, <1>1
  <2>4. CASE p[2] = 1
    <3> HIDE DEF i
    <3>1. g[i] = <<p[1], 1>>
      BY <2>2, <2>3
    <3>2. QED  BY <2>1, <2>3, <2>4, <3>1
  <2>5. CASE p[2] = 2
    <3> HIDE DEF i
    <3>1. CharAt(b, i) = "char"
      BY <2>1, <2>2, <2>5, <1>2, <1>6
    <3>2. i + 1 \in 1..Len(b) /\ i + 1 \notin K /\ (i + 1) - 1 = i
      BY <2>2, <2>3, <3>1, <1>5
    <3>3. g[i + 1] = <<p[1], 2>>
      BY <2>2, <3>2
    <3>4. QED  BY <2>1, <2>5, <3>2, <3>3
  <2>6. QED  BY <2>1, <2>4, <2>5
<1>9. ASSUME NEW i \in 1..Len(b), NEW j \in 1..Len(b), i < j
      PROVE  g[j] \in HalfOrder(H)[g[i]]
  <2> DEFINE p == g[i]  q == g[j]
  <2>1. p \in H /\ q \in H
    BY <1>7
  <2>2. p[1] < q[1] \/ (p[1] = q[1] /\ p[2] < q[2])
    <3>1. CASE i \in K /\ j \in K
      BY <3>1, <1>3, <1>9
    <3>2. CASE i \in K /\ j \notin K
      <4>1. j - 1 \in K /\ (i = j - 1 \/ i < j - 1)
        BY <3>2, <1>1, <1>4, <1>9
      <4>2. at(i) = at(j - 1) \/ at(i) < at(j - 1)
        BY <3>2, <4>1, <1>3
      <4>3. QED  BY <3>2, <4>2
    <3>3. CASE i \notin K /\ j \in K
      <4>1. i - 1 \in K /\ i - 1 < j
        BY <3>3, <1>1, <1>4, <1>9
      <4>2. at(i - 1) < at(j)
        BY <3>3, <4>1, <1>3
      <4>3. QED  BY <3>3, <4>2
    <3>4. CASE i \notin K /\ j \notin K
      <4>1. i - 1 \in K /\ j - 1 \in K /\ i - 1 < j - 1
        BY <3>4, <1>1, <1>4, <1>9
      <4>2. at(i - 1) < at(j - 1)
        BY <4>1, <1>3
      <4>3. QED  BY <3>4, <4>2
    <3>5. QED  BY <3>1, <3>2, <3>3, <3>4
  <2> HIDE DEF p, q
  <2>3. q \in HalfOrder(H)[p]
    BY <2>1, <2>2 DEF HalfOrder
  <2>4. QED  BY <2>3 DEF p, q
<1>10. Cardinality(H) = Len(b) /\ Arranged(H, HalfOrder(H)) = g
  <2> HIDE DEF g
  <2>1. \A k, l \in 1..Len(b) : k < l => g[l] \in HalfOrder(H)[g[k]]
    BY <1>9
  <2>2. \A p \in H : \E k \in 1..Len(b) : g[k] = p
    BY <1>8
  <2> DEFINE after == HalfOrder(H)
  <2>3. IsOrder(H, after) /\ \A k, l \in 1..Len(b) : k < l => g[l] \in after[g[k]]
    BY <1>6, <2>1
  <2> HIDE DEF after
  <2>4. Cardinality(H) = Len(b) /\ Arranged(H, after) = g
    BY <1>1, <1>7, <2>2, <2>3, OnlyArranged
  <2>5. QED  BY <2>4 DEF after
<1>11. \A i \in 1..Len(b) : ByteOf(text, g[i]) = b[i]
  <2> SUFFICES ASSUME NEW i \in 1..Len(b) PROVE ByteOf(text, g[i]) = b[i]
    OBVIOUS
  <2>1. CASE i \in K
    <3>1. text[at(i)] = CharAt(b, i) /\ g[i] = <<at(i), 1>>
      BY <2>1, <1>2
    <3>2. QED  BY <2>1, <3>1, <1>5 DEF ByteOf
  <2>2. CASE i \notin K
    <3>1. /\ i - 1 \in K /\ b[i] = "l" /\ text[at(i - 1)] = "char"
          /\ g[i] = <<at(i - 1), 2>>
      BY <2>2, <1>2, <1>4
    <3>2. QED  BY <3>1 DEF ByteOf
  <2>3. QED  BY <2>1, <2>2
<1>12. Encode(text) = [k \in 1..Len(b) |-> ByteOf(text, g[k])]
  <2> HIDE DEF g
  <2>1. DOMAIN g = 1..Len(b)
    BY <1>7
  <2>2. QED  BY <1>10, <2>1 DEF Encode, H
<1>13. Encode(text) = b
  <2>1. Encode(text) = [k \in 1..Len(b) |-> b[k]]
    BY <1>11, <1>12
  <2>2. QED  BY <2>1
<1>14. QED  BY <1>13 DEF text

(* A text never takes more bytes than it came from.                         *)
LEMMA EncodeNoLonger ==
    ASSUME NEW b \in Seq(Bytes)
    PROVE  Len(Encode(Decode(b))) <= Len(b)
<1> DEFINE text == Decode(b)  K == Kept(b)  n == Len(Decode(b))  s == Starts(b)
           H == Halves(text)
           g == [p \in H |-> IF p[2] = 1 THEN s[p[1]] ELSE s[p[1]] + 1]
<1>1. Len(b) \in Nat /\ K \in SUBSET (1..Len(b))
  BY KeptBytes
<1>2. /\ n \in Nat /\ text \in Seq(Chars) /\ Len(text) = n
      /\ \A k \in 1..n : s[k] \in K /\ text[k] = CharAt(b, s[k])
      /\ \A k, l \in 1..n : s[k] < s[l] <=> k < l
  BY DecodeFacts
<1>3. \A i \in K : CharAt(b, i) = "char" => i + 1 \in 1..Len(b) /\ i + 1 \notin K
  <2> SUFFICES ASSUME NEW i \in K, CharAt(b, i) = "char"
               PROVE  i + 1 \in 1..Len(b) /\ i + 1 \notin K
    OBVIOUS
  <2>1. i \in 1..Len(b) /\ b[i] \in Bytes
    BY <1>1
  <2>2. b[i] = "h" /\ i < Len(b) /\ b[i + 1] = "l"
    BY <2>1 DEF CharAt, Bytes
  <2>3. i + 1 \in 1..Len(b) /\ (i + 1) - 1 = i /\ i + 1 > 1
    BY <1>1, <2>1, <2>2
  <2>4. QED  BY <2>2, <2>3, KeptBytes
<1>4. /\ IsFiniteSet(H) /\ H \in SUBSET ((1..n) \X {1, 2})
      /\ \A k \in 1..n : text[k] = "char" <=> <<k, 2>> \in H
  BY <1>2, HalfFacts
<1> HIDE DEF K, n, H, text, s
<1>5. \A p \in H : /\ p[1] \in 1..n /\ p[2] \in {1, 2} /\ p = <<p[1], p[2]>>
                   /\ s[p[1]] \in K /\ s[p[1]] \in 1..Len(b)
                   /\ p[2] = 2 => s[p[1]] + 1 \in 1..Len(b) /\ s[p[1]] + 1 \notin K
  <2> SUFFICES ASSUME NEW p \in H
               PROVE  /\ p[1] \in 1..n /\ p[2] \in {1, 2} /\ p = <<p[1], p[2]>>
                      /\ s[p[1]] \in K /\ s[p[1]] \in 1..Len(b)
                      /\ p[2] = 2 => s[p[1]] + 1 \in 1..Len(b) /\ s[p[1]] + 1 \notin K
    OBVIOUS
  <2>1. p[1] \in 1..n /\ p[2] \in {1, 2} /\ p = <<p[1], p[2]>>
    BY <1>4
  <2>2. s[p[1]] \in K /\ s[p[1]] \in 1..Len(b)
    BY <1>1, <1>2, <2>1
  <2>3. ASSUME p[2] = 2 PROVE s[p[1]] + 1 \in 1..Len(b) /\ s[p[1]] + 1 \notin K
    <3>1. text[p[1]] = "char"
      BY <1>4, <2>1, <2>3
    <3>2. QED  BY <1>2, <1>3, <2>1, <2>2, <3>1
  <2>4. QED  BY <2>1, <2>2, <2>3
<1>6. g \in [H -> 1..Len(b)]
  BY <1>5
<1>7. ASSUME NEW p \in H, NEW q \in H, g[p] = g[q] PROVE p = q
  <2>1. p[2] = q[2]
    BY <1>5, <1>7
  <2>2. s[p[1]] = s[q[1]]
    BY <1>1, <1>5, <1>7, <2>1
  <2>3. p[1] = q[1]
    <3>1. p[1] \in Nat /\ q[1] \in Nat /\ p[1] \in 1..n /\ q[1] \in 1..n /\ s[p[1]] \in Nat
      BY <1>1, <1>2, <1>5
    <3>2. ~(s[p[1]] < s[q[1]]) /\ ~(s[q[1]] < s[p[1]])
      BY <2>2, <3>1
    <3>3. ~(p[1] < q[1]) /\ ~(q[1] < p[1])
      BY <1>2, <3>1, <3>2
    <3>4. QED  BY <3>1, <3>3
  <2>4. QED  BY <1>5, <2>1, <2>3
<1>8. g \in Injection(H, 1..Len(b))
  BY <1>6, <1>7 DEF Injection, IsInjective
<1>9. IsFiniteSet(1..Len(b)) /\ Cardinality(1..Len(b)) = Len(b)
  <2> DEFINE m == Len(b)
  <2>1. m \in Nat
    BY <1>1
  <2> HIDE DEF m
  <2>2. IsFiniteSet(1..m) /\ Cardinality(1..m) = m
    BY <2>1, FS_Interval
  <2>3. QED  BY <2>2 DEF m
<1>10. Cardinality(H) <= Len(b)
  <2> HIDE DEF g
  <2> QED  BY <1>8, <1>9, FS_Injection
<1>11. Len(Encode(text)) = Cardinality(H)
  BY <1>2, EncodeFacts DEF H
<1>12. QED  BY <1>10, <1>11 DEF text

-----------------------------------------------------------------------------
(* The stream.                                                              *)

LEMMA MaxIsIn ==
    ASSUME NEW n \in Nat, NEW S \in SUBSET (1..n), S # {}
    PROVE  Max(S) \in S
<1> DEFINE after == Ascending(S)  m == Cardinality(S)  f == Arranged(S, after)
<1>1. IsFiniteSet(S)
  <2>1. IsFiniteSet(1..n)
    BY FS_Interval
  <2>2. QED  BY <2>1, FS_Subset
<1>2. IsOrder(S, after)
  <2>1. S \in SUBSET Int
    OBVIOUS
  <2>2. QED  BY <2>1, AscendingIsOrder
<1>3. m \in Nat /\ m # 0
  BY <1>1, FS_CardinalityType, FS_EmptySet
<1>4. /\ f \in [1..m -> S]
      /\ \A i \in S : Place(S, after, i) \in 1..m /\ f[Place(S, after, i)] = i
      /\ \A k, l \in 1..m : f[l] \in after[f[k]] <=> k < l
  <2> HIDE DEF after
  <2> QED  BY <1>1, <1>2, ArrangedInOrder
<1>5. \A k, l \in 1..m : f[k] < f[l] <=> k < l
  BY <1>4 DEF Ascending
<1>6. f[m] \in S
  BY <1>3, <1>4
<1>7. \A i \in S : i <= f[m]
  <2> SUFFICES ASSUME NEW i \in S PROVE i <= f[m]
    OBVIOUS
  <2>1. PICK k \in 1..m : f[k] = i
    BY <1>4
  <2> HIDE DEF m, f
  <2>2. m \in 1..m /\ ~(m < k)
    BY <1>3
  <2>3. ~(f[m] < f[k])
    BY <1>5, <2>2
  <2>4. i \in Int /\ f[m] \in Int
    <3>1. \A x \in S : x \in Int
      OBVIOUS
    <3>2. QED  BY <1>6, <3>1
  <2>5. QED  BY <2>1, <2>3, <2>4
<1>8. QED
  <2> HIDE DEF f, m
  <2> QED  BY <1>6, <1>7 DEF Max

(* What a step of handleChunk does to any bytes.                            *)
LEMMA LinesSent ==
    ASSUME NEW b \in Seq(Bytes)
    PROVE  LET done == SendLines(b)
           IN  /\ done.send \in Seq(Chars) /\ done.keep \in Seq(Bytes) /\ Len(done.keep) <= Len(b)
               /\ Torn(b) => Torn(done.send) \/ Torn(done.keep)
               /\ \/ Torn(done.keep)
                  \/ \E p \in 0..Len(b) : /\ done.send = Decode(SubSeq(b, 1, p))
                                          /\ done.keep = SubSeq(b, p + 1, Len(b))
<1> DEFINE text == Decode(b)
           ends == {i \in DOMAIN text : text[i] = "n"}
           last == Max(ends)
           rest == SubSeq(text, last + 1, Len(text))
           done == SendLines(b)
<1>1. text \in Seq(Chars) /\ Len(text) \in Nat /\ DOMAIN text = 1..Len(text) /\ Len(b) \in Nat
  BY DecodeFacts
<1>2. CASE ends = {}
  <2>1. done.send = <<>> /\ done.keep = b
    BY <1>2 DEF SendLines
  <2>2. SubSeq(b, 1, 0) = <<>> /\ SubSeq(b, 1, Len(b)) = b
    BY SubSeqEmpty, SubSeqFull
  <2>4. 0 \in 0..Len(b) /\ 0 + 1 = 1
    BY <1>1
  <2> HIDE DEF done
  <2>5. \E p \in 0..Len(b) : done.send = Decode(SubSeq(b, 1, p)) /\ done.keep = SubSeq(b, p + 1, Len(b))
    BY <2>1, <2>2, <2>4, DecodeNothing
  <2>6. done.send \in Seq(Chars) /\ done.keep \in Seq(Bytes) /\ Len(done.keep) <= Len(b)
    BY <1>1, <2>1
  <2>7. QED  BY <2>1, <2>5, <2>6 DEF done
<1>3. CASE ends # {}
  <2>1. last \in 1..Len(text) /\ text[last] = "n"
    <3>1. ends \in SUBSET (1..Len(text))
      BY <1>1
    <3>2. last \in ends
      <4> HIDE DEF ends
      <4> QED  BY <1>1, <1>3, <3>1, MaxIsIn
    <3>3. QED  BY <1>1, <3>2
  <2>2. done.send = SubSeq(text, 1, last) /\ done.keep = Encode(rest)
    BY <1>3 DEF SendLines
  <2>3. PICK p \in 1..Len(b) : /\ SubSeq(text, 1, last) = Decode(SubSeq(b, 1, p))
                               /\ rest = Decode(SubSeq(b, p + 1, Len(b)))
    <3> HIDE DEF last
    <3> QED  BY <2>1, CutAtNewline
  <2> DEFINE front == SubSeq(b, 1, p)  tail == SubSeq(b, p + 1, Len(b))
  <2>4. /\ front \in Seq(Bytes) /\ tail \in Seq(Bytes) /\ Len(tail) = Len(b) - p
    BY <1>1
  <2>5. rest \in Seq(Chars) /\ SubSeq(text, 1, last) \in Seq(Chars)
    <3> HIDE DEF rest, last, front, tail
    <3> QED  BY <2>3, <2>4, DecodeFacts DEF front, tail
  <2> HIDE DEF done, text, rest, last, ends
  <2>6. done.send \in Seq(Chars) /\ done.keep \in Seq(Bytes) /\ Len(done.keep) <= Len(b)
    <3>1. Encode(rest) \in Seq(Bytes)
      BY <2>5, EncodeFacts
    <3>2. Len(Encode(rest)) <= Len(tail)
      <4> HIDE DEF tail
      <4> QED  BY <2>3, <2>4, EncodeNoLonger DEF tail
    <3>3. Len(Encode(rest)) \in Nat
      BY <3>1
    <3>4. QED  BY <1>1, <2>2, <2>4, <2>5, <3>1, <3>2, <3>3
  <2>7. ASSUME Torn(b) PROVE Torn(done.send) \/ Torn(done.keep)
    <3>1. PICK i \in 1..Len(text) : text[i] = "bad"
      <4>1. Torn(text)
        BY <2>7, DecodeTorn DEF text
      <4>2. QED  BY <1>1, <4>1 DEF Torn
    <3>2. CASE i <= last
      <4>1. SubSeq(text, 1, last)[i] = "bad" /\ i \in DOMAIN SubSeq(text, 1, last)
        BY <1>1, <2>1, <3>1, <3>2
      <4>2. QED  BY <2>2, <4>1 DEF Torn
    <3>3. CASE i > last
      <4>1. i - last \in DOMAIN rest /\ rest[i - last] = "bad"
        <5> DEFINE j == i - last
        <5>1. j \in 1..(Len(text) - last) /\ last + j = i
          BY <1>1, <2>1, <3>1, <3>3
        <5> HIDE DEF j
        <5>2. rest[j] = text[last + j] /\ j \in DOMAIN rest
          BY <1>1, <2>1, <5>1 DEF rest
        <5>3. i = last + j
          BY <5>1
        <5>4. rest[j] = "bad"
          BY <3>1, <5>2, <5>3, Zenon
        <5>5. QED  BY <5>2, <5>4 DEF j
      <4>2. Torn(rest)
        BY <4>1 DEF Torn
      <4>3. QED  BY <2>2, <2>5, <4>2, EncodeTorn
    <3>4. QED  BY <1>1, <2>1, <3>1, <3>2, <3>3
  <2>8. Torn(rest) => Torn(done.keep)
    BY <2>2, <2>5, EncodeTorn
  <2>9. ~Torn(rest) => done.keep = tail
    <3> HIDE DEF tail
    <3> QED  BY <2>2, <2>3, <2>4, EncodeUndoes DEF tail
  <2>10. p \in 0..Len(b) /\ done.send = Decode(SubSeq(b, 1, p))
    BY <1>1, <2>2, <2>3
  <2>11. QED  BY <2>6, <2>7, <2>8, <2>9, <2>10 DEF done
<1>4. QED  BY <1>2, <1>3

LEMMA SlicesJoin ==
    ASSUME NEW S, NEW s \in Seq(S), NEW i \in Nat, NEW j \in Nat, NEW k \in Nat,
           i <= j, j <= k, k <= Len(s)
    PROVE  /\ SubSeq(s, i + 1, j) \in Seq(S) /\ Len(SubSeq(s, i + 1, j)) = j - i
           /\ SubSeq(s, i + 1, j) \o SubSeq(s, j + 1, k) = SubSeq(s, i + 1, k)
<1> DEFINE a == SubSeq(s, i + 1, j)  b == SubSeq(s, j + 1, k)  c == SubSeq(s, i + 1, k)
<1>1. /\ a \in Seq(S) /\ Len(a) = j - i /\ \A x \in 1..(j - i) : a[x] = s[i + x]
      /\ b \in Seq(S) /\ Len(b) = k - j /\ \A x \in 1..(k - j) : b[x] = s[j + x]
      /\ c \in Seq(S) /\ Len(c) = k - i /\ \A x \in 1..(k - i) : c[x] = s[i + x]
  OBVIOUS
<1> HIDE DEF a, b, c
<1>2. a \o b \in Seq(S) /\ Len(a \o b) = Len(c)
  <2>1. a \o b \in Seq(S) /\ Len(a \o b) = Len(a) + Len(b)
    BY <1>1, ConcatProperties
  <2>2. QED  BY <1>1, <2>1
<1>3. ASSUME NEW x \in 1..(k - i) PROVE (a \o b)[x] = c[x]
  <2>1. (a \o b)[x] = IF x <= j - i THEN a[x] ELSE b[x - (j - i)]
    BY <1>1, ConcatProperties
  <2>2. CASE x <= j - i
    BY <1>1, <2>1, <2>2
  <2>3. CASE ~(x <= j - i)
    <3> DEFINE y == x - (j - i)
    <3>1. y \in 1..(k - j) /\ j + y = i + x
      BY <2>3
    <3>2. (a \o b)[x] = b[y]
      BY <2>1, <2>3
    <3> HIDE DEF y
    <3>3. b[y] = s[j + y]
      BY <1>1, <3>1
    <3>4. c[x] = s[i + x]
      BY <1>1
    <3>5. QED  BY <3>1, <3>2, <3>3, <3>4
  <2>4. QED  BY <2>2, <2>3
<1>4. a \o b = c
  BY <1>1, <1>2, <1>3, SeqEqual
<1>5. QED  BY <1>1, <1>4 DEF a, b, c

(* Sending the lead p of the bytes that follow what was sent.              *)
LEMMA SendingOn ==
    ASSUME NEW s \in Seq(Bytes), NEW k \in Nat, NEW m \in Nat, k <= m, m <= Len(s),
           NEW p \in 0..(m - k)
    PROVE  LET b == SubSeq(s, k + 1, m)
               sent == Decode(SubSeq(s, 1, k)) \o Decode(SubSeq(b, 1, p))
           IN  /\ Torn(sent) \/ sent = Decode(SubSeq(s, 1, k + p))
               /\ SubSeq(b, p + 1, Len(b)) = SubSeq(s, k + p + 1, m)
<1> DEFINE b == SubSeq(s, k + 1, m)
           front == SubSeq(s, 1, k)  lead == SubSeq(s, k + 1, k + p)
<1>1. k + p \in Nat /\ k + p <= m /\ k <= k + p /\ k + p <= Len(s)
  OBVIOUS
<1>2. /\ front \in Seq(Bytes) /\ lead \in Seq(Bytes) /\ Len(front) = k
      /\ front \o lead = SubSeq(s, 1, k + p)
  <2>1. 0 \in Nat /\ 0 <= k /\ 0 + 1 = 1 /\ k - 0 = k
    OBVIOUS
  <2>2. front \in Seq(Bytes) /\ Len(front) = k /\ front \o lead = SubSeq(s, 1, k + p)
    BY <1>1, <2>1, SlicesJoin
  <2>3. lead \in Seq(Bytes)
    BY <1>1, SlicesJoin
  <2>4. QED  BY <2>2, <2>3
<1>3. b \in Seq(Bytes) /\ Len(b) = m - k /\ \A x \in 1..(m - k) : b[x] = s[k + x]
  OBVIOUS
<1>4. SubSeq(b, 1, p) = lead
  <2>1. SubSeq(b, 1, p) \in Seq(Bytes) /\ Len(SubSeq(b, 1, p)) = p
    BY <1>3
  <2>2. Len(lead) = p /\ \A x \in 1..p : lead[x] = s[k + x]
    BY <1>1
  <2>3. \A x \in 1..p : SubSeq(b, 1, p)[x] = b[x]
    BY <1>3
  <2>4. \A x \in 1..p : SubSeq(b, 1, p)[x] = lead[x]
    BY <1>3, <2>2, <2>3
  <2> HIDE DEF b, lead
  <2>5. QED  BY <1>2, <2>1, <2>2, <2>4, SeqEqual
<1>5. SubSeq(b, p + 1, Len(b)) = SubSeq(s, k + p + 1, m)
  <2> DEFINE u == SubSeq(b, p + 1, Len(b))  v == SubSeq(s, k + p + 1, m)
  <2>1. v \in Seq(Bytes) /\ Len(v) = m - (k + p) /\ \A x \in 1..(m - (k + p)) : v[x] = s[k + p + x]
    BY <1>1
  <2>2. u \in Seq(Bytes) /\ Len(u) = (m - k) - p /\ \A x \in 1..((m - k) - p) : u[x] = b[p + x]
    <3> HIDE DEF b
    <3> QED  BY <1>1, <1>3
  <2> HIDE DEF u, v, b
  <2>3. ASSUME NEW x \in 1..(m - (k + p)) PROVE u[x] = v[x]
    <3>1. p + x \in 1..(m - k) /\ k + (p + x) = k + p + x /\ x \in 1..((m - k) - p)
      OBVIOUS
    <3>2. b[p + x] = s[k + (p + x)]
      BY <1>3, <3>1
    <3>3. u[x] = b[p + x] /\ v[x] = s[k + p + x]
      BY <2>1, <2>2, <3>1
    <3>4. QED  BY <3>1, <3>2, <3>3
  <2>4. (m - k) - p = m - (k + p)
    OBVIOUS
  <2>5. u = v
    BY <2>1, <2>2, <2>3, <2>4, SeqEqual
  <2>6. QED  BY <2>5 DEF u, v
<1> DEFINE sent == Decode(front) \o Decode(lead)
<1>6. Torn(sent) \/ sent = Decode(SubSeq(s, 1, k + p))
  <2> HIDE DEF front, lead
  <2>1. Decode(front) \in Seq(Chars) /\ Decode(lead) \in Seq(Chars)
    BY <1>2, DecodeFacts
  <2>2. CASE front # <<>> /\ front[Len(front)] = "h"
    BY <1>2, <2>1, <2>2, DecodeTorn, TornTogether
  <2>3. CASE ~(front # <<>> /\ front[Len(front)] = "h")
    BY <1>2, <2>3, DecodeJoins
  <2>4. QED  BY <2>2, <2>3
<1>7. QED  BY <1>4, <1>5, <1>6

(* A step that takes bytes up to t, sends some of what it has and keeps the *)
(* rest keeps the invariant.                                                *)
LEMMA PieceKeeps ==
    ASSUME CaptureInv, NEW t \in taken..Len(written), NEW bytes,
           bytes = held \o SubSeq(written, taken + 1, t),
           NEW send \in Seq(Chars), NEW keep \in Seq(Bytes), Len(keep) <= OutputBufferSize,
           Torn(bytes) => Torn(send) \/ Torn(keep),
           \/ Torn(keep)
           \/ \E p \in 0..Len(bytes) : /\ send = Decode(SubSeq(bytes, 1, p))
                                       /\ keep = SubSeq(bytes, p + 1, Len(bytes)),
           pieces' = pieces \o send, held' = keep, taken' = t, written' = written,
           stream' \in {"open", "ended", "closed"}, stream' = "closed" => keep = <<>>
    PROVE  CaptureInv'
<1>1. /\ written \in Seq(Bytes) /\ held \in Seq(Bytes) /\ pieces \in Seq(Chars)
      /\ taken \in Nat /\ Len(written) \in Nat /\ taken <= Len(written)
      /\ t \in Nat /\ taken <= t /\ t <= Len(written)
  BY DEF CaptureInv, CaptureTyped
<1>2. CaptureTyped'
  <2>1. pieces' \in Seq(Chars)
    BY <1>1, ConcatProperties
  <2>2. QED  BY <1>1, <2>1 DEF CaptureInv, CaptureTyped
<1>3. Faithful'
  <2>1. SubSeq(written, taken + 1, t) \in Seq(Bytes)
    BY <1>1, SlicesJoin
  <2>2. CASE Torn(pieces)
    <3>1. Torn(pieces')
      BY <1>1, <2>2, TornTogether
    <3>2. QED  BY <3>1 DEF Faithful, Torn
  <2>3. CASE Torn(held)
    <3>1. Torn(bytes)
      BY <1>1, <2>1, <2>3, TornTogether
    <3>2. Torn(pieces') \/ Torn(held')
      BY <1>1, <3>1, TornTogether
    <3>3. QED  BY <3>2 DEF Faithful, Torn
  <2>4. ASSUME NEW k \in 0..taken, held = SubSeq(written, k + 1, taken),
               pieces = Decode(SubSeq(written, 1, k))
        PROVE  Faithful'
    <3>1. k \in Nat /\ k <= taken /\ k <= t
      BY <1>1, <2>4
    <3>2. bytes = SubSeq(written, k + 1, t) /\ Len(bytes) = t - k
      <4>1. /\ SubSeq(written, k + 1, taken) \o SubSeq(written, taken + 1, t)
                  = SubSeq(written, k + 1, t)
            /\ Len(SubSeq(written, k + 1, t)) = t - k
        BY <1>1, <3>1, SlicesJoin
      <4>2. QED  BY <2>4, <4>1
    <3>3. CASE Torn(keep)
      BY <3>3 DEF Faithful, Torn
    <3>4. ASSUME NEW p \in 0..Len(bytes), send = Decode(SubSeq(bytes, 1, p)),
                 keep = SubSeq(bytes, p + 1, Len(bytes))
          PROVE  Faithful'
      <4>1. p \in 0..(t - k) /\ k + p \in 0..t
        BY <1>1, <3>1, <3>2, <3>4
      <4>2. /\ Torn(pieces') \/ pieces' = Decode(SubSeq(written, 1, k + p))
            /\ keep = SubSeq(written, k + p + 1, t)
        <5> DEFINE b == SubSeq(written, k + 1, t)
                   sent == Decode(SubSeq(written, 1, k)) \o Decode(SubSeq(b, 1, p))
        <5>1. /\ Torn(sent) \/ sent = Decode(SubSeq(written, 1, k + p))
              /\ SubSeq(b, p + 1, Len(b)) = SubSeq(written, k + p + 1, t)
          BY <1>1, <3>1, <4>1, SendingOn
        <5>2. bytes = b
          BY <3>2
        <5>3. pieces' = sent /\ keep = SubSeq(b, p + 1, Len(b))
          BY <2>4, <3>4, <5>2
        <5> HIDE DEF b, sent
        <5>4. QED  BY <5>1, <5>3
      <4>3. CASE Torn(pieces')
        BY <4>3 DEF Faithful, Torn
      <4>4. CASE pieces' = Decode(SubSeq(written, 1, k + p))
        <5>1. Decode(SubSeq(written', 1, k + p)) = Decode(SubSeq(written, 1, k + p))
          OBVIOUS
        <5>2. \E l \in 0..taken' : /\ held' = SubSeq(written', l + 1, taken')
                                   /\ pieces' = Decode(SubSeq(written, 1, l))
          BY <4>1, <4>2, <4>4
        <5>3. QED  BY <5>2 DEF Faithful
      <4>5. QED  BY <4>2, <4>3, <4>4
    <3>5. QED  BY <3>3, <3>4
  <2>5. QED  BY <2>2, <2>3, <2>4 DEF CaptureInv, Faithful
<1>4. QED  BY <1>2, <1>3 DEF CaptureInv

(* Sending everything is such a step.                                       *)
LEMMA AllSent ==
    ASSUME NEW b \in Seq(Bytes)
    PROVE  LET done == SendAll(b)
           IN  /\ done.send \in Seq(Chars) /\ done.keep = <<>> /\ done.keep \in Seq(Bytes)
               /\ Len(done.keep) = 0
               /\ Torn(b) => Torn(done.send)
               /\ \E p \in 0..Len(b) : /\ done.send = Decode(SubSeq(b, 1, p))
                                       /\ done.keep = SubSeq(b, p + 1, Len(b))
<1>1. SendAll(b).send = Decode(b) /\ SendAll(b).keep = <<>>
  BY DEF SendAll
<1>2. SubSeq(b, 1, Len(b)) = b /\ SubSeq(b, Len(b) + 1, Len(b)) = <<>>
  <2>1. Len(b) \in Int /\ Len(b) + 1 \in Int /\ Len(b) < Len(b) + 1
    OBVIOUS
  <2>2. QED  BY <2>1, SubSeqFull, SubSeqEmpty
<1>3. Len(b) \in 0..Len(b)
  OBVIOUS
<1>4. Decode(b) \in Seq(Chars) /\ (Torn(b) => Torn(Decode(b)))
  BY DecodeFacts, DecodeTorn
<1> DEFINE done == SendAll(b)
<1>5. done.send = Decode(b) /\ done.keep = <<>> /\ <<>> \in Seq(Bytes) /\ Len(<<>>) = 0
  BY <1>1
<1>6. \E p \in 0..Len(b) : /\ done.send = Decode(SubSeq(b, 1, p))
                            /\ done.keep = SubSeq(b, p + 1, Len(b))
  <2> HIDE DEF done
  <2> QED  BY <1>2, <1>3, <1>5
<1> HIDE DEF done
<1>7. QED  BY <1>4, <1>5, <1>6 DEF done

LEMMA NothingNew ==
    ASSUME CaptureInv
    PROVE  /\ taken \in taken..Len(written)
           /\ held \o SubSeq(written, taken + 1, taken) = held
<1>1. taken \in Nat /\ taken <= Len(written) /\ held \in Seq(Bytes) /\ Len(written) \in Nat
  BY DEF CaptureInv, CaptureTyped
<1>2. SubSeq(written, taken + 1, taken) = <<>>
  BY <1>1, SubSeqEmpty
<1>3. QED  BY <1>1, <1>2, ConcatEmptySeq

LEMMA ChildWritesKeeps ==
    ASSUME CaptureInv, ChildWrites
    PROVE  CaptureInv'
<1>1. PICK bytes \in {<<"x">>, <<"n">>, <<"h", "l">>} :
          Len(written) + Len(bytes) <= MaxBytes /\ written' = written \o bytes
  BY DEF ChildWrites
<1>2. bytes \in Seq(Bytes)
  BY <1>1 DEF Bytes
<1>3. /\ written \in Seq(Bytes) /\ taken \in Nat /\ taken <= Len(written)
      /\ Len(written) \in Nat /\ Len(bytes) \in Nat
  BY <1>2 DEF CaptureInv, CaptureTyped
<1>4. written' \in Seq(Bytes) /\ Len(written') = Len(written) + Len(bytes)
  BY <1>1, <1>2, <1>3, ConcatProperties
<1>5. CaptureTyped'
  BY <1>1, <1>3, <1>4 DEF CaptureInv, CaptureTyped, ChildWrites
<1>6. ASSUME NEW i \in 1..(taken + 1), NEW j \in 0..taken
      PROVE  SubSeq(written', i, j) = SubSeq(written, i, j)
  <2> DEFINE u == SubSeq(written', i, j)  v == SubSeq(written, i, j)
  <2>1. \A x \in 1..Len(written) : written'[x] = written[x]
    BY <1>1, <1>2, <1>3
  <2>2. /\ u \in Seq(Bytes) /\ Len(u) = (IF i <= j THEN j - i + 1 ELSE 0)
        /\ \A x \in 1..(j - i + 1) : u[x] = written'[i + x - 1]
    <3>1. \A x \in i..j : written'[x] \in Bytes
      BY <1>3, <1>4
    <3>2. i \in Int /\ j \in Int
      BY <1>3
    <3>3. QED  BY <3>1, <3>2, SubSeqProperties
  <2>3. /\ v \in Seq(Bytes) /\ Len(v) = (IF i <= j THEN j - i + 1 ELSE 0)
        /\ \A x \in 1..(j - i + 1) : v[x] = written[i + x - 1]
    <3>1. \A x \in i..j : written[x] \in Bytes
      BY <1>3
    <3>2. i \in Int /\ j \in Int
      BY <1>3
    <3>3. QED  BY <3>1, <3>2, SubSeqProperties
  <2> HIDE DEF u, v
  <2>4. ASSUME NEW x \in 1..Len(u) PROVE u[x] = v[x]
    <3>1. x \in 1..(j - i + 1) /\ i + x - 1 \in 1..Len(written)
      BY <1>3, <2>2
    <3>2. QED  BY <2>1, <2>2, <2>3, <3>1
  <2>5. u = v
    BY <2>2, <2>3, <2>4, SeqEqual
  <2>6. QED  BY <2>5 DEF u, v
<1>7. Faithful'
  <2>1. held' = held /\ pieces' = pieces /\ taken' = taken
    BY DEF ChildWrites
  <2>2. CASE Torn(pieces) \/ Torn(held)
    BY <2>1, <2>2 DEF Faithful, Torn
  <2>3. ASSUME NEW k \in 0..taken, held = SubSeq(written, k + 1, taken),
               pieces = Decode(SubSeq(written, 1, k))
        PROVE  Faithful'
    <3>1. SubSeq(written', k + 1, taken) = SubSeq(written, k + 1, taken)
      <4>1. k + 1 \in 1..(taken + 1) /\ taken \in 0..taken
        BY <1>3
      <4>2. QED  BY <1>6, <4>1
    <3>2. SubSeq(written', 1, k) = SubSeq(written, 1, k)
      <4>1. 1 \in 1..(taken + 1)
        BY <1>3
      <4>2. QED  BY <1>6, <4>1
    <3>3. held' = SubSeq(written', k + 1, taken') /\ pieces' = Decode(SubSeq(written', 1, k))
      BY <2>1, <2>3, <3>1, <3>2
    <3>4. k \in 0..taken'
      BY <2>1
    <3>5. QED  BY <3>3, <3>4 DEF Faithful
  <2>4. QED  BY <2>2, <2>3 DEF CaptureInv, Faithful
<1>8. QED  BY <1>5, <1>7 DEF CaptureInv

LEMMA HandleChunkKeeps ==
    ASSUME CaptureInv, HandleChunk
    PROVE  CaptureInv'
<1> DEFINE takenOn(n) == held \o SubSeq(written, taken + 1, taken + n)
           done(n) == IF Len(takenOn(n)) > OutputBufferSize
                      THEN SendAll(takenOn(n)) ELSE SendLines(takenOn(n))
<1>1. PICK n \in 1..(Len(written) - taken) :
          taken' = taken + n /\ pieces' = pieces \o done(n).send /\ held' = done(n).keep
  BY DEF HandleChunk
<1> DEFINE t == taken + n  bytes == takenOn(n)
<1>2. /\ written \in Seq(Bytes) /\ held \in Seq(Bytes) /\ taken \in Nat /\ Len(written) \in Nat
      /\ OutputBufferSize \in Nat /\ t \in taken..Len(written) /\ t \in Nat
  BY CaptureAssumption DEF CaptureInv, CaptureTyped
<1>3. bytes \in Seq(Bytes)
  <2>1. SubSeq(written, taken + 1, taken + n) \in Seq(Bytes)
    BY <1>2
  <2>2. QED  BY <1>2, <2>1, ConcatProperties
<1>4. bytes = held \o SubSeq(written, taken + 1, t)
  OBVIOUS
<1>5. written' = written /\ stream' = stream /\ stream # "closed"
  BY DEF HandleChunk
<1>6. stream' \in {"open", "ended", "closed"} /\ stream' # "closed"
  BY <1>5 DEF CaptureInv, CaptureTyped
<1>7. CASE Len(bytes) > OutputBufferSize
  <2>1. pieces' = pieces \o SendAll(bytes).send /\ held' = SendAll(bytes).keep
    BY <1>1, <1>7
  <2> DEFINE send == SendAll(bytes).send  keep == SendAll(bytes).keep
  <2>2. taken' = t /\ written' = written
    BY <1>1, <1>5
  <2> HIDE DEF bytes, t, takenOn, done
  <2>3. /\ send \in Seq(Chars) /\ keep \in Seq(Bytes) /\ Len(keep) = 0
        /\ Torn(bytes) => Torn(send)
        /\ \E p \in 0..Len(bytes) : /\ send = Decode(SubSeq(bytes, 1, p))
                                    /\ keep = SubSeq(bytes, p + 1, Len(bytes))
    BY <1>3, AllSent
  <2> HIDE DEF send, keep
  <2>4. Len(keep) <= OutputBufferSize
    BY <1>2, <2>3
  <2>5. pieces' = pieces \o send /\ held' = keep
    BY <2>1 DEF send, keep
  <2>6. QED  BY <1>2, <1>4, <1>6, <2>2, <2>3, <2>4, <2>5, PieceKeeps
<1>8. CASE ~(Len(bytes) > OutputBufferSize)
  <2>1. pieces' = pieces \o SendLines(bytes).send /\ held' = SendLines(bytes).keep
    BY <1>1, <1>8
  <2> DEFINE send == SendLines(bytes).send  keep == SendLines(bytes).keep
  <2>2. taken' = t /\ written' = written
    BY <1>1, <1>5
  <2> HIDE DEF bytes, t, takenOn, done
  <2>3. /\ send \in Seq(Chars) /\ keep \in Seq(Bytes) /\ Len(keep) <= Len(bytes)
        /\ Torn(bytes) => Torn(send) \/ Torn(keep)
        /\ \/ Torn(keep)
           \/ \E p \in 0..Len(bytes) : /\ send = Decode(SubSeq(bytes, 1, p))
                                       /\ keep = SubSeq(bytes, p + 1, Len(bytes))
    BY <1>3, LinesSent
  <2> HIDE DEF send, keep
  <2>4. Len(keep) <= OutputBufferSize
    <3>1. Len(bytes) \in Nat /\ Len(keep) \in Nat
      BY <1>3, <2>3
    <3>2. QED  BY <1>2, <1>8, <2>3, <3>1
  <2>5. pieces' = pieces \o send /\ held' = keep
    BY <2>1 DEF send, keep
  <2>6. QED  BY <1>2, <1>4, <1>6, <2>2, <2>3, <2>4, <2>5, PieceKeeps
<1>9. QED  BY <1>7, <1>8

(* The timer, and the end of the stream, send all that is held.             *)
LEMMA SendingAllKeeps ==
    ASSUME CaptureInv, pieces' = pieces \o SendAll(held).send, held' = SendAll(held).keep,
           UNCHANGED <<written, taken>>, stream' \in {"open", "ended", "closed"}
    PROVE  CaptureInv'
<1>1. held \in Seq(Bytes) /\ OutputBufferSize \in Nat
  BY CaptureAssumption DEF CaptureInv, CaptureTyped
<1>2. Len(SendAll(held).keep) <= OutputBufferSize
  BY <1>1, AllSent
<1>3. QED  BY <1>1, <1>2, AllSent, NothingNew, PieceKeeps

(* CaptureTypeOK holds in every reachable state, and the output so far is   *)
(* what was sent and what is held, or a cut went through a character.       *)
THEOREM CaptureInvariant == CaptureSpec => []CaptureInv
<1>1. CaptureInit => CaptureInv
  <2> SUFFICES ASSUME CaptureInit PROVE CaptureInv
    OBVIOUS
  <2>1. CaptureTyped
    BY CaptureAssumption DEF CaptureInit, CaptureTyped
  <2>2. SubSeq(written, 1, 0) = <<>> /\ SubSeq(written, 0 + 1, taken) = <<>> /\ 0 \in 0..taken
    BY SubSeqEmpty DEF CaptureInit
  <2>3. Faithful
    BY <2>2, DecodeNothing DEF CaptureInit, Faithful
  <2>4. QED  BY <2>1, <2>3 DEF CaptureInv
<1>2. CaptureInv /\ [CaptureNext]_captureVars => CaptureInv'
  <2> SUFFICES ASSUME CaptureInv, [CaptureNext]_captureVars PROVE CaptureInv'
    OBVIOUS
  <2>1. CASE ChildWrites
    BY <2>1, ChildWritesKeeps
  <2>2. CASE ChildEnds
    BY <2>2 DEF ChildEnds, CaptureInv, CaptureTyped, Faithful, Torn
  <2>3. CASE HandleChunk
    BY <2>3, HandleChunkKeeps
  <2>4. CASE Flush
    <3>1. stream' \in {"open", "ended", "closed"}
      BY <2>4 DEF Flush, CaptureInv, CaptureTyped
    <3>2. QED  BY <2>4, <3>1, SendingAllKeeps DEF Flush
  <2>5. CASE Destroy
    BY <2>5, SendingAllKeeps DEF Destroy
  <2>6. CASE UNCHANGED captureVars
    BY <2>6 DEF captureVars, CaptureInv, CaptureTyped, Faithful, Torn
  <2>7. QED  BY <2>1, <2>2, <2>3, <2>4, <2>5, <2>6 DEF CaptureNext
<1>3. QED  BY <1>1, <1>2, PTL DEF CaptureSpec

(* NothingLostOrDoubled, however the output is cut.                         *)
THEOREM OutputArrives == CaptureSpec => []NothingLostOrDoubled
<1>1. ASSUME CaptureInv PROVE NothingLostOrDoubled
  <2> DEFINE arrived == pieces \o Decode(held)  given == Decode(SubSeq(written, 1, taken))
  <2>1. /\ written \in Seq(Bytes) /\ held \in Seq(Bytes) /\ pieces \in Seq(Chars)
        /\ taken \in Nat /\ Len(written) \in Nat /\ taken <= Len(written)
    BY <1>1 DEF CaptureInv, CaptureTyped
  <2>2. Decode(held) \in Seq(Chars)
    BY <2>1, DecodeFacts
  <2>3. CASE Torn(pieces) \/ Torn(held)
    <3>1. Torn(arrived)
      BY <2>1, <2>2, <2>3, DecodeTorn, TornTogether
    <3>2. QED  BY <3>1 DEF NothingLostOrDoubled, Torn
  <2>4. ASSUME NEW k \in 0..taken, held = SubSeq(written, k + 1, taken),
               pieces = Decode(SubSeq(written, 1, k))
        PROVE  NothingLostOrDoubled
    <3>1. k \in Nat /\ k <= taken /\ taken - k \in 0..(taken - k) /\ k + (taken - k) = taken
      BY <2>1, <2>4
    <3>2. Len(held) = taken - k
      BY <2>1, <2>4, <3>1
    <3>3. SubSeq(held, 1, taken - k) = held
      BY <2>1, <3>2, SubSeqFull
    <3> DEFINE p == taken - k
    <3>4. p \in 0..(taken - k) /\ k + p = taken /\ SubSeq(held, 1, p) = held
      BY <3>1, <3>3
    <3> HIDE DEF p
    <3>5. Torn(arrived) \/ arrived = Decode(SubSeq(written, 1, k + p))
      <4> DEFINE b == SubSeq(written, k + 1, taken)
                 sent == Decode(SubSeq(written, 1, k)) \o Decode(SubSeq(b, 1, p))
      <4>1. Torn(sent) \/ sent = Decode(SubSeq(written, 1, k + p))
        BY <2>1, <3>1, <3>4, SendingOn
      <4>2. held = b
        BY <2>4
      <4>3. arrived = sent
        BY <2>4, <3>4, <4>2
      <4> HIDE DEF arrived, sent
      <4>4. QED  BY <4>1, <4>3
    <3>6. QED  BY <3>4, <3>5 DEF NothingLostOrDoubled, Torn
  <2>5. QED  BY <1>1, <2>3, <2>4 DEF CaptureInv, Faithful
<1>2. QED  BY <1>1, CaptureInvariant, PTL

LEMMA CaptureTypesHold == CaptureInv => CaptureTypeOK
  BY DEF CaptureInv, CaptureTyped, CaptureTypeOK

-----------------------------------------------------------------------------
(* The clients together.                                                    *)

LEMMA ExecutorTypesHold == ExecutorInv => ExecutorTypeOK
  <1> SUFFICES ASSUME ExecutorInv PROVE ExecutorTypeOK
    OBVIOUS
  <1>1. \A r \in Runs : run[r] \in RunShape
    BY DEF ExecutorInv, RunsTyped
  <1>2. \A r \in Runs : /\ run[r].child \in {"none", "alive", "exited", "closed"}
                        /\ run[r].report \in {"none", "COMPLETED", "FAILED", "dropped"}
    BY <1>1 DEF RunShape, Children
  <1>3. QED  BY <1>2 DEF ExecutorInv, RunsTyped, IdsMatch, ExecutorTypeOK

(* Of each command the executor knows, the table holds its own run, and     *)
(* what was reported of a run was reported once its child had closed.       *)
THEOREM ExecutorTypesCorrect == ExecutorSpec => []ExecutorTypeOK
  BY ExecutorInvariant, ExecutorTypesHold, PTL

(* The output a stream holds back stays within its buffer.                  *)
THEOREM CaptureTypesCorrect == CaptureSpec => []CaptureTypeOK
  BY CaptureInvariant, CaptureTypesHold, PTL

(* The rows, the stored tokens and every process of the command line are of *)
(* their shape.                                                             *)
THEOREM CliTypesCorrect == CliSpec => []CliTypeOK
  <1>1. CliInv => CliTypeOK
    BY DEF CliInv, CliTyped, RowShape, CliShape, CredsShape, CliTypeOK
  <1>2. QED  BY <1>1, CliInvariant, PTL

(* A manager's timers, the breaker's failures and the queue stay within     *)
(* their limits, and a call of connect() has the socket it waits for.       *)
THEOREM AgentTypesCorrect == AgentSpec => []AgentTypeOK
  <1>1. AgentSpec => []AgentRest
    <2>1. AgentInv /\ AgentRest /\ [AgentNext]_agentVars => AgentRest'
      BY AgentRestStep
    <2>2. QED  BY <2>1, AgentRestStart, AgentInvariant, PTL DEF AgentSpec
  <1>2. QED  BY <1>1, AgentInvariant, AgentTypesHold, PTL

(* A part that does not move takes a step of its own that changes nothing.  *)
LEMMA ClientsMove ==
    [ClientsNext]_clientsVars =>
        /\ [AgentNext]_agentVars /\ [ExecutorNext]_executorVars /\ [CaptureNext]_captureVars
        /\ [DashNext]_dashVars /\ [CliNext]_cliVars
  BY DEF ClientsNext, clientsVars

(* Each client behaves as it does alone: what is proved of its own          *)
(* specification holds of it in the composition.                            *)
THEOREM ClientsBehave ==
    ClientsSpec => AgentSpec /\ ExecutorSpec /\ CaptureSpec /\ DashSpec /\ CliSpec
  <1>1. ClientsInit => AgentInit /\ ExecutorInit /\ CaptureInit /\ DashInit /\ CliInit
    BY DEF ClientsInit
  <1>2. QED
    BY <1>1, ClientsMove, PTL
    DEF ClientsSpec, AgentSpec, ExecutorSpec, CaptureSpec, DashSpec, CliSpec

(* Whichever client moves, the state of every one is of its shape.          *)
THEOREM ClientsTypesCorrect == ClientsSpec => []ClientsTypeOK
  <1>1. AgentTypeOK /\ ExecutorTypeOK /\ CaptureTypeOK /\ DashTypeOK /\ CliTypeOK => ClientsTypeOK
    BY DEF ClientsTypeOK
  <1>2. QED
    BY <1>1, ClientsBehave, AgentTypesCorrect, ExecutorTypesCorrect, CaptureTypesCorrect,
       DashTypeCorrect, CliTypesCorrect, PTL
=============================================================================
