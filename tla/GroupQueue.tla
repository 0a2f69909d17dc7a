----------------------------- MODULE GroupQueue -----------------------------
(***************************************************************************)
(* The in-memory run queue of RBClaw (src/group-queue*.ts).                *)
(*                                                                         *)
(* Every chat group has at most one pending "message check" (a flag) and a *)
(* FIFO of pending tasks.  The queue starts runs - message runs handled by *)
(* processMessagesFn, task runs handled by the task's own function - under *)
(* a global limit on concurrent agents, retries failed message runs with a *)
(* back-off timer, and supervises the agent process of each run.           *)
(*                                                                         *)
(* The program is one event loop: a callback runs to completion before the *)
(* next one starts.  `cont' is the rest of the callback under way: while   *)
(* it is not "none" only the steps DrainGroup and DrainWaiting of that     *)
(* callback can happen.  A run that is awaited is a member of `runs'; it   *)
(* is recorded there and not only in the group's own fields because the    *)
(* code's finally-block resets the group's fields whichever of the group's *)
(* runs ends.                                                              *)
(***************************************************************************)
EXTENDS Integers, Sequences, FiniteSets, SequencesExt

CONSTANTS
  Groups,                   \* group JIDs
  Tasks,                    \* ids of tasks handed to enqueueTask
  RunIds,                   \* identities of runs (createRunId)
  Procs,                    \* identities of agent processes
  TurnCloseReasons,         \* reasons a turn controller passes to closeStdin
  LoopCloseReasons,         \* reasons the message loop passes to closeStdin
  IpcDirChoices,            \* whether a caller passes an ipcDir: a subset of BOOLEAN
  MaxConcurrentAgents,      \* MAX_CONCURRENT_AGENTS
  RecoveryConcurrentAgents, \* RECOVERY_CONCURRENT_AGENTS
  MaxRetries,               \* MAX_RETRIES
  MaxArrivals,              \* bound: calls of enqueueMessageCheck/enqueueTask
  MaxSpawns,                \* bound: agent processes spawned by one run
  None                      \* null

ASSUME LimitsAssumption ==
  /\ MaxConcurrentAgents \in Nat \ {0}
  /\ RecoveryConcurrentAgents \in Nat \ {0}
  /\ MaxRetries \in Nat
  /\ MaxArrivals \in Nat
  /\ MaxSpawns \in Nat
  /\ IpcDirChoices \subseteq BOOLEAN

ASSUME NoneAssumption == None \notin RunIds \cup Procs \cup Tasks \cup Groups

VARIABLES
  phase,            \* runPhase of each group
  currentRunId,     \* id of the group's message run, or None
  runningTaskId,    \* id of the group's running task, or None
  pendingMessages,  \* a message check is due
  pendingTasks,     \* FIFO of queued task ids
  retryCount,
  retryTimer,       \* "off", "waiting", or "elapsed" (due, not yet fired)
  retryScheduled,   \* retryScheduledAt # null
  waitingGroups,    \* groups waiting for a slot, oldest first
  activeCount,
  activeTaskCount,
  recovery,         \* "before", "on" or "over": recoveryMode and its timer
  handlerSet,       \* processMessagesFn # null
  shutdown,         \* "no", "grace", "term" or "exited"
  cont,             \* the rest of the running callback
  runs              \* runs whose promise is pending

schedVars == <<phase, currentRunId, runningTaskId, pendingMessages,
               pendingTasks, retryCount, retryTimer, retryScheduled,
               waitingGroups, activeCount, activeTaskCount, recovery,
               handlerSet, shutdown, cont, runs>>

VARIABLES
  ipcDir,           \* the group has an IPC directory
  lastCloseRequest, \* [run, reason] of the last closeStdin of the run, or None
  process,          \* the registered agent process, or None
  postTerm,         \* what postCloseTermTimer captured, or None
  postKill,         \* what postCloseKillTimer captured, or None
  stopKill,         \* processes with a pending SIGKILL fallback of /stop
  shutdownProcs,    \* processes that shutdown waits for
  live,             \* the run a living process works for, or None
  sig               \* strongest signal sent to a process

procVars == <<ipcDir, lastCloseRequest, process, postTerm, postKill, stopKill,
              shutdownProcs, live, sig>>

VARIABLE arrivals   \* calls made so far from outside (bound)

vars == <<schedVars, procVars, arrivals>>

-----------------------------------------------------------------------------

Phases == {"idle", "running_messages", "running_task", "closing_messages"}

Run == [id : RunIds, group : Groups, kind : {"messages", "task"},
        task : Tasks \cup {None}, spawns : 0 .. MaxSpawns,
        closeRequested : BOOLEAN]

Close == [run : RunIds \cup {None},
          reason : TurnCloseReasons \cup LoopCloseReasons \cup {"shutdown"}]

Captured == [proc : Procs, run : RunIds]

\* What the running callback still has to do.
Conts == [step : {"none", "drainWaiting"}, group : {None}]
           \cup [step : {"drainGroup"}, group : Groups]

NoCont == [step |-> "none", group |-> None]

TypeOK ==
  /\ phase \in [Groups -> Phases]
  /\ currentRunId \in [Groups -> RunIds \cup {None}]
  /\ runningTaskId \in [Groups -> Tasks \cup {None}]
  /\ pendingMessages \in [Groups -> BOOLEAN]
  /\ pendingTasks \in [Groups -> Seq(Tasks)]
  /\ retryCount \in [Groups -> 0 .. MaxRetries]
  /\ retryTimer \in [Groups -> {"off", "waiting", "elapsed"}]
  /\ retryScheduled \in [Groups -> BOOLEAN]
  /\ waitingGroups \in Seq(Groups)
  /\ activeCount \in Int
  /\ activeTaskCount \in Int
  /\ recovery \in {"before", "on", "over"}
  /\ handlerSet \in BOOLEAN
  /\ shutdown \in {"no", "grace", "term", "exited"}
  /\ cont \in Conts
  /\ runs \in SUBSET Run
  /\ ipcDir \in [Groups -> BOOLEAN]
  /\ lastCloseRequest \in [Groups -> Close \cup {None}]
  /\ process \in [Groups -> Procs \cup {None}]
  /\ postTerm \in [Groups -> Captured \cup {None}]
  /\ postKill \in [Groups -> Captured \cup {None}]
  /\ stopKill \in SUBSET Procs
  /\ shutdownProcs \in SUBSET Procs
  /\ live \in [Procs -> RunIds \cup {None}]
  /\ sig \in [Procs -> {"none", "TERM", "KILL"}]
  /\ arrivals \in 0 .. MaxArrivals

Init ==
  /\ phase = [g \in Groups |-> "idle"]
  /\ currentRunId = [g \in Groups |-> None]
  /\ runningTaskId = [g \in Groups |-> None]
  /\ pendingMessages = [g \in Groups |-> FALSE]
  /\ pendingTasks = [g \in Groups |-> << >>]
  /\ retryCount = [g \in Groups |-> 0]
  /\ retryTimer = [g \in Groups |-> "off"]
  /\ retryScheduled = [g \in Groups |-> FALSE]
  /\ waitingGroups = << >>
  /\ activeCount = 0
  /\ activeTaskCount = 0
  /\ recovery = "before"
  /\ handlerSet = FALSE
  /\ shutdown = "no"
  /\ cont = NoCont
  /\ runs = {}
  /\ ipcDir = [g \in Groups |-> FALSE]
  /\ lastCloseRequest = [g \in Groups |-> None]
  /\ process = [g \in Groups |-> None]
  /\ postTerm = [g \in Groups |-> None]
  /\ postKill = [g \in Groups |-> None]
  /\ stopKill = {}
  /\ shutdownProcs = {}
  /\ live = [p \in Procs |-> None]
  /\ sig = [p \in Procs |-> "none"]
  /\ arrivals = 0

-----------------------------------------------------------------------------
(* Derived values *)

MaxConcurrentTasks ==
  IF MaxConcurrentAgents > 1 THEN MaxConcurrentAgents - 1 ELSE 1

EffectiveMaxConcurrent ==
  IF recovery = "on" THEN RecoveryConcurrentAgents ELSE MaxConcurrentAgents

shuttingDown == shutdown # "no"

\* The event loop is between two callbacks and the program has not exited.
EventLoopFree == cont = NoCont /\ shutdown # "exited"

InFlight(g) == \E x \in runs : x.group = g

\* Date.now() < retryScheduledAt
BackoffActive(g) == retryScheduled[g] /\ retryTimer[g] = "waiting"

\* Run ids are unique: an id is reused in the model only when nothing in the
\* program can still mention the run that had it.
FreshRunIds ==
  {r \in RunIds :
     /\ \A x \in runs : x.id # r
     /\ \A p \in Procs : live[p] # r
     /\ \A g \in Groups :
          /\ currentRunId[g] # r
          /\ lastCloseRequest[g] # None => lastCloseRequest[g].run # r
          /\ postTerm[g] # None => postTerm[g].run # r
          /\ postKill[g] # None => postKill[g].run # r}

FreshProcs ==
  {p \in Procs \ (stopKill \cup shutdownProcs) :
     /\ live[p] = None
     /\ \A g \in Groups :
          /\ process[g] # p
          /\ postTerm[g] # None => postTerm[g].proc # p
          /\ postKill[g] # None => postKill[g].proc # p}

-----------------------------------------------------------------------------
(* Starting a run: the synchronous part of runForGroup and runTask.  An    *)
(* invalid phase transition is only logged, so there is no guard on phase. *)

NewRun(r, g, kind, t) ==
  [id |-> r, group |-> g, kind |-> kind, task |-> t, spawns |-> 0,
   closeRequested |-> FALSE]

RunForGroup(g) ==
  \E r \in FreshRunIds :
    /\ currentRunId' = [currentRunId EXCEPT ![g] = r]
    /\ pendingMessages' = [pendingMessages EXCEPT ![g] = FALSE]
    /\ phase' = [phase EXCEPT ![g] = "running_messages"]
    /\ activeCount' = activeCount + 1
    /\ runs' = runs \cup {NewRun(r, g, "messages", None)}
    /\ UNCHANGED <<runningTaskId, activeTaskCount>>

RunTask(g, t) ==
  \E r \in FreshRunIds :
    /\ runningTaskId' = [runningTaskId EXCEPT ![g] = t]
    /\ phase' = [phase EXCEPT ![g] = "running_task"]
    /\ activeCount' = activeCount + 1
    /\ activeTaskCount' = activeTaskCount + 1
    /\ runs' = runs \cup {NewRun(r, g, "task", t)}
    /\ UNCHANGED <<currentRunId, pendingMessages>>

NoStart == UNCHANGED <<phase, currentRunId, runningTaskId, activeCount,
                       activeTaskCount, runs>>

\* waitingGroups.includes(g) || waitingGroups.push(g)
WaitingWith(g) ==
  IF Contains(waitingGroups, g) THEN waitingGroups
                                ELSE Append(waitingGroups, g)

-----------------------------------------------------------------------------
(* Enqueueing *)

\* Mutants of MessageCheck: the limit is not tested; the phase is not tested.
MessageCheckNoLimit(g, inBackoff) ==
  \/ /\ phase[g] # "idle" \/ (handlerSet /\ inBackoff)
     /\ pendingMessages' = [pendingMessages EXCEPT ![g] = TRUE]
     /\ NoStart /\ UNCHANGED waitingGroups
  \/ /\ phase[g] = "idle" /\ handlerSet /\ ~inBackoff
     /\ RunForGroup(g)
     /\ UNCHANGED waitingGroups

MessageCheckAnyPhase(g, inBackoff) ==
  /\ handlerSet /\ ~inBackoff /\ activeCount < EffectiveMaxConcurrent
  /\ RunForGroup(g)
  /\ UNCHANGED waitingGroups

\* enqueueMessageCheck after its shuttingDown test and the ipcDir preset.
MessageCheck(g, inBackoff) ==
  \/ /\ phase[g] # "idle" \/ (handlerSet /\ inBackoff)
     /\ pendingMessages' = [pendingMessages EXCEPT ![g] = TRUE]
     /\ NoStart /\ UNCHANGED waitingGroups
  \/ /\ phase[g] = "idle"
     /\ ~handlerSet \/ (~inBackoff /\ activeCount >= EffectiveMaxConcurrent)
     /\ pendingMessages' = [pendingMessages EXCEPT ![g] = TRUE]
     /\ waitingGroups' = WaitingWith(g)
     /\ NoStart
  \/ /\ phase[g] = "idle"
     /\ handlerSet /\ ~inBackoff /\ activeCount < EffectiveMaxConcurrent
     /\ RunForGroup(g)
     /\ UNCHANGED waitingGroups

EnqueueMessageCheck(g, withIpcDir) ==
  /\ EventLoopFree /\ ~shuttingDown
  /\ arrivals < MaxArrivals
  /\ arrivals' = arrivals + 1
  /\ ipcDir' = [ipcDir EXCEPT ![g] = @ \/ withIpcDir]
  /\ MessageCheck(g, BackoffActive(g))
  /\ UNCHANGED <<pendingTasks, retryCount, retryTimer, retryScheduled,
                 recovery, handlerSet, shutdown, cont, lastCloseRequest,
                 process, postTerm, postKill, stopKill, shutdownProcs, live,
                 sig>>

EnqueueTask(g, t) ==
  /\ EventLoopFree /\ ~shuttingDown
  /\ arrivals < MaxArrivals
  /\ arrivals' = arrivals + 1
  /\ runningTaskId[g] # t
  /\ ~Contains(pendingTasks[g], t)
  /\ \/ /\ phase[g] # "idle"
        /\ pendingTasks' = [pendingTasks EXCEPT ![g] = Append(@, t)]
        /\ NoStart /\ UNCHANGED <<pendingMessages, waitingGroups>>
     \/ /\ phase[g] = "idle"
        /\ \/ activeCount >= EffectiveMaxConcurrent
           \/ activeTaskCount >= MaxConcurrentTasks
        /\ pendingTasks' = [pendingTasks EXCEPT ![g] = Append(@, t)]
        /\ waitingGroups' = WaitingWith(g)
        /\ NoStart /\ UNCHANGED pendingMessages
     \/ /\ phase[g] = "idle"
        /\ activeCount < EffectiveMaxConcurrent
        /\ activeTaskCount < MaxConcurrentTasks
        /\ RunTask(g, t)
        /\ UNCHANGED <<pendingTasks, waitingGroups>>
  /\ UNCHANGED <<retryCount, retryTimer, retryScheduled, recovery, handlerSet,
                 shutdown, cont, procVars>>

SetProcessMessagesFn ==
  /\ EventLoopFree /\ ~handlerSet
  /\ handlerSet' = TRUE
  /\ cont' = [step |-> "drainWaiting", group |-> None]
  /\ UNCHANGED <<phase, currentRunId, runningTaskId, pendingMessages,
                 pendingTasks, retryCount, retryTimer, retryScheduled,
                 waitingGroups, activeCount, activeTaskCount, recovery,
                 shutdown, runs, procVars, arrivals>>

\* main() enters recovery mode right after it has set the handler.
EnterRecoveryMode ==
  /\ EventLoopFree /\ handlerSet /\ recovery = "before"
  /\ recovery' = "on"
  /\ UNCHANGED <<phase, currentRunId, runningTaskId, pendingMessages,
                 pendingTasks, retryCount, retryTimer, retryScheduled,
                 waitingGroups, activeCount, activeTaskCount, handlerSet,
                 shutdown, cont, runs, procVars, arrivals>>

\* Mutant of EndRecoveryMode: the waiting groups are not drained.
EndRecoveryModeNoDrain ==
  /\ EventLoopFree /\ recovery = "on"
  /\ recovery' = "over"
  /\ UNCHANGED <<phase, currentRunId, runningTaskId, pendingMessages,
                 pendingTasks, retryCount, retryTimer, retryScheduled,
                 waitingGroups, activeCount, activeTaskCount, handlerSet,
                 shutdown, cont, runs, procVars, arrivals>>

\* The recovery timer; shutdown does not clear it.
EndRecoveryMode ==
  /\ EventLoopFree /\ recovery = "on"
  /\ recovery' = "over"
  /\ cont' = [step |-> "drainWaiting", group |-> None]
  /\ UNCHANGED <<phase, currentRunId, runningTaskId, pendingMessages,
                 pendingTasks, retryCount, retryTimer, retryScheduled,
                 waitingGroups, activeCount, activeTaskCount, handlerSet,
                 shutdown, runs, procVars, arrivals>>

-----------------------------------------------------------------------------
(* Retry of failed message runs *)

ScheduleRetry(g) ==
  IF retryCount[g] + 1 > MaxRetries
  THEN /\ retryCount' = [retryCount EXCEPT ![g] = 0]
       /\ retryTimer' = [retryTimer EXCEPT ![g] = "off"]
       /\ retryScheduled' = [retryScheduled EXCEPT ![g] = FALSE]
  ELSE /\ retryCount' = [retryCount EXCEPT ![g] = @ + 1]
       /\ retryTimer' = [retryTimer EXCEPT ![g] = "waiting"]
       /\ retryScheduled' = [retryScheduled EXCEPT ![g] = TRUE]

\* The back-off delay passes; the timer's callback has not run yet.
BackoffElapses(g) ==
  /\ EventLoopFree /\ retryTimer[g] = "waiting"
  /\ retryTimer' = [retryTimer EXCEPT ![g] = "elapsed"]
  /\ UNCHANGED <<phase, currentRunId, runningTaskId, pendingMessages,
                 pendingTasks, retryCount, retryScheduled, waitingGroups,
                 activeCount, activeTaskCount, recovery, handlerSet, shutdown,
                 cont, runs, procVars, arrivals>>

\* Mutant of RetryTimerFires: the callback does not check messages again.
RetryTimerFiresNoCheck(g) ==
  /\ EventLoopFree /\ retryTimer[g] = "elapsed"
  /\ retryTimer' = [retryTimer EXCEPT ![g] = "off"]
  /\ retryScheduled' = [retryScheduled EXCEPT ![g] = FALSE]
  /\ NoStart
  /\ UNCHANGED <<pendingMessages, waitingGroups, pendingTasks, retryCount,
                 recovery, handlerSet, shutdown, cont, procVars, arrivals>>

\* shutdown clears the timer, so the callback's own shuttingDown test only
\* matters for a timer set by a run that failed after shutdown began.
RetryTimerFires(g) ==
  /\ EventLoopFree /\ retryTimer[g] = "elapsed"
  /\ retryTimer' = [retryTimer EXCEPT ![g] = "off"]
  /\ retryScheduled' = [retryScheduled EXCEPT ![g] = FALSE]
  /\ \/ ~shuttingDown /\ MessageCheck(g, FALSE)
     \/ shuttingDown /\ NoStart /\ UNCHANGED <<pendingMessages, waitingGroups>>
  /\ UNCHANGED <<pendingTasks, retryCount, recovery, handlerSet, shutdown,
                 cont, procVars, arrivals>>

-----------------------------------------------------------------------------
(* The end of a run *)

\* Mutants of FinishRun: the task counter, or the process, is not reset.
FinishRunTaskCountKept(x) ==
  LET g == x.group IN
  /\ runs' = runs \ {x}
  /\ activeCount' = activeCount - 1
  /\ phase' = [phase EXCEPT ![g] = "idle"]
  /\ currentRunId' = [currentRunId EXCEPT ![g] = None]
  /\ runningTaskId' = [runningTaskId EXCEPT ![g] = None]
  /\ ipcDir' = [ipcDir EXCEPT ![g] = FALSE]
  /\ lastCloseRequest' = [lastCloseRequest EXCEPT ![g] = None]
  /\ process' = [process EXCEPT ![g] = None]
  /\ postTerm' = [postTerm EXCEPT ![g] = None]
  /\ postKill' = [postKill EXCEPT ![g] = None]
  /\ cont' = [step |-> "drainGroup", group |-> g]
  /\ UNCHANGED <<pendingMessages, pendingTasks, waitingGroups, recovery,
                 handlerSet, shutdown, stopKill, shutdownProcs, live, sig,
                 arrivals, activeTaskCount>>

FinishRunProcessKept(x) ==
  LET g == x.group IN
  /\ runs' = runs \ {x}
  /\ activeCount' = activeCount - 1
  /\ activeTaskCount' = IF x.kind = "task" THEN activeTaskCount - 1
                                           ELSE activeTaskCount
  /\ phase' = [phase EXCEPT ![g] = "idle"]
  /\ currentRunId' = [currentRunId EXCEPT ![g] = None]
  /\ runningTaskId' = [runningTaskId EXCEPT ![g] = None]
  /\ ipcDir' = [ipcDir EXCEPT ![g] = FALSE]
  /\ lastCloseRequest' = [lastCloseRequest EXCEPT ![g] = None]
  /\ postTerm' = [postTerm EXCEPT ![g] = None]
  /\ postKill' = [postKill EXCEPT ![g] = None]
  /\ cont' = [step |-> "drainGroup", group |-> g]
  /\ UNCHANGED <<pendingMessages, pendingTasks, waitingGroups, recovery,
                 handlerSet, shutdown, stopKill, shutdownProcs, live, sig,
                 arrivals, process>>

\* clearPostCloseTimers, resetRunState, the counters, then drainGroup.
FinishRun(x) ==
  LET g == x.group IN
  /\ runs' = runs \ {x}
  /\ activeCount' = activeCount - 1
  /\ activeTaskCount' = IF x.kind = "task" THEN activeTaskCount - 1
                                           ELSE activeTaskCount
  /\ phase' = [phase EXCEPT ![g] = "idle"]
  /\ currentRunId' = [currentRunId EXCEPT ![g] = None]
  /\ runningTaskId' = [runningTaskId EXCEPT ![g] = None]
  /\ ipcDir' = [ipcDir EXCEPT ![g] = FALSE]
  /\ lastCloseRequest' = [lastCloseRequest EXCEPT ![g] = None]
  /\ process' = [process EXCEPT ![g] = None]
  /\ postTerm' = [postTerm EXCEPT ![g] = None]
  /\ postKill' = [postKill EXCEPT ![g] = None]
  /\ cont' = [step |-> "drainGroup", group |-> g]
  /\ UNCHANGED <<pendingMessages, pendingTasks, waitingGroups, recovery,
                 handlerSet, shutdown, stopKill, shutdownProcs, live, sig,
                 arrivals>>

\* A run ends only when the agent process it spawned has exited.  main()
\* sets the handler in the tick that starts the scheduler, so no run can
\* end before.
CanFinish(x) ==
  /\ EventLoopFree /\ handlerSet
  /\ \A p \in Procs : live[p] # x.id

\* processMessagesFn resolved to true
MessageRunSucceeds(x) ==
  /\ x.kind = "messages" /\ CanFinish(x)
  /\ retryCount' = [retryCount EXCEPT ![x.group] = 0]
  /\ retryScheduled' = [retryScheduled EXCEPT ![x.group] = FALSE]
  /\ FinishRun(x)
  /\ UNCHANGED retryTimer

\* processMessagesFn resolved to false, or threw
MessageRunFails(x) ==
  /\ x.kind = "messages" /\ CanFinish(x)
  /\ ScheduleRetry(x.group)
  /\ FinishRun(x)

TaskRunEnds(x) ==
  /\ x.kind = "task" /\ CanFinish(x)
  /\ FinishRun(x)
  /\ UNCHANGED <<retryCount, retryTimer, retryScheduled>>

\* Mutant of DrainGroup: other groups are not looked at.
DrainGroupOwnOnly ==
  /\ cont.step = "drainGroup"
  /\ LET g == cont.group IN
     \/ /\ shuttingDown
        /\ cont' = NoCont
        /\ NoStart /\ UNCHANGED <<pendingMessages, pendingTasks>>
     \/ /\ ~shuttingDown /\ pendingTasks[g] # << >>
        /\ RunTask(g, Head(pendingTasks[g]))
        /\ pendingTasks' = [pendingTasks EXCEPT ![g] = Tail(@)]
        /\ cont' = NoCont
     \/ /\ ~shuttingDown /\ pendingTasks[g] = << >> /\ pendingMessages[g]
        /\ RunForGroup(g)
        /\ cont' = NoCont
        /\ UNCHANGED pendingTasks
     \/ /\ ~shuttingDown /\ pendingTasks[g] = << >> /\ ~pendingMessages[g]
        /\ cont' = NoCont
        /\ NoStart /\ UNCHANGED <<pendingMessages, pendingTasks>>
  /\ UNCHANGED <<retryCount, retryTimer, retryScheduled, waitingGroups,
                 recovery, handlerSet, shutdown, procVars, arrivals>>

\* drainGroup: the group's own tasks, then its messages, then other groups.
DrainGroup ==
  /\ cont.step = "drainGroup"
  /\ LET g == cont.group IN
     \/ /\ shuttingDown
        /\ cont' = NoCont
        /\ NoStart /\ UNCHANGED <<pendingMessages, pendingTasks>>
     \/ /\ ~shuttingDown /\ pendingTasks[g] # << >>
        /\ RunTask(g, Head(pendingTasks[g]))
        /\ pendingTasks' = [pendingTasks EXCEPT ![g] = Tail(@)]
        /\ cont' = NoCont
     \/ /\ ~shuttingDown /\ pendingTasks[g] = << >> /\ pendingMessages[g]
        /\ RunForGroup(g)
        /\ cont' = NoCont
        /\ UNCHANGED pendingTasks
     \/ /\ ~shuttingDown /\ pendingTasks[g] = << >> /\ ~pendingMessages[g]
        /\ cont' = [step |-> "drainWaiting", group |-> None]
        /\ NoStart /\ UNCHANGED <<pendingMessages, pendingTasks>>
  /\ UNCHANGED <<retryCount, retryTimer, retryScheduled, waitingGroups,
                 recovery, handlerSet, shutdown, procVars, arrivals>>

\* The groups that drainWaiting would pick, messages before tasks.
WaitingForMessages(i) == pendingMessages[waitingGroups[i]]

\* Mutant of WaitingForTask: off by one at the task limit.
WaitingForTaskOffByOne(i) ==
  /\ pendingTasks[waitingGroups[i]] # << >>
  /\ activeTaskCount < MaxConcurrentTasks - 1

WaitingForTask(i) ==
  /\ pendingTasks[waitingGroups[i]] # << >>
  /\ activeTaskCount < MaxConcurrentTasks

FirstOf(P(_), i) ==
  /\ i \in DOMAIN waitingGroups /\ P(i)
  /\ \A j \in 1 .. i - 1 : ~P(j)

\* One turn of the loop in drainWaiting.
DrainWaiting ==
  /\ cont.step = "drainWaiting"
  /\ \/ \E i \in DOMAIN waitingGroups :
          /\ activeCount < EffectiveMaxConcurrent
          /\ FirstOf(WaitingForMessages, i)
          /\ waitingGroups' = RemoveAt(waitingGroups, i)
          /\ RunForGroup(waitingGroups[i])
          /\ UNCHANGED <<pendingTasks, cont>>
     \/ \E i \in DOMAIN waitingGroups :
          /\ activeCount < EffectiveMaxConcurrent
          /\ \A j \in DOMAIN waitingGroups : ~WaitingForMessages(j)
          /\ FirstOf(WaitingForTask, i)
          /\ waitingGroups' = RemoveAt(waitingGroups, i)
          /\ RunTask(waitingGroups[i], Head(pendingTasks[waitingGroups[i]]))
          /\ pendingTasks' = [pendingTasks EXCEPT ![waitingGroups[i]] = Tail(@)]
          /\ UNCHANGED cont
     \/ /\ \/ activeCount >= EffectiveMaxConcurrent
           \/ \A j \in DOMAIN waitingGroups :
                ~WaitingForMessages(j) /\ ~WaitingForTask(j)
        /\ cont' = NoCont
        /\ NoStart /\ UNCHANGED <<waitingGroups, pendingMessages, pendingTasks>>
  /\ UNCHANGED <<retryCount, retryTimer, retryScheduled, recovery, handlerSet,
                 shutdown, procVars, arrivals>>

-----------------------------------------------------------------------------
(* The agent process of a run.  Spawning, exiting and ignoring SIGTERM are *)
(* choices of the child process; signals are sent by the queue.            *)

RegisterProcess(x, p, withIpcDir) ==
  /\ EventLoopFree
  /\ x.spawns < MaxSpawns
  /\ \A q \in Procs : live[q] # x.id
  /\ p \in FreshProcs
  /\ runs' = (runs \ {x}) \cup {[x EXCEPT !.spawns = @ + 1]}
  /\ live' = [live EXCEPT ![p] = x.id]
  /\ sig' = [sig EXCEPT ![p] = "none"]
  /\ process' = [process EXCEPT ![x.group] = p]
  /\ ipcDir' = [ipcDir EXCEPT ![x.group] = @ \/ withIpcDir]
  /\ UNCHANGED <<phase, currentRunId, runningTaskId, pendingMessages,
                 pendingTasks, retryCount, retryTimer, retryScheduled,
                 waitingGroups, activeCount, activeTaskCount, recovery,
                 handlerSet, shutdown, cont, lastCloseRequest, postTerm,
                 postKill, stopKill, shutdownProcs, arrivals>>

ProcessExits(p) ==
  /\ live[p] # None
  /\ live' = [live EXCEPT ![p] = None]
  /\ UNCHANGED <<schedVars, ipcDir, lastCloseRequest, process, postTerm,
                 postKill, stopKill, shutdownProcs, sig, arrivals>>

\* isProcessAlive(proc)
Alive(p) == p # None /\ live[p] # None

\* signalProcessTree(proc, s) for the processes in P that are still alive
Signal(P, s) ==
  sig' = [p \in Procs |-> IF p \in P /\ live[p] # None /\ sig[p] # "KILL"
                          THEN s ELSE sig[p]]

\* The phase, the close request and the sentinel file of closeStdin.
Closing(G, req) ==
  /\ phase' = [g \in Groups |-> IF g \in G /\ phase[g] = "running_messages"
                                THEN "closing_messages" ELSE phase[g]]
  /\ lastCloseRequest' = [g \in Groups |-> IF g \in G THEN req[g]
                                           ELSE lastCloseRequest[g]]

\* closeStdin(g, {runId, reason}); run = None means that no runId was given.
CloseStdin(g, run, reason) ==
  LET id == IF run # None THEN run ELSE currentRunId[g]
      captured == [proc |-> process[g], run |-> id]
      rearm == /\ reason = "output-delivered-close"
               /\ process[g] # None /\ id # None /\ phase[g] # "running_task"
  IN
  /\ EventLoopFree
  /\ phase[g] # "idle" /\ ipcDir[g]
  /\ Closing({g}, [h \in {g} |-> [run |-> id, reason |-> reason]])
  /\ postTerm' = [postTerm EXCEPT ![g] = IF rearm THEN captured ELSE @]
  /\ postKill' = [postKill EXCEPT ![g] = IF rearm THEN captured ELSE @]
  /\ UNCHANGED <<currentRunId, runningTaskId, pendingMessages, pendingTasks,
                 retryCount, retryTimer, retryScheduled, waitingGroups,
                 activeCount, activeTaskCount, recovery, handlerSet, shutdown,
                 cont, ipcDir, process, stopKill, shutdownProcs, live, sig,
                 arrivals>>

\* A run's turn controller asks for one close at most, with its own run id.
TurnCloses(x, reason) ==
  /\ x.kind = "messages" /\ ~x.closeRequested
  /\ runs' = (runs \ {x}) \cup {[x EXCEPT !.closeRequested = TRUE]}
  /\ CloseStdin(x.group, x.id, reason)

\* The message loop and session commands close whatever run is current.
LoopCloses(g, reason) ==
  /\ CloseStdin(g, None, reason)
  /\ UNCHANGED runs

\* Mutant of SameActiveProcess: a run that is closing is not recognised.
SameActiveProcessOpenOnly(g, c) ==
  /\ process[g] = c.proc /\ currentRunId[g] = c.run /\ Alive(c.proc)
  /\ phase[g] = "running_messages"

\* isSameActiveProcess()
SameActiveProcess(g, c) ==
  process[g] = c.proc /\ currentRunId[g] = c.run /\ Alive(c.proc)

PostCloseTerm(g) ==
  /\ EventLoopFree /\ postTerm[g] # None
  /\ postTerm' = [postTerm EXCEPT ![g] = None]
  /\ Signal({p \in {postTerm[g].proc} : SameActiveProcess(g, postTerm[g])},
            "TERM")
  /\ UNCHANGED <<schedVars, ipcDir, lastCloseRequest, process, postKill,
                 stopKill, shutdownProcs, live, arrivals>>

\* Armed together with the SIGTERM timer, 15 seconds later than it.
PostCloseKill(g) ==
  /\ EventLoopFree /\ postKill[g] # None /\ postTerm[g] = None
  /\ postKill' = [postKill EXCEPT ![g] = None]
  /\ Signal({p \in {postKill[g].proc} : SameActiveProcess(g, postKill[g])},
            "KILL")
  /\ UNCHANGED <<schedVars, ipcDir, lastCloseRequest, process, postTerm,
                 stopKill, shutdownProcs, live, arrivals>>

\* killProcess (/stop): SIGTERM now, SIGKILL after five seconds.
KillProcess(g) ==
  /\ EventLoopFree /\ Alive(process[g])
  /\ Signal({process[g]}, "TERM")
  /\ stopKill' = stopKill \cup {process[g]}
  /\ UNCHANGED <<schedVars, ipcDir, lastCloseRequest, process, postTerm,
                 postKill, shutdownProcs, live, arrivals>>

StopKillTimer(p) ==
  /\ EventLoopFree /\ p \in stopKill
  /\ stopKill' = stopKill \ {p}
  /\ Signal({p}, "KILL")
  /\ UNCHANGED <<schedVars, ipcDir, lastCloseRequest, process, postTerm,
                 postKill, shutdownProcs, live, arrivals>>

-----------------------------------------------------------------------------
(* Shutdown: close every group, wait, SIGTERM, wait, SIGKILL, exit. *)

BeginShutdown ==
  LET registered == {g \in Groups : process[g] # None}
      closing == {g \in registered : phase[g] = "running_messages" /\ ipcDir[g]}
  IN
  /\ EventLoopFree /\ ~shuttingDown
  /\ retryTimer' = [g \in Groups |-> "off"]
  /\ retryScheduled' = [g \in Groups |-> FALSE]
  /\ postTerm' = [g \in Groups |-> None]
  /\ postKill' = [g \in Groups |-> None]
  /\ shutdownProcs' = {process[g] : g \in registered}
  /\ Closing(closing, [g \in closing |->
                         [run |-> currentRunId[g], reason |-> "shutdown"]])
  /\ shutdown' = IF registered = {} THEN "exited" ELSE "grace"
  /\ UNCHANGED <<currentRunId, runningTaskId, pendingMessages, pendingTasks,
                 retryCount, waitingGroups, activeCount, activeTaskCount,
                 recovery, handlerSet, cont, runs, ipcDir, process, stopKill,
                 live, sig, arrivals>>

\* The wait ended: one of the two signal stages, or the exit of the program.
ShutdownWaitEnds(stage, s, nextStage) ==
  /\ EventLoopFree /\ shutdown = stage
  /\ Signal(shutdownProcs, s)
  /\ shutdown' = IF \E p \in shutdownProcs : Alive(p) THEN nextStage
                                                     ELSE "exited"
  /\ UNCHANGED <<phase, currentRunId, runningTaskId, pendingMessages,
                 pendingTasks, retryCount, retryTimer, retryScheduled,
                 waitingGroups, activeCount, activeTaskCount, recovery,
                 handlerSet, cont, runs, ipcDir, lastCloseRequest, process,
                 postTerm, postKill, stopKill, shutdownProcs, live, arrivals>>

\* Mutants: no limit on the grace period; SIGTERM sent twice.
ShutdownTermNoTimeout ==
  /\ \A p \in shutdownProcs : ~Alive(p)
  /\ ShutdownWaitEnds("grace", "TERM", "term")
ShutdownKillWeak == ShutdownWaitEnds("term", "TERM", "exited")

ShutdownTerm == ShutdownWaitEnds("grace", "TERM", "term")
ShutdownKill == ShutdownWaitEnds("term", "KILL", "exited")

-----------------------------------------------------------------------------

RunEnds(x) == MessageRunSucceeds(x) \/ MessageRunFails(x) \/ TaskRunEnds(x)

Timers ==
  \/ EndRecoveryMode
  \/ \E g \in Groups : BackoffElapses(g) \/ RetryTimerFires(g)
                         \/ PostCloseTerm(g) \/ PostCloseKill(g)
  \/ \E p \in Procs : StopKillTimer(p)

Next ==
  \/ \E g \in Groups : \E d \in IpcDirChoices : EnqueueMessageCheck(g, d)
  \/ \E g \in Groups : \E t \in Tasks : EnqueueTask(g, t)
  \/ SetProcessMessagesFn
  \/ EnterRecoveryMode
  \/ Timers
  \/ \E x \in runs : RunEnds(x)
  \/ DrainGroup
  \/ DrainWaiting
  \/ \E x \in runs : \E p \in Procs : \E d \in IpcDirChoices : RegisterProcess(x, p, d)
  \/ \E p \in Procs : ProcessExits(p)
  \/ \E x \in runs : \E reason \in TurnCloseReasons : TurnCloses(x, reason)
  \/ \E g \in Groups : \E reason \in LoopCloseReasons : LoopCloses(g, reason)
  \/ \E g \in Groups : KillProcess(g)
  \/ BeginShutdown
  \/ ShutdownTerm
  \/ ShutdownKill

Spec == Init /\ [][Next]_vars

-----------------------------------------------------------------------------
(* Fairness.  Timers fire, the event loop finishes its callback, main()    *)
(* reaches setProcessMessagesFn, an awaited handler settles once its agent *)
(* process is gone, and a process does not survive SIGKILL.  Nothing is    *)
(* assumed of callers, of shutdown signals, or of a process that was not   *)
(* killed.                                                                 *)

Fairness ==
  /\ WF_vars(DrainGroup) /\ WF_vars(DrainWaiting)
  /\ WF_vars(SetProcessMessagesFn)
  /\ WF_vars(EndRecoveryMode)
  /\ WF_vars(ShutdownTerm) /\ WF_vars(ShutdownKill)
  /\ \A g \in Groups : /\ WF_vars(BackoffElapses(g))
                       /\ WF_vars(RetryTimerFires(g))
                       /\ WF_vars(PostCloseTerm(g))
                       /\ WF_vars(PostCloseKill(g))
  /\ \A r \in RunIds : WF_vars(\E x \in runs : x.id = r /\ RunEnds(x))
  /\ \A p \in Procs : /\ WF_vars(StopKillTimer(p))
                      /\ WF_vars(sig[p] = "KILL" /\ ProcessExits(p))

FairSpec == Spec /\ Fairness

-----------------------------------------------------------------------------
(* Properties *)

\* activeCount and activeTaskCount always equal the number of runs whose
\* promise is pending, whatever order runs of one group start and end in
\* (runForGroup and runTask increment, their finally blocks decrement).
CountersExact ==
  /\ activeCount = Cardinality(runs)
  /\ activeTaskCount = Cardinality({x \in runs : x.kind = "task"})

Capacity == IF RecoveryConcurrentAgents > MaxConcurrentAgents
            THEN RecoveryConcurrentAgents ELSE MaxConcurrentAgents

\* There are never more runs in flight than the larger of the two limits,
\* although drainGroup starts the group's own next run without looking at
\* the limit and recovery mode changes the limit while runs are in flight.
CapacityRespected == Cardinality(runs) <= Capacity

HasWork(g) == pendingMessages[g] \/ pendingTasks[g] # << >>

\* Pending work always has something that will look at it again: a run of
\* the same group whose end drains the group, a place in waitingGroups while
\* another run is in flight, or the retry timer.  drainGroup, drainWaiting
\* and the retry callback must not leave a group with work and no wake-up.
NoStrandedWork ==
  EventLoopFree /\ ~shuttingDown /\ handlerSet =>
    \A g \in Groups : HasWork(g) =>
      \/ InFlight(g)
      \/ Contains(waitingGroups, g) /\ runs # {}
      \/ pendingTasks[g] = << >> /\ retryTimer[g] # "off"

\* A group has at most one run in flight.
OneRunPerGroup == \A x, y \in runs : x.group = y.group => x = y

\* When the program exits, every process that was registered when shutdown
\* began has exited or has been sent SIGKILL (shutdownGroupProcesses).
ShutdownStopsRegistered ==
  shutdown = "exited" =>
    \A p \in shutdownProcs : live[p] = None \/ sig[p] = "KILL"

\* Between callbacks a group that waits with messages, has no run of its own
\* and is not backing off waits only because all slots are taken: no slot is
\* left idle while a message could be processed (drainWaiting's loop).
MessagesWaitOnlyWhenFull ==
  EventLoopFree /\ ~shuttingDown /\ handlerSet =>
    \A g \in Groups :
      /\ Contains(waitingGroups, g) /\ pendingMessages[g]
      /\ ~InFlight(g) /\ ~retryScheduled[g]
      => activeCount >= EffectiveMaxConcurrent

\* What assertRunPhaseInvariants logs as a violation never happens between
\* callbacks, and a phase other than idle belongs to a run in flight.
PhaseInvariants ==
  cont = NoCont =>
    \A g \in Groups :
      /\ phase[g] = "idle" => /\ currentRunId[g] = None
                              /\ runningTaskId[g] = None
                              /\ process[g] = None
      /\ phase[g] \in {"running_messages", "closing_messages"} =>
           /\ runningTaskId[g] = None
           /\ \E x \in runs : x.group = g /\ x.id = currentRunId[g]
      /\ phase[g] = "running_task" =>
           /\ currentRunId[g] = None
           /\ \E x \in runs : x.group = g /\ x.task = runningTaskId[g]

\* A pending message check is eventually taken up by a run.
MessagesServed ==
  \A g \in Groups : pendingMessages[g] ~> ~pendingMessages[g] \/ shuttingDown

\* A queued task is eventually started.
TasksServed ==
  \A g \in Groups : \A t \in Tasks :
    Contains(pendingTasks[g], t)
      ~> ~Contains(pendingTasks[g], t) \/ shuttingDown

\* After an output-delivered close of a run with a registered process, the
\* run ends even if the agent ignores the close sentinel and SIGTERM.
DeliveredRunEnds ==
  \A r \in RunIds :
    (\E g \in Groups : postKill[g] # None /\ postKill[g].run = r)
      ~> (\A x \in runs : x.id # r) \/ shutdown = "exited"

\* The program exits once shutdown has begun, whatever the agents do.
ShutdownCompletes == shuttingDown ~> shutdown = "exited"

=============================================================================
