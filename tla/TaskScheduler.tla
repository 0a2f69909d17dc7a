--------------------------- MODULE TaskScheduler ---------------------------
(***************************************************************************)
(* Scheduled tasks and the CI watchers of a goal (task-scheduler.ts, task- *)
(* scheduler-github.ts, task-suspension.ts, db/tasks.ts) and the requests  *)
(* of agents that create and change them (ipc.ts, ipc-file-claims.ts, ipc- *)
(* task-processor).  The group queue starts what a tick has enqueued; a    *)
(* crash loses the queue and the runs, and may come between any two writes *)
(* of a handler.  The goal is seen from outside: whether it waits for a CI *)
(* run, and for which (PairedTask has the rest of it).                     *)
(*                                                                         *)
(* Left out: watchers without a goal, the tick's work for paired tasks     *)
(* (RetryDue of PairedTask, reservations of PairedTurns), the text and the *)
(* posts of the status messages, and nudges, which only make a tick come   *)
(* sooner.  Times are told apart by whether they have come.                *)
(***************************************************************************)
EXTENDS Naturals

CONSTANTS
  Tasks,        \* ids of tasks, each asked for at most once
  Refs,         \* CI runs
  None,
  MaxErrors,    \* MAX_GITHUB_CONSECUTIVE_ERRORS: 5
  MaxFailures,  \* CONSECUTIVE_FAILURES_THRESHOLD: 3
  MaxCrashes    \* bound
ASSUME TaskSchedulerAssumption ==
  /\ None \notin Refs
  /\ MaxErrors \in Nat \ {0} /\ MaxFailures \in Nat \ {0} /\ MaxCrashes \in Nat

Kinds == {"once", "interval", "watcher"}

VARIABLES
  inbox,     \* the file that asks for a task (schedule_task), claimed or not; when
             \* it was written is not told apart
  row,       \* scheduled_tasks
  run,       \* what the queue holds for a task: the kind and the CI run it was
             \* queued with
  waitsFor,  \* external_wait_ref of the goal while it is waiting_external, or None
  events,    \* history: terminal events of a watcher that woke the goal
  lost,      \* history: the watcher the goal waits for was stopped, or the
             \* process crashed between its two writes
  crashes

vars == <<inbox, row, run, waitsFor, events, lost, crashes>>
goalVars == <<waitsFor, events, lost>>

NoRow == [kind |-> "once", status |-> "none", due |-> FALSE, suspended |-> FALSE,
          fails |-> 0, ref |-> None, applied |-> FALSE]
Deleted == [NoRow EXCEPT !.status = "gone"]
NoRun == [stage |-> "none", kind |-> "once", ref |-> None]

Exists(t) == row[t].status \notin {"none", "gone"}
MostFails == IF MaxErrors > MaxFailures THEN MaxErrors ELSE MaxFailures

Statuses == {"none", "active", "paused", "completed", "gone"}
Stages == {"none", "queued", "running", "ending"}
RowType == [kind : Kinds, status : Statuses, due : BOOLEAN, suspended : BOOLEAN,
            fails : 0..MostFails, ref : Refs \cup {None}, applied : BOOLEAN]
RunType == [stage : Stages, kind : Kinds, ref : Refs \cup {None}]

TypeOK ==
  /\ inbox \in [Tasks -> {"filed", "claimed"}]
  /\ row \in [Tasks -> RowType]
  /\ run \in [Tasks -> RunType]
  /\ \A t \in Tasks : row[t].applied => row[t].kind = "watcher" /\ row[t].ref # None
  /\ waitsFor \in Refs \cup {None}
  /\ events \in [Tasks -> 0..2] /\ lost \in BOOLEAN /\ (lost => waitsFor # None)
  /\ crashes \in 0..MaxCrashes

Init ==
  /\ inbox = [t \in Tasks |-> "filed"]
  /\ row = [t \in Tasks |-> NoRow]
  /\ run = [t \in Tasks |-> NoRun]
  /\ waitsFor = None
  /\ events = [t \in Tasks |-> 0] /\ lost = FALSE
  /\ crashes = 0

Awaits(t) == row[t].kind = "watcher" /\ waitsFor = row[t].ref

\* Nobody else will tell the goal of the end of this watcher's CI run.
Lose(t) == lost' = (lost \/ (Awaits(t) /\ ~row[t].applied))

-----------------------------------------------------------------------------
(* Requests.                                                               *)

Duplicate(r) ==
  \E u \in Tasks : row[u].kind = "watcher" /\ row[u].ref = r /\ row[u].status \in {"active", "paused"}

NewRows ==
  {[NoRow EXCEPT !.kind = "watcher", !.ref = r, !.due = TRUE, !.status = "active"] :
     r \in {s \in Refs : ~Duplicate(s)}} \cup
  {[NoRow EXCEPT !.kind = "interval", !.status = "active"]} \cup
  {[NoRow EXCEPT !.due = due, !.status = "active"] : due \in BOOLEAN}

\* The transition is refused when the goal waits for something else or is closed.
GoalWaits(new) ==
  \/ new.kind = "watcher" /\ waitsFor' = new.ref /\ lost' = FALSE
  \/ (new.kind # "watcher" \/ waitsFor = None) /\ UNCHANGED <<waitsFor, lost>>

Create(t) ==
  /\ inbox[t] = "filed"
  /\ inbox' = [inbox EXCEPT ![t] = "claimed"]
  /\ \/ \E new \in NewRows : row' = [row EXCEPT ![t] = new] /\ GoalWaits(new)
     \/ UNCHANGED <<row, waitsFor, lost>>   \* a duplicate, or invalid
  /\ UNCHANGED <<run, events, crashes>>

Pause(t) ==
  /\ Exists(t) /\ row[t].status # "paused"
  /\ row' = [row EXCEPT ![t].status = "paused"]
  /\ Lose(t)
  /\ UNCHANGED <<inbox, run, waitsFor, events, crashes>>

\* A completed task, too.
Resume(t) ==
  /\ Exists(t) /\ row[t].status # "active"
  /\ row' = [row EXCEPT ![t].status = "active"]
  /\ lost' = (lost /\ ~(Awaits(t) /\ ~row[t].applied))
  /\ UNCHANGED <<inbox, run, waitsFor, events, crashes>>

Cancel(t) ==
  /\ Exists(t)
  /\ row' = [row EXCEPT ![t] = Deleted]
  /\ Lose(t)
  /\ UNCHANGED <<inbox, run, waitsFor, events, crashes>>

\* The next run is computed anew, but not that of a task that is to run once.
\* (An update that leaves the kind is left out.)
Update(t) ==
  /\ Exists(t) /\ row[t].kind # "watcher"
  /\ row' = [row EXCEPT ![t].kind = IF @ = "once" THEN "interval" ELSE "once",
                       ![t].due = @ /\ row[t].kind = "interval"]
  /\ UNCHANGED <<inbox, run, goalVars, crashes>>

-----------------------------------------------------------------------------
(* Time, and what becomes of the goal elsewhere.                           *)

Elapses(t) ==
  /\ row[t].status \in {"active", "paused"} /\ ~row[t].due
  /\ row' = [row EXCEPT ![t].due = TRUE]
  /\ UNCHANGED <<inbox, run, goalVars, crashes>>

SuspensionElapses(t) ==
  /\ row[t].suspended
  /\ row' = [row EXCEPT ![t].suspended = FALSE]
  /\ UNCHANGED <<inbox, run, goalVars, crashes>>

\* The goal is moved on, or closed, by something else.
GoalMoves ==
  /\ waitsFor # None
  /\ waitsFor' = None /\ lost' = FALSE
  /\ UNCHANGED <<inbox, row, run, events, crashes>>

-----------------------------------------------------------------------------
(* The tick: what is too old is deleted, what is due is enqueued, unless   *)
(* the queue has it.                                                       *)

IsDue(t) == row[t].status = "active" /\ row[t].due /\ ~row[t].suspended

\* max_duration_ms, of watchers only, has passed or not.
MayBeTooOld(t) == row[t].status = "active" /\ row[t].kind = "watcher"

Tick ==
  \E deleted \in SUBSET {t \in Tasks : MayBeTooOld(t)} :
  LET started == {t \in Tasks : IsDue(t) /\ run[t].stage = "none"} \ deleted
  IN /\ deleted \cup started # {}
     /\ row' = [t \in Tasks |-> IF t \in deleted THEN Deleted ELSE row[t]]
     /\ run' = [t \in Tasks |-> IF t \in started
                                THEN [stage |-> "queued", kind |-> row[t].kind, ref |-> row[t].ref]
                                ELSE run[t]]
     /\ lost' = (lost \/ \E t \in deleted : Awaits(t) /\ ~row[t].applied)
     /\ UNCHANGED <<inbox, waitsFor, events, crashes>>

-----------------------------------------------------------------------------
(* Runs.                                                                   *)

Queued(t) == run[t].stage = "queued"
Running(t) == run[t].stage = "running"
Plain(t) == run[t].kind # "watcher"

\* Mutant of MayStart: an event that was applied is not looked for.
MayStartAgain(t) == Plain(t) \/ row[t].status = "active"

\* Only a watcher looks at its row again.
MayStart(t) == Plain(t) \/ (row[t].status = "active" /\ ~row[t].applied)

Start(t) ==
  /\ Queued(t)
  /\ run' = [run EXCEPT ![t] = IF MayStart(t) THEN [@ EXCEPT !.stage = "running"] ELSE NoRun]
  /\ UNCHANGED <<inbox, row, goalVars, crashes>>

MoreFails(t) ==   \* no more are told apart
  LET most == IF Plain(t) THEN MaxFailures ELSE MaxErrors
  IN IF row[t].fails < most THEN row[t].fails + 1 ELSE most
Ends(t) == run' = [run EXCEPT ![t] = NoRun]
IsEnding(t) == run' = [run EXCEPT ![t].stage = "ending"]

\* The group of the task is not registered, or its folder is invalid.
StartFails(t) ==
  /\ Queued(t) /\ Plain(t)
  /\ Ends(t)
  /\ row' \in {row, [row EXCEPT ![t].status = IF Exists(t) THEN "paused" ELSE @]}
  /\ UNCHANGED <<inbox, goalVars, crashes>>

\* Mutant of StatusAfter: the end of a run makes the task active.
StatusAfterActive(t, kind) == IF kind = "once" THEN "completed" ELSE "active"

\* updateTaskAfterRun: the next run is computed from the schedule the task was
\* queued with.
StatusAfter(t, kind) == IF kind = "once" THEN "completed" ELSE row[t].status

\* Mutant of AfterRun: a run that fails is not given a next run.
AfterRunGivesUp(t, changed) ==
  [changed EXCEPT !.due = FALSE,
     !.status = IF changed.fails > 0 THEN "completed" ELSE StatusAfter(t, run[t].kind)]

AfterRun(t, changed) ==
  [changed EXCEPT !.due = FALSE, !.status = StatusAfter(t, run[t].kind)]
Saved(t, changed) == row' = IF Exists(t) THEN [row EXCEPT ![t] = changed] ELSE row

\* The error of a run that is remedied by another account is not counted.
RunSucceeds(t) ==
  /\ Running(t) /\ Plain(t)
  /\ Ends(t)
  /\ Saved(t, AfterRun(t, [row[t] EXCEPT !.suspended = FALSE, !.fails = 0]))
  /\ UNCHANGED <<inbox, goalVars, crashes>>

Suspends(t) == row[t].fails + 1 >= MaxFailures
RunFails(t) ==
  /\ Running(t) /\ Plain(t)
  /\ \E quota \in BOOLEAN :
       IF quota /\ Suspends(t) /\ Exists(t)
       THEN IsEnding(t) /\ Saved(t, [row[t] EXCEPT !.suspended = TRUE])
       ELSE Ends(t) /\ Saved(t, AfterRun(t, [row[t] EXCEPT !.fails = MoreFails(t)]))
  /\ UNCHANGED <<inbox, goalVars, crashes>>

\* A check of the CI run that does not find its end.
CheckPending(t) ==
  /\ Running(t) /\ ~Plain(t)
  /\ IF Exists(t) THEN IsEnding(t) ELSE Ends(t)
  /\ Saved(t, [row[t] EXCEPT !.fails = 0])
  /\ UNCHANGED <<inbox, goalVars, crashes>>

\* The errors in a row: one more, or the first since a check that succeeded, when
\* it is the post of the check's outcome that fails.
ErrorsAfter(t) == {MoreFails(t), 1}

\* The last of too many errors pauses the watcher.
CheckFails(t) ==
  /\ Running(t) /\ ~Plain(t)
  /\ IF Exists(t) THEN IsEnding(t) ELSE Ends(t)
  /\ \E n \in ErrorsAfter(t) :
       /\ Saved(t, [row[t] EXCEPT !.fails = n,
                                  !.status = IF n >= MaxErrors THEN "paused" ELSE @])
       /\ IF n >= MaxErrors THEN Lose(t) ELSE UNCHANGED lost
  /\ UNCHANGED <<inbox, waitsFor, events, crashes>>

\* The status or the notice is sent, or that fails and nothing is saved.
Persist(t) ==
  /\ run[t].stage = "ending"
  /\ Ends(t)
  /\ \/ Saved(t, AfterRun(t, [row[t] EXCEPT !.fails = IF Plain(t) THEN MoreFails(t) ELSE @]))
     \/ UNCHANGED row
  /\ UNCHANGED <<inbox, goalVars, crashes>>

\* The terminal event is applied to the row first and to the goal after it.
Applied(t) == Saved(t, [row[t] EXCEPT !.status = "completed", !.applied = TRUE])

Wakes(t) ==
  /\ waitsFor' = None /\ lost' = FALSE
  /\ events' = [events EXCEPT ![t] = @ + 1]

\* The goal waits for the CI run this watcher was queued for.
WakesFor(t) == waitsFor = run[t].ref

CheckTerminal(t) ==
  /\ Running(t) /\ ~Plain(t)
  /\ IF Exists(t) THEN IsEnding(t) ELSE Ends(t)
  /\ Applied(t)
  /\ IF WakesFor(t) THEN Wakes(t) ELSE UNCHANGED goalVars
  /\ UNCHANGED <<inbox, crashes>>

-----------------------------------------------------------------------------
(* Crashes.  The queue and the runs are lost; what is due is enqueued      *)
(* again.  A request that was claimed is put aside at the next start.      *)

Crashes ==
  /\ crashes < MaxCrashes
  /\ crashes' = crashes + 1
  /\ run' = [t \in Tasks |-> NoRun]

Crash == Crashes /\ UNCHANGED <<inbox, row, goalVars>>

\* The goal was not woken, or it was and is not told why.
TerminalCrash(t) ==
  /\ Running(t) /\ ~Plain(t) /\ WakesFor(t)
  /\ Crashes
  /\ Applied(t)
  /\ \/ lost' = TRUE /\ UNCHANGED waitsFor
     \/ waitsFor' = None /\ lost' = FALSE
  /\ UNCHANGED <<inbox, events>>

\* The task was not created, or it was and the goal does not wait for it.
CreateCrash(t) ==
  /\ inbox[t] = "filed"
  /\ Crashes
  /\ inbox' = [inbox EXCEPT ![t] = "claimed"]
  /\ \/ UNCHANGED row
     \/ \E new \in NewRows : row' = [row EXCEPT ![t] = new]
  /\ UNCHANGED goalVars

-----------------------------------------------------------------------------
Runs(t) == RunSucceeds(t) \/ RunFails(t) \/ CheckPending(t) \/ CheckFails(t) \/ CheckTerminal(t)
RunGoesOn(t) == Start(t) \/ StartFails(t) \/ Runs(t) \/ Persist(t)

Next ==
  \/ \E t \in Tasks :
       \/ Create(t) \/ Pause(t) \/ Resume(t) \/ Cancel(t) \/ Update(t)
       \/ Elapses(t) \/ SuspensionElapses(t)
       \/ RunGoesOn(t)
       \/ TerminalCrash(t) \/ CreateCrash(t)
  \/ GoalMoves \/ Tick \/ Crash

Spec == Init /\ [][Next]_vars

\* The loop's timer ticks, the queue starts what it holds (GroupQueue's
\* TasksServed), agents and status posts end, time passes; and a CI run that is
\* looked at again and again is seen to end.
FairSpec ==
  /\ Spec /\ WF_vars(Tick)
  /\ \A t \in Tasks : /\ WF_vars(Elapses(t)) /\ WF_vars(RunGoesOn(t))
                     /\ SF_vars(CheckTerminal(t))

-----------------------------------------------------------------------------
(* Properties.                                                             *)

\* The end of a CI run wakes its goal once (terminal_event_applied_at), although
\* the watcher may be resumed after it and the goal may wait for the run again.
EventOnce == \A t \in Tasks : events[t] <= 1

\* What was paused, cancelled or completed while a run of it was in flight is not
\* made active again by what that run saves at its end.
StoppedStaysStopped ==
  [][\A t \in Tasks :
       row[t].status \in {"paused", "completed", "gone"} /\ row'[t].status = "active"
         => Resume(t)]_vars

\* A goal that waits for a CI run goes on when the run ends, over errors of the
\* provider and crashes, unless its watcher was stopped or the process crashed
\* between the two writes of the terminal event.
WaitEnds == (waitsFor # None) ~> (waitsFor = None \/ lost)
=============================================================================
