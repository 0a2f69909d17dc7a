------------------------ MODULE TaskSchedulerProofs ------------------------
(***************************************************************************)
(* What holds of TaskScheduler for every set of tasks and CI runs and for  *)
(* all limits.                                                             *)
(***************************************************************************)
EXTENDS TaskScheduler, TLAPS

\* A task that is not asked for has no past; a watcher has a CI run, and so has
\* the run of one, whose row remains a watcher until it is deleted; the end of a
\* CI run that woke the goal is written in the row, and no check of it is under
\* way.
TaskInv(t) ==
  /\ inbox[t] = "filed" => row[t] = NoRow /\ run[t] = NoRun /\ events[t] = 0
  /\ row[t].status = "none" => row[t].kind = "once"
  /\ row[t].kind = "watcher" => row[t].ref \in Refs
  /\ row[t].applied => row[t].kind = "watcher"
  /\ run[t].kind = "watcher" =>
       /\ run[t].ref \in Refs
       /\ row[t].kind = "watcher" \/ row[t].status = "gone"
  /\ events[t] \in {0, 1}
  /\ events[t] = 1 => row[t].applied \/ row[t].status = "gone"
  /\ run[t].kind = "watcher" /\ run[t].stage = "running" => events[t] = 0

Types ==
  /\ inbox \in [Tasks -> {"filed", "claimed"}]
  /\ row \in [Tasks -> RowType]
  /\ run \in [Tasks -> RunType]
  /\ waitsFor \in Refs \cup {None}
  /\ events \in [Tasks -> 0..2]
  /\ crashes \in 0..MaxCrashes

\* Only a goal that waits can be forgotten.
LostOK == lost \in BOOLEAN /\ (lost => waitsFor # None)

IInv == Types /\ LostOK /\ \A t \in Tasks : TaskInv(t)

USE TaskSchedulerAssumption DEF TaskSchedulerAssumption

LEMMA MostFailsType == MostFails \in Nat /\ MaxErrors <= MostFails /\ MaxFailures <= MostFails
BY DEF MostFails

LEMMA NoRowType ==
  /\ NoRow \in RowType /\ ~NoRow.applied /\ ~NoRow.suspended /\ NoRow.kind = "once"
  /\ NoRow.status = "none"
  /\ NoRun \in RunType /\ NoRun.kind = "once" /\ NoRun.stage = "none"
BY MostFailsType DEF NoRow, NoRun, RowType, RunType, Kinds, Statuses, Stages

LEMMA DeletedType ==
  Deleted \in RowType /\ ~Deleted.applied /\ Deleted.kind = "once" /\ Deleted.status = "gone"
BY NoRowType DEF Deleted, RowType, Statuses

LEMMA InitInv == Init => IInv
<1>1. SUFFICES ASSUME Init PROVE IInv
  OBVIOUS
<1>2. Types
  BY <1>1, NoRowType DEF Init, Types
<1>3. LostOK
  BY <1>1 DEF Init, LostOK
<1>4. ASSUME NEW t \in Tasks PROVE TaskInv(t)
  BY <1>1, NoRowType DEF Init, TaskInv
<1>5. QED BY <1>2, <1>3, <1>4 DEF IInv

LEMMA InvTypes == IInv => TypeOK
BY DEF IInv, Types, LostOK, TaskInv, TypeOK

\* The requests.
LEMMA NewRowsType ==
  ASSUME NEW new \in NewRows
  PROVE  /\ new \in RowType /\ new.status = "active" /\ ~new.applied
         /\ new.kind = "watcher" => new.ref \in Refs
<1>1. CASE \E r \in Refs : new = [NoRow EXCEPT !.kind = "watcher", !.ref = r, !.due = TRUE,
                                              !.status = "active"]
  BY <1>1, NoRowType DEF RowType, Kinds, Statuses
<1>2. CASE new = [NoRow EXCEPT !.kind = "interval", !.status = "active"]
  BY <1>2, NoRowType DEF RowType, Kinds, Statuses
<1>3. CASE \E due \in BOOLEAN : new = [NoRow EXCEPT !.due = due, !.status = "active"]
  BY <1>3, NoRowType DEF RowType, Kinds, Statuses
<1>4. QED BY <1>1, <1>2, <1>3 DEF NewRows

LEMMA CreateInv ==
  ASSUME IInv, NEW u \in Tasks, Create(u)
  PROVE  IInv'
<1> USE DEF IInv
<1>1. \/ \E new \in NewRows : row' = [row EXCEPT ![u] = new] /\ GoalWaits(new)
      \/ UNCHANGED <<row, waitsFor, lost>>
  BY DEF Create
<1>2. Types'
  BY <1>1, NewRowsType DEF Create, Types, GoalWaits
<1>3. LostOK'
  <2>1. CASE lost' = FALSE
    BY <2>1 DEF LostOK
  <2>2. CASE UNCHANGED <<waitsFor, lost>>
    BY <2>2 DEF LostOK
  <2>3. QED BY <1>1, <2>1, <2>2 DEF GoalWaits
<1>4. ASSUME NEW t \in Tasks PROVE TaskInv(t)'
  BY <1>1, NewRowsType, NoRowType DEF Create, Types, TaskInv
<1>5. QED BY <1>2, <1>3, <1>4

LEMMA PauseInv == ASSUME IInv, NEW u \in Tasks, Pause(u) PROVE IInv'
<1> USE DEF IInv
<1>1. Types'
  BY DEF Pause, Types, RowType, Statuses
<1>2. LostOK'
  BY DEF Pause, Types, LostOK, Lose, Awaits, TaskInv
<1>3. ASSUME NEW t \in Tasks PROVE TaskInv(t)'
  BY NoRowType DEF Pause, Types, RowType, TaskInv, Exists
<1>4. QED BY <1>1, <1>2, <1>3

LEMMA ResumeInv == ASSUME IInv, NEW u \in Tasks, Resume(u) PROVE IInv'
<1> USE DEF IInv
<1>1. Types'
  BY DEF Resume, Types, RowType, Statuses
<1>2. LostOK'
  BY DEF Resume, LostOK
<1>3. ASSUME NEW t \in Tasks PROVE TaskInv(t)'
  BY NoRowType DEF Resume, Types, RowType, TaskInv, Exists
<1>4. QED BY <1>1, <1>2, <1>3

LEMMA CancelInv == ASSUME IInv, NEW u \in Tasks, Cancel(u) PROVE IInv'
<1> USE DEF IInv
<1>1. Types'
  BY DeletedType DEF Cancel, Types
<1>2. LostOK'
  BY DEF Cancel, Types, LostOK, Lose, Awaits, TaskInv
<1>3. ASSUME NEW t \in Tasks PROVE TaskInv(t)'
  BY NoRowType, DeletedType DEF Cancel, Types, TaskInv, Exists
<1>4. QED BY <1>1, <1>2, <1>3

LEMMA UpdateInv == ASSUME IInv, NEW u \in Tasks, Update(u) PROVE IInv'
<1> USE DEF IInv
<1>1. Types'
  <2> DEFINE k == IF row[u].kind = "once" THEN "interval" ELSE "once"
             d == row[u].due /\ row[u].kind = "interval"
  <2>1. k \in Kinds /\ d \in BOOLEAN
    BY DEF Kinds
  <2>2. row' = [row EXCEPT ![u] = [row[u] EXCEPT !.kind = k, !.due = d]]
    BY DEF Update, Types, RowType
  <2> HIDE DEF k, d
  <2>3. [row[u] EXCEPT !.kind = k, !.due = d] \in RowType
    BY <2>1 DEF Types, RowType
  <2>4. QED BY <2>2, <2>3 DEF Update, Types, goalVars
<1>2. LostOK'
  BY DEF Update, LostOK, goalVars
<1>3. ASSUME NEW t \in Tasks PROVE TaskInv(t)'
  BY NoRowType DEF Update, Types, RowType, TaskInv, Exists, goalVars
<1>4. QED BY <1>1, <1>2, <1>3

\* Time and the goal.
LEMMA TimeInv ==
  ASSUME IInv, NEW u \in Tasks, Elapses(u) \/ SuspensionElapses(u)
  PROVE  IInv'
<1> USE DEF IInv
<1>1. Types'
  <2>1. CASE Elapses(u)
    BY <2>1 DEF Elapses, Types, RowType, goalVars
  <2>2. CASE SuspensionElapses(u)
    <3>1. row' = [row EXCEPT ![u].suspended = FALSE]
      BY <2>2 DEF SuspensionElapses
    <3>2. UNCHANGED <<inbox, run, waitsFor, events, crashes>>
      BY <2>2 DEF SuspensionElapses, goalVars
    <3>3. QED BY <3>1, <3>2 DEF Types, RowType
  <2>3. QED BY <2>1, <2>2
<1>2. LostOK'
  BY DEF Elapses, SuspensionElapses, LostOK, goalVars
<1>3. ASSUME NEW t \in Tasks PROVE TaskInv(t)'
  <2>1. CASE Elapses(u)
    BY <2>1, NoRowType DEF Elapses, Types, RowType, TaskInv, goalVars
  <2>2. CASE SuspensionElapses(u)
    BY <2>2, NoRowType DEF SuspensionElapses, Types, RowType, TaskInv, goalVars
  <2>3. QED BY <2>1, <2>2
<1>4. QED BY <1>1, <1>2, <1>3

LEMMA GoalMovesInv == ASSUME IInv, GoalMoves PROVE IInv'
BY DEF IInv, GoalMoves, Types, LostOK, TaskInv

\* The tick.
LEMMA TickInv == ASSUME IInv, Tick PROVE IInv'
<1> USE DEF IInv
<1>1. PICK deleted \in SUBSET {t \in Tasks : MayBeTooOld(t)} :
        \E started \in SUBSET {t \in Tasks : IsDue(t)} :
          /\ row' = [t \in Tasks |-> IF t \in deleted THEN Deleted ELSE row[t]]
          /\ run' = [t \in Tasks |-> IF t \in started
                       THEN [stage |-> "queued", kind |-> row[t].kind, ref |-> row[t].ref]
                       ELSE run[t]]
          /\ started \cap deleted = {}
          /\ lost' = (lost \/ \E t \in deleted : Awaits(t) /\ ~row[t].applied)
          /\ UNCHANGED <<inbox, waitsFor, events, crashes>>
  BY DEF Tick
<1>2. Types'
  BY <1>1, DeletedType DEF Types, RowType, RunType, Stages
<1>3. LostOK'
  <2>1. (\E t \in deleted : Awaits(t) /\ ~row[t].applied) => waitsFor # None
    BY DEF Awaits, TaskInv, MayBeTooOld
  <2>2. QED BY <1>1, <2>1 DEF LostOK
<1>4. ASSUME NEW t \in Tasks PROVE TaskInv(t)'
  BY <1>1, NoRowType, DeletedType DEF Types, RowType, RunType, TaskInv, IsDue, MayBeTooOld
<1>5. QED BY <1>2, <1>3, <1>4

\* Runs.  What is saved of a row keeps its kind and its CI run, neither creates a
\* row nor makes it active, and forgets no event.
Saves(r, s) ==
  /\ s \in RowType
  /\ s.kind = r.kind /\ s.ref = r.ref
  /\ s.status = "none" => r.status = "none"
  /\ s.status = "gone" <=> r.status = "gone"
  /\ s.status = "active" => r.status = "active"
  /\ r.applied => s.applied
  /\ s.applied => r.applied \/ r.kind = "watcher"

\* What a step of a run does to the queue and to the rows.
RunStep(u) ==
  /\ run[u].stage # "none"
  /\ Ends(u) \/ IsEnding(u)
  /\ row' = row \/ \E s : Saves(row[u], s) /\ row' = [row EXCEPT ![u] = s]

LEMMA RunStepInv ==
  ASSUME IInv, NEW u \in Tasks, RunStep(u), LostOK',
         UNCHANGED <<inbox, waitsFor, events, crashes>>
  PROVE  IInv'
<1> USE DEF IInv
<1>1. PICK s \in RowType : Saves(row[u], s) /\ row' = [row EXCEPT ![u] = s]
  <2>1. CASE row' = row
    <3>1. row[u] \in RowType /\ Saves(row[u], row[u]) /\ row' = [row EXCEPT ![u] = row[u]]
      BY <2>1 DEF Types, Saves
    <3>2. QED BY <3>1
  <2>2. CASE \E s : Saves(row[u], s) /\ row' = [row EXCEPT ![u] = s]
    BY <2>2 DEF Saves
  <2>3. QED BY <2>1, <2>2 DEF RunStep
<1>2. Types'
  BY <1>1, NoRowType DEF RunStep, Ends, IsEnding, Types, RunType, Stages
<1>3. ASSUME NEW t \in Tasks PROVE TaskInv(t)'
  <2>1. CASE t # u
    BY <1>1, <2>1 DEF RunStep, Ends, IsEnding, Types, TaskInv
  <2>2. CASE t = u
    <3>1. inbox[u] # "filed"
      BY NoRowType DEF TaskInv, RunStep
    <3>2. row'[u] = s
      BY <1>1 DEF Types
    <3>3. run'[u] = NoRun \/ run'[u] = [run[u] EXCEPT !.stage = "ending"]
      BY DEF RunStep, Ends, IsEnding, Types
    <3>4. /\ run'[u].kind = "watcher" => run[u].kind = "watcher" /\ run'[u].ref = run[u].ref
          /\ run'[u].stage # "running"
      BY <3>3, NoRowType DEF Types, RunType
    <3>5. QED BY <1>1, <2>2, <3>1, <3>2, <3>4 DEF TaskInv, Saves
  <2>3. QED BY <2>1, <2>2
<1>4. QED BY <1>2, <1>3

LEMMA SavedRow ==
  ASSUME NEW u \in Tasks, NEW s, Saved(u, s), Exists(u) => Saves(row[u], s)
  PROVE  row' = row \/ \E q : Saves(row[u], q) /\ row' = [row EXCEPT ![u] = q]
BY DEF Saved

\* The row after a run, with more or fewer failures.
LEMMA AfterRunSaves ==
  ASSUME Types, NEW u \in Tasks, Exists(u), NEW n \in 0..MostFails,
         NEW b \in BOOLEAN
  PROVE  Saves(row[u], AfterRun(u, [row[u] EXCEPT !.suspended = b, !.fails = n]))
BY DEF AfterRun, StatusAfter, Saves, Types, RowType, Exists, Statuses

LEMMA MoreFailsType ==
  ASSUME Types, NEW u \in Tasks PROVE MoreFails(u) \in 0..MostFails
BY MostFailsType DEF MoreFails, Types, RowType

LEMMA StartInv == ASSUME IInv, NEW u \in Tasks, Start(u) PROVE IInv'
<1> USE DEF IInv
<1>1. Types'
  BY NoRowType DEF Start, Types, RunType, Stages, goalVars
<1>2. LostOK'
  BY DEF Start, LostOK, goalVars
<1>3. ASSUME NEW t \in Tasks PROVE TaskInv(t)'
  BY NoRowType DEF Start, MayStart, Plain, Queued, Types, RunType, TaskInv, goalVars
<1>4. QED BY <1>1, <1>2, <1>3

LEMMA StartFailsInv == ASSUME IInv, NEW u \in Tasks, StartFails(u) PROVE IInv' /\ RunStep(u)
<1>1. RunStep(u)
  BY DEF IInv, StartFails, RunStep, Queued, Types, RowType, Saves, Statuses, Exists
<1>2. LostOK'
  BY DEF IInv, StartFails, LostOK, goalVars
<1>3. QED BY <1>1, <1>2, RunStepInv DEF StartFails, goalVars

LEMMA RunSucceedsInv == ASSUME IInv, NEW u \in Tasks, RunSucceeds(u) PROVE IInv' /\ RunStep(u)
<1>1. 0 \in 0..MostFails
  BY MostFailsType
<1>2. RunStep(u)
  BY <1>1, AfterRunSaves, SavedRow DEF IInv, RunSucceeds, RunStep, Running
<1>3. LostOK'
  BY DEF IInv, RunSucceeds, LostOK, goalVars
<1>4. QED BY <1>2, <1>3, RunStepInv DEF RunSucceeds, goalVars

LEMMA RunFailsInv == ASSUME IInv, NEW u \in Tasks, RunFails(u) PROVE IInv' /\ RunStep(u)
<1>1. RunStep(u)
  <2>1. CASE /\ Exists(u) /\ IsEnding(u)
             /\ Saved(u, [row[u] EXCEPT !.suspended = TRUE])
    <3>1. Saves(row[u], [row[u] EXCEPT !.suspended = TRUE])
      BY DEF IInv, Types, RowType, Saves
    <3>2. QED BY <2>1, <3>1, SavedRow DEF RunFails, RunStep, Running
  <2>2. CASE Ends(u) /\ Saved(u, AfterRun(u, [row[u] EXCEPT !.fails = MoreFails(u)]))
    <3>1. Exists(u) => Saves(row[u], AfterRun(u, [row[u] EXCEPT !.fails = MoreFails(u)]))
      BY MoreFailsType DEF AfterRun, StatusAfter, IInv, Saves, Types, RowType, Exists, Statuses
    <3>2. QED BY <2>2, <3>1, SavedRow DEF RunFails, RunStep, Running
  <2>3. QED BY <2>1, <2>2 DEF RunFails
<1>2. LostOK'
  BY DEF IInv, RunFails, LostOK, goalVars
<1>3. QED BY <1>1, <1>2, RunStepInv DEF RunFails, goalVars

LEMMA CheckPendingInv == ASSUME IInv, NEW u \in Tasks, CheckPending(u) PROVE IInv' /\ RunStep(u)
<1>1. Saves(row[u], [row[u] EXCEPT !.fails = 0])
  BY MostFailsType DEF IInv, Types, RowType, Saves
<1>2. RunStep(u)
  BY <1>1, SavedRow DEF CheckPending, RunStep, Running
<1>3. LostOK'
  BY DEF IInv, CheckPending, LostOK, goalVars
<1>4. QED BY <1>2, <1>3, RunStepInv DEF CheckPending, goalVars

LEMMA CheckFailsInv == ASSUME IInv, NEW u \in Tasks, CheckFails(u) PROVE IInv' /\ RunStep(u)
<1> PICK n \in ErrorsAfter(u) :
      /\ Saved(u, [row[u] EXCEPT !.fails = n,
                                 !.status = IF n >= MaxErrors THEN "paused" ELSE @])
      /\ IF n >= MaxErrors THEN Lose(u) ELSE UNCHANGED lost
  BY DEF CheckFails
<1> DEFINE status == IF n >= MaxErrors THEN "paused" ELSE row[u].status
<1>1. n \in 0..MostFails
  BY MoreFailsType, MostFailsType DEF ErrorsAfter, IInv
<1>2. Exists(u) => Saves(row[u], [row[u] EXCEPT !.fails = n, !.status = status])
  BY <1>1 DEF IInv, Types, RowType, Saves, Statuses, Exists
<1>3. Saved(u, [row[u] EXCEPT !.fails = n, !.status = status])
  BY DEF IInv, Types, RowType
<1>4. RunStep(u)
  BY <1>2, <1>3, SavedRow DEF CheckFails, RunStep, Running
<1>5. LostOK'
  <2>1. CASE n >= MaxErrors
    BY <2>1 DEF CheckFails, IInv, LostOK, Lose, Awaits, TaskInv, Types
  <2>2. CASE ~(n >= MaxErrors)
    BY <2>2 DEF CheckFails, IInv, LostOK
  <2>3. QED BY <2>1, <2>2
<1>6. QED BY <1>4, <1>5, RunStepInv DEF CheckFails

LEMMA PersistInv == ASSUME IInv, NEW u \in Tasks, Persist(u) PROVE IInv' /\ RunStep(u)
<1> DEFINE n == IF Plain(u) THEN MoreFails(u) ELSE row[u].fails
<1>1. Exists(u) => Saves(row[u], AfterRun(u, [row[u] EXCEPT !.fails = n]))
  BY MoreFailsType DEF AfterRun, StatusAfter, IInv, Saves, Types, RowType, Exists, Statuses
<1>2. Saved(u, AfterRun(u, [row[u] EXCEPT !.fails = n])) \/ UNCHANGED row
  BY DEF Persist
<1>3. RunStep(u)
  BY <1>1, <1>2, SavedRow DEF Persist, RunStep
<1>4. LostOK'
  BY DEF IInv, Persist, LostOK, goalVars
<1>5. QED BY <1>3, <1>4, RunStepInv DEF Persist, goalVars

\* The end of a CI run.
LEMMA CheckTerminalInv == ASSUME IInv, NEW u \in Tasks, CheckTerminal(u) PROVE IInv'
<1> DEFINE s == [row[u] EXCEPT !.status = "completed", !.applied = TRUE]
<1>1. run[u].kind = "watcher" /\ run[u].stage = "running" /\ run[u].ref \in Refs /\ events[u] = 0
  BY DEF IInv, Types, RunType, Kinds, CheckTerminal, Plain, Running, TaskInv
<1>2. s \in RowType
  BY DEF IInv, Types, RowType, Statuses
<1>3. events' = events \/ events' = [events EXCEPT ![u] = 1]
  BY <1>1 DEF CheckTerminal, Wakes, goalVars, IInv, Types
<1>4. row' = IF Exists(u) THEN [row EXCEPT ![u] = s] ELSE row
  BY DEF CheckTerminal, Applied, Saved
<1>5. Types'
  BY <1>2, <1>3, <1>4, NoRowType DEF IInv, Types, CheckTerminal, Ends, IsEnding, RunType, Stages, Wakes, goalVars
<1>6. LostOK'
  BY DEF IInv, CheckTerminal, LostOK, Wakes, goalVars
<1>7. ASSUME NEW t \in Tasks PROVE TaskInv(t)'
  <2>1. CASE t # u
    BY <1>3, <1>4, <2>1 DEF IInv, Types, TaskInv, CheckTerminal, Ends, IsEnding
  <2>2. CASE t = u
    <3>1. inbox[u] # "filed" /\ inbox' = inbox
      BY <1>1, NoRowType DEF IInv, TaskInv, CheckTerminal
    <3>2. run'[u] = NoRun \/ run'[u] = [run[u] EXCEPT !.stage = "ending"]
      BY DEF CheckTerminal, Ends, IsEnding, IInv, Types
    <3>3. /\ run'[u].kind = "watcher" => run'[u].ref = run[u].ref
          /\ run'[u].stage # "running"
      BY <3>2, NoRowType DEF IInv, Types, RunType
    <3>4. CASE Exists(u)
      <4>1. row'[u] = s /\ row[u].kind = "watcher" /\ s.kind = "watcher" /\ s.ref \in Refs
            /\ s.applied /\ s.status = "completed"
        BY <1>1, <1>4, <3>4 DEF IInv, Types, RowType, TaskInv, Exists
      <4>2. QED BY <1>3, <1>1, <2>2, <3>1, <3>3, <4>1 DEF IInv, Types, TaskInv
    <3>5. CASE ~Exists(u)
      <4>1. row[u].status = "gone" /\ row' = row
        BY <1>1, <1>4, <3>5 DEF IInv, TaskInv, Exists
      <4>2. QED BY <1>3, <1>1, <2>2, <3>1, <3>3, <4>1 DEF IInv, Types, TaskInv
    <3>6. QED BY <3>4, <3>5
  <2>3. QED BY <2>1, <2>2
<1>8. QED BY <1>5, <1>6, <1>7 DEF IInv

LEMMA TerminalCrashInv == ASSUME IInv, NEW u \in Tasks, TerminalCrash(u) PROVE IInv'
<1> DEFINE s == [row[u] EXCEPT !.status = "completed", !.applied = TRUE]
<1>1. run[u].kind = "watcher" /\ waitsFor = run[u].ref /\ run[u].ref \in Refs
  BY DEF IInv, Types, RunType, Kinds, TerminalCrash, Plain, TaskInv, WakesFor
<1>2. s \in RowType
  BY DEF IInv, Types, RowType, Statuses
<1>3. row' = IF Exists(u) THEN [row EXCEPT ![u] = s] ELSE row
  BY DEF TerminalCrash, Applied, Saved
<1>4. Types'
  BY <1>2, <1>3, NoRowType DEF IInv, Types, TerminalCrash, Crashes
<1>5. LostOK'
  <2>1. CASE lost' = TRUE /\ UNCHANGED waitsFor
    BY <1>1, <2>1 DEF LostOK
  <2>2. CASE lost' = FALSE
    BY <2>2 DEF LostOK
  <2>3. QED BY <2>1, <2>2 DEF TerminalCrash
<1>6. ASSUME NEW t \in Tasks PROVE TaskInv(t)'
  <2>1. UNCHANGED <<inbox, events>> /\ run'[t] = NoRun
    BY DEF TerminalCrash, Crashes
  <2>2. CASE t # u
    BY <1>3, <2>1, <2>2, NoRowType DEF IInv, Types, TaskInv
  <2>3. CASE t = u
    <3>1. inbox[u] # "filed"
      BY NoRowType DEF IInv, TaskInv, TerminalCrash, Running
    <3>2. CASE Exists(u)
      <4>1. row'[u] = s /\ row[u].kind = "watcher" /\ s.kind = "watcher" /\ s.ref \in Refs
            /\ s.applied /\ s.status = "completed"
        BY <1>1, <1>3, <3>2 DEF IInv, Types, RowType, TaskInv, Exists
      <4>2. QED BY <2>1, <2>3, <3>1, <4>1, NoRowType DEF IInv, Types, TaskInv
    <3>3. CASE ~Exists(u)
      BY <1>3, <2>1, <2>3, <3>1, <3>3, NoRowType DEF IInv, TaskInv
    <3>4. QED BY <3>2, <3>3
  <2>4. QED BY <2>2, <2>3
<1>7. QED BY <1>4, <1>5, <1>6 DEF IInv

LEMMA CreateCrashInv == ASSUME IInv, NEW u \in Tasks, CreateCrash(u) PROVE IInv'
<1> USE DEF IInv
<1>1. row' = row \/ \E new \in NewRows : row' = [row EXCEPT ![u] = new]
  BY DEF CreateCrash
<1>2. Types'
  BY <1>1, NewRowsType, NoRowType DEF CreateCrash, Crashes, Types, goalVars
<1>3. LostOK'
  BY DEF CreateCrash, LostOK, goalVars
<1>4. ASSUME NEW t \in Tasks PROVE TaskInv(t)'
  BY <1>1, NewRowsType, NoRowType DEF CreateCrash, Crashes, Types, TaskInv, goalVars
<1>5. QED BY <1>2, <1>3, <1>4

LEMMA CrashInv == ASSUME IInv, Crash PROVE IInv'
<1> USE DEF IInv
<1>1. Types'
  BY NoRowType DEF Crash, Crashes, Types, goalVars
<1>2. LostOK'
  BY DEF Crash, LostOK, goalVars
<1>3. ASSUME NEW t \in Tasks PROVE TaskInv(t)'
  BY NoRowType DEF Crash, Crashes, Types, TaskInv, goalVars
<1>4. QED BY <1>1, <1>2, <1>3

LEMMA StepInv == IInv /\ [Next]_vars => IInv'
<1>1. SUFFICES ASSUME IInv, [Next]_vars PROVE IInv'
  OBVIOUS
<1>2. CASE UNCHANGED vars
  BY <1>1, <1>2 DEF vars, IInv, Types, LostOK, TaskInv
<1>3. CASE Tick \/ GoalMoves \/ Crash
  BY <1>1, <1>3, TickInv, GoalMovesInv, CrashInv
<1>4. ASSUME NEW u \in Tasks,
             Create(u) \/ Pause(u) \/ Resume(u) \/ Cancel(u) \/ Update(u)
      PROVE  IInv'
  BY <1>1, <1>4, CreateInv, PauseInv, ResumeInv, CancelInv, UpdateInv
<1>5. ASSUME NEW u \in Tasks,
             \/ Elapses(u) \/ SuspensionElapses(u) \/ TerminalCrash(u) \/ CreateCrash(u)
      PROVE  IInv'
  BY <1>1, <1>5, TimeInv, TerminalCrashInv, CreateCrashInv
<1>6. ASSUME NEW u \in Tasks, RunGoesOn(u)
      PROVE  IInv'
  BY <1>1, <1>6, StartInv, StartFailsInv, RunSucceedsInv, RunFailsInv, CheckPendingInv,
     CheckFailsInv, CheckTerminalInv, PersistInv DEF RunGoesOn, Runs
<1>7. QED BY <1>1, <1>2, <1>3, <1>4, <1>5, <1>6 DEF Next

\* The inductive invariant: types, and what the record of a task, its run, its
\* request and the events it gave say of each other.
THEOREM InvariantHolds == Spec => []IInv
BY InitInv, StepInv, PTL DEF Spec

\* Every reachable state is well typed (db/tasks.ts, task-scheduler*.ts).
THEOREM TypeCorrect == Spec => []TypeOK
BY InvariantHolds, InvTypes, PTL

\* A watcher's terminal event wakes its goal at most once, for all tasks and CI
\* runs, although watchers are resumed, asked for again and interrupted by
\* crashes (terminal_event_applied_at in runGithubCiTask).
THEOREM EventOnceCorrect == Spec => []EventOnce
<1>1. IInv => EventOnce
  <2>1. \A t \in Tasks : IInv => events[t] \in {0, 1}
    BY DEF IInv, TaskInv
  <2>2. \A e \in {0, 1} : e <= 1
    OBVIOUS
  <2>3. QED BY <2>1, <2>2 DEF EventOnce
<1>2. QED BY <1>1, InvariantHolds, PTL

\* Nothing but resume_task makes a stopped row active.
LEMMA OnlyResume ==
  ASSUME IInv, [Next]_vars, NEW t \in Tasks,
         row[t].status \in {"paused", "completed", "gone"}, row'[t].status = "active"
  PROVE  Resume(t)
<1>1. CASE UNCHANGED row
  BY <1>1
<1>2. CASE Tick
  BY <1>2, DeletedType DEF Tick
<1>3. ASSUME NEW u \in Tasks, Create(u) \/ CreateCrash(u) PROVE Resume(t)
  <2>1. row[u].status = "none"
    BY <1>3, NoRowType DEF IInv, TaskInv, Create, CreateCrash
  <2>2. t # u => row'[t] = row[t]
    BY <1>3 DEF IInv, Types, Create, CreateCrash
  <2>3. QED BY <2>1, <2>2
<1>4. ASSUME NEW u \in Tasks, Resume(u) PROVE Resume(t)
  BY <1>4 DEF IInv, Types, Resume
<1>5. ASSUME NEW u \in Tasks, Pause(u) \/ Cancel(u) \/ Update(u) \/ Elapses(u) \/ SuspensionElapses(u)
      PROVE  Resume(t)
  <2>1. CASE Pause(u) \/ Cancel(u)
    BY <2>1, DeletedType DEF IInv, Types, RowType, Pause, Cancel
  <2>2. CASE Update(u)
    BY <2>2 DEF IInv, Types, RowType, Update
  <2>3. CASE Elapses(u)
    BY <2>3 DEF IInv, Types, RowType, Elapses
  <2>4. CASE SuspensionElapses(u)
    <3>1. row' = [row EXCEPT ![u].suspended = FALSE]
      BY <2>4 DEF SuspensionElapses
    <3>2. QED BY <3>1 DEF IInv, Types, RowType
  <2>5. QED BY <1>5, <2>1, <2>2, <2>3, <2>4
<1>6. ASSUME NEW u \in Tasks, RunStep(u) PROVE Resume(t)
  BY <1>6 DEF IInv, Types, RunStep, Saves
<1>7. ASSUME NEW u \in Tasks, CheckTerminal(u) \/ TerminalCrash(u) PROVE Resume(t)
  BY <1>7 DEF IInv, Types, RowType, CheckTerminal, TerminalCrash, Applied, Saved
<1>8. ASSUME NEW u \in Tasks, RunGoesOn(u) PROVE Resume(t)
  <2>1. CASE Start(u)
    BY <1>1, <2>1 DEF Start
  <2>2. CASE CheckTerminal(u)
    BY <1>7, <2>2
  <2>3. CASE StartFails(u) \/ RunSucceeds(u) \/ RunFails(u) \/ CheckPending(u) \/ CheckFails(u)
             \/ Persist(u)
    BY <1>6, <2>3, StartFailsInv, RunSucceedsInv, RunFailsInv, CheckPendingInv, CheckFailsInv,
       PersistInv
  <2>4. QED BY <1>8, <2>1, <2>2, <2>3 DEF RunGoesOn, Runs
<1>9. CASE GoalMoves \/ Crash \/ UNCHANGED vars
  BY <1>1, <1>9 DEF GoalMoves, Crash, vars
<1>10. QED BY <1>2, <1>3, <1>4, <1>5, <1>7, <1>8, <1>9 DEF Next

\* What was paused, completed or cancelled while a run of it was in flight stays
\* so at the end of that run (updateTaskAfterRun keeps the status it finds).
THEOREM StoppedCorrect == Spec => StoppedStaysStopped
<1>1. IInv /\ [Next]_vars =>
        [\A t \in Tasks :
           row[t].status \in {"paused", "completed", "gone"} /\ row'[t].status = "active"
             => Resume(t)]_vars
  BY OnlyResume
<1>2. QED BY <1>1, InvariantHolds, PTL DEF Spec, StoppedStaysStopped
=============================================================================
