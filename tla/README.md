# Formal model of RBClaw

RBClaw connects Discord rooms to coding agents. Every message of a room goes
through one Node.js process: the process polls the database, queues a run for
the room, spawns an agent, delivers its output, and - in paired rooms - passes
the turn between an owner, a reviewer and an arbiter until the goal is done.

## Inventory

| Component | State | Operations | What makes it correct |
|---|---|---|---|
| Group run queue (`group-queue*.ts`) | per group: phase, run id, process, pending flags, tasks, retry count; globally: slot counters, waiting list, shutdown flag | enqueue message check / task, register process, close, kill, run end, retry, drain, recovery mode, shutdown | one run per group, slot limits, no lost wake-up, every agent ends |
| Paired task lifecycle (`paired-execution-context*.ts`, `paired-task-status.ts`, `paired-supervisor-state.ts`) | the `paired_tasks` row: status, supervisor state, counters, phase, blockers | human message, turn preparation, owner / reviewer / arbiter completion, /stop, /clear, retry wake-up, watcher events | legal status graph, monotone per-goal totals, completion only after finalize, a goal is never stuck |
| Paired turn store (`db/paired-state*.ts`, `db/paired-turn*.ts`) | reservations, execution leases, turns, attempts | schedule, claim, heartbeat, release, terminal marking, recovery | one writer per goal, leases follow runs, no turn lost |
| Work items and delivery (`db/work-items.ts`, `message-runtime-delivery.ts`) | persisted outputs, delivery status, idempotency keys | persist, send, retry, give up | one delivery per output |
| Service handoffs | handoff rows between the Claude and the Codex service | create, claim, complete, fail | each handoff taken once |
| Message runtime | cursors per chat, in-memory recovery set | poll loop, dispatch, roll-back | no message lost, none answered twice |
| Turn controller | one run's outputs, pending close | progress, final, close, finish | at most one final per turn |
| Group run inputs | input claims, direct terminal deliveries | claim, release, record | an input goes to one run |
| Agent executor | attempts, fallbacks, session retries | run, retry, hand over, finalize | a failed attempt does not lose the turn |
| Task scheduler and CI watchers | scheduled tasks, watchers | due scan, claim, run, suspend, wake | a task runs once per due time |
| IPC | claimed files | claim, process, quarantine, recover | each file handled once |
| Token rotation, service routing | token states, failover leases | rotate, cool down, fail over | a usable token is chosen |
| Checklist continuation | plan blob of a goal | update, evaluate | every item done before finish |
| Agent runner process, database, dashboards, session commands, evidence checks | files, SQL tables, formatted status | spawn, migrate, format, verify | see `PROJECT.json`, components |

How the parts talk to each other. The message loop and the Discord channel call
`enqueueMessageCheck`; the queue calls back into the message runtime
(`processGroupMessages`), which claims a turn in the turn store, prepares the
task row and runs the agent executor. The executor registers the agent process
with the queue, streams outputs through the turn controller to delivery,
completes the task row and schedules a follow-up, which is again an
`enqueueMessageCheck`. The scheduler's tick wakes retries and re-enqueues
orphaned goals; IPC and CI watchers write the task row from outside a turn. All
of it is one event loop over one SQLite database, so that what runs between two
`await`s is atomic, and what is hard lies between them:

- **Interleaving.** A group's run is a promise; enqueueing, retries, drains,
  closes, `/stop` and shutdown interleave with it at every `await`.
- **Two timelines of one goal.** The row moves while a run that was started for
  an older revision still executes (messages, `/stop`, retries, watchers,
  leases that expire, handoffs).
- **Partial failure.** A turn can fail before or after its output was stored,
  before or after it was delivered, and the process can stop at any point.
- **Timers.** Back-off, recovery window, post-close SIGTERM/SIGKILL, leases and
  heartbeats race with what they watch.
- **Ends of loops.** Owner and reviewer may disagree for ever; counters that are
  reset at different events have to stop them.

`PROJECT.json` lists the hazards at their lines, those that belong together as
one entry, with the properties that cover them. Four are only told here. A close
that arrives before the agent process is registered arms no timers
(group-queue.ts:365); only the runner's own time-out ends such a run. Two turns
that fail at once both rest "the current account" (token-rotation.ts:187), so
the second blames the account the first has just moved to. A Codex process that
is killed by a signal after nothing but tool activity counts as a success
without an answer (agent-runner-process.ts:419). Two watchers without a goal are
not seen as duplicates once one has been checked (db/tasks.ts:125).

## Modules

| Module | Models | Abstracted |
|---|---|---|
| `GroupQueue` | `group-queue*.ts`, `process-tree.ts`: slots, waiting groups, task queues, phases, retries, recovery window, close requests, kill timers, shutdown | contents of messages and tasks, IPC files, wall-clock time (a timer is armed or due) |
| `PairedTask` | the row of a goal and every handler that writes it, the run in flight, messages, `/stop`, `/clear`, watchers, retries, crashes | texts, back-off lengths, the workspace (whether evidence is accepted and whether progress was made are choices) |
| `GoalLifecycle` | what the room promises about a goal: reviewed, approved, finalized, confirmed | everything else |
| `PairedTurns` | reservations, claims, leases, attempts and one handoff of a goal whose runs overlap | which status follows which (a completion chooses), heartbeat times |
| `WorkItems` | `db/work-items.ts`, `message-runtime-delivery.ts`: the outputs of a room and their deliveries | texts, attachments, wall-clock time |
| `MessageRuntime`, which extends `WorkItems` | `message-runtime-loop.ts`, `-dispatch.ts`, `-group-processing.ts`, `-queue.ts`, `-rules.ts`, `session-commands.ts`: poll loop, cursors, runs, commands, restarts, IPC relay | limits and back-off of the queue, what an agent says during a turn |
| `TurnController` | `message-turn-controller.ts`, `coalescing-async-task.ts`: progress, edits, finals, verdicts | texts, subagents, typing |
| `AgentTurn`, which extends `TurnController` | `agent-runner-process.ts`, `streamed-output-evaluator.ts`, `message-agent-executor-*.ts`, `agent-attempt-retry.ts`, `provider-retry.ts`, `token-rotation.ts`: outputs, attempts, retries | the agent, session ids, lengths of cooldowns |
| `CodexAccounts` | `codex-token-rotation.ts`, the environment of a run (`agent-runner-environment.ts`, `agent-runner.ts`), `runCodexRotationLoop`: the accounts that concurrent turns share, leases, lock files, rotation, restart | times (come or not), usage figures, agents |
| `TaskScheduler` | `task-scheduler*.ts`, `task-suspension.ts`, `db/tasks.ts`, `ipc*.ts`: tasks, watchers, requests | times (come or not), texts |
| `GroupQueueProofs`, `PairedTaskProofs`, `PairedTurnsProofs`, `MessageRuntimeProofs`, `TaskSchedulerProofs`, `CodexAccountsProofs`, `AgentTurnProofs` | theorems about the module of that name | |
| `PairedTaskStatusProofs`, which extends `PairedTaskProofs` | theorems about the statuses of a goal, its lifecycle and its next turn | |
| `MCGroupQueue`, `MCPairedTask`, `MCPairedTurns`, `MCMessageRuntime`, `MCAgentTurn`, `MCTaskScheduler`, `MCCodexAccounts` | the instances TLC checks | |

The modules meet where the code's parts call each other, and each takes from its
neighbour what that one is checked for: `MessageRuntime`, `PairedTurns` and
`TaskScheduler` assume that a run asked for starts (`GroupQueue`,
`MessagesServed`, `TasksServed`); `TaskScheduler` sees of the goal what it waits
for, `PairedTask` sees of a watcher its end; `PairedTurns` lets a completion
choose the next status, `PairedTask` has it; `MessageRuntime` hands messages to
an agent whose turn is `AgentTurn`; `CodexAccounts` assumes that a process ends
(`AgentTurn`, `TurnEnds`).

### GroupQueue

One variable per field of `GroupRunState` (`phase`, `currentRunId`,
`runningTaskId`, `process`, `pendingMessages`, `pendingTasks`, `retryCount`,
...), the counters and the waiting list of the class, and the set `runs` of
promises that have not settled. One action is one synchronous stretch of code:
an enqueue, a timer callback, the `finally` of a run. What the code does in one
call with a loop inside (`drainWaiting`) is split at the callbacks it makes;
`cont` names the stretch that continues, and no other action may run before it.
A run id is used again only when nothing refers to it, which stands for the
fresh ids of the code. The turn controller asks for one close per run, and the
closes of the message loop carry no run id. A second SIGTERM is not modelled.
`SetProcessMessagesFn` may come at any time. The run `overlap` uses
`StartedSpec` of `MCGroupQueue` instead, in which it comes first, as in `main()`
(index.ts:663-669, no `await` between the start of the scheduler and the
handler) when the scheduler's first tick finds nothing due.

### PairedTask

`task` is the row of the room's goal, `run` the turn in flight with its stage,
`last` the newest stored output, `human` whether a message waits and whether it
is fresh. A handler is synchronous and is one action: its reads, its writes and
the completion it triggers. An accepted output of the owner completes the row
before it is delivered; an output of the reviewer or the arbiter is stored first
("spoken") and completes the row when the run ends, so that a crash, a message
or `/stop` can come in between. A run interrupted for a message completes
nothing. A failed run leaves the message unanswered only for a silent owner of
the Codex service; a crash restores it. `/stop` consumes what was written before
it and cancels the run; a run it meets before its preparation (the awaits at
message-runtime-turns.ts:256 and message-agent-executor-target.ts:123) is
`stopped`: it prepares all the same, which for a human message's owner turn
resumes the goal, and then throws (`StoppedRunPrepares`). `revived` remembers
that until the next claim. `/clear` is accepted between runs. Retryable blocker
classes are one class; the limit of automatic turns is a choice; the owner's
last output is not carried into a new goal; only one run of the room is in
flight (`PairedTurns` is about the others). Apart from
`StoppedRunPrepares` a preparation is assumed to succeed; `PairedTurns` has the
failing ones.

### PairedTurns

A turn is a revision of the row and an intent. `reservation`, `attempt` and
`lease` are the three tables; a run is `claimed` (the preparation is awaited),
`working` (the lifecycle exists and refreshes the lease), `delivered` (an
owner's row is completed) or `delegated`. Each database transaction and each
synchronous stretch is one action. Only the latest attempt of a turn is kept: an
older one is cancelled by the claim of the newer. `human` holds the messages no
cursor has passed: one that waits, and those given to a run, which are unread
again when the run is lost in a crash or fails in its preparation; a silent
failure of a Codex owner, which keeps the cursor as well, is `MessageRuntime`'s.
Whether the end of a run schedules the follow-up is a
choice, since the scheduler's tick catches what it does not. A lease expires
only when nobody refreshes it. A preparation awaits a lookup, a turn an agent:
`NobodyPrepares` states that no turn ends during another run's preparation.
Without that assumption a reviewer's turn claimed before `/stop`, whose
preparation outlasts two whole turns, is accepted for the next review
(`resolveClaimedTaskUpdatedAt` accepts any row in `in_review`) and becomes a
second writer. Rows closed by a superseding message start the next goal, which
the model leaves out. Writes of watchers between claim and preparation are left
out as well.

A preparation first prepares the role, which may write the row, and only then is
found to be of a turn the row has left behind: `PrepareFails` and
`HandoffPrepareFails` write what the code has written by then (`PreparedInVain`:
a stopped goal is resumed for the message, an owner's turn takes a review back
to `active`, a reviewer's turn begins the review) and give no lease back.
`crossed` is a history variable: such a write has happened since the lease was
taken.

### WorkItems and MessageRuntime

`items` is the table `work_items`, `shown` what Discord shows of each row, and
`del[r][w]` the delivery that deliverer `w` (the room's run, the IPC relay) has
under way: a call of the channel that takes effect and answers, takes effect and
fails, or fails, and then the mark of the row. `polled` and `cursor[r]` are the
two persisted cursors (`last_seq`, `last_agent_seq`); `pending`, `run`, `batch`
and `acking` are memory, which `Restart` loses. A run's `pc` names the awaits of
`processGroupMessages` between which loop, relay, deliveries and crash
interleave: the left-over output, the gate (the snapshot), the session command,
the start of the agent, the agent, the delivery of the final, the cursor. Claim
and start are two steps: `starting` covers the awaits of the turn, its target and
the lock of the directory (message-runtime-turns.ts:256,
message-agent-executor.ts:331), in which no process is registered and `/stop`
kills nothing. Two history variables: `taken`, what an agent was given or a
command consumed, and `gone`, what the cursor has passed without being claimed by
the room's run.

A message has a place in the table (its seq) and a timestamp `at`, its author's
clock, so that one stored later may carry the same or an earlier one. `/stop` and
a turn move the cursor to a seq; `/clear`, `/compact`, a refusal and the failed
prompt before a `/compact` move it to the newest message whose timestamp is not
later (`LatestSeqAtOrBefore`, `byTime`). Piping may be refused by the queue
(group-queue.ts:259, 285), and then a run is asked for.

A final is delivered with a key, which Discord is assumed to honour however late
the second send comes (`Idempotent`). A restart is atomic, and nothing is
written while the program is down. The twelve-hour window after which a room of
bots is left alone is a choice; the limits of 200 rows of the queries are left
out, as are trigger patterns and rooms that come and go.

### TurnController and AgentTurn

`TurnController` has one variable per field of the controller that decides what
is posted (`visible`, `tracked`, `forFinal`, `sending`, ...), the posts of the
turn, and where the handler of outputs and `finish()` wait; every `await` of the
channel is a step of its own and may fail. `editing`, `requested` and `ticking`
are `progressEdits`. `AgentTurn` adds the process, the chain of outputs that are
parsed but not handled, the verdict of the attempt and the variables of the
retry loops.

The agent is arbitrary: any outputs, in any order, any end, or none until the
time-out. What is left in the pipe of an attempt that is run again is dropped;
an output after the exit comes within the attempt's bound. Cooldowns outlast the
turn. `ForceResolve`, the last resort against a process that cannot be killed,
comes after a flushed final. There are at least two Claude accounts, each of
which can be retried. A handoff to Codex ends the turn as a success, as in the
code. Typing, headings of subagents, close requests (`GroupQueue` has them),
poisoned sessions, session ids, answers the agent posts itself and
`pendingProgressText` (empty whenever a final is flushed) are left out.

### CodexAccounts

`cur` and `acct` are `currentIndex` and `accounts` of `codex-token-rotation.ts`,
`saved` is the index in the state file, whose other fields follow the accounts.
An account has a lease in memory (`lease`) and a lock file (`lock`), which
outlives the process; a lock counts while it has not expired and its process
lives. `run` is a turn: refused, working with an account, or flushed (its last
output was handled, which gives the account back before the process has ended).
A claim, a rotation and a preparation contain no `await`: each is an operator
from a pool to the pools it can leave, and an action composes them as its
handler calls them. What fails in a preparation is a choice; a lease that nobody
will release is recorded in `leaked`.

Left out: agents that outlive their crashed process, the warm-up and the usage
collector, which use an account's home without a lease, and copying a session's
`auth.json` back. An error is an auth failure, a limit, or no reason to rotate.

### TaskScheduler

`row` is the table `scheduled_tasks`, `inbox` the request files of the agents,
`run` what the queue holds for a task, with the kind and the CI run it was
queued with: the code goes on with that snapshot however the row has changed.
`waitsFor` is all that is seen of the goal. A crash loses queue and runs; it may
come between the two writes of the terminal event (`TerminalCrash`) or between
the creation of a watcher and the wait of its goal (`CreateCrash`); a request
file that was claimed is put aside. Whether a task has reached its maximal
duration is chosen at each tick, request files are there from the start, and
the count of consecutive errors is cut at the larger of the two limits.

## Runs

| Run | Question | Result | Distinct states |
|---|---|---|---|
| `queue` | messages, tasks, retries, recovery mode and shutdown of three groups: counters, limits, lost wake-ups, idle slots; every message check and task is served | holds | 129 k |
| `agents` | phases, closes, kill timers, shutdown: one run per group, what shutdown leaves behind; a delivered run ends and shutdown completes although agents ignore everything but SIGKILL | holds | 79 k |
| `overlap` | one run per group with tasks and messages, after `main()` has set the handler | **violated** | - |
| `lifecycle` | every verdict, failure and interference: no refused transition, watched waits, stopped and completed goals stay so | holds | 2.0 M |
| `escalate` | without an arbiter: implements `GoalLifecycle`, done only after a finalization | holds | 183 k |
| `settles` | a goal always has a next turn, and every loop ends | holds | 144 k |
| `retry` | a retried goal has a next turn | **violated** | - |
| `turns` | leases, writers and late deliveries of overlapping runs, with handoffs; without them and without a failed preparation's write, a runnable goal is always moved on | holds | 161 k |
| `accounts` | two accounts, an owner's and a reviewer's turns: none works for two turns, none is refused for no reason, rotations end | holds | 115 k |
| `delivery` | messages, commands, deliveries, the relay, failing calls and a crash: nothing posted twice, no message passed over, what was consumed is not claimed, every message taken up, every answer settled | holds | 550 k |
| `turn` | one turn of an arbitrary agent: the answer becomes the one final, failures are told, no edit over a final, no second run after an answer, every turn ends | holds | 928 k |
| `scheduler` | tasks and watchers with requests, errors, suspensions and a crash: an event wakes its goal once, stopped tasks stay stopped, a waiting goal goes on | holds | 395 k |

What the properties except, since the code does not give it, is part of their
text and of "Disagreements" below:

- `NothingSkipped`: messages in front of an ignored bot message, and those that a
  command takes with it by its timestamp; `MessagesTaken`: the former, and all
  that come after a `/clear`, `/compact` or refused command.
- `ConsumedStaysConsumed`: what is consumed between the claim of a run and the
  start of its agent.
- `StopHolds`, `GoalKeepsMoving`, `LoopSettles`: a goal that the preparation of a
  run resumes which `/stop` had met; `WriterHoldsLease`: that last write of a
  preparation that fails.
- `LeaseIsHeld`, `GoalMovesOn`: goals of which a turn was handed over or whose row
  a failed preparation has written since the lease was taken; `NoLateDelivery`:
  the former.
- `WaitEnds`: watchers that were stopped, and crashes between two writes.
- `AnswerReachesRoom`, `TurnEnds`: outputs that are read after their process's end.

### Bounds, and why they are enough

- `queue`: 3 groups on 2 slots (1 in the recovery window), 2 tasks, 3 run ids, 1
  retry, 3 arrivals. Somebody has to wait while two run, one of them ends and
  prefers its own next work, and the limit can drop below what runs. `overlap`:
  2 groups, 2 tasks, 4 arrivals, and the handler is set first.
- `agents`: 2 groups on 2 slots with 1 process id, which is used again: the
  timers of a replaced process meet the next run of the same group.
  `MaxSpawns = 1` process per run; tasks and retries are the matter of `queue`.
- `lifecycle`, `retry`: 5 turns, 2 messages, one goal, thresholds of 1 and 2, so
  that a deadlock, an arbitration and an exhausted limit are reached within
  them; checklists of 2 items and the command that stops one (`PlanLengths` 0);
  one watcher, one directive.
- `escalate`: 7 turns, enough for work, review, approval, finalization, final
  review, a send-back and another round. `settles`: 30 turns and 2 goals, more
  than any behaviour of the instance needs (the episode limit is 5 rounds). Its
  owner gives no `step_done` and its arbiter escalates: with the others the
  limits are met during finalization, see below.
- `turns`: 2 overlapping runs, rows up to revision 3, 2 messages, `/stop`s or
  restarts: the old run of a stopped goal meets the run of the resumed one. A
  completion approves the goal or leaves its review for a retry, which leads to
  reviews, finalizations and a closing message within three revisions. Its
  `VIEW` drops the reservations and terminal attempts of past turns nobody
  executes, which no action, no fairness condition and no property reads. That
  the stale run meets the second turn of the resumed goal takes a fourth
  revision, and so does a lease that a crossed preparation leaves behind. With
  four and no handoffs TLC finds no violation of the safety properties;
  `PairedTurnsProofs` has them for every number.
- `accounts`: 2 accounts, a turn of an owner and one of a reviewer (who claims
  twice) at a time, 4 turns, 3 events (times that come, logins, usage reports,
  switches, crashes): an expired lease is taken over while its turn works, a
  rotation meets a lock a crash has left. `CodexAccountsProofs` has the safety
  properties for every number.
- `delivery`: one room, 2 messages of all seven kinds with 2 timestamps in any
  order, outputs of one part, 1 failing call, one message the agent sends by
  itself, one crash. Two messages
  give every order of a command and what it consumes, the outputs a left-over
  and its successor, the fault and the crash a row that is sent again twice. Its `VIEW`
  identifies states whose timestamps compare alike once no message can come.
  `MessageRuntimeProofs` has the safety properties for every number of rooms,
  messages and parts.
- `turn`: 2 accounts, 1 transient retry (2 in the code), 1 progress output and 1
  final per attempt, which gives turns of several attempts with their edits in
  flight.
- `scheduler`: 2 tasks of any kind, 2 CI runs, limits of 2 errors and 1 failure,
  1 crash: a watcher asked for again, or for another run, meets the first one's
  end.

`CHECK_DEADLOCK FALSE` is set where the bounds or the program itself stop: a
goal is done, nobody writes, the program has exited, the turn is over.

### Fairness

- `GroupQueue`: armed timers fire, the event loop finishes a callback it has
  begun, `main()` reaches `setProcessMessagesFn`, a handler settles once its
  process is gone (`RunEnds`; a message handler without a process settles by
  itself), a process dies of SIGKILL. Nothing is assumed of arrivals, of an
  agent that has not been killed or of shutdown signals.
- `PairedTask`: a waiting message is taken up (message loop), a claimed run
  moves on and ends (`HARD_TURN_TIMEOUT`, the process watchdog) and the next
  turn is run (follow-up scheduler, `reconcileOrphanedRunnablePairedTasks`), a
  back-off elapses (`wakeDuePairedRetryTasks`). Weak fairness is enough.
- `PairedTurns`: a queued check runs (`GroupQueue`, run `queue`), a run takes its
  next step, the scheduler ticks, a handoff is polled. Nothing is assumed of the
  expiry of leases: `turns` shows that no goal depends on it.
- `MessageRuntime`: the loop polls and dispatches (`startMessageLoop` never
  returns), a run that was asked for starts (`GroupQueue`) and takes its next
  step, an agent ends (`AgentTurn`, `TurnEnds`), a call of the channel answers.
  Nothing is assumed of messages, faults, the relay's requests or crashes.
- `AgentTurn`: the event loop runs what is ready, the channel answers, and the
  hard time-out ends a process. The agent need not do anything.
- `CodexAccounts`: a process ends. Nothing is assumed of times that come.
- `TaskScheduler`: the timer of the loop fires, times come, a run goes on. A CI
  run that is looked at again and again is seen to end (strong fairness of
  `CheckTerminal`): it is about GitHub, not about the code, and without it a
  goal may rightly wait for ever.

## Proofs

Eight modules of theorems, for every value of the constants, from the named
assumptions on them (limits are natural numbers, `None` is no member of the sets
it is told apart from). Each has one inductive invariant, `IInv` or `Inv`, which
`InvariantHolds` establishes; the theorems about the runs' properties follow
from it.

`GroupQueueProofs`, for all groups, tasks, run ids, processes and limits:

- `TypeCorrect`. One lemma per handler gives the types of what it changes;
  `StepTypes` collects them.
- `CountersCorrect`. `RunsInv` adds that `runs` is finite and its ids are unique,
  without which removing a run could remove two and count one.
- `CapacityCorrect`. `CapacityInv` adds that `drainGroup` is entered with a slot
  to spare: its start of the group's own work does not test the limit.
- `WorkNeverStranded`. `WakeInv` states what `NoStrandedWork` says between
  callbacks for every state (`Awake`: in flight, waiting while somebody runs,
  about to be drained, or with an armed timer) and that a phase other than idle
  belongs to a run in flight; each action keeps the group it serves awake and
  disturbs no other.
- `ShutdownCorrect`. Before shutdown nothing is on its list, and no step after
  the exit starts a process or takes a SIGKILL back (`StopInv`).
- `SlotsCorrect` needs `RecoveryConcurrentAgents <= MaxConcurrentAgents`. Its
  invariant (`LineFull`, `ModeInv`) says, also within a callback, that a message
  waits behind a full house or the stretch in progress will drain. The
  hypothesis is needed, see "Disagreements".
- `RunsExclusive` and `PhasesCorrect` need no tasks (`MessagesOnly`) as well,
  since with tasks they are false (run `overlap`). `SoloInv` says that a group
  stands in the waiting list once, with messages, without a run and not while
  the stretch in progress is about to start it (`Lined`), and that the fields of
  a group tell its run (`FieldsTell`).

`PairedTaskProofs`, for all thresholds, verdicts, directives, watchers and
checklists:

- `InvariantHolds`: `IInv`, i.e. the types, `RoundsWithinTotal` (the rounds of an
  episode never exceed those of its goal), a stopped goal is active, an external
  wait is watched (`RowInv`), and no goal is closed while its run is in flight
  (`RunIsOpen`). The last is needed for `CompletedIsFinal`: a completion would
  otherwise write a closed row.
- `TypeCorrect`, `RoundsCorrect`, `ExternalWaitCorrect` follow from `IInv`;
  `TotalsCorrect`, `StopCorrect`, `CompletedCorrect` from `Steady`, the three
  action properties, which every step keeps. In `StopHolds` the one step that
  resumes a stopped goal without the user is named, `StoppedRunPrepares`; every
  other step is proved not to.
- The argument: every handler turns one row into another. `Keeps(t, u)` (the
  counters do not go back, the types hold) and `Settles(t, u)` are proved of each
  handler once and composed by `KeepsTransitive`; the lemma of an action then
  only says which handler wrote the row and what became of the run.

`PairedTaskStatusProofs`, about the same module:

- `StatusInvariantHolds`, `RefusedCorrect`: `StatusInv` adds to `IInv` that the
  run in flight works in a status of its role (`RunFits`), so that the status a
  completion asks for is one the table of `paired-task-status.ts` allows. What
  may happen to the row while the run is in flight (messages, watchers, late
  completions, `/stop`) keeps `RunFits`, which is the main part of the proof.
- `DoneCorrect` and `LifecycleCorrect` hold without an arbiter, as the runs
  check them: an arbiter's `proceed` can close a goal without a finalization
  (below). `FinalInv` says that a goal in its final review has been finalized;
  the second theorem maps every step of the room to a step of `GoalLifecycle` or
  to a stutter (`GoalMoves` is what a step may do to what the goal shows).
- `KeepsMovingCorrect` holds under `Healthy`: no run fails or crashes, progress
  never repeats, no owner says `STEP_DONE`, and the threshold of a deadlock is
  within the limit of an episode. Evidence that is rejected, malformed
  directives, deliveries, watchers, an arbiter, `/stop` and `/clear` are free,
  which is more than the run `settles` allows. The property itself excepts a goal
  that a run resumed although `/stop` had come (`revived`). Each condition
  excludes a halt that the model shows (run `retry`; limits met in a finalization, below);
  without the last one a disagreement may meet the episode's limit in the
  finalization. `DueInv` says which output is the newest in each status, from
  which `PendingTurn` derives the next turn.

`PairedTurnsProofs`, for all runs, revisions and choices of the next row:

- `IInv` is `TypeOK`, `ClaimInv` (a message's run that is being prepared holds
  the lease it claimed, or the row has moved on for good), `WorkInv` (a working
  run that still owns its attempt holds the lease) and, as long as no turn was
  handed over, `AloneInv`: what each run in flight works on, and, until a failed
  preparation writes the row (`crossed`), that runs of an open goal own an
  attempt of a row that fits it and its lease has a holder who can still use it
  (`HeldInv`).
- `LeaseCorrect` and `LateDeliveryCorrect` need `AloneInv`; `WriterCorrect`
  follows from `ClaimInv` and `WorkInv` and holds with handoffs and crossed
  preparations as well: these write, and that write is all the property excepts,
  but what they do to the row never lets another run complete it without a lease. That a
  completion does not harm a run in preparation is `NobodyPrepares`, an
  assumption of the module (above).

`MessageRuntimeProofs`, for all rooms, messages, numbers of parts and bounds:

- `ReadInv`: every human message up to the cursor, and up to where a run in its
  turn will move it, is `Covered`: given away or consumed, or `Excepted` (passed
  with a bot message, or `Overtaken` by a command that is consumed by its
  timestamp); `Sound` says this of each stage of a run, and that what a run
  gathered is what was unread at its snapshot. It makes `SkipsNothing` inductive,
  since a run moves the cursor long after it has read it, and by a timestamp that
  another message may meanwhile have been stored with.
- `GoneInv`: what was consumed lies behind the cursor, and no run has claimed any
  of it. A run claims what it gathered only if the cursor is where it was, so that
  all it claims lies beyond; `ConsumedCorrect` follows.
- `OutInv`: each part of a row is shown once at most and only by a delivery of
  that row (`ItemInv`), and a run waits for a delivery exactly while its own is
  under way (`LinkInv`); `SendsOnce` follows. `PendingInv` completes the types.
- Greatest and least messages (`Max`, `Min` of the community modules) are
  handled by lemmas derived from the well-foundedness of the natural numbers.

`TaskSchedulerProofs`, for all tasks, CI runs and limits: `IInv` relates what the
request, the row, the run and the events of a task say of each other. In
particular no check of a CI run is under way once its end has woken the goal,
without which a resumed watcher could wake it again (`EventOnceCorrect`).
`StoppedCorrect` is an action property of every step from `IInv`.

`CodexAccountsProofs`, for all accounts, runs and bounds: `Sound` says that a
lease in memory has its lock, that a lock that counts is held by a turn at work
or was left behind, and that who works within the time of a lease has its lock
(`LockOf`); `ExclusiveCorrect` follows, since a lock names one run.
`RefusedCorrect` needs the other direction: `FreeIsUsable` shows that an account
nobody works with, has no lock that counts, and thus no lease either, so that a
claim takes it. The operators of a pool are proved sound one by one (`ClaimsOK`,
`ReleaseIsSound`, `NextsOK`, `LoadsOK`) and composed as the actions compose them.

`AgentTurnProofs`, for all numbers of accounts, retries and outputs:

- `Inv` has a part for each module. `ScreenInv` is the controller's: types and
  `PostInv`, which says that the tracked post and the one an edit is in flight
  for show progress and are replaced by no final; every step of the controller
  keeps it, whatever the agent does. `LastWordCorrect` is read off it.
  `AttemptInv` is the attempt's: a verdict waits for exactly the outputs read
  before it (`Waiting`), so that a turn with an outcome has handled all that was
  not late. That is what makes the verdict of an attempt comparable with what
  the room was shown.
- `RerunCorrect` is an action property: of the steps that start an attempt each
  tests `saw`, directly or through `MayRetry`, `RetryRotation`, `SessionFailed`.
- `RoomSteps` sums up what a step of `AgentTurn` may do to the controller;
  `AnswerCorrect` and `FailureCorrect` follow from their invariants over these
  steps alone. `AnswerInv` distinguishes turns that have not answered, those
  about to give the answer, and those that gave it; `FailureInv` says that in a
  room without reviewer the phase is final only once a final was given or is
  being given, so that a failed turn that stays quiet has been heard.

Only model-checked: the liveness properties (`MessagesServed`, `TasksServed`,
`DeliveredRunEnds`, `ShutdownCompletes`, `LoopSettles`, `GoalMovesOn`,
`MessagesTaken`, `FinalsSettle`, `TurnEnds`, `TurnsEnd`, `WaitEnds`), since TLAPS
handles neither fairness nor ENABLED. Every invariant and action property that a
passing run checks, and the refinement, is a theorem, six of them under the
hypotheses named above (`SlotsCorrect`, `RunsExclusive`, `PhasesCorrect`,
`DoneCorrect`, `LifecycleCorrect`, `KeepsMovingCorrect`). The types of
`PairedTurns`, `MessageRuntime`, `TaskScheduler` and `CodexAccounts` are only
proved. The composition of the modules is argued in "Modules", not proved. Facts
about recursive data are not proved: the modules avoid RECURSIVE operators and
use the community modules.

## Disagreements met while modelling

Shown by runs:

- `overlap`: `drainWaiting` starts a waiting group without testing that it is
  idle (group-queue.ts:637). The task of an idle group waits for the one task
  slot (group-queue.ts:205-215); a message check of the group starts at once; when
  the other group's task ends, the drain starts the waiting task beside the
  message run. `VALID_TRANSITIONS` (group-queue-state.ts:22-27) has no
  `running_messages` to `running_task`, and group-queue.test.ts:64 is titled
  "only runs one agent per group at a time" (it only enqueues messages).
- `retry`: a first turn that fails in silence is parked for a retry that nothing
  resumes (paired-retry-policy.ts:45; docs/architecture.md:113).

Seen in the models, without a run of their own:

- `/stop` between the claim of an owner's run for a message and its preparation
  (message-runtime-turns.ts:256, message-agent-executor-target.ts:123) does not
  hold. The preparation takes the message, which `/stop` has consumed, for a new
  instruction and makes the goal runnable in a new episode
  (paired-execution-context.ts:298-343, called at 637); that the turn is not the
  row's any more is only found afterwards (message-agent-executor-target.ts:399-405),
  and the guard "Paired task is stopped and requires a new human instruction"
  (paired-execution-context.ts:645-652) is only met by other turns.
  docs/architecture.md:118-124 says that `/stop` invalidates reservations,
  attempts and leases so that no late result resumes the work. With a checklist
  that is not done, or an output of the reviewer or the arbiter as the newest,
  the goal goes on by itself; otherwise it lies still, runnable. Without their
  exceptions TLC refutes `StopHolds` and `GoalKeepsMoving`.
- In general a preparation that fails has written the row
  (paired-execution-context.ts:298-343, 490-563), without a lease when `/stop` has
  deleted it. If another run has claimed the row meanwhile, its own preparation
  then fails as well and leaves its lease and its running attempt behind: nothing
  of the goal can be claimed until the lease expires.
- `/clear`, `/compact`, a refused command and the failed prompt before a
  `/compact` are consumed by their timestamp (session-commands.ts:143, 154, 212,
  230; message-cursor.ts:9; db/messages.ts:231-255), `/stop` by its place (171). A
  timestamp is Discord's time of writing (channels/discord.ts:318), and a message
  that is stored later may carry the same or an earlier one: the cursor passes it
  and no agent is given it. The comment at session-commands.ts:229 says "messages
  AFTER it remain pending for next poll". (message-runtime-group-processing.ts:448 goes by the
  timestamp of the room's last message, behind which nothing lies.)
- `/stop` from the message loop between the claim of a run and the start of its
  agent finds no process to kill (`killProcess`, group-queue.ts:418-423), consumes
  the messages, and the agent is then started with them
  (message-runtime-turns.ts:256, message-agent-executor.ts:323-352).

- Limits met in a finalization write the row twice with one revision:
  `handleOwnerFinalizeCompletion` writes the status, and the write of
  `maybeAutoTriggerReviewerAfterOwnerCompletion` with the replaced revision is
  skipped, so the goal is left without a next turn
  (paired-execution-context-owner.ts:359; docs/architecture.md:112,
  README.md:70).
- An interrupted final review keeps `review_phase = 'final'`; through the arbiter
  or a `BLOCKED` owner the goal returns to the final review and is closed
  without another finalization (paired-execution-context-arbiter.ts:284;
  README.md:65). `DoneOnlyAfterFinalize` is therefore checked without an
  arbiter. In the same way a stale phase closes a goal whose checklist has not
  begun (README.md:89-90).
- `MAX_CONCURRENT_AGENTS` and `RECOVERY_CONCURRENT_AGENTS` are read without
  being compared (config/load-config.ts:252-253). With the second the larger,
  the start of the recovery window raises the limit (group-queue.ts:87) and
  drains nothing: messages wait while slots are idle, and a waiting group may be
  started directly and again by the next drain. TLC refutes
  `MessagesWaitOnlyWhenFull` at once and `OneRunPerGroup` in 12 steps with 1 and
  2 for the limits and no tasks; the theorems exclude it by hypothesis.
- `drainGroup` starts the group's own task without the task limit
  (group-queue.ts:612; group-queue.test.ts:341), and a message that arrived
  during a failing run bypasses the back-off (group-queue.ts:623;
  group-queue.test.ts:456).
- `PAIRED_MAX_ARBITRATIONS` is only tested by the progress limits
  (paired-execution-context-owner.ts:538; README.md:79).
- A retryable failure turns `waiting_external` into `waiting_retry`
  (paired-retry-policy.ts:45; docs/architecture.md:114).
- `asyncFinalize` tests the ownership of the attempt before it releases the
  lease of a delegated run, and a delegated attempt is not owned: the lease is
  never released (message-agent-executor-paired.ts:299;
  docs/turn-role-invariant-spec-1.md:97-104 asks for its release). TLC refutes
  `DelegationReleasesLease` under the constants of `turns` in seconds;
  `LeaseIsHeld`, `NoLateDelivery` and `GoalMovesOn` are stated for goals of which
  no turn was handed over.
- A handoff of a turn whose preparation moved the row (a message's turn, a first
  review) always fails, since the row's revision is no longer the turn's
  (message-agent-executor-target.ts:401), and is not scheduled again for the
  same reason; a handoff that was claimed before a crash is never polled again.
- A check that meets another run's lease ends as a success and is not repeated
  (message-runtime-queue.ts:171-182); only the scheduler's tick repairs it.
- After `/compact` the agent's cursor moves and no run is asked for, while the
  poll cursor (message-runtime-loop.ts:62) already covers what was written after
  the command: such messages wait for the next message or a restart
  (session-commands.ts:230, whose comment says "messages AFTER it remain pending
  for next poll").
- An ignored bot message moves the agent's cursor past a human message whose run
  is only asked for (message-runtime-dispatch.ts:341).
- A failed acknowledgement of `/stop` ends the tick: the other rooms of the
  polled batch are not dispatched (message-runtime-dispatch.ts:408).
- A row that is superseded while it is being sent is opened again by its failed
  send, and delivered after the output that replaced it (db/work-items.ts:617).
- The handoff to Codex is decided with the visibility of the attempt that began
  the rotation, so a turn whose rotated attempt has answered may be handed over
  (message-agent-executor-lifecycle.ts:187; paired-turn-fallback.test.ts:119).
- A failure is charged to, and a success revives, the account in use at that
  moment, which need not be the one the run has used
  (codex-token-rotation.ts:674, 817). A rotation may move on to an account whose
  week is used up, which no claim takes (codex-token-rotation.ts:743).
- A Codex reviewer or arbiter claims an account for each of its two environments
  before it gives the first one back: with one account left it is always refused
  (agent-runner.ts:158-177).
- A lease is left behind for two hours when the second environment or the
  directory of the logs cannot be written (agent-runner.ts:317), and a lock file
  that a crash left unfinished blocks its account for ever: it cannot be parsed,
  so nobody removes it (codex-token-rotation.ts:382-424, 461).
- An output that is read after its process's exit was handled comes after the
  turn's verdict: it is lost, given as a second final, or restarts the ticker
  while `finish()` waits for it (agent-runner-process.ts:761).

## Not modelled, and what is left of the plan

Not modelled at all: the inputs a run claims within a room (`Group run inputs`),
SQL and migrations, the dashboards (whose routes also change and delete scheduled
tasks, schedule a paired follow-up and enqueue message checks, with the functions
the modelled parts use) and status posts, the checks of evidence and
the verification commands, and the protocol inside an agent's container. The
implementation under `src/` is some 80,000 lines, of which the map covers
13 %. Most of the others read state and format it (dashboards, their
translations and rooms' cards, some 20,000 lines), upgrade schemas, read and
write texts (prompts, plans, evidence, Discord's markup) or configure the
program; they have no protocol that a state machine would tell apart, and
modelling them would only restate them.

Left of the plan:

1. The routing of a room to a service; several
   handoffs at once, with the cursors of the service that takes over.
2. `GroupRunInput` and answers the agent posts itself, composed with
   `TurnController`.
3. `GroupQueue` composed with `PairedTurns`, so that the overlap is the queue's
   own and not assumed.
4. Watchers without a goal, and the relay of IPC files as a module of its own.
