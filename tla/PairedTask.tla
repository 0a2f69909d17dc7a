------------------------------ MODULE PairedTask ------------------------------
(***************************************************************************)
(* The life of the goals of one paired room: the row of paired_tasks, the  *)
(* turn that is being executed for it, and what a human, a CI watcher, a   *)
(* retry timer, a failed delivery and a crash do to it.                    *)
(*                                                                         *)
(* The handlers of the code are synchronous and read the row when they     *)
(* start, so one handler is one action.  The agent is the environment: its *)
(* verdict, and whether it changed files, is chosen.  At most one run of a *)
(* room is in flight (GroupQueue).                                         *)
(***************************************************************************)
EXTENDS Naturals

CONSTANTS
  ArbiterEnabled,          \* is an arbiter configured (isArbiterEnabled)
  DeadlockThreshold,       \* ARBITER_DEADLOCK_THRESHOLD
  MaxEpisodeRoundTrips,    \* PAIRED_MAX_EPISODE_ROUND_TRIPS
  MaxArbitrations,         \* PAIRED_MAX_ARBITRATIONS
  StagnationThreshold,     \* PAIRED_STAGNATION_THRESHOLD
  OwnerVerdicts,           \* verdicts the owner may give
  ReviewerVerdicts,        \* verdicts the reviewer may give
  ArbiterVerdicts,         \* verdicts the arbiter may give
  Directives,              \* fingerprints of arbiter directives
  DirectiveErrors,         \* what may be wrong with the arbiter's directive
  SameProgress,            \* may the progress fingerprint repeat (set of BOOLEAN)
  Evidence,                \* may the owner's evidence be accepted, rejected
  Failures,                \* how a run may fail
  Interference,            \* which of stop, clear, delivery, pause happen
  Watchers,                \* references of CI watchers
  PlanLengths,             \* lengths of a checklist a human may start
  MaxTurns, MaxMessages, MaxGoals,   \* bounds of the checked instances
  None

Verdicts == {"step_done", "task_done", "done", "done_with_concerns",
             "blocked", "needs_context", "escalate", "continue"}

ASSUME ThresholdsAssumption ==
  /\ ArbiterEnabled \in BOOLEAN
  /\ DeadlockThreshold \in Nat
  /\ {MaxEpisodeRoundTrips, MaxArbitrations, StagnationThreshold} \subseteq Nat \ {0}

ASSUME InputsAssumption ==
  /\ OwnerVerdicts \subseteq Verdicts
  /\ ReviewerVerdicts \subseteq Verdicts
  /\ ArbiterVerdicts \subseteq {"proceed", "revise", "reset", "escalate"}
  /\ DirectiveErrors \subseteq {"missing", "mismatch"}
  /\ SameProgress \subseteq BOOLEAN
  /\ Evidence \subseteq {"accepted", "rejected"}
  /\ Failures \subseteq {"retryable", "account", "other", "crash"}
  /\ Interference \subseteq {"stop", "clear", "delivery", "pause"}
  /\ PlanLengths \subseteq Nat

\* OWNER_FAILURE_ESCALATION_THRESHOLD, OWNER_CODEX_UNAVAILABLE_USER_ESCALATION_THRESHOLD
\* and EMPTY_STEP_DONE_THRESHOLD are constants of the code.
OwnerFailureEscalation == 2
OwnerUnavailableEscalation == 4
EmptyStepDoneThreshold == 2

VARIABLES
  task,       \* the latest row of paired_tasks of the room
  goal,       \* its number: 0 before the first
  last,       \* the latest row of paired_turn_outputs of the task
  run,        \* the run in flight
  human,      \* the latest human message not yet answered, if any: is it
              \* newer than the last write to the row
  watchers,   \* state of each CI watcher
  turns,      \* turns claimed so far, bounded by MaxTurns
  messages,   \* human messages so far, bounded by MaxMessages
  finalized,  \* history: the owner finalized and has not worked since
  refused,    \* history: a handler asked for a forbidden status transition
  revived     \* history: a run resumed the goal that /stop had stopped, and no
              \* turn was claimed since

vars == <<task, goal, last, run, human, watchers, turns, messages,
          finalized, refused, revived>>

Statuses == {"active", "review_ready", "in_review", "merge_ready",
             "arbiter_requested", "in_arbitration", "completed"}
SupervisorStates == {"runnable", "waiting_retry", "waiting_external",
                     "waiting_user", "parked", "terminal"}
Blockers == {"stagnation", "retry", "external", "user_input",
             "authentication", "protocol"}
Reasons == {"done", "escalated", "superseded", "stopped"}
Intents == {"owner-turn", "owner-follow-up", "finalize-owner-turn",
            "reviewer-turn", "arbiter-turn"}
Roles == {"owner", "reviewer", "arbiter"}

ASSUME NoneAssumption == None \notin Blockers \cup Reasons \cup Directives \cup Watchers

\* Round trips of the episode and of the goal, arbitrations and episodes of
\* the goal, failures and empty STEP_DONEs in a row, repeated fingerprints,
\* and the checklist items that are left.
Task == [status : Statuses, super : SupervisorStates,
         phase : {"implementation", "final"},
         round : Nat, total : Nat, arb : Nat, episode : Nat,
         fail : Nat, empty : Nat, stagn : Nat, print : BOOLEAN,
         blocker : Blockers \cup {None}, waitRef : Watchers \cup {None},
         directive : Directives \cup {None}, plan : Nat,
         reason : Reasons \cup {None}]

NewTask ==
  [status |-> "active", super |-> "runnable", phase |-> "implementation",
   round |-> 0, total |-> 0, arb |-> 0, episode |-> 1,
   fail |-> 0, empty |-> 0, stagn |-> 0, print |-> FALSE,
   blocker |-> None, waitRef |-> None, directive |-> None, plan |-> 0,
   reason |-> None]

NoOutput == [role |-> "none", verdict |-> "none"]
Outputs == [role : Roles, verdict : Verdicts \cup ArbiterVerdicts] \cup {NoOutput}

\* "spoken": the final output is stored, the completion is still to come.
\* "cancelled": the attempt was cancelled, the run may only end.  "stopped": so
\* was this one, before its preparation, which is still to come.
Stages == {"claimed", "working", "spoken", "cancelled", "stopped"}
Idle == [stage |-> "idle", intent |-> "none", human |-> FALSE]
Run == [stage : Stages, intent : Intents, human : BOOLEAN] \cup {Idle}

RoleOf(intent) ==
  CASE intent = "reviewer-turn" -> "reviewer"
    [] intent = "arbiter-turn"  -> "arbiter"
    [] OTHER                    -> "owner"

TypeOK ==
  /\ task \in Task
  /\ goal \in Nat
  /\ last \in Outputs
  /\ run \in Run
  /\ human \in {"none", "new", "old"}
  /\ watchers \in [Watchers -> {"unused", "active", "paused", "ended"}]
  /\ turns \in Nat
  /\ messages \in Nat
  /\ finalized \in BOOLEAN
  /\ refused \in BOOLEAN
  /\ revived \in BOOLEAN

-------------------------------------------------------------------------------
(* Transitions of the row *)

\* ALLOWED_PAIRED_STATUS_TRANSITIONS; staying is always allowed.
AllowedNext(s) ==
  CASE s = "active"            -> {"review_ready", "arbiter_requested", "completed"}
    [] s = "review_ready"      -> {"active", "in_review", "arbiter_requested", "completed"}
    [] s = "in_review"         -> {"active", "review_ready", "merge_ready",
                                   "arbiter_requested", "completed"}
    [] s = "merge_ready"       -> {"active", "review_ready", "arbiter_requested", "completed"}
    [] s = "arbiter_requested" -> {"in_arbitration", "completed"}
    [] s = "in_arbitration"    -> {"active", "review_ready", "arbiter_requested", "completed"}
    [] OTHER                   -> {}

\* transitionPairedTaskStatus throws on a forbidden transition and leaves the row.
Write(from, t) ==
  LET allowed == t.status = from \/ t.status \in AllowedNext(from)
  IN  /\ task' = IF allowed THEN t ELSE task
      /\ refused' = (refused \/ ~allowed)
Commit(t) == Write(task.status, t)

Completed(t, reason) ==
  [t EXCEPT !.status = "completed", !.super = "terminal", !.waitRef = None,
            !.reason = reason]

RequestArbiter(t) ==
  IF ArbiterEnabled THEN [t EXCEPT !.status = "arbiter_requested"]
                    ELSE Completed(t, "escalated")

\* The owner's progress fingerprint is new, or repeats the one of the row.
Progress(t, same) ==
  LET s == IF same /\ t.print THEN t.stagn + 1 ELSE 0
  IN  [t EXCEPT !.print = TRUE, !.stagn = s,
                !.blocker = IF s >= StagnationThreshold THEN "stagnation" ELSE None]

Stalled(t, p) ==
  p.stagn >= StagnationThreshold \/ t.round >= MaxEpisodeRoundTrips

\* Mutant of ToReviewer: a final phase that was interrupted goes on.
ToReviewerKeepsFinal(p, phase) ==
  [p EXCEPT !.status = "review_ready",
            !.phase = IF @ = "final" THEN "final" ELSE phase,
            !.fail = 0, !.round = @ + 1, !.total = @ + 1]

\* The row p of the owner's turn is handed to the reviewer.
ToReviewer(p, phase) ==
  [p EXCEPT !.status = "review_ready", !.phase = phase, !.fail = 0,
            !.round = @ + 1, !.total = @ + 1]

\* The failed turn waits for its back-off in the status it started from.
ParkForRetry(t) ==
  [t EXCEPT !.super = "waiting_retry", !.blocker = "retry",
            !.status = CASE @ = "in_review"      -> "review_ready"
                         [] @ = "in_arbitration" -> "arbiter_requested"
                         [] OTHER                -> @]

NextEpisode(t, super) ==
  [t EXCEPT !.round = 0, !.episode = @ + 1, !.stagn = 0, !.super = super,
            !.waitRef = None]

Runnable(t) == t.status # "completed" /\ t.super = "runnable"
Stopped(t) == t.super = "waiting_user" /\ t.blocker = "user_input"
Open == goal > 0 /\ task.status # "completed"

-------------------------------------------------------------------------------
(* Which turn is next *)

NextTurn(t, l) ==
  CASE t.status \in {"review_ready", "in_review"} ->
         IF l.role = "reviewer" THEN "none" ELSE "reviewer-turn"
    [] t.status \in {"arbiter_requested", "in_arbitration"} ->
         IF l.role = "arbiter" /\ t.fail = 0 THEN "none" ELSE "arbiter-turn"
    [] t.status = "merge_ready" ->
         IF l.role = "owner" THEN "none" ELSE "finalize-owner-turn"
    [] t.status = "active" ->
         IF l.role = "arbiter" /\ l.verdict = "escalate" THEN "none"
         ELSE IF t.fail > 0 \/ l.role \in {"reviewer", "arbiter"}
              THEN "owner-follow-up" ELSE "none"
    [] OTHER -> "none"

\* Mutant of PendingTurn: an unfinished checklist does not go on.
PendingTurnNoPlan(t, l) == NextTurn(t, l)

\* The turn taken when no message is pending: a failed owner turn and an
\* unfinished checklist also go on.
PendingTurn(t, l) ==
  IF /\ NextTurn(t, l) = "none"
     /\ t.status = "active"
     /\ t.fail > 0 \/ t.plan > 0
  THEN "owner-follow-up" ELSE NextTurn(t, l)

\* A fresh human message goes to the owner, in an arbitration to the arbiter.
HumanTurnIntent(t) ==
  IF t.status \in {"arbiter_requested", "in_arbitration"}
  THEN "arbiter-turn" ELSE "owner-turn"

\* The row on which a human message is answered: a stopped or parked goal is
\* resumed in a new episode, an approved or closed one gives way to a new goal.
ResolvedForHuman(t) ==
  IF t.super \in {"waiting_user", "parked"}
  THEN [t EXCEPT !.super = "runnable", !.episode = @ + 1, !.round = 0,
                 !.stagn = 0, !.blocker = None, !.waitRef = None]
  ELSE t

NewGoalForHuman == ~Open \/ task.status = "merge_ready"

Claim(intent, byHuman) ==
  /\ turns < MaxTurns
  /\ turns' = turns + 1
  /\ run' = [stage |-> "claimed", intent |-> intent, human |-> byHuman]
  /\ revived' = FALSE

-------------------------------------------------------------------------------
(* Messages, claims and the preparation of a run *)

\* A write to the row makes a message that is still pending older than it.
MessageAges == human' = IF human = "new" /\ task' # task THEN "old" ELSE human

HumanWrites ==
  /\ messages < MaxMessages
  /\ messages' = messages + 1
  /\ human' = "new"
  /\ UNCHANGED <<task, goal, last, run, watchers, turns, finalized, refused, revived>>

\* A message older than a failed turn of an active goal is not answered again.
Fresh ==
  \/ human = "new"
  \/ human = "old" /\ ~(Open /\ task.status = "active" /\ task.fail > 0)

\* A checklist command starts a plan of n items, or stops it, and makes the
\* goal runnable whatever it was waiting for.
WithPlan(t, n) == [t EXCEPT !.super = "runnable", !.blocker = None, !.plan = n]
AfterMessage(t) == {t} \cup {WithPlan(t, n) : n \in PlanLengths}

HumanTurn(t, g, l) ==
  /\ Runnable(t)
  /\ Claim(HumanTurnIntent(t), TRUE)
  /\ task' = t
  /\ goal' = g
  /\ last' = l
  /\ finalized' = (g = goal /\ finalized)
  /\ human' = "none"
  /\ UNCHANGED <<watchers, messages, refused>>

HumanStartsGoal ==
  /\ run = Idle /\ Fresh
  /\ NewGoalForHuman /\ goal < MaxGoals
  /\ \E t \in AfterMessage(NewTask) : HumanTurn(t, goal + 1, NoOutput)

HumanContinuesGoal ==
  /\ run = Idle /\ Fresh
  /\ ~NewGoalForHuman
  /\ \E t \in AfterMessage(ResolvedForHuman(task)) : HumanTurn(t, goal, last)

\* An old message takes the turn that is due without it, or is consumed.
StaleMessage ==
  /\ run = Idle /\ human = "old" /\ ~Fresh
  /\ IF NextTurn(task, last) = "none"
     THEN UNCHANGED <<run, turns, revived>>
     ELSE Runnable(task) /\ Claim(NextTurn(task, last), TRUE)
  /\ human' = "none"
  /\ UNCHANGED <<task, goal, last, watchers, messages, finalized, refused>>

FollowUp ==
  /\ run = Idle /\ human = "none" /\ Open
  /\ Runnable(task)
  /\ PendingTurn(task, last) # "none"
  /\ Claim(PendingTurn(task, last), FALSE)
  /\ UNCHANGED <<task, goal, last, human, watchers, messages, finalized, refused>>

\* Mutant of PreparedForOwner: every owner turn starts the counters afresh.
PreparedForOwnerResets(t) ==
  [t EXCEPT !.status = IF @ \in {"review_ready", "in_review"} THEN "active" ELSE @,
            !.round = 0, !.fail = 0, !.empty = 0]

\* A human message starts the owner's loop counters afresh.
PreparedForOwner(t) ==
  LET active == [t EXCEPT !.status = IF @ \in {"review_ready", "in_review"}
                                     THEN "active" ELSE @]
  IN  IF run.intent = "owner-turn"
      THEN [active EXCEPT !.round = 0, !.fail = 0, !.empty = 0] ELSE active

\* Mutant of PreparedForReadonly: the row is not taken into review.
PreparedForReadonlySkips(pending, active, count) == task

PreparedForReadonly(pending, active, count) ==
  IF task.status = pending
  THEN [task EXCEPT !.status = active, !.arb = @ + count] ELSE task

Prepare ==
  /\ run.stage = "claimed" /\ ~Stopped(task)
  /\ Commit(CASE RoleOf(run.intent) = "reviewer" ->
                   PreparedForReadonly("review_ready", "in_review", 0)
              [] RoleOf(run.intent) = "arbiter" ->
                   PreparedForReadonly("arbiter_requested", "in_arbitration", 1)
              [] OTHER -> PreparedForOwner(task))
  /\ run' = [run EXCEPT !.stage = "working"]
  /\ finalized' = (finalized /\ RoleOf(run.intent) # "owner")
  /\ MessageAges
  /\ UNCHANGED <<goal, last, watchers, turns, messages, revived>>

-------------------------------------------------------------------------------
(* Completion of the owner's turn *)

Blocked(v) == v \in {"blocked", "needs_context"}
EmptyStreak(t, v, changed) == IF v = "step_done" /\ ~changed THEN t.empty + 1 ELSE 0

\* The turn goes to the reviewer unless the episode is stalled: then to the
\* arbiter, or to the user when the arbitrations are used up.
HandToReviewer(t, p) ==
  CASE ~Stalled(t, p) -> ToReviewer(p, "implementation")
    [] Stalled(t, p) /\ t.arb < MaxArbitrations ->
         RequestArbiter([p EXCEPT !.blocker = "stagnation"])
    [] OTHER -> [p EXCEPT !.super = "waiting_user", !.blocker = "stagnation"]

OwnerWorked(t, v, changed, same, rejected) ==
  LET p == [Progress(t, same) EXCEPT !.empty = EmptyStreak(t, v, changed)]
      r == [Progress(t, same) EXCEPT !.fail = t.fail + 1, !.empty = t.empty + 1]
  IN  CASE Blocked(v) -> RequestArbiter([Progress(t, same) EXCEPT !.fail = 0])
        [] ~Blocked(v) /\ rejected ->
             IF r.fail >= OwnerFailureEscalation THEN RequestArbiter(r) ELSE r
        [] ~Blocked(v) /\ ~rejected /\ p.empty >= EmptyStepDoneThreshold ->
             RequestArbiter([p EXCEPT !.fail = 0])
        [] OTHER -> HandToReviewer(t, p)

\* The finalizing owner asks for another review: the row is set back to
\* active first, so a request for the arbiter that follows is stale and lost.
BackToReview(t, p) ==
  IF Stalled(t, p) THEN [p EXCEPT !.status = "active"]
                   ELSE ToReviewer(p, "implementation")

\* The next item of the checklist opens an episode, or parks the goal.
NextItem(p, parked) ==
  [p EXCEPT !.status = "active", !.plan = @ - 1, !.episode = @ + 1, !.round = 0,
            !.super = IF parked THEN "parked" ELSE "runnable",
            !.blocker = IF parked THEN "stagnation" ELSE None]

\* Are there items after the current one?
MoreItems(t) == t.plan > 1

Concerns(v, changed) == v = "done_with_concerns" \/ (changed /\ v # "step_done")

OwnerFinalized(t, v, changed, same, parked) ==
  LET p == [Progress(t, same) EXCEPT !.fail = 0,
                                     !.empty = EmptyStreak(t, v, changed)]
  IN  CASE \/ Blocked(v)
           \/ Concerns(v, changed) /\ t.round >= DeadlockThreshold
           \/ p.empty >= EmptyStepDoneThreshold -> RequestArbiter(p)
        [] OTHER ->
             IF v = "step_done" \/ Concerns(v, changed) THEN BackToReview(t, p)
             ELSE IF MoreItems(t) THEN NextItem(p, parked)
             ELSE ToReviewer([p EXCEPT !.plan = 0], "final")

OwnerCompletes(v, changed, same, rejected, parked) ==
  IF task.status = "merge_ready"
  THEN OwnerFinalized(task, v, changed, same, parked)
  ELSE OwnerWorked(task, v, changed, same, rejected)

\* A late completion is ignored when the goal is closed or was stopped.
Completes(t) ==
  IF task.status = "completed" \/ Stopped(task)
  THEN UNCHANGED <<task, refused>> ELSE Commit(t)

\* The owner's turn took the approved row t to its final review.
FinalizedBy(t, u) ==
  t.status = "merge_ready" /\ u.status = "review_ready" /\ u.phase = "final"

EndRun ==
  /\ run' = Idle
  /\ UNCHANGED <<goal, watchers, turns, messages>>

\* A run that /stop met before its preparation prepares all the same and then
\* throws, as the row is not the one it claimed.  The owner's preparation of a
\* human message, consumed by that /stop, resumes the goal first.
StoppedRunPrepares ==
  /\ run.stage = "stopped"
  /\ revived' = (run.intent = "owner-turn")
  /\ task' = IF run.intent = "owner-turn" THEN PreparedForOwner(ResolvedForHuman(task))
                                          ELSE task
  /\ MessageAges
  /\ EndRun
  /\ UNCHANGED <<last, finalized, refused>>

\* The row is completed before the accepted output is delivered.
OwnerCompletesTurn ==
  /\ run.stage = "working" /\ RoleOf(run.intent) = "owner"
  /\ "accepted" \in Evidence
  /\ \E v \in OwnerVerdicts, changed, parked \in BOOLEAN, same \in SameProgress :
       /\ Completes(OwnerCompletes(v, changed, same, FALSE, parked))
       /\ last' = [role |-> "owner", verdict |-> v]
       /\ finalized' = FinalizedBy(task, task')
  /\ MessageAges
  /\ EndRun
  /\ UNCHANGED revived

\* A rejected output is stored at once; the completion comes with the run's end.
\* A blocked owner needs no evidence.
OwnerIsRejected ==
  /\ run.stage = "working" /\ RoleOf(run.intent) = "owner"
  /\ "rejected" \in Evidence
  /\ run' = [run EXCEPT !.stage = "spoken"]
  /\ \E v \in OwnerVerdicts :
       ~Blocked(v) /\ last' = [role |-> "owner", verdict |-> v]
  /\ UNCHANGED <<task, goal, human, watchers, turns, messages, finalized, refused, revived>>

RejectedOwnerEnds ==
  /\ run.stage = "spoken" /\ RoleOf(run.intent) = "owner"
  /\ \E changed, parked \in BOOLEAN, same \in SameProgress :
       Completes(OwnerCompletes(last.verdict, changed, same, TRUE, parked))
  /\ finalized' = FinalizedBy(task, task')
  /\ MessageAges
  /\ EndRun
  /\ UNCHANGED <<last, revived>>

-------------------------------------------------------------------------------
(* Completion of the reviewer's and of the arbiter's turn *)

\* The output of a reviewer or an arbiter is stored and delivered; the row is
\* completed when the run ends.
ReadonlySpeaks ==
  /\ run.stage = "working" /\ RoleOf(run.intent) # "owner"
  /\ run' = [run EXCEPT !.stage = "spoken"]
  /\ \E v \in IF RoleOf(run.intent) = "reviewer" THEN ReviewerVerdicts
                                                 ELSE ArbiterVerdicts :
       last' = [role |-> RoleOf(run.intent), verdict |-> v]
  /\ UNCHANGED <<task, goal, human, watchers, turns, messages, finalized, refused, revived>>

Approves(v) == v \in {"task_done", "done"}

\* Mutant of Approved: the first approval closes the goal.
ApprovedAtOnce(t) == Completed(t, "done")

Approved(t) ==
  IF t.phase = "final"
  THEN [Completed(t, "done") EXCEPT !.fail = 0, !.empty = 0]
  ELSE [t EXCEPT !.status = "merge_ready", !.phase = "implementation",
                 !.fail = 0, !.empty = 0]

OwnerChanges(t) == [t EXCEPT !.status = "active", !.phase = "implementation"]

Reviewed(t, v) ==
  CASE Approves(v) -> Approved(t)
    [] Blocked(v) \/ (~Approves(v) /\ t.round >= DeadlockThreshold) -> RequestArbiter(t)
    [] OTHER -> OwnerChanges(t)

ReviewerCompletes ==
  /\ run.stage = "spoken" /\ RoleOf(run.intent) = "reviewer"
  /\ Completes(Reviewed(task, last.verdict))
  /\ MessageAges
  /\ EndRun
  /\ UNCHANGED <<last, finalized, revived>>

\* A directive that is missing for the first time is asked for once more.
DirectiveMissing(t) ==
  IF t.fail = 0
  THEN [t EXCEPT !.status = "arbiter_requested", !.fail = 1, !.blocker = "protocol"]
  ELSE [NextEpisode(t, "waiting_user") EXCEPT
          !.status = "active", !.fail = @ + 1, !.blocker = "protocol"]

DirectiveMismatch(t, d) ==
  [NextEpisode(t, "waiting_user") EXCEPT
     !.status = "active", !.blocker = "protocol", !.directive = d]

\* The same directive without progress in between stops the loop.
Repeated(t, d) == d = t.directive /\ t.stagn > 0

Arbitrated(t, v, d) ==
  LET settled == [NextEpisode(t, "runnable") EXCEPT
                    !.status = IF v = "proceed" THEN "review_ready" ELSE "active",
                    !.fail = 0, !.empty = 0, !.directive = d]
  IN  CASE Repeated(t, d) ->
             [NextEpisode(t, "waiting_user") EXCEPT
                !.status = "active", !.stagn = t.stagn, !.blocker = "stagnation",
                !.directive = d]
        [] ~Repeated(t, d) /\ v = "escalate" ->
             [settled EXCEPT !.super = "waiting_user", !.blocker = "user_input"]
        [] OTHER -> settled

\* What the arbiter's output may make of the row t.
ArbiterOutcomes(t, v) ==
  {Arbitrated(t, v, d) : d \in Directives}
    \cup (IF "missing" \in DirectiveErrors THEN {DirectiveMissing(t)} ELSE {})
    \cup (IF "mismatch" \in DirectiveErrors
          THEN {DirectiveMismatch(t, d) : d \in Directives \cup {None}} ELSE {})

\* The handler takes the row to be in arbitration.
ArbiterCompletes ==
  /\ run.stage = "spoken" /\ RoleOf(run.intent) = "arbiter"
  /\ IF task.status = "completed" \/ Stopped(task)
     THEN UNCHANGED <<task, refused>>
     ELSE \E t \in ArbiterOutcomes(task, last.verdict) : Write("in_arbitration", t)
  /\ MessageAges
  /\ EndRun
  /\ UNCHANGED <<last, finalized, revived>>

-------------------------------------------------------------------------------
(* Failed runs *)

OwnerFailed(t, kind) ==
  LET f == [t EXCEPT !.fail = @ + 1]
  IN  CASE kind = "account" /\ f.fail >= OwnerUnavailableEscalation ->
             Completed(f, "escalated")
        [] /\ f.fail >= OwnerFailureEscalation
           /\ ~(kind = "account" /\ f.fail >= OwnerUnavailableEscalation) ->
             RequestArbiter(f)
        [] OTHER ->
             IF kind = "account" /\ t.status = "merge_ready"
             THEN f ELSE [f EXCEPT !.status = "active"]

\* The verdict of a reviewer whose run fails after it has spoken still counts.
ReviewerFailed(t, kind, v) ==
  LET pending == IF t.status = "in_review" THEN "review_ready" ELSE t.status
  IN  CASE kind = "account" ->
             [t EXCEPT !.status = pending, !.super = "waiting_user",
                       !.blocker = "authentication", !.waitRef = None]
        [] kind = "other" /\ Approves(v) ->
             IF t.phase = "final" THEN Completed(t, "done") ELSE Approved(t)
        [] kind = "other" /\ v \in {"step_done", "done_with_concerns"} -> OwnerChanges(t)
        [] kind = "other" /\ Blocked(v) -> Completed(t, "escalated")
        [] OTHER -> [t EXCEPT !.status = pending]

ArbiterFailed(t, kind) ==
  IF kind = "account"
  THEN [t EXCEPT !.status = "active", !.fail = @ + 1, !.empty = 0]
  ELSE [t EXCEPT !.status = IF @ = "in_arbitration" THEN "arbiter_requested" ELSE @]

Failed(t, role, kind, v) ==
  CASE kind = "retryable" -> ParkForRetry(t)
    [] kind # "retryable" /\ role = "owner"    -> OwnerFailed(t, kind)
    [] kind # "retryable" /\ role = "reviewer" -> ReviewerFailed(t, kind, v)
    [] OTHER -> ArbiterFailed(t, kind)

\* A run that failed in silence leaves the human message behind the cursor
\* only if the owner is a Codex agent; "old" covers both kinds of owner.
RunFails ==
  /\ run.stage \in {"working", "spoken"}
  /\ \E kind \in Failures \ {"crash"} :
       /\ run.stage = "spoken" => kind = "other"
       /\ Completes(Failed(task, RoleOf(run.intent), kind,
                           IF run.stage = "spoken" THEN last.verdict ELSE "continue"))
  /\ \/ MessageAges
     \/ run.human /\ run.stage = "working" /\ run.intent = "owner-turn" /\ human' = "old"
  /\ EndRun
  /\ UNCHANGED <<last, finalized, revived>>

\* A human message that arrives during a run ends it without any completion.
Interrupted ==
  /\ run.stage \in {"claimed", "working", "spoken"} /\ human # "none"
  /\ EndRun
  /\ UNCHANGED <<task, last, human, finalized, refused, revived>>

\* The process dies: the cursor on disk is still before the message.
Crash ==
  /\ "crash" \in Failures /\ run # Idle
  /\ human' = IF run.human /\ human = "none" THEN "old" ELSE human
  /\ EndRun
  /\ UNCHANGED <<task, last, finalized, refused, revived>>

CancelledRunEnds ==
  /\ run.stage = "cancelled"
  /\ EndRun
  /\ UNCHANGED <<task, last, human, finalized, refused, revived>>

-------------------------------------------------------------------------------
(* Commands, timers, watchers and deliveries *)

\* /stop writes the row past the status table, cancels the turn in flight (but
\* kills only an agent that runs already) and consumes the messages before it.
Stop ==
  /\ "stop" \in Interference /\ Open
  /\ task' = [task EXCEPT !.status = "active", !.super = "waiting_user",
                          !.blocker = "user_input", !.phase = "implementation",
                          !.fail = 0, !.empty = 0, !.directive = None,
                          !.waitRef = None]
  /\ run' = IF run = Idle THEN Idle
            ELSE [run EXCEPT !.stage = IF @ \in {"claimed", "stopped"} THEN "stopped"
                                                                       ELSE "cancelled",
                             !.human = FALSE]
  /\ human' = "none"
  /\ UNCHANGED <<goal, last, watchers, turns, messages, finalized, refused, revived>>

\* /clear is handled in a run of its own.
Clear ==
  /\ "clear" \in Interference /\ Open /\ run = Idle
  /\ Commit(Completed(task, "stopped"))
  /\ human' = "none"
  /\ UNCHANGED <<goal, last, run, watchers, turns, messages, finalized, revived>>

RetryDue ==
  /\ Open /\ task.super = "waiting_retry"
  /\ task' = [task EXCEPT !.super = "runnable", !.blocker = None]
  /\ MessageAges
  /\ UNCHANGED <<goal, last, run, watchers, turns, messages, finalized, refused, revived>>

\* The agent asks for a CI watcher of the goal.  A goal that waits for
\* something else keeps waiting for it.
WatcherCreated(w) ==
  /\ run.stage \in {"working", "cancelled"} /\ RoleOf(run.intent) = "owner"
  /\ watchers[w] = "unused"
  /\ watchers' = [watchers EXCEPT ![w] = "active"]
  /\ IF Open /\ task.super \in {"runnable", "waiting_external"}
     THEN /\ task' = [task EXCEPT !.super = "waiting_external",
                                  !.blocker = "external", !.waitRef = w]
          /\ MessageAges
     ELSE UNCHANGED <<task, human>>
  /\ UNCHANGED <<goal, last, run, turns, messages, finalized, refused, revived>>

\* Mutant of WatcherEnds: only a goal that is being implemented goes on.
WatcherEndsInImplementation(w) ==
  /\ watchers[w] = "active"
  /\ watchers' = [watchers EXCEPT ![w] = "ended"]
  /\ IF task.status = "active" /\ task.super = "waiting_external" /\ task.waitRef = w
     THEN /\ task' = [task EXCEPT !.super = "runnable", !.blocker = None,
                                  !.waitRef = None]
          /\ MessageAges
     ELSE UNCHANGED <<task, human>>
  /\ UNCHANGED <<goal, last, run, turns, messages, finalized, refused, revived>>

\* The CI run has ended: the goal that waits for this watcher goes on.
WatcherEnds(w) ==
  /\ watchers[w] = "active"
  /\ watchers' = [watchers EXCEPT ![w] = "ended"]
  /\ IF Open /\ task.super = "waiting_external" /\ task.waitRef = w
     THEN /\ task' = [task EXCEPT !.super = "runnable", !.blocker = None,
                                  !.waitRef = None]
          /\ MessageAges
     ELSE UNCHANGED <<task, human>>
  /\ UNCHANGED <<goal, last, run, turns, messages, finalized, refused, revived>>

\* A watcher that cannot reach GitHub is paused and says so in the room; it can
\* be resumed there.
WatcherPauses(w) ==
  /\ "pause" \in Interference
  /\ \/ watchers[w] = "active" /\ watchers' = [watchers EXCEPT ![w] = "paused"]
     \/ watchers[w] = "paused" /\ watchers' = [watchers EXCEPT ![w] = "active"]
  /\ UNCHANGED <<task, goal, last, run, human, turns, messages, finalized, refused, revived>>

\* Mutants of DeliveryUncertain: a waiting goal, or a closed one, is written too.
DeliveryUncertainOfWaiting ==
  /\ "delivery" \in Interference /\ Open
  /\ last.role # "none"
  /\ run = Idle \/ (run.stage = "spoken" /\ RoleOf(run.intent) # "owner")
  /\ task' = [task EXCEPT !.super = "waiting_user", !.blocker = "external"]
  /\ MessageAges
  /\ UNCHANGED <<goal, last, run, watchers, turns, messages, finalized, refused, revived>>
DeliveryUncertainOfClosed ==
  /\ "delivery" \in Interference
  /\ last.role # "none" /\ task.super # "waiting_user"
  /\ run = Idle \/ (run.stage = "spoken" /\ RoleOf(run.intent) # "owner")
  /\ task' = [task EXCEPT !.super = "waiting_user", !.blocker = "external"]
  /\ MessageAges
  /\ UNCHANGED <<goal, last, run, watchers, turns, messages, finalized, refused, revived>>

\* It is unknown whether the output reached the channel.
DeliveryUncertain ==
  /\ "delivery" \in Interference /\ Open
  /\ last.role # "none" /\ task.super # "waiting_user"
  /\ run = Idle \/ (run.stage = "spoken" /\ RoleOf(run.intent) # "owner")
  /\ task' = [task EXCEPT !.super = "waiting_user", !.blocker = "external"]
  /\ MessageAges
  /\ UNCHANGED <<goal, last, run, watchers, turns, messages, finalized, refused, revived>>

-------------------------------------------------------------------------------
Init ==
  /\ task = NewTask
  /\ goal = 0
  /\ last = NoOutput
  /\ run = Idle
  /\ human = "none"
  /\ watchers = [w \in Watchers |-> "unused"]
  /\ turns = 0
  /\ messages = 0
  /\ finalized = FALSE
  /\ refused = FALSE
  /\ revived = FALSE

HumanMoves == HumanStartsGoal \/ HumanContinuesGoal \/ StaleMessage

RunMoves ==
  \/ FollowUp \/ Prepare \/ StoppedRunPrepares
  \/ OwnerCompletesTurn \/ OwnerIsRejected \/ RejectedOwnerEnds
  \/ ReadonlySpeaks \/ ReviewerCompletes \/ ArbiterCompletes
  \/ RunFails \/ Interrupted \/ CancelledRunEnds

Next ==
  \/ HumanWrites \/ HumanMoves \/ RunMoves
  \/ Crash \/ Stop \/ Clear \/ RetryDue \/ DeliveryUncertain
  \/ \E w \in Watchers : WatcherCreated(w) \/ WatcherEnds(w) \/ WatcherPauses(w)

Spec == Init /\ [][Next]_vars

\* Messages are processed, due turns are claimed (the follow-up scheduler and
\* its reconciliation), runs end (HARD_TURN_TIMEOUT), back-offs elapse.
FairSpec == Spec /\ WF_vars(HumanMoves) /\ WF_vars(RunMoves) /\ WF_vars(RetryDue)

-------------------------------------------------------------------------------
(* Properties *)

\* No handler ever asks for a status transition that the table of
\* paired-task-status.ts forbids: such a handler throws, and its turn is lost.
NothingRefused == ~refused

\* Within a goal the round trips, the arbitrations and the episodes counted for
\* it never go back, whatever resets the counters of the episode (a human
\* message, an arbitration, a checklist item, /stop).
TotalsNeverDecrease ==
  [][goal' = goal =>
       /\ task'.total >= task.total
       /\ task'.arb >= task.arb
       /\ task'.episode >= task.episode]_vars

\* The round trips of the episode are round trips of the goal: no handler
\* counts one without the other or revives an old episode's count.
RoundsWithinTotal == task.round <= task.total

\* A stopped goal stays in its status and with its counters, and stopped, until
\* the human writes again or clears it: no late completion, timer, watcher or
\* delivery moves it.  The exception is a run for a human message that /stop met
\* before its preparation: it resumes the goal as it ends (README, Disagreements).
StopHolds ==
  [][Open /\ Stopped(task) /\ goal' = goal =>
       \/ /\ <<task'.status, task'.total, task'.arb>> = <<task.status, task.total, task.arb>>
          /\ \/ Stopped(task')
             \/ run.stage = "stopped" /\ run.intent = "owner-turn" /\ run' = Idle
       \/ human # "none" /\ human' = "none" /\ run'.human
       \/ task'.reason = "stopped"]_vars

\* A completed goal is never written again: late completions, timers, watchers
\* and deliveries leave it alone.
CompletedIsFinal ==
  [][task.status = "completed" /\ goal' = goal => task' = task]_vars

\* A goal is closed as done only after the owner finalized it and has not
\* worked on it since (the reviewer's final approval covers what is there).
DoneOnlyAfterFinalize == task.reason = "done" => finalized

\* A goal that waits for a CI run waits for a watcher that has not ended: the
\* event that resumes it is still to come.
ExternalWaitIsWatched ==
  Open /\ task.super = "waiting_external" =>
    task.waitRef # None /\ watchers[task.waitRef] \in {"active", "paused"}

\* The lifecycle the room promises, implemented when there is no arbiter.
Lifecycle == INSTANCE GoalLifecycle WITH
  goals <- goal,
  stage <- CASE goal = 0 -> "none"
             [] goal > 0 /\ task.status = "completed" ->
                  IF task.reason = "done" THEN "done" ELSE "given_up"
             [] goal > 0 /\ task.status = "merge_ready" -> "approved"
             [] goal > 0 /\ task.status \in {"review_ready", "in_review"} ->
                  IF task.phase = "final" THEN "verifying" ELSE "reviewing"
             [] OTHER -> "implementing"
FollowsLifecycle == Lifecycle!Spec

\* The loop of owner and reviewer ends whatever they say, also when an arbiter
\* passes their disagreement on: every goal is closed or waits for its user.  A
\* stopped goal that a late preparation resumed may also lie still.
LoopSettles ==
  Open ~> \/ ~Open \/ task.super \in {"waiting_user", "parked"}
          \/ revived /\ PendingTurn(task, last) = "none"

\* An open goal that is runnable, with no run in flight and no message to
\* answer, has a next turn: the automation never halts in silence, unless a run
\* has just resumed the goal although /stop had stopped it.
GoalKeepsMoving ==
  Open /\ Runnable(task) /\ run = Idle /\ human = "none" /\ ~revived =>
    PendingTurn(task, last) # "none"

\* When the back-off of a failed turn has elapsed the goal is worked on again.
RetryResumesWork ==
  Open /\ task.super = "waiting_retry" /\ run = Idle /\ human = "none" =>
    PendingTurn(task, last) # "none"
===============================================================================
