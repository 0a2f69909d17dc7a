------------------------------ MODULE PairedTurns ------------------------------
(***************************************************************************)
(* Who may execute the turns of one goal, and when.  The row of the goal   *)
(* names, by its revision and status, the turn that is due; a reservation  *)
(* schedules it, a claim gives it to a run together with the execution     *)
(* lease and an attempt, and the run completes the row, releases the lease *)
(* and closes the attempt.  Which status follows which is PairedTask's     *)
(* concern; here a completion chooses its outcome.                         *)
(*                                                                         *)
(* Every database transaction is one action, and so is every synchronous   *)
(* stretch of a handler between two awaits.  Runs of one room may overlap  *)
(* (GroupQueue, run overlap).                                              *)
(***************************************************************************)
EXTENDS Naturals

CONSTANTS
  RunIds,         \* identities of runs in flight, used again once forgotten
  Outcomes,       \* the rows a completion may choose: [status, super]
  Fallback,       \* may a run hand its turn over to the Codex service
  MaxRevision,    \* bounds: revisions of the row,
  MaxEvents,      \* and messages, /stop commands and restarts
  None

Intents == {"owner-turn", "owner-follow-up", "finalize-owner-turn",
            "reviewer-turn", "arbiter-turn"}
Statuses == {"active", "review_ready", "in_review", "merge_ready",
             "arbiter_requested", "in_arbitration", "completed"}
Supers == {"runnable", "waiting_retry", "stopped", "terminal"}

ASSUME FallbackAssumption == Fallback \in BOOLEAN
ASSUME OutcomesAssumption == Outcomes \subseteq [status : Statuses, super : Supers]
ASSUME BoundsAssumption == MaxRevision \in Nat /\ MaxEvents \in Nat

VARIABLES
  row,          \* paired_tasks: revision (updated_at), status, supervisor_state
  reservation,  \* paired_turn_reservations, by turn
  attempt,      \* the latest of paired_turn_attempts, by turn
  lease,        \* paired_task_execution_leases: its run, and is it unexpired
  handoff,      \* the latest of service_handoffs: its turn and state
  runs,         \* runs in flight
  check,        \* has a message check been enqueued (GroupQueue)
  human,        \* the messages no cursor has passed: None stands for one that
                \* waits, a run for the one it was given
  events,       \* messages, /stop commands and restarts so far
  crossed       \* history: a preparation that failed has written the row since
                \* the lease was taken

vars == <<row, reservation, attempt, lease, handoff, runs, check, human, events,
          crossed>>

\* A turn is identified by the revision it was scheduled at and its intent
\* (buildPairedTurnIdentity); its role follows from the intent.
Turn == [rev : 0..MaxRevision, intent : Intents]

AttemptStates == {"running", "delegated", "completed", "failed", "cancelled"}
NoAttempt == [state |-> "none", run |-> None]
Attempt == [state : AttemptStates, run : RunIds \cup {None}] \cup {NoAttempt}

\* "claimed": the preparation of the run is being awaited; "working": the
\* lifecycle exists and refreshes the lease; "delivered": the owner's row is
\* completed; "delegated": the turn went to the other service.
Run == [id : RunIds, turn : Turn, kind : {"message", "handoff"},
        stage : {"claimed", "working", "delivered", "delegated"}]

\* "running": claimed and started, a state that is not stored.
HandoffStates == {"pending", "claimed", "running", "completed", "failed"}

Lease == [run : RunIds, fresh : BOOLEAN]
Handoff == [turn : Turn, state : HandoffStates]
ASSUME NoneAssumption == None \notin RunIds /\ None \notin Lease /\ None \notin Handoff

TypeOK ==
  /\ row \in [rev : 0..MaxRevision, status : Statuses, super : Supers]
  /\ reservation \in [Turn -> {"none", "pending", "completed"}]
  /\ attempt \in [Turn -> Attempt]
  /\ lease \in Lease \cup {None}
  /\ handoff \in Handoff \cup {None}
  /\ runs \subseteq Run
  /\ \A x, y \in runs : x.id = y.id => x = y
  /\ check \in BOOLEAN /\ human \subseteq RunIds \cup {None}
  /\ events \in 0..MaxEvents /\ crossed \in BOOLEAN

Init ==
  /\ row = [rev |-> 0, status |-> "active", super |-> "runnable"]
  /\ reservation = [t \in Turn |-> "none"]
  /\ attempt = [t \in Turn |-> NoAttempt]
  /\ lease = None
  /\ handoff = None
  /\ runs = {}
  /\ check = TRUE
  /\ human \in SUBSET {None}
  /\ events = 0 /\ crossed = FALSE

-----------------------------------------------------------------------------
(* The row, turns and runs *)

Runnable == row.super = "runnable"
Closed == row.status = "completed"
Stopped == row.super = "stopped"

DueIntent(status) ==
  CASE status = "active" -> "owner-follow-up"
    [] status \in {"review_ready", "in_review"} -> "reviewer-turn"
    [] status \in {"arbiter_requested", "in_arbitration"} -> "arbiter-turn"
    [] status = "merge_ready" -> "finalize-owner-turn"
    [] OTHER -> None

TurnAt(r, intent) == [rev |-> r.rev, intent |-> intent]
DueTurn(r) == TurnAt(r, DueIntent(r.status))

IsOwner(t) == t.intent \in {"owner-turn", "owner-follow-up", "finalize-owner-turn"}

\* The row r written with a new status: every write advances its revision.
Written(r, status, super) == [rev |-> r.rev + 1, status |-> status, super |-> super]

\* A run id nothing refers to any more stands for one never used.
Unused(r) ==
  /\ \A x \in runs : x.id # r
  /\ lease # None => lease.run # r
  /\ \A t \in Turn : attempt[t].run # r

\* Does this run still hold the current attempt of its turn
\* (resolvePairedTurnRunOwnership).
Owns(x) == attempt[x.turn] = [state |-> "running", run |-> x.id]

Moved(x, stage) == (runs \ {x}) \cup {[x EXCEPT !.stage = stage]}

\* The release deletes the lease only if this run claimed it.
Released(x) == IF lease # None /\ lease.run = x.id THEN None ELSE lease

Marked(t, state) == [attempt EXCEPT ![t] = [state |-> state, run |-> None]]
MarkedRunning(t, r) == [attempt EXCEPT ![t] = [state |-> "running", run |-> r]]

\* The cursor passes a message when its run ends, not when it is claimed: a
\* run that fails in its preparation, or is lost in a crash, leaves it unread.
Waiting == None \in human
Answered(x) == human \ {x.id}
Unread(x) == IF x.id \in human THEN Answered(x) \cup {None} ELSE human

-----------------------------------------------------------------------------
(* Scheduling *)

\* Mutant of Reservable: a turn is scheduled once and never again.
ReservableOnce(t, att) == reservation[t] = "none"

\* A turn is reserved once; after its latest attempt failed, once more.
Reservable(t, att) ==
  \/ reservation[t] = "none"
  \/ reservation[t] = "completed" /\ att[t].state = "failed"

\* schedulePairedFollowUpOnce for the due turn of row r: nothing unless it
\* is runnable and the reservation succeeds, which also enqueues a check.
Schedules(r, att) ==
  /\ r.super = "runnable" /\ r.status # "completed"
  /\ Reservable(DueTurn(r), att)

Scheduled(r) ==
  /\ reservation' = [reservation EXCEPT ![DueTurn(r)] = "pending"]
  /\ check' = TRUE

\* A pending reservation of the due turn is enqueued again while no lease
\* row exists, expired or not, and nobody works on the turn.
Recoverable ==
  /\ lease = None
  /\ Runnable /\ ~Closed
  /\ reservation[DueTurn(row)] = "pending"
  /\ attempt[DueTurn(row)].state \notin {"running", "delegated"}

\* One tick of the scheduler: recoverable reservations are enqueued again,
\* and an orphaned goal is scheduled.
Tick ==
  \/ /\ Recoverable /\ ~check
     /\ check' = TRUE
     /\ UNCHANGED <<row, reservation, attempt, lease, handoff, runs, human, events, crossed>>
  \/ /\ Schedules(row, attempt)
     /\ Scheduled(row)
     /\ UNCHANGED <<row, attempt, lease, handoff, runs, human, events, crossed>>

Resumed == Written(row, row.status, "runnable")

RetryDue ==
  /\ row.super = "waiting_retry" /\ row.rev < MaxRevision
  /\ row' = Resumed
  /\ UNCHANGED <<reservation, attempt, lease, handoff, runs, check, human, events, crossed>>

-----------------------------------------------------------------------------
(* Claims *)

\* Mutant of LeaseIsFree: a claim takes the lease over from whoever holds it.
LeaseIsAlwaysFree == TRUE

LeaseIsFree == lease # None => ~lease.fresh

\* The claim transaction: the lease is taken, or taken over once expired, a
\* new attempt cancels one that another run left running, and the
\* reservation of the turn, if there is one, is completed.
Claim(r, t) ==
  /\ LeaseIsFree
  /\ lease' = [run |-> r, fresh |-> TRUE]
  /\ attempt' = MarkedRunning(t, r)
  /\ reservation' = [reservation EXCEPT ![t] = IF @ = "pending" THEN "completed" ELSE @]
  /\ runs' = runs \cup {[id |-> r, turn |-> t, kind |-> "message", stage |-> "claimed"]}
  /\ crossed' = FALSE

\* The turn of a human message, on a row that is resumed for it.
HumanIntent(r) ==
  IF r.status \in {"arbiter_requested", "in_arbitration"}
  THEN "arbiter-turn" ELSE "owner-turn"

HumanRow == IF Stopped THEN Resumed ELSE row

HumanTurn(r) ==
  /\ check /\ Waiting /\ Unused(r)
  /\ ~Closed /\ row.status # "merge_ready"
  /\ Stopped => row.rev < MaxRevision
  /\ HumanRow.super = "runnable"
  /\ row' = HumanRow
  /\ Claim(r, TurnAt(HumanRow, HumanIntent(HumanRow)))
  /\ check' = FALSE
  /\ human' = (human \ {None}) \cup {r}
  /\ UNCHANGED <<handoff, events>>

\* A message on an approved goal closes it and opens another one; an owner
\* who is finalizing loses its turn (cancelOutstandingFinalizeOwnerTurn).
Superseded == IF attempt[DueTurn(row)].state \in {"running", "delegated"}
              THEN Marked(DueTurn(row), "cancelled") ELSE attempt

Supersede ==
  /\ check /\ Waiting /\ row.status = "merge_ready" /\ row.rev < MaxRevision
  /\ row' = Written(row, "completed", "terminal")
  /\ attempt' = Superseded
  /\ check' = FALSE /\ human' = human \ {None}
  /\ UNCHANGED <<reservation, lease, handoff, runs, events, crossed>>

DueTurnClaimed(r) ==
  /\ check /\ ~Waiting /\ Unused(r)
  /\ Runnable /\ ~Closed
  /\ Claim(r, DueTurn(row))
  /\ check' = FALSE
  /\ UNCHANGED <<row, handoff, human, events>>

\* A check that finds nothing to run, or somebody else's lease, ends as a
\* success and is not repeated.
NothingToClaim ==
  /\ check
  /\ IF Waiting /\ ~Closed
     THEN row.status # "merge_ready" /\ (HumanRow.super = "runnable" => ~LeaseIsFree)
     ELSE Runnable /\ ~Closed => ~LeaseIsFree
  /\ check' = FALSE
  /\ UNCHANGED <<row, reservation, attempt, lease, handoff, runs, human, events, crossed>>

-----------------------------------------------------------------------------
(* Preparation: the identity of the claimed turn must match the row, or the *)
(* review it continues must be under way.                                   *)

Matches(x) ==
  \/ row.rev = x.turn.rev
  \/ x.turn.intent = "reviewer-turn" /\ row.status = "in_review"
  \/ x.turn.intent = "arbiter-turn" /\ row.status = "in_arbitration"

\* A handoff is prepared without the message it may have been for.
ForHuman(x) == x.kind = "message" /\ x.turn.intent = "owner-turn"

\* The row once the role has been prepared.
Prepared(x) ==
  CASE x.turn.intent = "reviewer-turn" /\ row.status = "review_ready" ->
         Written(row, "in_review", row.super)
    [] x.turn.intent = "arbiter-turn" /\ row.status = "arbiter_requested" ->
         Written(row, "in_arbitration", row.super)
    [] IsOwner(x.turn) /\ row.status \in {"review_ready", "in_review"} ->
         Written(row, "active", row.super)
    [] ForHuman(x) /\ row.status \notin {"review_ready", "in_review"} ->
         Written(row, row.status, row.super)
    [] OTHER -> row

Prepare(x) ==
  /\ x.stage = "claimed" /\ ~Stopped /\ ~Closed
  /\ Matches(x) /\ row.rev < MaxRevision
  /\ row' = Prepared(x)
  /\ attempt' = MarkedRunning(x.turn, x.id)
  /\ runs' = Moved(x, "working")
  /\ UNCHANGED <<reservation, lease, handoff, check, human, events, crossed>>

Overtaken(x) == Stopped \/ Closed \/ ~Matches(x)

\* The role is prepared before the turn is found not to be the row's: only a
\* stopped goal without a message, or a closed one, is left as it is.  (No goal
\* is approved while a run is prepared.)
PreparedInVain(x) ==
  CASE Closed \/ (Stopped /\ ~ForHuman(x)) -> row
    [] ~Closed /\ Stopped /\ ForHuman(x) -> Resumed
    [] OTHER -> Prepared(x)

WritesInVain(x) ==
  /\ PreparedInVain(x) # row => row.rev < MaxRevision
  /\ row' = PreparedInVain(x)
  /\ crossed' = (crossed \/ (row' # row /\ lease # None))

\* A failed preparation ends the run before its lifecycle exists: its lease
\* and its attempt stay as they are, and the check is tried again.
PrepareFails(x) ==
  /\ x.kind = "message" /\ x.stage = "claimed"
  /\ Overtaken(x)
  /\ WritesInVain(x)
  /\ runs' = runs \ {x}
  /\ check' = TRUE /\ human' = Unread(x)
  /\ UNCHANGED <<reservation, attempt, lease, handoff, events>>

-----------------------------------------------------------------------------
(* The end of a turn *)

\* A completion writes one of the outcomes, unless the goal was stopped or
\* closed meanwhile (completePairedExecutionContext).
CompletedRows ==
  IF Stopped \/ Closed THEN {row}
  ELSE {Written(row, o.status, o.super) : o \in Outcomes}

\* A preparation awaits one lookup of the room's memory, a turn an agent:
\* no turn ends while another run is still being prepared.
NobodyPrepares == \A y \in runs : y.stage # "claimed"

\* The owner's final output completes the row before it is delivered.
OwnerDelivers(x) ==
  /\ x.stage = "working" /\ IsOwner(x.turn) /\ Owns(x)
  /\ NobodyPrepares
  /\ row.rev < MaxRevision
  /\ row' \in CompletedRows
  /\ lease' = Released(x)
  /\ runs' = Moved(x, "delivered")
  /\ UNCHANGED <<reservation, attempt, handoff, check, human, events, crossed>>

\* A run that lost its attempt ends without any effect.
FinalizeUnowned(x) ==
  /\ x.stage # "claimed" /\ ~Owns(x)
  /\ runs' = runs \ {x} /\ human' = Answered(x)
  /\ UNCHANGED <<row, reservation, attempt, lease, check, events, crossed>>

\* Mutant of FinalizeInterrupted: the lease is left to expire.
FinalizeInterruptedKeepsLease(x) ==
  /\ x.stage = "working" /\ Owns(x) /\ Waiting
  /\ \E state \in {"completed", "failed"} : attempt' = Marked(x.turn, state)
  /\ runs' = runs \ {x} /\ human' = Answered(x)
  /\ UNCHANGED <<row, reservation, lease, check, events, crossed>>

\* A run closed for a human message gives the lease back and leaves the row.
FinalizeInterrupted(x) ==
  /\ x.stage = "working" /\ Owns(x) /\ Waiting
  /\ \E state \in {"completed", "failed"} : attempt' = Marked(x.turn, state)
  /\ lease' = Released(x)
  /\ runs' = runs \ {x} /\ human' = Answered(x)
  /\ UNCHANGED <<row, reservation, check, events, crossed>>

\* A follow-up is scheduled, or is left to the scheduler's next tick.
FollowsUp ==
  \/ Schedules(row', attempt') /\ Scheduled(row')
  \/ UNCHANGED <<reservation, check>>

FinalizeOwned(x) ==
  /\ x.stage \in {"working", "delivered"} /\ Owns(x)
  /\ IF x.stage = "working"
     THEN /\ NobodyPrepares /\ row.rev < MaxRevision
          /\ row' \in CompletedRows /\ lease' = Released(x)
     ELSE UNCHANGED <<row, lease>>
  /\ \E state \in {"completed", "failed"} : attempt' = Marked(x.turn, state)
  /\ FollowsUp
  /\ runs' = runs \ {x} /\ human' = Answered(x)
  /\ UNCHANGED <<events, crossed>>

Finalize(x) == FinalizeUnowned(x) \/ FinalizeInterrupted(x) \/ FinalizeOwned(x)

-----------------------------------------------------------------------------
(* Handoffs: when the Claude account fails before any visible output, the  *)
(* turn is given to the Codex service.                                     *)

Delegate(x) ==
  /\ Fallback /\ handoff = None
  /\ x.kind = "message" /\ x.stage = "working"
  /\ handoff' = [turn |-> x.turn, state |-> "pending"]
  /\ attempt' = Marked(x.turn, "delegated")
  /\ runs' = Moved(x, "delegated")
  /\ UNCHANGED <<row, reservation, lease, check, human, events, crossed>>

HandoffIs(state) == handoff # None /\ handoff.state = state
HandoffMoves(state) == handoff' = [handoff EXCEPT !.state = state]

\* The poll loop claims a pending handoff and enqueues its task in memory.
HandoffClaimed ==
  /\ HandoffIs("pending")
  /\ HandoffMoves("claimed")
  /\ UNCHANGED <<row, reservation, attempt, lease, runs, check, human, events, crossed>>

\* Its task starts a run without a claim, and so without a lease.
HandoffStarts(r) ==
  /\ HandoffIs("claimed") /\ Unused(r)
  /\ HandoffMoves("running")
  /\ runs' = runs \cup {[id |-> r, turn |-> handoff.turn,
                         kind |-> "handoff", stage |-> "claimed"]}
  /\ UNCHANGED <<row, reservation, attempt, lease, check, human, events, crossed>>

\* The handoff and its turn fail; the turn is scheduled again if the row r is
\* still at the revision it was handed over for.
HandoffFails(r) ==
  LET t == handoff.turn
      failed == Marked(t, "failed") IN
  /\ HandoffMoves("failed")
  /\ attempt' = failed
  /\ IF /\ r.rev = t.rev /\ t.intent # "owner-turn"
        /\ r.super = "runnable" /\ Reservable(t, failed)
     THEN reservation' = [reservation EXCEPT ![t] = "pending"] /\ check' = TRUE
     ELSE UNCHANGED <<reservation, check>>

HandoffPrepareFails(x) ==
  /\ x.kind = "handoff" /\ x.stage = "claimed"
  /\ Overtaken(x)
  /\ WritesInVain(x)
  /\ HandoffFails(row')
  /\ runs' = runs \ {x}
  /\ UNCHANGED <<lease, human, events>>

\* Its run has ended: the output was delivered, or the handoff fails.
HandoffSettles ==
  /\ HandoffIs("running") /\ \A x \in runs : x.kind # "handoff"
  /\ \/ HandoffMoves("completed") /\ UNCHANGED <<reservation, attempt, check>>
     \/ HandoffFails(row)
  /\ UNCHANGED <<row, lease, runs, human, events, crossed>>

-----------------------------------------------------------------------------
(* Messages, /stop, expiry and restarts *)

HumanWrites ==
  /\ events < MaxEvents
  /\ events' = events + 1
  /\ human' = human \cup {None} /\ check' = TRUE
  /\ UNCHANGED <<row, reservation, attempt, lease, handoff, runs, crossed>>

\* Mutant of StoppedAttempts: what is running is left to end by itself.
StoppedAttemptsKept == attempt

\* /stop retires everything that is scheduled or under way in the same
\* transaction as the row (pausePairedTaskForChat).
StoppedAttempts ==
  [t \in Turn |-> IF attempt[t].state \in {"running", "delegated"}
                  THEN [state |-> "cancelled", run |-> None] ELSE attempt[t]]

Stop ==
  /\ events < MaxEvents /\ row.rev < MaxRevision
  /\ ~Closed
  /\ events' = events + 1
  /\ row' = Written(row, "active", "stopped")
  /\ attempt' = StoppedAttempts
  /\ reservation' = [t \in Turn |-> IF reservation[t] = "pending" THEN "completed"
                                    ELSE reservation[t]]
  /\ handoff' = IF HandoffIs("pending") \/ HandoffIs("claimed")
                THEN [handoff EXCEPT !.state = "failed"] ELSE handoff
  /\ lease' = None
  /\ human' = {} /\ crossed' = FALSE
  /\ UNCHANGED <<runs, check>>

\* A lease expires when no run in flight refreshes it.
LeaseExpires ==
  /\ lease # None /\ lease.fresh
  /\ \A x \in runs : x.id = lease.run => x.stage \notin {"claimed", "working"}
  /\ lease' = [lease EXCEPT !.fresh = FALSE]
  /\ UNCHANGED <<row, reservation, attempt, handoff, runs, check, human, events, crossed>>

\* At boot the attempts of the previous life fail.
Recovered ==
  [t \in Turn |-> IF attempt[t].state = "running"
                  THEN [state |-> "failed", run |-> None] ELSE attempt[t]]

\* A crash loses runs and queued checks.  Boot clears the leases, fails the
\* interrupted attempts and enqueues a check for them and for messages.
Restart ==
  /\ events < MaxEvents
  /\ events' = events + 1
  /\ runs' = {}
  /\ lease' = None
  /\ attempt' = Recovered
  /\ check' = (human # {} \/ (~Closed /\ \E t \in Turn : attempt[t].state = "running"))
  /\ handoff' = IF HandoffIs("running") THEN [handoff EXCEPT !.state = "claimed"]
                ELSE handoff
  /\ human' = IF human = {} THEN {} ELSE {None}
  /\ crossed' = FALSE
  /\ UNCHANGED <<row, reservation>>

-----------------------------------------------------------------------------
(* The specification *)

CheckRuns == (\E r \in RunIds : HumanTurn(r) \/ DueTurnClaimed(r))
             \/ Supersede \/ NothingToClaim

EndTurn(x) == Finalize(x) /\ UNCHANGED handoff

RunMoves(r) ==
  \E x \in runs : x.id = r /\ (Prepare(x) \/ PrepareFails(x)
                                \/ HandoffPrepareFails(x) \/ EndTurn(x))

Next ==
  \/ CheckRuns \/ Tick \/ RetryDue
  \/ \E r \in RunIds : RunMoves(r) \/ HandoffStarts(r)
  \/ \E x \in runs : OwnerDelivers(x) \/ Delegate(x)
  \/ HandoffClaimed \/ HandoffSettles
  \/ HumanWrites \/ Stop \/ LeaseExpires \/ Restart

Spec == Init /\ [][Next]_vars

\* Queued checks are run and runs end (GroupQueue), and the scheduler ticks.
\* Nothing is assumed of the expiry of a lease: nobody waits for it.
Fairness ==
  /\ WF_vars(CheckRuns)
  /\ WF_vars(Tick) /\ WF_vars(RetryDue)
  /\ \A r \in RunIds : WF_vars(RunMoves(r))
  /\ WF_vars(HandoffClaimed) /\ WF_vars(HandoffSettles)
  /\ WF_vars(\E r \in RunIds : HandoffStarts(r))

FairSpec == Spec /\ Fairness

-----------------------------------------------------------------------------
(* Properties *)

\* The lease of an open goal belongs to a run in flight that has still to
\* complete its turn: every way a run can end, or lose its turn, gives it
\* back.  Nothing can be claimed against a left-over lease.
DelegationReleasesLease ==
  lease # None /\ ~Closed =>
    \E x \in runs : x.id = lease.run /\ x.stage \in {"claimed", "working"}

\* The same, as long as no turn of the goal has been handed over (the run that
\* delegates its turn keeps its lease, asyncFinalize) and no preparation that
\* failed has written the row of the run that holds the lease.
LeaseIsHeld == handoff = None /\ ~crossed => DelegationReleasesLease

\* A run that claimed its turn moves the row only under the lease of its own
\* claim: one that was stopped, superseded or replaced is without effect,
\* even after the goal has been resumed and claimed by another run.  Only the
\* preparation with which it fails may still write (README, Disagreements).
WriterHoldsLease ==
  [][\A x \in runs : x.kind = "message" /\ x \notin runs' /\ row' # row =>
       \/ lease # None /\ lease.run = x.id
       \/ x.stage = "claimed" /\ \A y \in runs' : y.id # x.id]_vars

\* A final output of the owner is only delivered for a goal that is neither
\* stopped nor closed at that moment, as long as no turn was handed over.
NoLateDelivery ==
  [][\A x \in runs :
       x.stage = "working" /\ Moved(x, "delivered") = runs' /\ handoff = None =>
         ~Stopped /\ ~Closed]_vars

\* A runnable goal is eventually executed: its row moves on from every
\* revision, whatever was lost, interrupted or restarted on the way, unless
\* a message of its user has come in between and is waiting, a turn of it was
\* handed over, or a preparation that failed has written its row.
GoalMovesOn ==
  \A n \in 0..(MaxRevision - 1) :
    row.rev = n /\ Runnable ~> \/ row.rev # n \/ Waiting
                               \/ handoff # None \/ crossed

=============================================================================
