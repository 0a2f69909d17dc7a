--------------------------- MODULE PairedTurnsProofs ---------------------------
(***************************************************************************)
(* What holds of PairedTurns for every set of runs, every choice of the    *)
(* rows a completion may write and all bounds.                             *)
(***************************************************************************)
EXTENDS PairedTurns, TLAPS

\* The lease is this run's.
Holds(x) == lease # None /\ lease.run = x.id /\ lease.fresh

\* The row has moved on from this run's turn and will not match it again while
\* the run is prepared: /stop made the goal active, and no turn can end.
Stale(x) == Closed \/ (row.status = "active" /\ x.turn.rev < row.rev)

\* A message's run is prepared under the lease it claimed, or in vain.
ClaimInv(x) ==
  x.kind = "message" /\ x.stage = "claimed" =>
    x.turn.rev <= row.rev /\ (Holds(x) \/ Stale(x))

\* A run that still owns its attempt works under the lease it claimed.
WorkInv(x) ==
  x.kind = "message" /\ x.stage = "working" /\ Owns(x) => Holds(x)

\* The row a turn in progress has been claimed for: an approved goal waits for
\* nothing but its finalization.
Fits(x) ==
  /\ Runnable /\ ~Closed
  /\ row.status = "merge_ready" => x.turn = DueTurn(row)

\* Without a handoff: every run has claimed its turn, ...
OwnRun(x) == x.kind = "message" /\ x.stage # "delegated"

\* ... a run that owns its attempt works on an open goal, ...
WorksOn(x) == x.stage = "working" /\ Owns(x) => Fits(x)

\* ... and so does one that is prepared under its lease, unless a preparation
\* that failed has written the row, which is being implemented then, ...
ClaimedOn(x) ==
  x.stage = "claimed" /\ Holds(x) /\ ~Closed =>
    Fits(x) /\ (Matches(x) \/ row.status = "active")

\* ... and the lease of an open goal has a holder, who can still use it.
Holder(x) ==
  /\ x.id = lease.run /\ Owns(x)
  /\ x.stage = "working" \/ (x.stage = "claimed" /\ Matches(x))

HeldInv == lease # None /\ ~Closed => lease.fresh /\ \E x \in runs : Holder(x)

AloneInv ==
  /\ \A x \in runs : OwnRun(x) /\ WorksOn(x) /\ ClaimedOn(x)
  /\ ~crossed => HeldInv

IInv ==
  /\ TypeOK
  /\ \A x \in runs : ClaimInv(x) /\ WorkInv(x)
  /\ handoff = None => AloneInv

RowType == [rev : 0..MaxRevision, status : Statuses, super : Supers]

USE FallbackAssumption, OutcomesAssumption, BoundsAssumption, NoneAssumption

LEMMA DueTurnType ==
  ASSUME NEW r \in RowType, r.status # "completed"
  PROVE  DueTurn(r) \in Turn /\ DueTurn(r).rev = r.rev
BY DEF RowType, Statuses, DueTurn, TurnAt, DueIntent, Turn, Intents

LEMMA WrittenType ==
  ASSUME NEW r \in RowType, r.rev < MaxRevision, NEW s \in Statuses, NEW u \in Supers
  PROVE  /\ Written(r, s, u) \in RowType
         /\ Written(r, s, u).rev = r.rev + 1
         /\ Written(r, s, u).status = s /\ Written(r, s, u).super = u
BY DEF RowType, Written

Stages == {"claimed", "working", "delivered", "delegated"}

LEMMA RunTypes ==
  ASSUME TypeOK, NEW x \in runs
  PROVE  /\ x \in Run
         /\ x.id \in RunIds /\ x.turn \in Turn /\ x.turn.rev \in 0..MaxRevision
         /\ x.turn.intent \in Intents
         /\ x.kind \in {"message", "handoff"} /\ x.stage \in Stages
         /\ x.id # None
BY DEF TypeOK, Run, Turn, Stages

LEMMA Staged ==
  ASSUME NEW x \in Run, NEW stage \in Stages
  PROVE  /\ [x EXCEPT !.stage = stage] \in Run /\ [x EXCEPT !.stage = stage].id = x.id
         /\ [x EXCEPT !.stage = stage].turn = x.turn /\ [x EXCEPT !.stage = stage].kind = x.kind
         /\ [x EXCEPT !.stage = stage].stage = stage
BY DEF Run, Stages

LEMMA RunsShrink ==
  ASSUME TypeOK, runs' \subseteq runs
  PROVE  runs' \subseteq Run /\ \A x, y \in runs' : x.id = y.id => x = y
BY DEF TypeOK

LEMMA RunsMoved ==
  ASSUME TypeOK, NEW x \in runs,
         NEW stage \in Stages,
         runs' = Moved(x, stage)
  PROVE  /\ runs' \subseteq Run /\ \A y, z \in runs' : y.id = z.id => y = z
         /\ [x EXCEPT !.stage = stage] \in runs'
         /\ \A y \in runs' : y = [x EXCEPT !.stage = stage] \/ (y \in runs /\ y # x /\ y.id # x.id)
         /\ \A y \in runs : y # x => y \in runs'
<1> DEFINE z == [x EXCEPT !.stage = stage]
<1>1. z \in Run /\ z.id = x.id
  BY RunTypes, Staged
<1>2. runs' = (runs \ {x}) \cup {z}
  BY DEF Moved
<1> HIDE DEF z
<1>3. \A y \in runs : y # x => y.id # x.id
  BY DEF TypeOK
<1>4. QED BY <1>1, <1>2, <1>3 DEF TypeOK, z

LEMMA RunsGrow ==
  ASSUME TypeOK, NEW r \in RunIds, Unused(r), NEW t \in Turn, NEW k \in {"message", "handoff"},
         runs' = runs \cup {[id |-> r, turn |-> t, kind |-> k, stage |-> "claimed"]}
  PROVE  /\ runs' \subseteq Run /\ \A x, y \in runs' : x.id = y.id => x = y
BY DEF TypeOK, Unused, Run

LEMMA AttemptTypes ==
  ASSUME TypeOK, NEW t \in Turn
  PROVE  /\ \A s \in AttemptStates :
              /\ Marked(t, s) \in [Turn -> Attempt]
              /\ Marked(t, s)[t] = [state |-> s, run |-> None]
              /\ \A u \in Turn : u # t => Marked(t, s)[u] = attempt[u]
         /\ \A r \in RunIds :
              /\ MarkedRunning(t, r) \in [Turn -> Attempt]
              /\ MarkedRunning(t, r)[t] = [state |-> "running", run |-> r]
              /\ \A u \in Turn : u # t => MarkedRunning(t, r)[u] = attempt[u]
BY DEF TypeOK, Marked, MarkedRunning, Attempt, AttemptStates

LEMMA LeaseTypes ==
  ASSUME NEW r \in RunIds
  PROVE  [run |-> r, fresh |-> TRUE] \in Lease /\ [run |-> r, fresh |-> TRUE] # None
<1>1. [run |-> r, fresh |-> TRUE] \in Lease
  BY DEF Lease
<1>2. QED BY <1>1

LEMMA HandoffTypes ==
  ASSUME NEW s \in HandoffStates
  PROVE  /\ \A h \in Handoff : LET g == [h EXCEPT !.state = s] IN
              g \in Handoff /\ g # None /\ g.turn = h.turn
         /\ \A t \in Turn : LET g == [turn |-> t, state |-> s] IN
              g \in Handoff /\ g # None
<1>1. ASSUME NEW h \in Handoff
      PROVE  [h EXCEPT !.state = s] \in Handoff /\ [h EXCEPT !.state = s].turn = h.turn
  BY <1>1 DEF Handoff
<1>2. ASSUME NEW t \in Turn PROVE [turn |-> t, state |-> s] \in Handoff
  BY <1>2 DEF Handoff
<1>3. QED BY <1>1, <1>2

LEMMA ReleasedType ==
  ASSUME TypeOK, NEW x \in runs
  PROVE  /\ Released(x) \in Lease \cup {None}
         /\ Released(x) = None \/ (Released(x) = lease /\ lease.run # x.id)
BY DEF TypeOK, Released

LEMMA InitInv == Init => IInv
<1>1. SUFFICES ASSUME Init PROVE IInv
  OBVIOUS
<1>2. TypeOK
  <2>1. row \in RowType /\ human \subseteq RunIds \cup {None} /\ events \in 0..MaxEvents
    BY <1>1 DEF Init, RowType, Statuses, Supers
  <2>2. attempt \in [Turn -> Attempt]
        /\ reservation \in [Turn -> {"none", "pending", "completed"}]
    BY <1>1 DEF Init, Attempt
  <2>3. QED BY <1>1, <2>1, <2>2 DEF Init, TypeOK, RowType
<1>3. QED BY <1>1, <1>2 DEF Init, IInv, AloneInv, HeldInv

LEMMA RowTyped == TypeOK => row \in RowType
BY DEF TypeOK, RowType

\* Nothing of a run in flight, its lease and its attempt changes.
LEMMA QuietInv ==
  ASSUME IInv, TypeOK', UNCHANGED <<row, attempt, lease, runs, crossed>>,
         handoff' = None => handoff = None
  PROVE  IInv'
<1>1. ASSUME NEW x \in runs' PROVE ClaimInv(x)' /\ WorkInv(x)'
  BY <1>1 DEF IInv, ClaimInv, WorkInv, Holds, Stale, Closed, Owns
<1>2. ASSUME handoff' = None PROVE AloneInv'
  <2>1. \A x \in runs' : OwnRun(x)' /\ WorksOn(x)' /\ ClaimedOn(x)'
    BY <1>2 DEF IInv, AloneInv, OwnRun, WorksOn, ClaimedOn, Owns, Holds, Fits, Matches,
                Runnable, Closed
  <2>2. ~crossed' => HeldInv'
    BY <1>2 DEF IInv, AloneInv, HeldInv, Holder, Owns, Closed, Matches
  <2>3. QED BY <2>1, <2>2 DEF AloneInv
<1>3. QED BY <1>1, <1>2 DEF IInv

LEMMA ScheduleTypes ==
  ASSUME TypeOK, NEW r \in RowType, r.status # "completed", Scheduled(r)
  PROVE  reservation' \in [Turn -> {"none", "pending", "completed"}] /\ check' \in BOOLEAN
BY DueTurnType DEF Scheduled, TypeOK

LEMMA TickInv == ASSUME IInv, Tick PROVE IInv'
<1>1. TypeOK
  BY DEF IInv
<1>2. CASE check' = TRUE /\ UNCHANGED <<row, reservation, attempt, lease, handoff, runs, human, events, crossed>>
  <2>1. TypeOK'
    BY <1>1, <1>2 DEF TypeOK
  <2>2. QED BY <1>2, <2>1, QuietInv
<1>3. CASE /\ Schedules(row, attempt) /\ Scheduled(row)
           /\ UNCHANGED <<row, attempt, lease, handoff, runs, human, events, crossed>>
  <2>1. reservation' \in [Turn -> {"none", "pending", "completed"}] /\ check' \in BOOLEAN
    BY <1>1, <1>3, RowTyped, ScheduleTypes DEF Schedules
  <2>2. TypeOK'
    BY <1>1, <1>3, <2>1 DEF TypeOK
  <2>3. QED BY <1>3, <2>2, QuietInv
<1>4. QED BY <1>2, <1>3 DEF Tick

LEMMA NothingToClaimInv == ASSUME IInv, NothingToClaim PROVE IInv'
<1>1. TypeOK'
  BY DEF IInv, NothingToClaim, TypeOK
<1>2. QED BY <1>1, QuietInv DEF NothingToClaim

LEMMA HumanWritesInv == ASSUME IInv, HumanWrites PROVE IInv'
<1>1. events' \in 0..MaxEvents
  BY DEF IInv, HumanWrites, TypeOK
<1>2. TypeOK'
  BY <1>1 DEF IInv, HumanWrites, TypeOK
<1>3. QED BY <1>2, QuietInv DEF HumanWrites

LEMMA HandoffMovesTypes ==
  ASSUME TypeOK, handoff # None, NEW s \in HandoffStates, HandoffMoves(s)
  PROVE  handoff' \in Handoff /\ handoff' # None
BY HandoffTypes DEF TypeOK, HandoffMoves

LEMMA HandoffClaimedInv == ASSUME IInv, HandoffClaimed PROVE IInv'
<1>1. handoff' \in Handoff /\ handoff' # None
  BY HandoffMovesTypes DEF IInv, HandoffClaimed, HandoffIs, HandoffStates
<1>2. TypeOK'
  BY <1>1 DEF IInv, HandoffClaimed, TypeOK
<1>3. QED BY <1>1, <1>2, QuietInv DEF HandoffClaimed

\* A back-off moves a row nobody holds the lease of: without a handoff the
\* holder of a lease and the run that works have a runnable row.
LEMMA RetryDueInv == ASSUME IInv, RetryDue PROVE IInv'
<1>1. TypeOK /\ row \in RowType
  BY RowTyped DEF IInv
<1>2. /\ row' \in RowType /\ row'.rev = row.rev + 1 /\ row'.status = row.status
      /\ row'.super = "runnable"
  BY <1>1, WrittenType DEF RetryDue, Resumed, RowType, Supers
<1>3. TypeOK'
  BY <1>1, <1>2 DEF RetryDue, TypeOK, RowType
<1>4. ASSUME NEW x \in runs' PROVE ClaimInv(x)' /\ WorkInv(x)'
  <2>1. x.turn.rev \in 0..MaxRevision
    BY <1>1, <1>4, RunTypes DEF RetryDue
  <2>2. QED BY <1>1, <1>2, <1>4, <2>1
          DEF RetryDue, IInv, ClaimInv, WorkInv, Holds, Stale, Closed, Owns, RowType
<1>5. ASSUME handoff' = None PROVE AloneInv'
  <2>1. AloneInv
    BY <1>5 DEF RetryDue, IInv
  <2>2. ASSUME NEW x \in runs' PROVE OwnRun(x)' /\ WorksOn(x)' /\ ClaimedOn(x)'
    BY <1>2, <2>1, <2>2 DEF RetryDue, AloneInv, OwnRun, WorksOn, ClaimedOn, Fits, Runnable, Owns,
                            Holds, Closed
  <2>3. ~crossed' => HeldInv'
    BY <1>2, <2>1 DEF RetryDue, AloneInv, HeldInv, Holder, WorksOn, ClaimedOn, Fits, Runnable, Owns,
                      Holds, Closed
  <2>4. QED BY <2>2, <2>3 DEF AloneInv
<1>6. QED BY <1>3, <1>4, <1>5 DEF IInv

\* A claim needs a lease nobody refreshes: no run prepares or works then, but in
\* vain, and the claiming run becomes the holder.
LEMMA ClaimedInv ==
  ASSUME IInv, NEW r \in RunIds, NEW t \in Turn, Unused(r), Claim(r, t),
         row' \in RowType, handoff' = handoff, check' \in BOOLEAN, human' \subseteq RunIds \cup {None},
         events' = events,
         row' = row \/ (row'.rev = row.rev + 1 /\ row'.status = row.status),
         t.rev = row'.rev, row'.super = "runnable", row'.status # "completed",
         row'.status = "merge_ready" => t = DueTurn(row')
  PROVE  IInv'
<1> DEFINE new == [id |-> r, turn |-> t, kind |-> "message", stage |-> "claimed"]
<1>1. TypeOK /\ row \in RowType
  BY RowTyped DEF IInv
<1>2. /\ new \in Run /\ new.id = r /\ new.turn = t /\ new.kind = "message"
      /\ new.stage = "claimed"
  BY DEF Run
<1>3. runs' = runs \cup {new}
  BY DEF Claim
<1> HIDE DEF new
<1>4. /\ lease' \in Lease /\ lease' # None /\ lease'.run = r /\ lease'.fresh
  BY LeaseTypes DEF Claim
<1>5. /\ attempt' \in [Turn -> Attempt]
      /\ attempt'[t] = [state |-> "running", run |-> r]
      /\ \A u \in Turn : u # t => attempt'[u] = attempt[u]
  BY <1>1, AttemptTypes DEF Claim
<1>6. reservation' \in [Turn -> {"none", "pending", "completed"}]
  BY <1>1 DEF Claim, TypeOK
<1>7. /\ runs' \subseteq Run
      /\ \A x, y \in runs' : x.id = y.id => x = y
      /\ \A x \in runs : x.id # r
  BY <1>1, RunsGrow DEF Claim, Unused
<1>8. TypeOK'
  BY <1>1, <1>4, <1>5, <1>6, <1>7 DEF TypeOK, RowType, Claim
<1>9. ASSUME NEW x \in runs, Owns(x)' PROVE Owns(x)
  BY <1>1, <1>5, <1>7, <1>9, RunTypes DEF Owns
<1>10. ASSUME NEW x \in runs PROVE ~Holds(x)
  BY DEF Claim, LeaseIsFree, Holds
<1>11. ASSUME NEW x \in runs' PROVE ClaimInv(x)' /\ WorkInv(x)'
  <2>1. CASE x = new
    BY <1>2, <1>4, <2>1 DEF ClaimInv, WorkInv, Holds, RowType
  <2>2. CASE x \in runs
    <3>1. x.turn.rev \in 0..MaxRevision
      BY <1>1, <2>2, RunTypes
    <3>2. ClaimInv(x)'
      BY <1>1, <1>10, <2>2, <3>1 DEF IInv, ClaimInv, Stale, Closed, RowType
    <3>3. WorkInv(x)'
      BY <1>9, <1>10, <2>2 DEF IInv, WorkInv
    <3>4. QED BY <3>2, <3>3
  <2>3. QED BY <1>3, <1>11, <2>1, <2>2
<1>12. ASSUME handoff' = None PROVE AloneInv'
  <2>1. AloneInv
    BY <1>12 DEF IInv
  <2>2. Matches(new)' /\ Fits(new)'
    BY <1>2 DEF Matches, Fits, Runnable, Closed
  <2>3. ASSUME NEW x \in runs' PROVE OwnRun(x)' /\ WorksOn(x)' /\ ClaimedOn(x)'
    <3>1. CASE x = new
      BY <1>2, <2>2, <3>1 DEF OwnRun, WorksOn, ClaimedOn
    <3>2. CASE x \in runs
      <4>1. ~Holds(x)'
        BY <1>4, <1>7, <3>2 DEF Holds
      <4>2. QED
        BY <1>9, <1>10, <2>1, <3>2, <4>1 DEF AloneInv, OwnRun, WorksOn, ClaimedOn, IInv, WorkInv
    <3>3. QED BY <1>3, <2>3, <3>1, <3>2
  <2>4. Holder(new)'
    <3>1. Owns(new)'
      BY <1>2, <1>5 DEF Owns
    <3>2. QED BY <1>2, <1>4, <2>2, <3>1 DEF Holder
  <2>5. QED BY <1>3, <1>4, <2>3, <2>4 DEF AloneInv, HeldInv
<1>13. QED BY <1>8, <1>11, <1>12 DEF IInv

LEMMA HumanTurnInv == ASSUME IInv, NEW r \in RunIds, HumanTurn(r) PROVE IInv'
<1>1. TypeOK /\ row \in RowType
  BY RowTyped DEF IInv
<1>2. /\ row' \in RowType /\ row'.super = "runnable" /\ row'.status = row.status
      /\ row' = row \/ row'.rev = row.rev + 1
  <2>1. CASE Stopped
    <3>1. row.rev < MaxRevision /\ row' = Resumed
      BY <2>1 DEF HumanTurn, HumanRow
    <3>2. row.status \in Statuses /\ "runnable" \in Supers
      BY <1>1 DEF RowType, Supers
    <3>3. QED BY <1>1, <3>1, <3>2, WrittenType DEF Resumed
  <2>2. CASE ~Stopped
    BY <1>1, <2>2 DEF HumanTurn, HumanRow
  <2>3. QED BY <2>1, <2>2
<1>3. row'.status # "completed" /\ row'.status # "merge_ready"
  BY <1>2 DEF HumanTurn, Closed
<1>4. row' = HumanRow
  BY DEF HumanTurn
<1> DEFINE t == TurnAt(HumanRow, HumanIntent(HumanRow))
<1>5. t \in Turn /\ t.rev = row'.rev
  BY <1>2, <1>4 DEF TurnAt, HumanIntent, Turn, Intents, RowType
<1>6. Claim(r, t) /\ Unused(r)
  BY DEF HumanTurn
<1>7. check' \in BOOLEAN /\ human' \subseteq RunIds \cup {None} /\ UNCHANGED <<handoff, events>>
  <2>1. human \subseteq RunIds \cup {None}
    BY <1>1 DEF TypeOK
  <2>2. /\ check' = FALSE /\ human' = (human \ {None}) \cup {r}
        /\ UNCHANGED <<handoff, events>>
    BY DEF HumanTurn
  <2>3. QED BY <2>1, <2>2
<1> HIDE DEF t
<1>8. QED BY <1>2, <1>3, <1>5, <1>6, <1>7, ClaimedInv

LEMMA DueTurnClaimedInv == ASSUME IInv, NEW r \in RunIds, DueTurnClaimed(r) PROVE IInv'
<1>1. TypeOK /\ row \in RowType
  BY RowTyped DEF IInv
<1>2. /\ row' = row /\ row.super = "runnable" /\ row.status # "completed"
      /\ UNCHANGED <<handoff, events>> /\ check' \in BOOLEAN /\ human' \subseteq RunIds \cup {None}
      /\ Unused(r) /\ Claim(r, DueTurn(row))
  BY <1>1 DEF DueTurnClaimed, Runnable, Closed, TypeOK
<1>3. DueTurn(row) \in Turn /\ DueTurn(row).rev = row.rev
  BY <1>1, <1>2, DueTurnType
<1>4. QED BY <1>1, <1>2, <1>3, ClaimedInv

LEMMA SupersedeInv == ASSUME IInv, Supersede PROVE IInv'
<1>1. TypeOK /\ row \in RowType
  BY RowTyped DEF IInv
<1>2. /\ row' \in RowType /\ row'.rev = row.rev + 1 /\ row'.status = "completed"
  BY <1>1, WrittenType DEF Supersede, Statuses, Supers
<1> DEFINE due == DueTurn(row)
<1>3. due \in Turn
  BY <1>1, DueTurnType DEF Supersede
<1>4. /\ attempt' \in [Turn -> Attempt]
      /\ attempt'[due].state # "running"
      /\ \A u \in Turn : u # due => attempt'[u] = attempt[u]
  <2>1. CASE attempt[due].state \in {"running", "delegated"}
    <3>1. attempt' = Marked(due, "cancelled")
      BY <2>1 DEF Supersede, Superseded
    <3>2. QED BY <1>1, <1>3, <3>1, AttemptTypes DEF AttemptStates
  <2>2. CASE attempt[due].state \notin {"running", "delegated"}
    BY <1>1, <2>2 DEF Supersede, Superseded, TypeOK
  <2>3. QED BY <2>1, <2>2
<1> HIDE DEF due
<1>5. TypeOK'
  BY <1>1, <1>2, <1>4 DEF Supersede, TypeOK, RowType
<1>6. ASSUME NEW x \in runs, Owns(x)' PROVE Owns(x) /\ x.turn # due
  BY <1>1, <1>4, <1>6, RunTypes DEF Owns
<1>7. ASSUME NEW x \in runs' PROVE ClaimInv(x)' /\ WorkInv(x)'
  <2>1. x.turn.rev \in 0..MaxRevision
    BY <1>1, <1>7, RunTypes DEF Supersede
  <2>2. QED BY <1>1, <1>2, <1>6, <1>7, <2>1
          DEF Supersede, IInv, ClaimInv, WorkInv, Holds, Stale, Closed, RowType
<1>8. ASSUME handoff' = None PROVE AloneInv'
  <2>1. AloneInv
    BY <1>8 DEF Supersede, IInv
  <2>2. ASSUME NEW x \in runs' PROVE OwnRun(x)' /\ WorksOn(x)' /\ ClaimedOn(x)'
    BY <1>2, <1>6, <2>1, <2>2 DEF Supersede, AloneInv, OwnRun, WorksOn, ClaimedOn, Closed, Fits, due
  <2>3. HeldInv'
    BY <1>2 DEF HeldInv, Closed
  <2>4. QED BY <2>2, <2>3 DEF AloneInv
<1>9. QED BY <1>5, <1>7, <1>8 DEF IInv

\* The preparation of a message's run takes place under its lease.
LEMMA PreparesHolding ==
  ASSUME IInv, NEW x \in runs, Prepare(x), x.kind = "message"
  PROVE  Holds(x)
<1>1. ~Stale(x)
  <2>1. x.turn.rev \in 0..MaxRevision /\ row \in RowType
    BY RunTypes, RowTyped DEF IInv
  <2>2. QED BY <2>1 DEF Prepare, Stale, Matches, RowType
<1>2. QED BY <1>1 DEF IInv, ClaimInv, Prepare

LEMMA OnlyHolder ==
  ASSUME TypeOK, NEW x \in runs, NEW y \in runs, Holds(x), y.id = lease.run
  PROVE  x = y
BY DEF TypeOK, Holds

LEMMA PreparedType ==
  ASSUME NEW x, row \in RowType, row.status # "completed",
         NEW u, u = Prepared(x), u # row => row.rev < MaxRevision
  PROVE  /\ u \in RowType /\ u.super = row.super /\ u.status # "completed"
         /\ u.rev >= row.rev
         /\ row.status = "active" => u.status = "active"
         /\ u.status = "merge_ready" =>
              row.status = "merge_ready" /\ (u = row \/ x.turn.intent = "owner-turn")
<1> DEFINE t == x.turn
<1>1. CASE u = row
  BY <1>1 DEF RowType
<1>2. CASE u # row
  <2>1. row.super \in Supers /\ row.status \in Statuses /\ row.rev < MaxRevision
    BY <1>2 DEF RowType
  <2>2. CASE t.intent = "reviewer-turn" /\ row.status = "review_ready"
    BY <2>1, <2>2, WrittenType DEF Prepared, Statuses, RowType, IsOwner, ForHuman
  <2>3. CASE t.intent = "arbiter-turn" /\ row.status = "arbiter_requested"
    BY <2>1, <2>3, WrittenType DEF Prepared, Statuses, RowType, IsOwner, ForHuman
  <2>4. CASE IsOwner(t) /\ row.status \in {"review_ready", "in_review"}
    BY <2>1, <2>4, WrittenType DEF Prepared, Statuses, RowType, IsOwner, ForHuman
  <2>5. CASE ForHuman(x) /\ row.status \notin {"review_ready", "in_review"}
    BY <2>1, <2>5, WrittenType DEF Prepared, RowType, IsOwner, ForHuman
  <2>6. QED BY <1>2, <2>2, <2>3, <2>4, <2>5 DEF Prepared
<1>3. QED BY <1>1, <1>2

LEMMA PrepareInv ==
  ASSUME IInv, NEW x \in runs, Prepare(x), UNCHANGED handoff
  PROVE  IInv'
<1> DEFINE z == [x EXCEPT !.stage = "working"]
<1>1. TypeOK /\ row \in RowType
  BY RowTyped DEF IInv
<1>2. /\ row' \in RowType /\ row'.super = row.super /\ row'.status # "completed"
      /\ row'.rev >= row.rev
      /\ row.status = "active" => row'.status = "active"
      /\ row'.status = "merge_ready" =>
           row.status = "merge_ready" /\ (row' = row \/ x.turn.intent = "owner-turn")
  BY <1>1, PreparedType DEF Prepare, Closed
<1>3. x \in Run /\ "working" \in Stages
  BY <1>1, RunTypes DEF Stages
<1>4. /\ z \in Run /\ z.id = x.id /\ z.turn = x.turn /\ z.kind = x.kind /\ z.stage = "working"
  BY <1>3, Staged
<1>5. runs' = Moved(x, "working")
  BY DEF Prepare
<1>6. /\ runs' \subseteq Run /\ \A y, w \in runs' : y.id = w.id => y = w
      /\ z \in runs'
      /\ \A y \in runs' : y = z \/ (y \in runs /\ y # x /\ y.id # x.id)
  BY <1>1, <1>3, <1>5, RunsMoved
<1>7. x.turn \in Turn /\ x.id \in RunIds
  BY <1>1, RunTypes
<1>8. /\ attempt' \in [Turn -> Attempt]
      /\ attempt'[x.turn] = [state |-> "running", run |-> x.id]
      /\ \A u \in Turn : u # x.turn => attempt'[u] = attempt[u]
  BY <1>1, <1>7, AttemptTypes DEF Prepare
<1> HIDE DEF z
<1>9. TypeOK'
  BY <1>1, <1>2, <1>6, <1>8 DEF Prepare, TypeOK, RowType
<1>10. Owns(z)'
  BY <1>4, <1>8 DEF Owns
<1>11. ASSUME NEW y \in runs, y.id # x.id, Owns(y)' PROVE Owns(y)
  BY <1>1, <1>8, <1>11, RunTypes DEF Owns
<1>12. x.kind = "message" => Holds(x)
  BY PreparesHolding
<1>13. ASSUME NEW y \in runs' PROVE ClaimInv(y)' /\ WorkInv(y)'
  <2>1. CASE y = z
    BY <1>4, <1>12, <2>1 DEF Prepare, ClaimInv, WorkInv, Holds
  <2>2. CASE y \in runs /\ y.id # x.id
    <3>1. y.turn.rev \in 0..MaxRevision
      BY <1>1, <2>2, RunTypes
    <3>2. ClaimInv(y)'
      BY <1>1, <1>2, <2>2, <3>1 DEF Prepare, IInv, ClaimInv, Holds, Stale, Closed, RowType
    <3>3. WorkInv(y)'
      BY <1>11, <2>2 DEF Prepare, IInv, WorkInv, Holds
    <3>4. QED BY <3>2, <3>3
  <2>3. QED BY <1>6, <1>13, <2>1, <2>2
<1>14. ASSUME handoff' = None PROVE AloneInv'
  <2>1. AloneInv
    BY <1>14 DEF IInv
  <2>2. Holds(x)
    BY <1>12, <2>1 DEF AloneInv, OwnRun
  <2>3. Fits(x)
    BY <2>1, <2>2 DEF AloneInv, ClaimedOn, Prepare
  <2>4. Fits(z)'
    <3>1. row.status = "merge_ready" => x.turn.intent = "finalize-owner-turn"
      BY <2>3 DEF Fits, DueTurn, TurnAt, DueIntent
    <3>2. QED BY <1>2, <1>4, <2>3, <3>1 DEF Fits, Runnable, Closed
  <2>5. ASSUME NEW y \in runs' PROVE OwnRun(y)' /\ WorksOn(y)' /\ ClaimedOn(y)'
    <3>1. CASE y = z
      BY <1>4, <2>1, <2>4, <3>1 DEF AloneInv, OwnRun, WorksOn, ClaimedOn
    <3>2. CASE y \in runs /\ y.id # x.id
      <4>1. OwnRun(y)
        BY <2>1, <3>2 DEF AloneInv
      <4>2. y.stage = "working" => ~Owns(y)
        BY <2>2, <3>2, <4>1 DEF IInv, WorkInv, OwnRun, Holds
      <4>3. ~Holds(y)'
        BY <2>2, <3>2 DEF Prepare, Holds
      <4>4. QED BY <1>11, <3>2, <4>1, <4>2, <4>3 DEF OwnRun, WorksOn, ClaimedOn
    <3>3. QED BY <1>6, <2>5, <3>1, <3>2
  <2>6. Holder(z)' /\ lease'.fresh
    BY <1>4, <1>10, <2>2 DEF Prepare, Holder, Holds
  <2>7. QED BY <1>6, <2>5, <2>6 DEF AloneInv, HeldInv
<1>15. QED BY <1>9, <1>13, <1>14 DEF IInv

\* A run that ends, or ends having done nothing, leaves the others alone.
LEMMA ShrinkInv ==
  ASSUME IInv, TypeOK', runs' \subseteq runs, row' = row,
         \A x \in runs' : (Holds(x)' <=> Holds(x)) /\ (Owns(x)' => Owns(x)),
         handoff' = None => handoff = None /\ (~crossed' => HeldInv')
  PROVE  IInv'
<1>1. ASSUME NEW x \in runs' PROVE ClaimInv(x)' /\ WorkInv(x)'
  BY <1>1 DEF IInv, ClaimInv, WorkInv, Stale, Closed
<1>2. ASSUME handoff' = None PROVE AloneInv'
  BY <1>2 DEF IInv, AloneInv, OwnRun, WorksOn, ClaimedOn, Fits, Matches, Runnable, Closed
<1>3. QED BY <1>1, <1>2 DEF IInv

LEMMA AnsweredType ==
  ASSUME TypeOK, NEW x \in runs
  PROVE  Answered(x) \subseteq RunIds \cup {None} /\ Unread(x) \subseteq RunIds \cup {None}
BY DEF TypeOK, Answered, Unread

\* What a failing preparation writes: a goal that is implemented stays so, and
\* stays runnable.
LEMMA InVainType ==
  ASSUME TypeOK, NEW x \in runs, WritesInVain(x)
  PROVE  /\ row' \in RowType /\ row'.rev >= row.rev /\ crossed' \in BOOLEAN
         /\ Closed => row' = row
         /\ row.status = "active" => row'.status = "active"
         /\ Runnable => Runnable'
<1>1. row \in RowType /\ row.rev \in Nat
  BY RowTyped DEF RowType
<1>2. crossed' \in BOOLEAN
  BY DEF TypeOK, WritesInVain
<1>3. CASE row' = row
  BY <1>1, <1>2, <1>3 DEF Runnable
<1>4. CASE row' # row
  <2>1. row.rev < MaxRevision /\ ~Closed /\ row' = PreparedInVain(x)
    BY <1>4 DEF WritesInVain, PreparedInVain
  <2>2. CASE row' = Resumed
    <3>1. row.status \in Statuses /\ "runnable" \in Supers
      BY <1>1 DEF RowType, Supers
    <3>2. QED BY <1>1, <1>2, <2>1, <2>2, <3>1, WrittenType DEF Resumed, Runnable
  <2>3. CASE row' = Prepared(x)
    BY <1>1, <1>2, <2>1, <2>3, PreparedType DEF Closed, Runnable
  <2>4. QED BY <1>4, <2>1, <2>2, <2>3 DEF PreparedInVain
<1>5. QED BY <1>3, <1>4

\* The other runs stay under their lease, or stale.
LEMMA InVainRuns ==
  ASSUME IInv, NEW x \in runs, WritesInVain(x), runs' = runs \ {x}, lease' = lease,
         \A y \in runs : Owns(y)' => Owns(y),
         NEW y \in runs'
  PROVE  ClaimInv(y)' /\ WorkInv(y)'
<1>1. /\ row' \in RowType /\ row \in RowType /\ row'.rev >= row.rev
      /\ Closed => row' = row
      /\ row.status = "active" => row'.status = "active"
  BY InVainType, RowTyped DEF IInv
<1>2. y \in runs /\ y.turn.rev \in 0..MaxRevision
  BY RunTypes DEF IInv
<1>3. QED BY <1>1, <1>2 DEF IInv, ClaimInv, WorkInv, Holds, Stale, Closed, RowType

LEMMA PrepareFailsInv ==
  ASSUME IInv, NEW x \in runs, PrepareFails(x), UNCHANGED handoff
  PROVE  IInv'
<1>1. TypeOK /\ runs' = runs \ {x} /\ lease' = lease /\ attempt' = attempt /\ WritesInVain(x)
  BY DEF IInv, PrepareFails
<1>2. /\ row' \in RowType /\ crossed' \in BOOLEAN
      /\ Closed => row' = row
      /\ row.status = "active" => row'.status = "active"
      /\ Runnable => Runnable'
  BY <1>1, InVainType
<1>3. TypeOK'
  BY <1>1, <1>2, RunsShrink, AnsweredType DEF PrepareFails, TypeOK, RowType
<1>4. \A y \in runs' : Holds(y)' <=> Holds(y)
  BY <1>1 DEF Holds
<1>5. \A y \in runs : Owns(y)' <=> Owns(y)
  BY <1>1 DEF Owns
<1>6. ASSUME NEW y \in runs' PROVE ClaimInv(y)' /\ WorkInv(y)'
  BY <1>1, <1>5, <1>6, InVainRuns
<1>7. ASSUME handoff' = None PROVE AloneInv'
  <2>1. AloneInv
    BY <1>7 DEF IInv
  <2>2. Closed \/ row.status = "active"
    <3>1. CASE Stale(x)
      BY <3>1 DEF Stale
    <3>2. CASE Holds(x)
      BY <2>1, <3>2 DEF AloneInv, ClaimedOn, PrepareFails, Overtaken, Fits, Runnable, Stopped
    <3>3. QED BY <3>1, <3>2 DEF IInv, ClaimInv, PrepareFails
  <2>3. ASSUME NEW y \in runs, Fits(y) PROVE Fits(y)'
    BY <1>2, <2>2, <2>3 DEF Fits, Closed
  <2>4. ASSUME NEW y \in runs' PROVE OwnRun(y)' /\ WorksOn(y)' /\ ClaimedOn(y)'
    <3>1. y \in runs /\ OwnRun(y) /\ WorksOn(y) /\ ClaimedOn(y)
      BY <1>1, <2>1 DEF AloneInv
    <3>2. WorksOn(y)'
      BY <1>5, <2>3, <3>1 DEF WorksOn
    <3>3. ClaimedOn(y)'
      BY <1>2, <1>4, <2>2, <2>3, <3>1 DEF ClaimedOn, Closed
    <3>4. QED BY <3>1, <3>2, <3>3 DEF OwnRun
  <2>5. ASSUME ~crossed' PROVE HeldInv'
    <3>1. SUFFICES ASSUME lease # None, ~Closed'
                   PROVE  lease.fresh /\ \E h \in runs' : Holder(h)'
      BY <1>1 DEF HeldInv
    <3>2. row' = row /\ ~crossed
      BY <2>5, <3>1 DEF PrepareFails, WritesInVain
    <3>3. lease.fresh /\ \E h \in runs : Holder(h)
      BY <2>1, <3>1, <3>2 DEF AloneInv, HeldInv, Closed
    <3>4. PICK h \in runs : Holder(h)
      BY <3>3
    <3>5. h # x
      <4>1. SUFFICES ASSUME h = x PROVE FALSE
        OBVIOUS
      <4>2. Holds(x) /\ Matches(x) /\ ~Closed
        BY <3>1, <3>2, <3>3, <3>4, <4>1 DEF Holder, Holds, PrepareFails, Closed
      <4>3. QED
        BY <2>1, <4>2 DEF AloneInv, ClaimedOn, PrepareFails, Overtaken, Fits, Runnable, Stopped
    <3>6. Holder(h)'
      BY <1>1, <1>5, <3>2, <3>4 DEF Holder, Matches
    <3>7. QED BY <1>1, <3>3, <3>5, <3>6
  <2>6. QED BY <2>4, <2>5 DEF AloneInv
<1>8. QED BY <1>3, <1>6, <1>7 DEF IInv

\* Closing an attempt takes it from its owner and from nobody else.
LEMMA MarkedOwns ==
  ASSUME TypeOK, NEW t \in Turn, NEW s \in AttemptStates \ {"running"},
         attempt' = Marked(t, s)
  PROVE  /\ attempt' \in [Turn -> Attempt]
         /\ \A y \in runs : Owns(y)' <=> Owns(y) /\ y.turn # t
<1>1. /\ attempt' \in [Turn -> Attempt]
      /\ attempt'[t] = [state |-> s, run |-> None]
      /\ \A u \in Turn : u # t => attempt'[u] = attempt[u]
  <2>1. s \in AttemptStates
    OBVIOUS
  <2>2. QED BY <2>1, AttemptTypes
<1>2. attempt'[t].state # "running"
  BY <1>1
<1>3. QED BY <1>1, <1>2, RunTypes DEF Owns

LEMMA SameOwner ==
  ASSUME TypeOK, NEW x \in runs, NEW y \in runs, Owns(x), Owns(y), x.turn = y.turn
  PROVE  x = y
BY DEF TypeOK, Owns

LEMMA FinalizeUnownedInv ==
  ASSUME IInv, NEW x \in runs, FinalizeUnowned(x), UNCHANGED handoff
  PROVE  IInv'
<1>1. TypeOK'
  BY RunsShrink, AnsweredType DEF IInv, FinalizeUnowned, TypeOK
<1>2. \A y \in runs' : (Holds(y)' <=> Holds(y)) /\ (Owns(y)' => Owns(y))
  BY DEF FinalizeUnowned, Holds, Owns
<1>3. ASSUME handoff' = None, ~crossed' PROVE HeldInv'
  BY <1>3 DEF FinalizeUnowned, IInv, AloneInv, HeldInv, Holder, Owns, Matches, Closed
<1>4. QED BY <1>1, <1>2, <1>3, ShrinkInv DEF FinalizeUnowned

\* A run that owns its attempt ends without touching the row.
LEMMA OwnedEndsInv ==
  ASSUME IInv, NEW x \in runs, Owns(x), runs' = runs \ {x}, row' = row, TypeOK',
         NEW s \in AttemptStates \ {"running"}, attempt' = Marked(x.turn, s),
         lease' = Released(x) \/ (lease' = lease /\ x.stage = "delivered"),
         UNCHANGED <<handoff, crossed>>
  PROVE  IInv'
<1>1. TypeOK
  BY DEF IInv
<1>2. x.turn \in Turn
  BY <1>1, RunTypes
<1>3. \A y \in runs : Owns(y)' <=> Owns(y) /\ y.turn # x.turn
  BY <1>1, <1>2, MarkedOwns
<1>4. ASSUME NEW y \in runs' PROVE Holds(y)' <=> Holds(y)
  <2>1. y \in runs /\ y.id # x.id
    BY <1>1, <1>4 DEF TypeOK
  <2>2. QED BY <2>1 DEF Holds, Released
<1>5. ASSUME handoff' = None, ~crossed' PROVE HeldInv'
  <2>1. SUFFICES ASSUME lease' # None, ~Closed PROVE lease'.fresh /\ \E h \in runs' : Holder(h)'
    BY DEF HeldInv, Closed
  <2>2. lease' = lease
    BY <2>1, ReleasedType, <1>1
  <2>3. HeldInv
    BY <1>5 DEF IInv, AloneInv
  <2>4. lease.fresh /\ \E h \in runs : Holder(h)
    BY <2>1, <2>2, <2>3 DEF HeldInv
  <2>5. PICK h \in runs : Holder(h)
    BY <2>4
  <2>6. h # x
    BY <2>1, <2>2, <2>5 DEF Holder, Released
  <2>7. Owns(h)'
    BY <1>1, <1>3, <2>5, <2>6, SameOwner DEF Holder
  <2>8. Holder(h)'
    BY <2>2, <2>5, <2>7 DEF Holder, Matches
  <2>9. QED BY <2>2, <2>4, <2>6, <2>8
<1>6. QED BY <1>3, <1>4, <1>5, ShrinkInv

LEMMA FinalizeInterruptedInv ==
  ASSUME IInv, NEW x \in runs, FinalizeInterrupted(x), UNCHANGED handoff
  PROVE  IInv'
<1>1. PICK s \in {"completed", "failed"} : attempt' = Marked(x.turn, s)
  BY DEF FinalizeInterrupted
<1>2. s \in AttemptStates \ {"running"} /\ x.turn \in Turn
  BY RunTypes DEF IInv, AttemptStates
<1>3. attempt' \in [Turn -> Attempt] /\ lease' \in Lease \cup {None}
  BY <1>1, <1>2, MarkedOwns, ReleasedType DEF IInv, FinalizeInterrupted
<1>4. TypeOK'
  BY <1>3, RunsShrink, AnsweredType DEF IInv, FinalizeInterrupted, TypeOK
<1>5. QED BY <1>1, <1>2, <1>4, OwnedEndsInv DEF FinalizeInterrupted

\* A completion closes its own lease; nobody is being prepared then.
LEMMA CompletesInv ==
  ASSUME IInv, NEW x \in runs, x.stage = "working", Owns(x), NobodyPrepares,
         TypeOK', lease' = Released(x), UNCHANGED <<handoff, crossed>>,
         \A y \in runs' : \/ y \in runs /\ y.id # x.id /\ (Owns(y)' => Owns(y))
                          \/ y.stage = "delivered" /\ y.kind = x.kind
  PROVE  IInv'
<1>1. TypeOK
  BY DEF IInv
<1>2. ASSUME NEW y \in runs' PROVE ClaimInv(y)' /\ WorkInv(y)'
  <2>1. CASE y.stage = "delivered"
    BY <2>1 DEF ClaimInv, WorkInv
  <2>2. CASE y \in runs /\ y.id # x.id /\ (Owns(y)' => Owns(y))
    BY <2>2 DEF NobodyPrepares, IInv, ClaimInv, WorkInv, Holds, Released
  <2>3. QED BY <1>2, <2>1, <2>2
<1>3. ASSUME handoff' = None PROVE AloneInv'
  <2>1. AloneInv
    BY <1>3 DEF IInv
  <2>2. Holds(x)
    BY <2>1 DEF IInv, WorkInv, AloneInv, OwnRun
  <2>3. ASSUME NEW y \in runs' PROVE OwnRun(y)' /\ WorksOn(y)' /\ ClaimedOn(y)'
    <3>1. CASE y.stage = "delivered" /\ y.kind = x.kind
      BY <2>1, <3>1 DEF AloneInv, OwnRun, WorksOn, ClaimedOn
    <3>2. CASE y \in runs /\ y.id # x.id /\ (Owns(y)' => Owns(y))
      BY <2>1, <2>2, <3>2 DEF IInv, WorkInv, AloneInv, OwnRun, WorksOn, ClaimedOn, Holds,
                              NobodyPrepares
    <3>3. QED BY <2>3, <3>1, <3>2
  <2>4. HeldInv'
    BY <2>2 DEF HeldInv, Holds, Released
  <2>5. QED BY <2>3, <2>4 DEF AloneInv
<1>4. QED BY <1>2, <1>3 DEF IInv

LEMMA CompletedRowsType ==
  ASSUME row \in RowType, row.rev < MaxRevision, row' \in CompletedRows
  PROVE  row' \in RowType
<1>1. \A o \in Outcomes : o.status \in Statuses /\ o.super \in Supers
  OBVIOUS
<1>2. QED BY <1>1, WrittenType DEF CompletedRows

LEMMA OwnerDeliversInv == ASSUME IInv, NEW x \in runs, OwnerDelivers(x) PROVE IInv'
<1> DEFINE z == [x EXCEPT !.stage = "delivered"]
<1>1. TypeOK /\ row \in RowType /\ x \in Run /\ "delivered" \in Stages
  BY RowTyped, RunTypes DEF IInv, Stages
<1>2. z.kind = x.kind /\ z.stage = "delivered"
  BY <1>1, Staged
<1>3. /\ runs' \subseteq Run /\ \A y, w \in runs' : y.id = w.id => y = w
      /\ \A y \in runs' : y = z \/ (y \in runs /\ y # x /\ y.id # x.id)
  BY <1>1, RunsMoved DEF OwnerDelivers
<1> HIDE DEF z
<1>4. row' \in RowType /\ lease' \in Lease \cup {None}
  BY <1>1, CompletedRowsType, ReleasedType DEF OwnerDelivers
<1>5. TypeOK'
  BY <1>1, <1>3, <1>4 DEF OwnerDelivers, TypeOK, RowType
<1>6. \A y \in runs : Owns(y)' => Owns(y)
  BY DEF OwnerDelivers, Owns
<1>7. QED BY <1>2, <1>3, <1>5, <1>6, CompletesInv DEF OwnerDelivers

LEMMA FollowsUpTypes ==
  ASSUME TypeOK, row' \in RowType, FollowsUp
  PROVE  reservation' \in [Turn -> {"none", "pending", "completed"}] /\ check' \in BOOLEAN
<1>1. CASE Schedules(row', attempt') /\ Scheduled(row')
  BY <1>1, ScheduleTypes DEF Schedules
<1>2. CASE UNCHANGED <<reservation, check>>
  BY <1>2 DEF TypeOK
<1>3. QED BY <1>1, <1>2 DEF FollowsUp

LEMMA FinalizeOwnedInv ==
  ASSUME IInv, NEW x \in runs, FinalizeOwned(x), UNCHANGED handoff
  PROVE  IInv'
<1>1. TypeOK /\ row \in RowType
  BY RowTyped DEF IInv
<1>2. PICK s \in {"completed", "failed"} : attempt' = Marked(x.turn, s)
  BY DEF FinalizeOwned
<1>3. s \in AttemptStates \ {"running"} /\ x.turn \in Turn
  BY <1>1, RunTypes DEF AttemptStates
<1>4. attempt' \in [Turn -> Attempt] /\ \A y \in runs : Owns(y)' => Owns(y)
  BY <1>1, <1>2, <1>3, MarkedOwns
<1>5. row' \in RowType /\ lease' \in Lease \cup {None}
  <2>1. CASE x.stage = "working"
    BY <1>1, <2>1, CompletedRowsType, ReleasedType DEF FinalizeOwned
  <2>2. CASE x.stage # "working"
    BY <1>1, <2>2 DEF FinalizeOwned, TypeOK
  <2>3. QED BY <2>1, <2>2
<1>6. reservation' \in [Turn -> {"none", "pending", "completed"}] /\ check' \in BOOLEAN
  BY <1>1, <1>5, FollowsUpTypes DEF FinalizeOwned
<1>7. runs' = runs \ {x}
  BY DEF FinalizeOwned
<1>8. TypeOK'
  BY <1>1, <1>4, <1>5, <1>6, <1>7, RunsShrink, AnsweredType DEF FinalizeOwned, TypeOK, RowType
<1>9. CASE x.stage = "working"
  <2>1. \A y \in runs' : y \in runs /\ y.id # x.id
    BY <1>1, <1>7 DEF TypeOK
  <2>2. QED BY <1>4, <1>8, <1>9, <2>1, CompletesInv DEF FinalizeOwned
<1>10. CASE x.stage = "delivered"
  BY <1>2, <1>3, <1>7, <1>8, <1>10, OwnedEndsInv DEF FinalizeOwned
<1>11. QED BY <1>9, <1>10 DEF FinalizeOwned

\* Handoffs.  From the first one on, AloneInv claims nothing.
LEMMA HandoffExists ==
  ASSUME IInv, NEW x \in runs, x.kind # "message" \/ x.stage = "delegated"
  PROVE  handoff # None
BY DEF IInv, AloneInv, OwnRun

LEMMA DelegateInv == ASSUME IInv, NEW x \in runs, Delegate(x) PROVE IInv'
<1> DEFINE z == [x EXCEPT !.stage = "delegated"]
<1>1. TypeOK /\ x \in Run /\ x.turn \in Turn /\ "delegated" \in Stages
  BY RunTypes DEF IInv, Stages
<1>2. z.stage = "delegated"
  BY <1>1, Staged
<1>3. /\ runs' \subseteq Run /\ \A y, w \in runs' : y.id = w.id => y = w
      /\ \A y \in runs' : y = z \/ (y \in runs /\ y # x /\ y.id # x.id)
  BY <1>1, RunsMoved DEF Delegate
<1> HIDE DEF z
<1>4. "delegated" \in AttemptStates \ {"running"}
  BY DEF AttemptStates
<1>5. attempt' \in [Turn -> Attempt] /\ \A y \in runs : Owns(y)' => Owns(y)
  BY <1>1, <1>4, MarkedOwns DEF Delegate
<1>6. handoff' \in Handoff /\ handoff' # None
  <2>1. "pending" \in HandoffStates
    BY DEF HandoffStates
  <2>2. QED BY <1>1, <2>1, HandoffTypes DEF Delegate
<1>7. TypeOK'
  BY <1>1, <1>3, <1>5, <1>6 DEF Delegate, TypeOK
<1>8. ASSUME NEW y \in runs' PROVE ClaimInv(y)' /\ WorkInv(y)'
  <2>1. CASE y = z
    BY <1>2, <2>1 DEF ClaimInv, WorkInv
  <2>2. CASE y \in runs
    BY <1>5, <2>2 DEF Delegate, IInv, ClaimInv, WorkInv, Holds, Stale, Closed
  <2>3. QED BY <1>3, <1>8, <2>1, <2>2
<1>9. QED BY <1>6, <1>7, <1>8 DEF IInv

LEMMA HandoffStartsInv == ASSUME IInv, NEW r \in RunIds, HandoffStarts(r) PROVE IInv'
<1> DEFINE new == [id |-> r, turn |-> handoff.turn, kind |-> "handoff", stage |-> "claimed"]
<1>1. TypeOK /\ handoff.turn \in Turn /\ "running" \in HandoffStates
  BY DEF IInv, HandoffStarts, HandoffIs, TypeOK, Handoff, HandoffStates
<1>2. new.kind = "handoff"
  OBVIOUS
<1>3. runs' = runs \cup {new}
  BY DEF HandoffStarts
<1> HIDE DEF new
<1>4. runs' \subseteq Run /\ \A x, y \in runs' : x.id = y.id => x = y
  BY <1>1, RunsGrow DEF HandoffStarts
<1>5. handoff' \in Handoff /\ handoff' # None
  BY <1>1, HandoffMovesTypes DEF HandoffStarts, HandoffIs
<1>6. TypeOK'
  BY <1>1, <1>4, <1>5 DEF HandoffStarts, TypeOK
<1>7. ASSUME NEW y \in runs' PROVE ClaimInv(y)' /\ WorkInv(y)'
  <2>1. CASE y = new
    BY <1>2, <2>1 DEF ClaimInv, WorkInv
  <2>2. CASE y \in runs
    BY <2>2 DEF HandoffStarts, IInv, ClaimInv, WorkInv, Holds, Stale, Closed, Owns
  <2>3. QED BY <1>3, <1>7, <2>1, <2>2
<1>8. QED BY <1>5, <1>6, <1>7 DEF IInv

LEMMA HandoffFailsTypes ==
  ASSUME TypeOK, handoff # None, NEW r, HandoffFails(r)
  PROVE  /\ handoff' \in Handoff /\ handoff' # None
         /\ attempt' \in [Turn -> Attempt] /\ \A y \in runs : Owns(y)' => Owns(y)
         /\ reservation' \in [Turn -> {"none", "pending", "completed"}] /\ check' \in BOOLEAN
<1>1. handoff.turn \in Turn /\ "failed" \in HandoffStates /\ "failed" \in AttemptStates \ {"running"}
  BY DEF TypeOK, Handoff, HandoffStates, AttemptStates
<1>2. handoff' \in Handoff /\ handoff' # None
  BY <1>1, HandoffMovesTypes DEF HandoffFails
<1>3. attempt' \in [Turn -> Attempt] /\ \A y \in runs : Owns(y)' => Owns(y)
  BY <1>1, MarkedOwns DEF HandoffFails
<1>4. reservation' \in [Turn -> {"none", "pending", "completed"}] /\ check' \in BOOLEAN
  <2>1. /\ reservation \in [Turn -> {"none", "pending", "completed"}]
        /\ check \in BOOLEAN
    BY DEF TypeOK
  <2>2. \/ reservation' = reservation /\ check' = check
        \/ reservation' = [reservation EXCEPT ![handoff.turn] = "pending"] /\ check' = TRUE
    BY DEF HandoffFails
  <2>3. QED BY <2>1, <2>2
<1>5. QED BY <1>2, <1>3, <1>4

LEMMA HandoffPrepareFailsInv ==
  ASSUME IInv, NEW x \in runs, HandoffPrepareFails(x)
  PROVE  IInv'
<1>1. TypeOK /\ handoff # None
  BY HandoffExists DEF IInv, HandoffPrepareFails
<1>2. /\ handoff' \in Handoff /\ handoff' # None
      /\ attempt' \in [Turn -> Attempt] /\ \A y \in runs : Owns(y)' => Owns(y)
      /\ reservation' \in [Turn -> {"none", "pending", "completed"}] /\ check' \in BOOLEAN
  BY <1>1, HandoffFailsTypes DEF HandoffPrepareFails
<1>3. row' \in RowType /\ crossed' \in BOOLEAN
  BY <1>1, InVainType DEF HandoffPrepareFails
<1>4. TypeOK'
  BY <1>1, <1>2, <1>3, RunsShrink DEF HandoffPrepareFails, TypeOK, RowType
<1>5. ASSUME NEW y \in runs' PROVE ClaimInv(y)' /\ WorkInv(y)'
  BY <1>2, <1>5, InVainRuns DEF HandoffPrepareFails
<1>6. QED BY <1>2, <1>4, <1>5 DEF IInv

LEMMA HandoffSettlesInv == ASSUME IInv, HandoffSettles PROVE IInv'
<1>1. TypeOK /\ handoff # None
  BY DEF IInv, HandoffSettles, HandoffIs
<1>2. /\ handoff' \in Handoff /\ handoff' # None
      /\ attempt' \in [Turn -> Attempt] /\ \A y \in runs : Owns(y)' => Owns(y)
      /\ reservation' \in [Turn -> {"none", "pending", "completed"}] /\ check' \in BOOLEAN
  <2>1. CASE HandoffMoves("completed") /\ UNCHANGED <<reservation, attempt, check>>
    BY <1>1, <2>1, HandoffMovesTypes DEF HandoffStates, TypeOK, Owns
  <2>2. CASE HandoffFails(row)
    BY <1>1, <2>2, HandoffFailsTypes
  <2>3. QED BY <2>1, <2>2 DEF HandoffSettles
<1>3. TypeOK'
  BY <1>1, <1>2 DEF HandoffSettles, TypeOK
<1>4. \A y \in runs' : (Holds(y)' <=> Holds(y)) /\ (Owns(y)' => Owns(y))
  BY <1>2 DEF HandoffSettles, Holds
<1>5. QED BY <1>2, <1>3, <1>4, ShrinkInv DEF HandoffSettles

\* /stop, expiry and restarts.
LEMMA StopInv == ASSUME IInv, Stop PROVE IInv'
<1>1. TypeOK /\ row \in RowType
  BY RowTyped DEF IInv
<1>2. row' \in RowType /\ row'.rev = row.rev + 1 /\ row'.status = "active"
  BY <1>1, WrittenType DEF Stop, Statuses, Supers
<1>3. attempt' \in [Turn -> Attempt] /\ \A t \in Turn : attempt'[t].state # "running"
  <2>1. [state |-> "cancelled", run |-> None] \in Attempt
    BY DEF Attempt, AttemptStates
  <2>2. QED BY <1>1, <2>1 DEF Stop, StoppedAttempts, TypeOK
<1>4. handoff' \in Handoff \cup {None} /\ (handoff' = None => handoff = None)
  <2>1. CASE HandoffIs("pending") \/ HandoffIs("claimed")
    <3>1. handoff \in Handoff /\ "failed" \in HandoffStates
      BY <1>1, <2>1 DEF HandoffIs, TypeOK, HandoffStates
    <3>2. QED BY <2>1, <3>1, HandoffTypes DEF Stop
  <2>2. CASE ~(HandoffIs("pending") \/ HandoffIs("claimed"))
    BY <1>1, <2>2 DEF Stop, TypeOK
  <2>3. QED BY <2>1, <2>2
<1>5. reservation' \in [Turn -> {"none", "pending", "completed"}] /\ events' \in 0..MaxEvents
  BY <1>1 DEF Stop, TypeOK
<1>6. TypeOK'
  BY <1>1, <1>2, <1>3, <1>4, <1>5 DEF Stop, TypeOK, RowType
<1>7. \A x \in runs' : ~Owns(x)'
  BY <1>1, <1>3, RunTypes DEF Stop, Owns
<1>8. ASSUME NEW x \in runs' PROVE ClaimInv(x)' /\ WorkInv(x)'
  <2>1. x \in runs /\ x.turn.rev \in 0..MaxRevision
    BY <1>1, <1>8, RunTypes DEF Stop
  <2>2. QED BY <1>1, <1>2, <1>7, <1>8, <2>1 DEF IInv, ClaimInv, WorkInv, Stale, RowType
<1>9. ASSUME handoff' = None PROVE AloneInv'
  BY <1>4, <1>7, <1>9 DEF Stop, IInv, AloneInv, OwnRun, WorksOn, ClaimedOn, Holds, HeldInv
<1>10. QED BY <1>6, <1>8, <1>9 DEF IInv

LEMMA LeaseExpiresInv == ASSUME IInv, LeaseExpires PROVE IInv'
<1>1. TypeOK
  BY DEF IInv
<1>2. lease' \in Lease /\ lease' # None /\ lease'.run = lease.run
  BY <1>1 DEF LeaseExpires, TypeOK, Lease
<1>3. TypeOK'
  BY <1>1, <1>2 DEF LeaseExpires, TypeOK
<1>4. ASSUME NEW x \in runs, x.stage \in {"claimed", "working"} PROVE x.id # lease.run
  BY <1>4 DEF LeaseExpires
<1>5. ASSUME NEW x \in runs' PROVE ClaimInv(x)' /\ WorkInv(x)'
  BY <1>4, <1>5 DEF LeaseExpires, IInv, ClaimInv, WorkInv, Holds, Stale, Closed, Owns
<1>6. ASSUME handoff' = None PROVE AloneInv'
  <2>1. AloneInv
    BY <1>6 DEF LeaseExpires, IInv
  <2>2. crossed \/ Closed
    BY <1>4, <2>1 DEF LeaseExpires, AloneInv, HeldInv, Holder
  <2>3. ASSUME NEW x \in runs' PROVE OwnRun(x)' /\ WorksOn(x)' /\ ClaimedOn(x)'
    BY <1>2, <1>4, <2>1, <2>3 DEF LeaseExpires, AloneInv, OwnRun, WorksOn, ClaimedOn, Holds, Owns,
                                  Fits, Runnable, Closed
  <2>4. QED BY <2>2, <2>3 DEF LeaseExpires, AloneInv, HeldInv, Closed
<1>7. QED BY <1>3, <1>5, <1>6 DEF IInv

LEMMA RestartInv == ASSUME IInv, Restart PROVE IInv'
<1>1. TypeOK
  BY DEF IInv
<1>2. attempt' \in [Turn -> Attempt]
  <2>1. [state |-> "failed", run |-> None] \in Attempt
    BY DEF Attempt, AttemptStates
  <2>2. QED BY <1>1, <2>1 DEF Restart, Recovered, TypeOK
<1>3. handoff' \in Handoff \cup {None} /\ (handoff' = None => handoff = None)
  <2>1. CASE HandoffIs("running")
    <3>1. handoff \in Handoff /\ "claimed" \in HandoffStates
      BY <1>1, <2>1 DEF HandoffIs, TypeOK, HandoffStates
    <3>2. QED BY <2>1, <3>1, HandoffTypes DEF Restart
  <2>2. CASE ~HandoffIs("running")
    BY <1>1, <2>2 DEF Restart, TypeOK
  <2>3. QED BY <2>1, <2>2
<1>4. events' \in 0..MaxEvents /\ check' \in BOOLEAN
  BY <1>1 DEF Restart, TypeOK
<1>5. TypeOK'
  BY <1>1, <1>2, <1>3, <1>4 DEF Restart, TypeOK
<1>6. QED BY <1>5 DEF Restart, IInv, AloneInv, HeldInv

LEMMA RunMovesInv == ASSUME IInv, NEW r \in RunIds, RunMoves(r) PROVE IInv'
<1>1. PICK x \in runs : Prepare(x) \/ PrepareFails(x) \/ HandoffPrepareFails(x) \/ EndTurn(x)
  BY DEF RunMoves
<1>2. CASE Prepare(x)
  BY <1>2, PrepareInv DEF Prepare
<1>3. CASE PrepareFails(x)
  BY <1>3, PrepareFailsInv DEF PrepareFails
<1>4. CASE HandoffPrepareFails(x)
  BY <1>4, HandoffPrepareFailsInv
<1>5. CASE EndTurn(x)
  BY <1>5, FinalizeUnownedInv, FinalizeInterruptedInv, FinalizeOwnedInv DEF EndTurn, Finalize
<1>6. QED BY <1>1, <1>2, <1>3, <1>4, <1>5

LEMMA StepInv == IInv /\ [Next]_vars => IInv'
<1>1. SUFFICES ASSUME IInv, [Next]_vars PROVE IInv'
  OBVIOUS
<1>2. CASE CheckRuns
  BY <1>1, <1>2, HumanTurnInv, DueTurnClaimedInv, SupersedeInv, NothingToClaimInv DEF CheckRuns
<1>3. CASE Tick
  BY <1>1, <1>3, TickInv
<1>4. CASE RetryDue
  BY <1>1, <1>4, RetryDueInv
<1>5. CASE \E r \in RunIds : RunMoves(r) \/ HandoffStarts(r)
  BY <1>1, <1>5, RunMovesInv, HandoffStartsInv
<1>6. CASE \E x \in runs : OwnerDelivers(x) \/ Delegate(x)
  BY <1>1, <1>6, OwnerDeliversInv, DelegateInv
<1>7. CASE HandoffClaimed \/ HandoffSettles
  BY <1>1, <1>7, HandoffClaimedInv, HandoffSettlesInv
<1>8. CASE HumanWrites \/ Stop \/ LeaseExpires \/ Restart
  BY <1>1, <1>8, HumanWritesInv, StopInv, LeaseExpiresInv, RestartInv
<1>9. CASE UNCHANGED vars
  <2>1. TypeOK'
    BY <1>1, <1>9 DEF IInv, TypeOK, vars
  <2>2. QED BY <1>1, <1>9, <2>1, QuietInv DEF vars
<1>10. QED BY <1>1, <1>2, <1>3, <1>4, <1>5, <1>6, <1>7, <1>8, <1>9 DEF Next

\* The invariant: rows, leases and attempts of whatever runs are in flight.
THEOREM InvariantHolds == Spec => []IInv
BY InitInv, StepInv, PTL DEF Spec

\* The tables and the runs keep their types; no two runs share an identity.
THEOREM TypeCorrect == Spec => []TypeOK
<1>1. IInv => TypeOK
  BY DEF IInv
<1>2. QED BY <1>1, InvariantHolds, PTL

\* As long as no turn was handed over and no failing preparation wrote the row
\* under it, the lease of an open goal belongs to a run that is being prepared or
\* works: no end of a run leaves it behind (paired-turn-run-ownership.ts,
\* asyncFinalize).
THEOREM LeaseCorrect == Spec => []LeaseIsHeld
<1>1. IInv => LeaseIsHeld
  BY DEF IInv, AloneInv, HeldInv, Holder, LeaseIsHeld, DelegationReleasesLease
<1>2. QED BY <1>1, InvariantHolds, PTL

\* The run of a message that moves the row holds the lease of its own claim
\* (claimPairedTurnReservation): a stopped, superseded or replaced one has no
\* effect, whatever the others did meanwhile, but for what its preparation writes
\* before it fails.
LEMMA WriterStep ==
  ASSUME IInv, Next, NEW x \in runs, x.kind = "message", x \notin runs', row' # row
  PROVE  \/ lease # None /\ lease.run = x.id
         \/ x.stage = "claimed" /\ \A y \in runs' : y.id # x.id
<1>1. TypeOK
  BY DEF IInv
<1>2. ASSUME NEW y \in runs, NEW stage \in Stages, runs' = Moved(y, stage) PROVE y = x
  BY <1>1, <1>2, RunsMoved
<1>3. CASE \E y \in runs : Prepare(y)
  <2>1. PICK y \in runs : Prepare(y)
    BY <1>3
  <2>2. y = x
    BY <1>2, <2>1 DEF Prepare, Stages
  <2>3. QED BY <2>1, <2>2, PreparesHolding DEF Holds
<1>4. CASE \E y \in runs : OwnerDelivers(y)
  <2>1. PICK y \in runs : OwnerDelivers(y)
    BY <1>4
  <2>2. y = x
    BY <1>2, <2>1 DEF OwnerDelivers, Stages
  <2>3. QED BY <2>1, <2>2 DEF OwnerDelivers, IInv, WorkInv, Holds
<1>5. CASE \E y \in runs : EndTurn(y)
  BY <1>5 DEF EndTurn, Finalize, FinalizeUnowned, FinalizeInterrupted, FinalizeOwned,
              IInv, WorkInv, Holds
<1>6. CASE runs \subseteq runs' \/ row' = row
  BY <1>6
<1>7. CASE \E r \in RunIds : HumanTurn(r) \/ DueTurnClaimed(r)
  BY <1>6, <1>7 DEF HumanTurn, DueTurnClaimed, Claim
<1>8. Supersede \/ RetryDue \/ Stop => runs' = runs
  BY DEF Supersede, RetryDue, Stop
<1>9. Tick \/ NothingToClaim \/ HandoffClaimed \/ HandoffSettles \/ HumanWrites \/ LeaseExpires
      \/ Restart => row' = row
  BY DEF Tick, NothingToClaim, HandoffClaimed, HandoffSettles, HumanWrites, LeaseExpires, Restart
<1>10. CASE \E y \in runs : PrepareFails(y) \/ HandoffPrepareFails(y) \/ Delegate(y)
  <2>1. ~\E y \in runs : HandoffPrepareFails(y) \/ Delegate(y)
    BY DEF HandoffPrepareFails, Delegate
  <2>2. PICK y \in runs : PrepareFails(y)
    BY <1>10, <2>1
  <2>3. y = x /\ x.stage = "claimed" /\ runs' = runs \ {x}
    BY <2>2 DEF PrepareFails
  <2>4. \A w \in runs' : w.id # x.id
    BY <1>1, <2>3 DEF TypeOK
  <2>5. QED BY <2>3, <2>4
<1>11. (\E r \in RunIds : HandoffStarts(r)) => row' = row
  BY DEF HandoffStarts
<1>12. QED BY <1>3, <1>4, <1>5, <1>6, <1>7, <1>8, <1>9, <1>10, <1>11
           DEF Next, CheckRuns, RunMoves

THEOREM WriterCorrect == Spec => WriterHoldsLease
<1>1. IInv /\ [Next]_vars =>
        [\A x \in runs : x.kind = "message" /\ x \notin runs' /\ row' # row =>
           \/ lease # None /\ lease.run = x.id
           \/ x.stage = "claimed" /\ \A y \in runs' : y.id # x.id]_vars
  BY WriterStep
<1>2. QED BY <1>1, InvariantHolds, PTL DEF Spec, WriterHoldsLease

\* Before the first handoff the owner's final output is delivered for a goal
\* that is open and not stopped at that moment (OwnerDelivers in
\* message-agent-executor-paired.ts), though /stop, a message that closes the
\* goal or another run may come at any moment before.
LEMMA DeliveryStep ==
  ASSUME IInv, Next, handoff = None, NEW x \in runs, x.stage = "working",
         Moved(x, "delivered") = runs'
  PROVE  ~Stopped /\ ~Closed
<1> DEFINE z == [x EXCEPT !.stage = "delivered"]
<1>1. TypeOK /\ x \in Run /\ Stages = {"claimed", "working", "delivered", "delegated"}
  BY RunTypes DEF IInv, Stages
<1>2. z.id = x.id /\ z.stage = "delivered"
  BY <1>1, Staged
<1>3. z \in runs' /\ runs' = (runs \ {x}) \cup {z}
  BY DEF Moved
<1> HIDE DEF z
<1>4. z \notin runs /\ x \notin runs'
  BY <1>1, <1>2, <1>3 DEF TypeOK
<1>5. ASSUME NEW y \in runs, NEW s \in Stages, runs' = Moved(y, s)
      PROVE  y = x /\ s = "delivered"
  <2>1. y = x
    BY <1>1, <1>4, <1>5, RunsMoved
  <2>2. z = [x EXCEPT !.stage = s]
    BY <1>3, <1>4, <1>5, <2>1 DEF Moved
  <2>3. QED BY <1>1, <1>2, <1>5, <2>1, <2>2, Staged
<1>6. \E y \in runs : OwnerDelivers(y)
  <2>1. ~(runs' \subseteq runs) /\ ~(runs \subseteq runs')
    BY <1>3, <1>4
  <2>2. ASSUME NEW y \in runs PROVE ~Prepare(y) /\ ~Delegate(y)
    BY <1>1, <1>5 DEF Prepare, Delegate
  <2>3. ASSUME NEW y \in runs, \/ PrepareFails(y) \/ HandoffPrepareFails(y) \/ EndTurn(y)
        PROVE  FALSE
    BY <2>1, <2>3 DEF PrepareFails, HandoffPrepareFails, EndTurn, Finalize, FinalizeUnowned,
                      FinalizeInterrupted, FinalizeOwned
  <2>4. ASSUME NEW r \in RunIds, \/ HumanTurn(r) \/ DueTurnClaimed(r) \/ HandoffStarts(r)
        PROVE  FALSE
    BY <2>1, <2>4 DEF HumanTurn, DueTurnClaimed, HandoffStarts, Claim
  <2>5. \/ Supersede \/ NothingToClaim \/ Tick \/ RetryDue \/ HandoffClaimed \/ HandoffSettles
        \/ HumanWrites \/ Stop \/ LeaseExpires \/ Restart
        => runs' \subseteq runs
    BY DEF Supersede, NothingToClaim, Tick, RetryDue, HandoffClaimed, HandoffSettles, HumanWrites,
           Stop, LeaseExpires, Restart
  <2>6. QED BY <2>1, <2>2, <2>3, <2>4, <2>5 DEF Next, CheckRuns, RunMoves
<1>7. OwnerDelivers(x)
  <2>1. PICK y \in runs : OwnerDelivers(y)
    BY <1>6
  <2>2. y = x
    BY <1>1, <1>5, <2>1 DEF OwnerDelivers
  <2>3. QED BY <2>1, <2>2
<1>8. QED BY <1>7 DEF IInv, AloneInv, WorksOn, OwnerDelivers, Fits, Runnable, Stopped

THEOREM LateDeliveryCorrect == Spec => NoLateDelivery
<1>1. IInv /\ [Next]_vars =>
        [\A x \in runs :
           x.stage = "working" /\ Moved(x, "delivered") = runs' /\ handoff = None =>
             ~Stopped /\ ~Closed]_vars
  BY DeliveryStep
<1>2. QED BY <1>1, InvariantHolds, PTL DEF Spec, NoLateDelivery
=============================================================================
