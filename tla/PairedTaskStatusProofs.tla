------------------------ MODULE PairedTaskStatusProofs ------------------------
(***************************************************************************)
(* What PairedTask does to the status of a goal: no handler asks for a     *)
(* transition that the table forbids, and without an arbiter the goals     *)
(* follow GoalLifecycle.                                                   *)
(***************************************************************************)
EXTENDS PairedTaskProofs

\* What a handler may make of the status of a row t, and of the reason for
\* which a goal is closed.
Goes(t, u, s) == u.status = s /\ u.reason = t.reason
Stays(t, u) == Goes(t, u, t.status) /\ u.phase = t.phase
Closes(u, reason) == u.status = "completed" /\ u.reason = reason
Asks(t, u) == IF ArbiterEnabled THEN Goes(t, u, "arbiter_requested")
                                ELSE Closes(u, "escalated")

\* The end of an owner's turn, of a reviewer's and of an arbiter's.  Only the
\* owner of an approved row enters the final phase, only the reviewer of a row
\* in its final phase closes the goal as done.
OwnerEnds(t, u) ==
  \/ Stays(t, u)
  \/ Goes(t, u, "active")
  \/ Goes(t, u, "review_ready") /\ (u.phase = "final" => t.status = "merge_ready")
  \/ Asks(t, u)
  \/ Closes(u, "escalated")

ReviewerEnds(t, u) ==
  \/ Goes(t, u, "review_ready") /\ u.phase = t.phase
  \/ Goes(t, u, "active")
  \/ t.phase # "final" /\ Goes(t, u, "merge_ready")
  \/ t.phase = "final" /\ Closes(u, "done")
  \/ Asks(t, u)
  \/ Closes(u, "escalated")

ArbiterEnds(t, u) ==
  \E s \in {"active", "review_ready", "arbiter_requested"} : Goes(t, u, s)

-------------------------------------------------------------------------------
(* The handlers, one lemma each *)

LEMMA CompletedCloses ==
  ASSUME NEW t \in Task, NEW reason PROVE Closes(Completed(t, reason), reason)
BY DEF Task, Completed, Closes

LEMMA RequestArbiterAsks ==
  ASSUME NEW t \in Task, NEW p \in Task, p.reason = t.reason
  PROVE  Asks(t, RequestArbiter(p))
<1>1. CASE ArbiterEnabled
  BY <1>1 DEF Task, RequestArbiter, Asks, Goes
<1>2. CASE ~ArbiterEnabled
  BY <1>2, CompletedCloses DEF RequestArbiter, Asks
<1>3. QED BY <1>1, <1>2

LEMMA ProgressStays ==
  ASSUME NEW t \in Task, NEW same \in BOOLEAN
  PROVE  Progress(t, same) \in Task /\ Stays(t, Progress(t, same))
<1>1. Progress(t, same) \in Task
  BY ProgressKeeps DEF Keeps, Counts
<1>2. Stays(t, Progress(t, same))
  BY DEF Task, Progress, Stays, Goes
<1>3. QED BY <1>1, <1>2

\* The row on which a handler decides, after it has set the counters.
Adjusts(t, u) == u \in Task /\ Stays(t, u)

LEMMA CountersAdjust ==
  ASSUME NEW t \in Task, NEW f \in Nat, NEW e \in Nat
  PROVE  /\ Adjusts(t, [t EXCEPT !.fail = f])
         /\ Adjusts(t, [t EXCEPT !.empty = e])
         /\ Adjusts(t, [t EXCEPT !.fail = f, !.empty = e])
<1>1. Adjusts(t, [t EXCEPT !.fail = f])
  BY DEF Task, Adjusts, Stays, Goes
<1>2. Adjusts(t, [t EXCEPT !.empty = e])
  BY DEF Task, Adjusts, Stays, Goes
<1>3. Adjusts(t, [t EXCEPT !.fail = f, !.empty = e])
  BY DEF Task, Adjusts, Stays, Goes
<1>4. QED BY <1>1, <1>2, <1>3

LEMMA StaysTransitive ==
  ASSUME NEW t, NEW p, NEW q, Stays(t, p), Stays(p, q) PROVE Stays(t, q)
BY DEF Stays, Goes

LEMMA ToReviewerGoes ==
  ASSUME NEW t \in Task, NEW p \in Task, p.reason = t.reason, NEW phase
  PROVE  Goes(t, ToReviewer(p, phase), "review_ready") /\ ToReviewer(p, phase).phase = phase
BY DEF Task, ToReviewer, Goes

LEMMA HandToReviewerEnds ==
  ASSUME NEW t \in Task, NEW p \in Task, Stays(t, p)
  PROVE  OwnerEnds(t, HandToReviewer(t, p))
<1>1. CASE ~Stalled(t, p)
  <2>1. HandToReviewer(t, p) = ToReviewer(p, "implementation")
    BY <1>1 DEF HandToReviewer
  <2>2. p.reason = t.reason
    BY DEF Stays, Goes
  <2>3. QED BY <2>1, <2>2, ToReviewerGoes DEF OwnerEnds
<1>2. CASE Stalled(t, p) /\ t.arb < MaxArbitrations
  <2> DEFINE q == [p EXCEPT !.blocker = "stagnation"]
  <2>1. q \in Task /\ q.reason = t.reason
    BY DEF Task, Blockers, Stays, Goes
  <2>2. HandToReviewer(t, p) = RequestArbiter(q)
    BY <1>2 DEF HandToReviewer
  <2> HIDE DEF q
  <2>3. QED BY <2>1, <2>2, RequestArbiterAsks DEF OwnerEnds
<1>3. CASE Stalled(t, p) /\ ~(t.arb < MaxArbitrations)
  <2> DEFINE u == [p EXCEPT !.super = "waiting_user", !.blocker = "stagnation"]
  <2>1. HandToReviewer(t, p) = u
    BY <1>3 DEF HandToReviewer
  <2>2. Stays(t, u)
    BY DEF Task, Stays, Goes
  <2>3. QED BY <2>1, <2>2 DEF OwnerEnds
<1>4. QED BY <1>1, <1>2, <1>3

LEMMA OwnerWorkedEnds ==
  ASSUME NEW t \in Task, NEW v, NEW changed \in BOOLEAN, NEW same \in BOOLEAN,
         NEW rejected \in BOOLEAN
  PROVE  OwnerEnds(t, OwnerWorked(t, v, changed, same, rejected))
<1> DEFINE q == Progress(t, same)
           e == EmptyStreak(t, v, changed)
           p == [q EXCEPT !.empty = e]
           f == t.fail + 1
           m == t.empty + 1
           r == [q EXCEPT !.fail = f, !.empty = m]
           y == [p EXCEPT !.fail = 0]
           z == [q EXCEPT !.fail = 0]
           u == OwnerWorked(t, v, changed, same, rejected)
<1>1. q \in Task /\ Stays(t, q)
  BY ProgressStays
<1>2. e \in Nat /\ f \in Nat /\ m \in Nat
  BY EmptyStreakType DEF Task
<1>3. \/ u = RequestArbiter(z)
      \/ u = RequestArbiter(r)
      \/ u = r
      \/ u = RequestArbiter(y)
      \/ u = HandToReviewer(t, p)
  BY DEF OwnerWorked
<1> HIDE DEF q, e, f, m, u
<1>4. Adjusts(q, p) /\ Adjusts(q, r) /\ Adjusts(q, z)
  BY <1>1, <1>2, CountersAdjust, Zenon
<1> HIDE DEF p, r, z
<1>5. Adjusts(p, y)
  BY <1>4, CountersAdjust, Zenon DEF Adjusts
<1> HIDE DEF y
<1>6. /\ p \in Task /\ Stays(t, p)
      /\ r \in Task /\ Stays(t, r)
      /\ z \in Task /\ Stays(t, z)
  BY <1>1, <1>4, StaysTransitive DEF Adjusts
<1>7. y \in Task /\ Stays(t, y)
  BY <1>5, <1>6, StaysTransitive DEF Adjusts
<1>8. r.reason = t.reason /\ y.reason = t.reason /\ z.reason = t.reason
  BY <1>6, <1>7 DEF Stays, Goes
<1>9. Asks(t, RequestArbiter(r)) /\ Asks(t, RequestArbiter(y)) /\ Asks(t, RequestArbiter(z))
  BY <1>6, <1>7, <1>8, RequestArbiterAsks
<1>10. OwnerEnds(t, HandToReviewer(t, p))
  BY <1>6, HandToReviewerEnds
<1>11. OwnerEnds(t, u)
  BY <1>3, <1>6, <1>9, <1>10 DEF OwnerEnds
<1>12. QED BY <1>11 DEF u

LEMMA OwnerFinalizedEnds ==
  ASSUME NEW t \in Task, t.status = "merge_ready",
         NEW v, NEW changed \in BOOLEAN, NEW same \in BOOLEAN, NEW parked \in BOOLEAN
  PROVE  OwnerEnds(t, OwnerFinalized(t, v, changed, same, parked))
<1> DEFINE q == Progress(t, same)
           e == EmptyStreak(t, v, changed)
           p == [q EXCEPT !.fail = 0, !.empty = e]
           z == [p EXCEPT !.plan = 0]
           u == OwnerFinalized(t, v, changed, same, parked)
<1>1. q \in Task /\ Stays(t, q)
  BY ProgressStays
<1>2. e \in Nat
  BY EmptyStreakType
<1>3. \/ u = RequestArbiter(p)
      \/ u = BackToReview(t, p)
      \/ u = NextItem(p, parked)
      \/ u = ToReviewer(z, "final")
  BY DEF OwnerFinalized
<1> HIDE DEF q, e, u
<1>4. Adjusts(q, p)
  BY <1>1, <1>2, CountersAdjust, Zenon
<1> HIDE DEF p
<1>5. p \in Task /\ p.reason = t.reason
  BY <1>1, <1>4 DEF Adjusts, Stays, Goes
<1>6. z \in Task /\ z.reason = t.reason
  BY <1>5 DEF Task
<1> HIDE DEF z
<1>7. Asks(t, RequestArbiter(p))
  BY <1>5, RequestArbiterAsks
<1>8. \/ Goes(t, BackToReview(t, p), "active")
      \/ Goes(t, BackToReview(t, p), "review_ready")
  <2>1. Goes(t, [p EXCEPT !.status = "active"], "active")
    BY <1>5 DEF Task, Goes
  <2>2. Goes(t, ToReviewer(p, "implementation"), "review_ready")
    BY <1>5, ToReviewerGoes
  <2>3. QED BY <2>1, <2>2 DEF BackToReview
<1>9. Goes(t, NextItem(p, parked), "active")
  <2>1. NextItem(p, parked).status = "active" /\ NextItem(p, parked).reason = p.reason
    BY <1>5 DEF Task, NextItem
  <2>2. QED BY <1>5, <2>1 DEF Goes
<1>10. Goes(t, ToReviewer(z, "final"), "review_ready")
  BY <1>6, ToReviewerGoes
<1>11. OwnerEnds(t, u)
  BY <1>3, <1>7, <1>8, <1>9, <1>10 DEF OwnerEnds
<1>12. QED BY <1>11 DEF u

LEMMA OwnerCompletesEnds ==
  ASSUME task \in Task, NEW v, NEW changed \in BOOLEAN, NEW same \in BOOLEAN,
         NEW rejected \in BOOLEAN, NEW parked \in BOOLEAN
  PROVE  OwnerEnds(task, OwnerCompletes(v, changed, same, rejected, parked))
BY OwnerWorkedEnds, OwnerFinalizedEnds DEF OwnerCompletes

LEMMA ApprovedEnds ==
  ASSUME NEW t \in Task
  PROVE  \/ t.phase # "final" /\ Goes(t, Approved(t), "merge_ready")
         \/ t.phase = "final" /\ Closes(Approved(t), "done")
<1>1. CASE t.phase = "final"
  <2> DEFINE c == Completed(t, "done")
  <2>1. c \in Task
    BY CompletedKeeps DEF Keeps, Counts, Reasons
  <2>2. Closes(c, "done")
    BY CompletedCloses
  <2>3. Approved(t) = [c EXCEPT !.fail = 0, !.empty = 0]
    BY <1>1 DEF Approved
  <2> HIDE DEF c
  <2>4. Closes(Approved(t), "done")
    BY <2>1, <2>2, <2>3 DEF Task, Closes
  <2>5. QED BY <1>1, <2>4
<1>2. CASE t.phase # "final"
  BY <1>2 DEF Task, Approved, Goes
<1>3. QED BY <1>1, <1>2

LEMMA OwnerChangesGoes ==
  ASSUME NEW t \in Task PROVE Goes(t, OwnerChanges(t), "active")
BY DEF Task, OwnerChanges, Goes

LEMMA ReviewedEnds ==
  ASSUME NEW t \in Task, NEW v PROVE ReviewerEnds(t, Reviewed(t, v))
<1>1. \/ Reviewed(t, v) = Approved(t)
      \/ Reviewed(t, v) = RequestArbiter(t)
      \/ Reviewed(t, v) = OwnerChanges(t)
  BY DEF Reviewed
<1>2. QED
  BY <1>1, ApprovedEnds, RequestArbiterAsks, OwnerChangesGoes DEF ReviewerEnds

LEMMA NextEpisodeStays ==
  ASSUME NEW t \in Task, NEW super \in {"runnable", "waiting_user"}
  PROVE  NextEpisode(t, super) \in Task /\ NextEpisode(t, super).reason = t.reason
<1>1. NextEpisode(t, super).reason = t.reason
  BY DEF NextEpisode, Task
<1>2. QED BY <1>1, NextEpisodeFields

LEMMA DirectiveMissingEnds ==
  ASSUME NEW t \in Task PROVE ArbiterEnds(t, DirectiveMissing(t))
<1>1. CASE t.fail = 0
  <2>1. Goes(t, DirectiveMissing(t), "arbiter_requested")
    BY <1>1 DEF Task, DirectiveMissing, Goes
  <2>2. QED BY <2>1 DEF ArbiterEnds
<1>2. CASE t.fail # 0
  <2> DEFINE n == NextEpisode(t, "waiting_user")
  <2>1. n \in Task /\ n.reason = t.reason
    BY NextEpisodeStays
  <2>2. DirectiveMissing(t) = [n EXCEPT !.status = "active", !.fail = @ + 1,
                                        !.blocker = "protocol"]
    BY <1>2 DEF DirectiveMissing
  <2> HIDE DEF n
  <2>3. Goes(t, DirectiveMissing(t), "active")
    BY <2>1, <2>2 DEF Task, Goes
  <2>4. QED BY <2>3 DEF ArbiterEnds
<1>3. QED BY <1>1, <1>2

LEMMA DirectiveMismatchEnds ==
  ASSUME NEW t \in Task, NEW d PROVE ArbiterEnds(t, DirectiveMismatch(t, d))
<1> DEFINE n == NextEpisode(t, "waiting_user")
<1>1. n \in Task /\ n.reason = t.reason
  BY NextEpisodeStays
<1>2. DirectiveMismatch(t, d) = [n EXCEPT !.status = "active", !.blocker = "protocol",
                                          !.directive = d]
  BY DEF DirectiveMismatch
<1> HIDE DEF n
<1>3. Goes(t, DirectiveMismatch(t, d), "active")
  BY <1>1, <1>2 DEF Task, Goes
<1>4. QED BY <1>3 DEF ArbiterEnds

LEMMA ArbitratedEnds ==
  ASSUME NEW t \in Task, NEW v, NEW d \in Directives PROVE ArbiterEnds(t, Arbitrated(t, v, d))
<1> DEFINE n == NextEpisode(t, "runnable")
           w == NextEpisode(t, "waiting_user")
           s == IF v = "proceed" THEN "review_ready" ELSE "active"
           a == [n EXCEPT !.status = s, !.fail = 0, !.empty = 0, !.directive = d]
           u == Arbitrated(t, v, d)
<1>1. n \in Task /\ n.reason = t.reason /\ w \in Task /\ w.reason = t.reason
  BY NextEpisodeStays
<1>2. s \in {"active", "review_ready"}
  OBVIOUS
<1>3. \/ u = [w EXCEPT !.status = "active", !.stagn = t.stagn, !.blocker = "stagnation",
                       !.directive = d]
      \/ v = "escalate" /\ u = [a EXCEPT !.super = "waiting_user", !.blocker = "user_input"]
      \/ u = a
  BY DEF Arbitrated
<1> HIDE DEF n, w, s, u
<1>4. a \in Task /\ Goes(t, a, s)
  BY <1>1, <1>2 DEF Task, Goes, Statuses
<1> HIDE DEF a
<1>5. Goes(t, u, "active") \/ Goes(t, u, s)
  BY <1>1, <1>3, <1>4 DEF Task, Goes
<1>6. ArbiterEnds(t, u)
  BY <1>2, <1>5 DEF ArbiterEnds
<1>7. QED BY <1>6 DEF u

LEMMA ArbiterOutcomesEnd ==
  ASSUME NEW t \in Task, NEW v, NEW u \in ArbiterOutcomes(t, v)
  PROVE  ArbiterEnds(t, u)
BY ArbitratedEnds, DirectiveMissingEnds, DirectiveMismatchEnds DEF ArbiterOutcomes

LEMMA OwnerFailedEnds ==
  ASSUME NEW t \in Task, NEW kind PROVE OwnerEnds(t, OwnerFailed(t, kind))
<1> DEFINE n == t.fail + 1
           f == [t EXCEPT !.fail = n]
           u == OwnerFailed(t, kind)
<1>1. n \in Nat
  BY DEF Task
<1>2. \/ u = Completed(f, "escalated")
      \/ u = RequestArbiter(f)
      \/ u = f
      \/ u = [f EXCEPT !.status = "active"]
  BY DEF OwnerFailed
<1> HIDE DEF n, u
<1>3. Adjusts(t, f)
  BY <1>1, CountersAdjust, Zenon
<1> HIDE DEF f
<1>4. f \in Task /\ f.reason = t.reason
  BY <1>3 DEF Adjusts, Stays, Goes
<1>5. Closes(Completed(f, "escalated"), "escalated") /\ Asks(t, RequestArbiter(f))
  BY <1>4, CompletedCloses, RequestArbiterAsks
<1>6. Goes(t, [f EXCEPT !.status = "active"], "active")
  BY <1>4 DEF Task, Goes
<1>7. OwnerEnds(t, u)
  BY <1>2, <1>3, <1>5, <1>6 DEF OwnerEnds, Adjusts
<1>8. QED BY <1>7 DEF u

LEMMA ReviewerFailedEnds ==
  ASSUME NEW t \in Task, t.status = "in_review", NEW kind, NEW v
  PROVE  ReviewerEnds(t, ReviewerFailed(t, kind, v))
<1> DEFINE a == [t EXCEPT !.status = "review_ready", !.super = "waiting_user",
                          !.blocker = "authentication", !.waitRef = None]
           b == [t EXCEPT !.status = "review_ready"]
           u == ReviewerFailed(t, kind, v)
<1>1. \/ u = a
      \/ t.phase = "final" /\ u = Completed(t, "done")
      \/ u = Approved(t)
      \/ u = OwnerChanges(t)
      \/ u = Completed(t, "escalated")
      \/ u = b
  BY DEF ReviewerFailed
<1> HIDE DEF u
<1>2. Goes(t, a, "review_ready") /\ a.phase = t.phase
  BY DEF Task, Goes
<1>3. Goes(t, b, "review_ready") /\ b.phase = t.phase
  BY DEF Task, Goes
<1> HIDE DEF a, b
<1>4. Closes(Completed(t, "done"), "done") /\ Closes(Completed(t, "escalated"), "escalated")
  BY CompletedCloses
<1>5. ReviewerEnds(t, u)
  BY <1>1, <1>2, <1>3, <1>4, ApprovedEnds, OwnerChangesGoes DEF ReviewerEnds
<1>6. QED BY <1>5 DEF u

LEMMA ArbiterFailedEnds ==
  ASSUME NEW t \in Task, t.status = "in_arbitration", NEW kind
  PROVE  ArbiterEnds(t, ArbiterFailed(t, kind))
<1>1. \/ Goes(t, ArbiterFailed(t, kind), "active")
      \/ Goes(t, ArbiterFailed(t, kind), "arbiter_requested")
  BY DEF Task, ArbiterFailed, Goes
<1>2. QED BY <1>1 DEF ArbiterEnds

\* What a role leaves of a row it worked on.
RoleEnds(role, t, u) ==
  CASE role = "reviewer" -> ReviewerEnds(t, u)
    [] role = "arbiter"  -> ArbiterEnds(t, u)
    [] OTHER             -> OwnerEnds(t, u)

\* The statuses in which a role works.
WorkedIn(role) ==
  CASE role = "reviewer" -> {"in_review"}
    [] role = "arbiter"  -> {"in_arbitration"}
    [] OTHER             -> {"active", "merge_ready"}

LEMMA ParkForRetryEnds ==
  ASSUME NEW t \in Task, NEW role \in Roles, t.status \in WorkedIn(role)
  PROVE  RoleEnds(role, t, ParkForRetry(t))
<1> DEFINE u == ParkForRetry(t)
<1>1. u.reason = t.reason /\ u.phase = t.phase
  BY DEF Task, ParkForRetry
<1>2. CASE role = "reviewer"
  <2>1. u.status = "review_ready"
    BY <1>2 DEF Task, ParkForRetry, WorkedIn
  <2> HIDE DEF u
  <2>2. ReviewerEnds(t, u)
    BY <1>1, <2>1 DEF ReviewerEnds, Goes
  <2>3. QED BY <1>2, <2>2 DEF RoleEnds, u
<1>3. CASE role = "arbiter"
  <2>1. u.status = "arbiter_requested"
    BY <1>3 DEF Task, ParkForRetry, WorkedIn
  <2> HIDE DEF u
  <2>2. ArbiterEnds(t, u)
    BY <1>1, <2>1 DEF ArbiterEnds, Goes
  <2>3. QED BY <1>3, <2>2 DEF RoleEnds, u
<1>4. CASE role = "owner"
  <2>1. u.status = t.status
    BY <1>4 DEF Task, ParkForRetry, WorkedIn
  <2> HIDE DEF u
  <2>2. OwnerEnds(t, u)
    BY <1>1, <2>1 DEF OwnerEnds, Stays, Goes
  <2>3. QED BY <1>4, <2>2 DEF RoleEnds, u
<1>5. QED BY <1>2, <1>3, <1>4 DEF Roles

LEMMA FailedEnds ==
  ASSUME NEW t \in Task, NEW role \in Roles, t.status \in WorkedIn(role), NEW kind, NEW v
  PROVE  RoleEnds(role, t, Failed(t, role, kind, v))
<1>1. CASE kind = "retryable"
  BY <1>1, ParkForRetryEnds DEF Failed
<1>2. CASE kind # "retryable" /\ role = "owner"
  BY <1>2, OwnerFailedEnds DEF Failed, RoleEnds
<1>3. CASE kind # "retryable" /\ role = "reviewer"
  <2>1. ReviewerEnds(t, ReviewerFailed(t, kind, v))
    BY <1>3, ReviewerFailedEnds DEF WorkedIn
  <2>2. QED BY <1>3, <2>1 DEF Failed, RoleEnds
<1>4. CASE kind # "retryable" /\ role = "arbiter"
  <2>1. ArbiterEnds(t, ArbiterFailed(t, kind))
    BY <1>4, ArbiterFailedEnds DEF WorkedIn
  <2>2. QED BY <1>4, <2>1 DEF Failed, RoleEnds
<1>5. QED BY <1>1, <1>2, <1>3, <1>4 DEF Roles

\* The table allows whatever a role leaves.
LEMMA EndsAllowed ==
  ASSUME NEW t \in Task, NEW role \in Roles, t.status \in WorkedIn(role),
         NEW u, RoleEnds(role, t, u)
  PROVE  u.status = t.status \/ u.status \in AllowedNext(t.status)
<1>1. CASE role = "reviewer"
  BY <1>1 DEF RoleEnds, ReviewerEnds, Goes, Asks, Closes, WorkedIn, AllowedNext
<1>2. CASE role = "arbiter"
  BY <1>2 DEF RoleEnds, ArbiterEnds, Goes, WorkedIn, AllowedNext
<1>3. CASE role = "owner"
  BY <1>3 DEF RoleEnds, OwnerEnds, Stays, Goes, Asks, Closes, WorkedIn, AllowedNext
<1>4. QED BY <1>1, <1>2, <1>3 DEF Roles

-------------------------------------------------------------------------------
(* The inductive invariant *)

Reviews == {"review_ready", "in_review"}
Arbitrations == {"arbiter_requested", "in_arbitration"}

\* The statuses in which the turn of a role is claimed.
ClaimedFor(role) ==
  CASE role = "reviewer" -> Reviews
    [] role = "arbiter"  -> Arbitrations
    [] OTHER             -> {"active", "merge_ready"} \cup Reviews

\* Nobody moves the row away from under the run that works on it: what Stop
\* does cancels the run.
RunFits ==
  /\ run.stage = "claimed" => task.status \in ClaimedFor(RoleOf(run.intent))
  /\ run.stage \in {"working", "spoken"} => task.status \in WorkedIn(RoleOf(run.intent))

StatusInv == IInv /\ RunFits /\ NothingRefused

\* What a step may do to the status of an open goal.
Kept == task.status \in {"active", "merge_ready"} /\ Stays(task, task')
Abandoned == \E reason \in {"escalated", "stopped"} : Closes(task', reason)
Submitted ==
  /\ task.status \in {"active", "merge_ready"} /\ Goes(task, task', "review_ready")
  /\ task'.phase = "final" => task.status = "merge_ready" /\ finalized' = TRUE
InReview ==
  /\ task.status \in Reviews /\ \E s \in Reviews : Goes(task, task', s)
  /\ task'.phase = task.phase /\ finalized' = finalized
Accepted ==
  /\ task.status = "in_review" /\ task.phase # "final"
  /\ Goes(task, task', "merge_ready")
Confirmed ==
  /\ task.status = "in_review" /\ task.phase = "final"
  /\ Closes(task', "done") /\ finalized' = finalized
Arbitrates ==
  \/ ArbiterEnabled /\ Goes(task, task', "arbiter_requested")
  \/ task.status \in Arbitrations

GoalMoves ==
  /\ Open /\ goal' = goal
  /\ \/ Goes(task, task', "active")
     \/ Kept \/ Abandoned \/ Submitted \/ InReview \/ Accepted \/ Confirmed \/ Arbitrates

GoalRests == goal' = goal /\ Stays(task, task') /\ finalized' = finalized

GoalBegins ==
  /\ ~Open \/ task.status = "merge_ready"
  /\ goal' = goal + 1
  /\ task'.status = "active" /\ task'.reason = None

StatusStep == RunFits' /\ NothingRefused' /\ (GoalRests \/ GoalMoves \/ GoalBegins)

-------------------------------------------------------------------------------
(* Every action preserves it *)

LEMMA RunTypes ==
  ASSUME IInv, run # Idle
  PROVE  /\ run.stage \in Stages /\ run.intent \in Intents
         /\ RoleOf(run.intent) \in Roles
         /\ Open /\ task \in Task /\ task.status \in Statuses
<1>1. run.stage \in Stages /\ run.intent \in Intents
  BY DEF IInv, RestOK, Run
<1>2. RoleOf(run.intent) \in Roles
  BY <1>1 DEF RoleOf, Roles
<1>3. Open /\ task \in Task /\ task.status \in Statuses
  BY DEF IInv, RunIsOpen, RowInv, Task
<1>4. QED BY <1>1, <1>2, <1>3

\* A step that leaves the run and the status alone.
LEMMA RestStep ==
  ASSUME StatusInv, goal' = goal, Stays(task, task'), run' = run,
         finalized' = finalized, refused' = refused
  PROVE  StatusStep
<1>1. RunFits' /\ NothingRefused'
  BY DEF StatusInv, RunFits, NothingRefused, Stays, Goes
<1>2. QED BY <1>1 DEF StatusStep, GoalRests

\* The turn that is claimed is one of the status it is claimed in.
LEMMA IntentFits ==
  ASSUME NEW t \in Task, NEW l
  PROVE  /\ t.status # "completed" => t.status \in ClaimedFor(RoleOf(HumanTurnIntent(t)))
         /\ NextTurn(t, l) # "none" => t.status \in ClaimedFor(RoleOf(NextTurn(t, l)))
         /\ PendingTurn(t, l) # "none" => t.status \in ClaimedFor(RoleOf(PendingTurn(t, l)))
<1>1. t.status \in Statuses
  BY DEF Task
<1>2. t.status # "completed" => t.status \in ClaimedFor(RoleOf(HumanTurnIntent(t)))
  BY <1>1 DEF Statuses, HumanTurnIntent, RoleOf, ClaimedFor, Reviews, Arbitrations
<1>3. NextTurn(t, l) # "none" => t.status \in ClaimedFor(RoleOf(NextTurn(t, l)))
  BY DEF NextTurn, RoleOf, ClaimedFor, Reviews, Arbitrations
<1>4. PendingTurn(t, l) # "none" => t.status \in ClaimedFor(RoleOf(PendingTurn(t, l)))
  BY <1>3 DEF PendingTurn, RoleOf, ClaimedFor
<1>5. QED BY <1>2, <1>3, <1>4

LEMMA ClaimFits ==
  ASSUME NEW intent, NEW byHuman, Claim(intent, byHuman),
         task'.status \in ClaimedFor(RoleOf(intent))
  PROVE  RunFits'
BY DEF Claim, RunFits

LEMMA AfterMessageStays ==
  ASSUME NEW t \in Task, NEW u \in AfterMessage(t)
  PROVE  Stays(t, u)
<1>1. Stays(t, t)
  BY DEF Stays, Goes
<1>2. ASSUME NEW n \in PlanLengths PROVE Stays(t, WithPlan(t, n))
  BY DEF WithPlan, Task, Stays, Goes
<1>3. QED BY <1>1, <1>2 DEF AfterMessage

LEMMA HumanStartsGoalFits ==
  ASSUME StatusInv, HumanStartsGoal PROVE StatusStep
<1>1. PICK t \in AfterMessage(NewTask) : HumanTurn(t, goal + 1, NoOutput)
  BY DEF HumanStartsGoal
<1>2. t \in Task /\ Stays(NewTask, t)
  BY AfterMessageKeeps, AfterMessageStays, NewTaskType DEF Keeps, Counts
<1>3. t.status = "active" /\ t.reason = None
  BY <1>2 DEF Stays, Goes, NewTask
<1>4. /\ task' = t /\ goal' = goal + 1 /\ refused' = refused
      /\ Claim(HumanTurnIntent(t), TRUE)
  BY <1>1 DEF HumanTurn
<1>5. RunFits'
  BY <1>2, <1>3, <1>4, IntentFits, ClaimFits
<1>6. GoalBegins
  BY <1>3, <1>4 DEF GoalBegins, HumanStartsGoal, NewGoalForHuman
<1>7. NothingRefused'
  BY <1>4 DEF StatusInv, NothingRefused
<1>8. QED BY <1>5, <1>6, <1>7 DEF StatusStep

LEMMA ResolvedStays ==
  ASSUME NEW t \in Task
  PROVE  ResolvedForHuman(t) \in Task /\ Stays(t, ResolvedForHuman(t))
<1>1. ResolvedForHuman(t) \in Task
  BY ResolvedKeeps DEF Keeps, Counts
<1>2. Stays(t, ResolvedForHuman(t))
  BY DEF ResolvedForHuman, Task, Stays, Goes
<1>3. QED BY <1>1, <1>2

LEMMA HumanContinuesGoalFits ==
  ASSUME StatusInv, HumanContinuesGoal PROVE StatusStep
<1>1. PICK t \in AfterMessage(ResolvedForHuman(task)) : HumanTurn(t, goal, last)
  BY DEF HumanContinuesGoal
<1>2. /\ task' = t /\ goal' = goal /\ refused' = refused
      /\ Claim(HumanTurnIntent(t), TRUE) /\ t.status # "completed"
      /\ finalized' = (goal = goal /\ finalized)
  BY <1>1 DEF HumanTurn, Runnable
<1>3. t \in Task /\ Stays(task, t)
  <2>1. ResolvedForHuman(task) \in Task /\ Stays(task, ResolvedForHuman(task))
    BY ResolvedStays DEF StatusInv, IInv, RowInv
  <2>2. t \in Task /\ Stays(ResolvedForHuman(task), t)
    BY <2>1, AfterMessageKeeps, AfterMessageStays DEF Keeps, Counts
  <2>3. QED BY <2>1, <2>2, StaysTransitive
<1>4. RunFits'
  BY <1>2, <1>3, IntentFits, ClaimFits
<1>5. finalized' = finalized
  <2>1. finalized \in BOOLEAN
    BY DEF StatusInv, IInv, RestOK
  <2>2. QED BY <1>2, <2>1, Zenon
<1>6. NothingRefused'
  BY <1>2 DEF StatusInv, NothingRefused
<1>7. GoalRests
  BY <1>2, <1>3, <1>5 DEF GoalRests
<1>8. QED BY <1>4, <1>6, <1>7 DEF StatusStep

LEMMA StaleMessageFits ==
  ASSUME StatusInv, StaleMessage PROVE StatusStep
<1>1. task' = task /\ goal' = goal /\ finalized' = finalized /\ refused' = refused
  BY DEF StaleMessage
<1>2. Stays(task, task')
  BY <1>1 DEF Stays, Goes
<1>3. CASE NextTurn(task, last) = "none"
  BY <1>1, <1>2, <1>3, RestStep DEF StaleMessage
<1>4. CASE NextTurn(task, last) # "none"
  <2>1. Claim(NextTurn(task, last), TRUE)
    BY <1>4, Zenon DEF StaleMessage
  <2>2. RunFits'
    BY <1>1, <1>4, <2>1, IntentFits, ClaimFits DEF StatusInv, IInv, RowInv
  <2>3. QED BY <1>1, <1>2, <2>2 DEF StatusStep, StatusInv, NothingRefused, GoalRests
<1>5. QED BY <1>3, <1>4

LEMMA FollowUpFits ==
  ASSUME StatusInv, FollowUp PROVE StatusStep
<1>1. /\ task' = task /\ goal' = goal /\ finalized' = finalized /\ refused' = refused
      /\ PendingTurn(task, last) # "none" /\ Claim(PendingTurn(task, last), FALSE)
  BY Zenon DEF FollowUp
<1>2. Stays(task, task')
  BY <1>1 DEF Stays, Goes
<1>3. RunFits'
  BY <1>1, IntentFits, ClaimFits DEF StatusInv, IInv, RowInv
<1>4. QED BY <1>1, <1>2, <1>3 DEF StatusStep, StatusInv, NothingRefused, GoalRests

\* What is written is accepted when the table allows it.
LEMMA WriteAllowed ==
  ASSUME NothingRefused, NEW from, NEW t, Write(from, t),
         t.status = from \/ t.status \in AllowedNext(from)
  PROVE  task' = t /\ NothingRefused'
BY Zenon DEF NothingRefused, Write

LEMMA PreparedForOwnerEnds ==
  ASSUME NEW t \in Task
  PROVE  \/ t.status \in Reviews /\ Goes(t, PreparedForOwner(t), "active")
         \/ t.status \notin Reviews /\ Stays(t, PreparedForOwner(t))
<1> DEFINE s == IF t.status \in {"review_ready", "in_review"} THEN "active" ELSE t.status
           a == [t EXCEPT !.status = s]
           u == [a EXCEPT !.round = 0, !.fail = 0, !.empty = 0]
<1>1. a \in Task
  BY DEF Task, Statuses
<1>2. \/ t.status \in Reviews /\ Goes(t, a, "active")
      \/ t.status \notin Reviews /\ Stays(t, a)
  BY DEF Task, Reviews, Goes, Stays
<1>3. PreparedForOwner(t) = a \/ PreparedForOwner(t) = u
  BY DEF PreparedForOwner
<1> HIDE DEF a
<1>4. Stays(a, u)
  BY <1>1 DEF Task, Stays, Goes
<1> HIDE DEF u
<1>5. QED BY <1>2, <1>3, <1>4 DEF Stays, Goes

LEMMA PreparedForReadonlyEnds ==
  ASSUME task \in Task, NEW pending, NEW active \in Statuses, NEW count \in {0, 1},
         task.status \in {pending, active}
  PROVE  LET u == PreparedForReadonly(pending, active, count)
         IN  Goes(task, u, active) /\ u.phase = task.phase
BY DEF PreparedForReadonly, Task, Goes

LEMMA PrepareFits ==
  ASSUME StatusInv, Prepare PROVE StatusStep
<1> DEFINE role == RoleOf(run.intent)
           t == CASE role = "reviewer" ->
                       PreparedForReadonly("review_ready", "in_review", 0)
                  [] role = "arbiter" ->
                       PreparedForReadonly("arbiter_requested", "in_arbitration", 1)
                  [] OTHER -> PreparedForOwner(task)
<1>1. /\ run.stage = "claimed" /\ Write(task.status, t) /\ goal' = goal
      /\ run' = [run EXCEPT !.stage = "working"]
      /\ finalized' = (finalized /\ role # "owner")
  BY DEF Prepare, Commit
<1>2. run # Idle
  BY <1>1 DEF Idle
<1>3. Open /\ task \in Task /\ role \in Roles
  BY <1>2, RunTypes DEF StatusInv
<1>4. task.status \in ClaimedFor(role)
  BY <1>1 DEF StatusInv, RunFits
<1>5. run'.stage = "working" /\ RoleOf(run'.intent) = role
  <2>1. run \in Run
    BY DEF StatusInv, IInv, RestOK
  <2>2. run'.stage = "working" /\ run'.intent = run.intent
    BY <1>1, <1>2, <2>1 DEF Run
  <2>3. QED BY <2>2
<1>6. finalized \in BOOLEAN /\ NothingRefused
  BY DEF StatusInv, IInv, RestOK
<1>7. CASE role = "reviewer"
  <2>1. Goes(task, t, "in_review") /\ t.phase = task.phase /\ task.status \in Reviews
    BY <1>3, <1>4, <1>7, PreparedForReadonlyEnds DEF ClaimedFor, Reviews, Statuses
  <2> HIDE DEF t
  <2>2. t.status = task.status \/ t.status \in AllowedNext(task.status)
    BY <2>1 DEF Goes, Reviews, AllowedNext
  <2>3. task' = t /\ NothingRefused'
    BY <1>1, <1>6, <2>2, WriteAllowed
  <2>4. RunFits'
    BY <1>5, <1>7, <2>1, <2>3 DEF RunFits, WorkedIn, Goes
  <2>5. finalized' = finalized
    BY <1>1, <1>6, <1>7, Zenon
  <2>6. InReview
    BY <2>1, <2>3, <2>5 DEF InReview, Reviews
  <2>7. QED BY <1>1, <1>3, <2>3, <2>4, <2>6 DEF StatusStep, GoalMoves
<1>8. CASE role = "arbiter"
  <2>1. Goes(task, t, "in_arbitration") /\ task.status \in Arbitrations
    BY <1>3, <1>4, <1>8, PreparedForReadonlyEnds DEF ClaimedFor, Arbitrations, Statuses
  <2> HIDE DEF t
  <2>2. t.status = task.status \/ t.status \in AllowedNext(task.status)
    BY <2>1 DEF Goes, Arbitrations, AllowedNext
  <2>3. task' = t /\ NothingRefused'
    BY <1>1, <1>6, <2>2, WriteAllowed
  <2>4. RunFits'
    BY <1>5, <1>8, <2>1, <2>3 DEF RunFits, WorkedIn, Goes
  <2>5. QED BY <1>1, <1>3, <2>1, <2>3, <2>4 DEF StatusStep, GoalMoves, Arbitrates
<1>9. CASE role = "owner"
  <2>1. t = PreparedForOwner(task)
    BY <1>9
  <2> HIDE DEF t
  <2>2. \/ task.status \in Reviews /\ Goes(task, t, "active")
        \/ task.status \in {"active", "merge_ready"} /\ Stays(task, t)
    BY <1>3, <1>4, <1>9, <2>1, PreparedForOwnerEnds DEF ClaimedFor
  <2>3. t.status = task.status \/ t.status \in AllowedNext(task.status)
    BY <2>2 DEF Goes, Stays, Reviews, AllowedNext
  <2>4. task' = t /\ NothingRefused'
    BY <1>1, <1>6, <2>3, WriteAllowed
  <2>5. RunFits'
    BY <1>5, <1>9, <2>2, <2>4 DEF RunFits, WorkedIn, Goes, Stays
  <2>6. Goes(task, task', "active") \/ Kept
    BY <2>2, <2>4 DEF Kept
  <2>7. QED BY <1>1, <1>3, <2>4, <2>5, <2>6 DEF StatusStep, GoalMoves
<1>10. QED BY <1>3, <1>7, <1>8, <1>9 DEF Roles

LEMMA IdleFits == ASSUME run' = Idle PROVE RunFits'
BY DEF Idle, RunFits

\* A stopped run that prepares leaves the status of an implemented goal alone.
LEMMA StoppedRunPreparesFits ==
  ASSUME StatusInv, StoppedRunPrepares PROVE StatusStep
<1>1. /\ run.stage = "stopped" /\ run' = Idle /\ goal' = goal
      /\ finalized' = finalized /\ refused' = refused
      /\ task' = task \/ task' = PreparedForOwner(ResolvedForHuman(task))
  BY DEF StoppedRunPrepares, EndRun
<1>2. Open /\ task \in Task
  BY <1>1, RunTypes DEF StatusInv, Idle
<1>3. \/ Goes(task, task', "active")
      \/ Stays(task, task')
  <2>1. ResolvedForHuman(task) \in Task /\ Stays(task, ResolvedForHuman(task))
    BY <1>2, ResolvedStays
  <2>2. \/ Goes(ResolvedForHuman(task), PreparedForOwner(ResolvedForHuman(task)), "active")
        \/ Stays(ResolvedForHuman(task), PreparedForOwner(ResolvedForHuman(task)))
    BY <2>1, PreparedForOwnerEnds
  <2>3. QED BY <1>1, <2>1, <2>2 DEF Stays, Goes
<1>4. GoalRests \/ GoalMoves
  BY <1>1, <1>2, <1>3 DEF GoalRests, GoalMoves
<1>5. QED BY <1>1, <1>4, IdleFits DEF StatusStep, StatusInv, NothingRefused

\* The handler's row is written, or left alone when the goal was stopped.
LEMMA CompletionWrites ==
  ASSUME StatusInv, run.stage \in {"working", "spoken"},
         NEW u, RoleEnds(RoleOf(run.intent), task, u),
         Completes(u)
  PROVE  /\ NothingRefused'
         /\ \/ task' = u
            \/ task' = task /\ (task.status = "completed" \/ Stopped(task))
<1>1. CASE task.status = "completed" \/ Stopped(task)
  BY <1>1 DEF Completes, StatusInv, NothingRefused
<1>2. CASE ~(task.status = "completed" \/ Stopped(task))
  <2>1. Write(task.status, u)
    BY <1>2 DEF Completes, Commit
  <2>2. task \in Task /\ RoleOf(run.intent) \in Roles
    BY RunTypes DEF StatusInv, Idle
  <2>3. task.status \in WorkedIn(RoleOf(run.intent))
    BY DEF StatusInv, RunFits
  <2>4. u.status = task.status \/ u.status \in AllowedNext(task.status)
    BY <2>2, <2>3, EndsAllowed
  <2>5. QED BY <2>1, <2>4, WriteAllowed DEF StatusInv
<1>3. QED BY <1>1, <1>2

LEMMA OwnerEndsMoves ==
  ASSUME Open, goal' = goal, task.status \in WorkedIn("owner"), OwnerEnds(task, task'),
         /\ task.status = "merge_ready" /\ task'.status = "review_ready"
         /\ task'.phase = "final"
         => finalized' = TRUE
  PROVE  GoalMoves
<1>1. task.status \in {"active", "merge_ready"}
  BY DEF WorkedIn
<1>2. CASE Stays(task, task')
  BY <1>1, <1>2 DEF GoalMoves, Kept
<1>3. CASE Goes(task, task', "review_ready")
  <2>1. CASE task'.phase = "final" => task.status = "merge_ready"
    <3>1. Submitted
      BY <1>1, <1>3, <2>1 DEF Submitted, Goes
    <3>2. QED BY <3>1 DEF GoalMoves
  <2>2. CASE ~(task'.phase = "final" => task.status = "merge_ready")
    BY <1>3, <2>2 DEF OwnerEnds, Stays, Goes, Asks, Closes, GoalMoves, Abandoned,
                      WorkedIn
  <2>3. QED BY <2>1, <2>2
<1>4. CASE Asks(task, task') \/ Closes(task', "escalated")
  BY <1>4 DEF Asks, GoalMoves, Arbitrates, Abandoned
<1>5. QED BY <1>2, <1>3, <1>4 DEF OwnerEnds, GoalMoves

LEMMA ReviewerEndsMoves ==
  ASSUME Open, goal' = goal, task.status = "in_review", finalized' = finalized,
         task' = task \/ ReviewerEnds(task, task')
  PROVE  GoalMoves
<1>1. CASE task' = task
  BY <1>1 DEF GoalMoves, InReview, Reviews, Goes
<1>2. CASE Goes(task, task', "review_ready") /\ task'.phase = task.phase
  BY <1>2 DEF GoalMoves, InReview, Reviews
<1>3. CASE task.phase # "final" /\ Goes(task, task', "merge_ready")
  BY <1>3 DEF GoalMoves, Accepted
<1>4. CASE task.phase = "final" /\ Closes(task', "done")
  BY <1>4 DEF GoalMoves, Confirmed
<1>5. CASE Asks(task, task') \/ Closes(task', "escalated")
  BY <1>5 DEF Asks, GoalMoves, Arbitrates, Abandoned
<1>6. QED BY <1>1, <1>2, <1>3, <1>4, <1>5 DEF ReviewerEnds, GoalMoves

\* What the runs have in common when their owner completes.
LEMMA OwnerCompletionFits ==
  ASSUME StatusInv, run.stage \in {"working", "spoken"}, RoleOf(run.intent) = "owner",
         NEW v, NEW changed \in BOOLEAN, NEW same \in BOOLEAN,
         NEW rejected \in BOOLEAN, NEW parked \in BOOLEAN,
         Completes(OwnerCompletes(v, changed, same, rejected, parked)),
         finalized' = FinalizedBy(task, task'), EndRun
  PROVE  StatusStep
<1>1. Open /\ task \in Task /\ task.status \in WorkedIn("owner")
  BY RunTypes DEF StatusInv, RunFits, Idle
<1>2. RoleEnds("owner", task, OwnerCompletes(v, changed, same, rejected, parked))
  BY <1>1, OwnerCompletesEnds DEF RoleEnds
<1>3. NothingRefused' /\ OwnerEnds(task, task')
  BY <1>2, CompletionWrites DEF RoleEnds, OwnerEnds, Stays, Goes
<1>4. /\ task.status = "merge_ready" /\ task'.status = "review_ready"
      /\ task'.phase = "final"
      => finalized' = TRUE
  BY Zenon DEF FinalizedBy
<1>5. run' = Idle /\ goal' = goal
  BY DEF EndRun
<1>6. GoalMoves
  BY <1>1, <1>3, <1>4, <1>5, OwnerEndsMoves
<1>7. QED BY <1>3, <1>5, <1>6, IdleFits DEF StatusStep

LEMMA OwnerCompletesTurnFits ==
  ASSUME StatusInv, OwnerCompletesTurn PROVE StatusStep
<1>1. PICK v \in OwnerVerdicts, changed \in BOOLEAN, parked \in BOOLEAN,
           same \in SameProgress :
        /\ Completes(OwnerCompletes(v, changed, same, FALSE, parked))
        /\ last' = [role |-> "owner", verdict |-> v]
        /\ finalized' = FinalizedBy(task, task')
  BY DEF OwnerCompletesTurn
<1>2. same \in BOOLEAN
  BY InputsAssumption
<1>3. run.stage = "working" /\ RoleOf(run.intent) = "owner" /\ EndRun
  BY DEF OwnerCompletesTurn
<1>4. QED BY <1>1, <1>2, <1>3, OwnerCompletionFits

LEMMA RejectedOwnerEndsFits ==
  ASSUME StatusInv, RejectedOwnerEnds PROVE StatusStep
<1>1. PICK changed \in BOOLEAN, parked \in BOOLEAN, same \in SameProgress :
        Completes(OwnerCompletes(last.verdict, changed, same, TRUE, parked))
  BY DEF RejectedOwnerEnds
<1>2. same \in BOOLEAN
  BY InputsAssumption
<1>3. /\ run.stage = "spoken" /\ RoleOf(run.intent) = "owner" /\ EndRun
      /\ finalized' = FinalizedBy(task, task')
  BY DEF RejectedOwnerEnds
<1>4. QED BY <1>1, <1>2, <1>3, OwnerCompletionFits

LEMMA ReviewerCompletesFits ==
  ASSUME StatusInv, ReviewerCompletes PROVE StatusStep
<1>1. /\ run.stage = "spoken" /\ RoleOf(run.intent) = "reviewer"
      /\ Completes(Reviewed(task, last.verdict))
      /\ run' = Idle /\ goal' = goal /\ finalized' = finalized
  BY DEF ReviewerCompletes, EndRun
<1>2. Open /\ task \in Task /\ task.status = "in_review"
  BY <1>1, RunTypes DEF StatusInv, RunFits, Idle, WorkedIn
<1>3. RoleEnds("reviewer", task, Reviewed(task, last.verdict))
  BY <1>2, ReviewedEnds DEF RoleEnds
<1>4. NothingRefused' /\ (task' = task \/ ReviewerEnds(task, task'))
  BY <1>1, <1>3, CompletionWrites DEF RoleEnds
<1>5. GoalMoves
  BY <1>1, <1>2, <1>4, ReviewerEndsMoves
<1>6. QED BY <1>1, <1>4, <1>5, IdleFits DEF StatusStep

LEMMA ArbiterCompletesFits ==
  ASSUME StatusInv, ArbiterCompletes PROVE StatusStep
<1>1. /\ run.stage = "spoken" /\ RoleOf(run.intent) = "arbiter"
      /\ run' = Idle /\ goal' = goal
  BY DEF ArbiterCompletes, EndRun
<1>2. Open /\ task \in Task /\ task.status = "in_arbitration"
  BY <1>1, RunTypes DEF StatusInv, RunFits, Idle, WorkedIn
<1>3. GoalMoves
  BY <1>1, <1>2 DEF GoalMoves, Arbitrates, Arbitrations
<1>4. NothingRefused'
  <2>1. CASE task.status = "completed" \/ Stopped(task)
    BY <2>1 DEF ArbiterCompletes, StatusInv, NothingRefused
  <2>2. CASE ~(task.status = "completed" \/ Stopped(task))
    <3>1. PICK t \in ArbiterOutcomes(task, last.verdict) : Write("in_arbitration", t)
      BY <2>2 DEF ArbiterCompletes
    <3>2. ArbiterEnds(task, t)
      BY <1>2, ArbiterOutcomesEnd
    <3>3. t.status \in AllowedNext("in_arbitration")
      BY <3>2 DEF ArbiterEnds, Goes, AllowedNext
    <3>4. QED BY <3>1, <3>3, WriteAllowed DEF StatusInv
  <2>3. QED BY <2>1, <2>2
<1>5. QED BY <1>1, <1>3, <1>4, IdleFits DEF StatusStep

\* A failed owner turn is never handed to the reviewer.
LEMMA OwnerFailureIsNoReview ==
  ASSUME NEW t \in Task, t.status \in WorkedIn("owner"), NEW kind, NEW v
  PROVE  Failed(t, "owner", kind, v).status # "review_ready"
<1>1. CASE kind = "retryable"
  BY <1>1 DEF Failed, ParkForRetry, Task, WorkedIn
<1>2. CASE kind # "retryable"
  <2> DEFINE n == t.fail + 1
             f == [t EXCEPT !.fail = n]
             u == OwnerFailed(t, kind)
  <2>1. n \in Nat
    BY DEF Task
  <2>2. \/ u = Completed(f, "escalated")
        \/ u = RequestArbiter(f)
        \/ u = f
        \/ u = [f EXCEPT !.status = "active"]
    BY DEF OwnerFailed
  <2> HIDE DEF n, u
  <2>3. f \in Task /\ f.status # "review_ready"
    BY <2>1 DEF Task, WorkedIn
  <2> HIDE DEF f
  <2>4. u.status # "review_ready"
    BY <2>2, <2>3 DEF Completed, RequestArbiter, Task
  <2>5. QED BY <1>2, <2>4 DEF Failed, u
<1>3. QED BY <1>1, <1>2

LEMMA RunFailsFits ==
  ASSUME StatusInv, RunFails PROVE StatusStep
<1> DEFINE role == RoleOf(run.intent)
           v == IF run.stage = "spoken" THEN last.verdict ELSE "continue"
<1>1. PICK kind \in Failures \ {"crash"} : Completes(Failed(task, role, kind, v))
  BY DEF RunFails
<1>2. /\ run.stage \in {"working", "spoken"}
      /\ run' = Idle /\ goal' = goal /\ finalized' = finalized
  BY DEF RunFails, EndRun
<1>3. Open /\ task \in Task /\ role \in Roles /\ task.status \in WorkedIn(role)
  BY <1>2, RunTypes DEF StatusInv, RunFits, Idle
<1> DEFINE u == Failed(task, role, kind, v)
<1>4. RoleEnds(role, task, u)
  BY <1>3, FailedEnds
<1>5. role = "owner" => u.status # "review_ready"
  BY <1>3, OwnerFailureIsNoReview
<1> HIDE DEF u, v
<1>6. NothingRefused' /\ (task' = task \/ task' = u)
  BY <1>1, <1>2, <1>4, CompletionWrites DEF u
<1>7. CASE role = "owner"
  <2>1. OwnerEnds(task, task') /\ task'.status # "review_ready"
    BY <1>3, <1>4, <1>5, <1>6, <1>7 DEF RoleEnds, OwnerEnds, Stays, Goes, WorkedIn
  <2>2. GoalMoves
    BY <1>2, <1>3, <1>7, <2>1, OwnerEndsMoves
  <2>3. QED BY <1>2, <1>6, <2>2, IdleFits DEF StatusStep
<1>8. CASE role = "reviewer"
  <2>1. task.status = "in_review" /\ (task' = task \/ ReviewerEnds(task, task'))
    BY <1>3, <1>4, <1>6, <1>8 DEF RoleEnds, WorkedIn
  <2>2. GoalMoves
    BY <1>2, <1>3, <2>1, ReviewerEndsMoves
  <2>3. QED BY <1>2, <1>6, <2>2, IdleFits DEF StatusStep
<1>9. CASE role = "arbiter"
  <2>1. GoalMoves
    BY <1>2, <1>3, <1>9 DEF GoalMoves, Arbitrates, Arbitrations, WorkedIn
  <2>2. QED BY <1>2, <1>6, <2>1, IdleFits DEF StatusStep
<1>10. QED BY <1>3, <1>7, <1>8, <1>9 DEF Roles

LEMMA EndsWithoutCompletionFits ==
  ASSUME StatusInv, Interrupted \/ Crash \/ CancelledRunEnds PROVE StatusStep
<1>1. /\ task' = task /\ finalized' = finalized /\ refused' = refused
      /\ run' = Idle /\ goal' = goal
  BY DEF Interrupted, Crash, CancelledRunEnds, EndRun
<1>2. RunFits'
  BY <1>1, IdleFits
<1>3. QED
  BY <1>1, <1>2 DEF StatusStep, StatusInv, NothingRefused, GoalRests, Stays, Goes

LEMMA SpeaksFits ==
  ASSUME StatusInv, ReadonlySpeaks \/ OwnerIsRejected PROVE StatusStep
<1>1. /\ run.stage = "working" /\ run' = [run EXCEPT !.stage = "spoken"]
      /\ task' = task /\ goal' = goal /\ finalized' = finalized /\ refused' = refused
  BY DEF ReadonlySpeaks, OwnerIsRejected
<1>2. run \in Run /\ run # Idle
  BY <1>1 DEF StatusInv, IInv, RestOK, Idle
<1>3. run'.stage = "spoken" /\ run'.intent = run.intent
  BY <1>1, <1>2 DEF Run
<1>4. RunFits'
  BY <1>1, <1>3 DEF StatusInv, RunFits
<1>5. QED
  BY <1>1, <1>4 DEF StatusStep, StatusInv, NothingRefused, GoalRests, Stays, Goes

LEMMA StopFits ==
  ASSUME StatusInv, Stop PROVE StatusStep
<1>1. Open /\ goal' = goal /\ refused' = refused
  BY DEF Stop
<1>2. Goes(task, task', "active")
  BY DEF Stop, StatusInv, IInv, RowInv, Task, Goes
<1>3. RunFits'
  <2>1. CASE run = Idle
    BY <2>1, IdleFits DEF Stop
  <2>2. CASE run # Idle
    <3>1. run \in Run
      BY DEF StatusInv, IInv, RestOK
    <3>2. run'.stage \in {"cancelled", "stopped"}
      BY <2>2, <3>1 DEF Stop, Run
    <3>3. QED BY <3>2 DEF RunFits
  <2>3. QED BY <2>1, <2>2
<1>4. QED
  BY <1>1, <1>2, <1>3 DEF StatusStep, StatusInv, NothingRefused, GoalMoves

LEMMA ClearFits ==
  ASSUME StatusInv, Clear PROVE StatusStep
<1>1. Open /\ goal' = goal /\ run' = Idle /\ Write(task.status, Completed(task, "stopped"))
  BY DEF Clear, Commit
<1>2. task \in Task
  BY DEF StatusInv, IInv, RowInv
<1>3. Closes(Completed(task, "stopped"), "stopped")
  BY <1>2, CompletedCloses
<1>4. Completed(task, "stopped").status \in AllowedNext(task.status)
  <2>1. task.status \in Statuses \ {"completed"}
    BY <1>1, <1>2 DEF Open, Task
  <2>2. "completed" \in AllowedNext(task.status)
    BY <2>1 DEF Statuses, AllowedNext
  <2>3. QED BY <1>3, <2>2 DEF Closes
<1>5. task' = Completed(task, "stopped") /\ NothingRefused'
  BY <1>1, <1>4, WriteAllowed DEF StatusInv
<1>6. Abandoned
  BY <1>3, <1>5 DEF Abandoned
<1>7. QED BY <1>1, <1>5, <1>6, IdleFits DEF StatusStep, GoalMoves

\* Timers, watchers and deliveries write what a goal waits for.
LEMMA OutsideFits ==
  ASSUME StatusInv,
         \/ RetryDue \/ DeliveryUncertain
         \/ \E w \in Watchers : WatcherCreated(w) \/ WatcherEnds(w) \/ WatcherPauses(w)
  PROVE  StatusStep
<1>1. goal' = goal /\ run' = run /\ finalized' = finalized /\ refused' = refused
  BY Zenon DEF RetryDue, DeliveryUncertain, WatcherCreated, WatcherEnds, WatcherPauses
<1>2. task \in Task
  BY DEF StatusInv, IInv, RowInv
<1>3. CASE RetryDue
  <2>1. Stays(task, task')
    BY <1>2, <1>3 DEF RetryDue, Task, Stays, Goes
  <2>2. QED BY <1>1, <2>1, RestStep
<1>4. CASE DeliveryUncertain
  <2>1. Stays(task, task')
    BY <1>2, <1>4 DEF DeliveryUncertain, Task, Stays, Goes
  <2>2. QED BY <1>1, <2>1, RestStep
<1>5. ASSUME NEW w \in Watchers, WatcherCreated(w) \/ WatcherEnds(w) \/ WatcherPauses(w)
      PROVE  StatusStep
  <2>1. CASE WatcherCreated(w)
    <3>1. \/ task' = task
          \/ task' = [task EXCEPT !.super = "waiting_external", !.blocker = "external",
                                  !.waitRef = w]
      BY <2>1, Zenon DEF WatcherCreated
    <3>2. Stays(task, task')
      BY <1>2, <3>1 DEF Task, Stays, Goes
    <3>3. QED BY <1>1, <3>2, RestStep
  <2>2. CASE WatcherEnds(w)
    <3>1. Stays(task, task')
      BY <1>2, <2>2 DEF WatcherEnds, Task, Stays, Goes
    <3>2. QED BY <1>1, <3>1, RestStep
  <2>3. CASE WatcherPauses(w)
    <3>1. Stays(task, task')
      BY <2>3 DEF WatcherPauses, Stays, Goes
    <3>2. QED BY <1>1, <3>1, RestStep
  <2>4. QED BY <1>5, <2>1, <2>2, <2>3
<1>6. QED BY <1>3, <1>4, <1>5

LEMMA HumanWritesFits ==
  ASSUME StatusInv, HumanWrites PROVE StatusStep
BY RestStep DEF HumanWrites, Stays, Goes

LEMMA InitStatusInv == Init => StatusInv
BY InitIInv DEF Init, StatusInv, RunFits, NothingRefused, Idle

LEMMA StatusInvStep == StatusInv /\ [Next]_vars => StatusInv' /\ StatusStep
<1> SUFFICES ASSUME StatusInv, [Next]_vars PROVE StatusInv' /\ StatusStep
  OBVIOUS
<1>1. IInv'
  BY StepIInv DEF StatusInv
<1>2. StatusStep
  <2>1. CASE UNCHANGED vars
    BY <2>1, RestStep DEF vars, Stays, Goes
  <2>2. CASE HumanWrites \/ HumanMoves
    BY <2>2, HumanWritesFits, HumanStartsGoalFits, HumanContinuesGoalFits, StaleMessageFits
       DEF HumanMoves
  <2>3. CASE RunMoves
    BY <2>3, FollowUpFits, PrepareFits, StoppedRunPreparesFits, OwnerCompletesTurnFits,
       RejectedOwnerEndsFits, SpeaksFits, ReviewerCompletesFits, ArbiterCompletesFits, RunFailsFits,
       EndsWithoutCompletionFits DEF RunMoves
  <2>4. CASE Crash \/ Stop \/ Clear
    BY <2>4, EndsWithoutCompletionFits, StopFits, ClearFits
  <2>5. CASE \/ RetryDue \/ DeliveryUncertain
             \/ \E w \in Watchers : WatcherCreated(w) \/ WatcherEnds(w) \/ WatcherPauses(w)
    BY <2>5, OutsideFits
  <2>6. QED BY <2>1, <2>2, <2>3, <2>4, <2>5 DEF Next
<1>3. QED BY <1>1, <1>2 DEF StatusInv, StatusStep

-------------------------------------------------------------------------------
(* The theorems *)

\* The run in flight always works in a status of its role, whatever stops,
\* clears, timers, watchers and failures do in between.
THEOREM StatusInvariantHolds == Spec => []StatusInv
<1>1. Init => StatusInv
  BY InitStatusInv
<1>2. StatusInv /\ [Next]_vars => StatusInv'
  BY StatusInvStep
<1>3. QED BY <1>1, <1>2, PTL DEF Spec

\* No handler asks for a status transition that the table of
\* paired-task-status.ts forbids, for all verdicts, failures and thresholds.
THEOREM RefusedCorrect == Spec => []NothingRefused
<1>1. StatusInv => NothingRefused
  BY DEF StatusInv
<1>2. QED BY <1>1, StatusInvariantHolds, PTL

-------------------------------------------------------------------------------
(* Without an arbiter *)

\* What is in its final review was finalized.  No handler asks for an arbiter.
FinalInv ==
  /\ task.status \notin Arbitrations
  /\ task.reason = "done" => task.status = "completed" /\ finalized = TRUE
  /\ task.phase = "final" /\ task.status \in Reviews => finalized = TRUE

LEMMA InitFinalInv == Init => FinalInv
BY NoneAssumption DEF Init, NewTask, FinalInv, Arbitrations, Reviews, Reasons

LEMMA FinalInvStep ==
  ASSUME ~ArbiterEnabled, StatusInv, FinalInv, StatusStep PROVE FinalInv'
<1>1. None # "done"
  BY NoneAssumption DEF Reasons
<1>2. CASE GoalRests
  BY <1>2 DEF FinalInv, GoalRests, Stays, Goes
<1>3. CASE GoalBegins
  BY <1>1, <1>3 DEF FinalInv, GoalBegins, Arbitrations, Reviews
<1>4. CASE GoalMoves
  <2>1. Open /\ task.status # "completed" /\ task.reason # "done"
    BY <1>4 DEF GoalMoves, Open, FinalInv
  <2>2. CASE Goes(task, task', "active")
    BY <2>1, <2>2 DEF FinalInv, Goes, Arbitrations, Reviews
  <2>3. CASE Kept
    BY <2>1, <2>3 DEF FinalInv, Kept, Stays, Goes, Arbitrations, Reviews
  <2>4. CASE Abandoned
    BY <2>4 DEF FinalInv, Abandoned, Closes, Arbitrations, Reviews
  <2>5. CASE Submitted
    BY <2>1, <2>5 DEF FinalInv, Submitted, Goes, Arbitrations, Reviews
  <2>6. CASE InReview
    BY <2>1, <2>6 DEF FinalInv, InReview, Goes, Arbitrations, Reviews
  <2>7. CASE Accepted
    BY <2>1, <2>7 DEF FinalInv, Accepted, Goes, Arbitrations, Reviews
  <2>8. CASE Confirmed
    BY <2>8 DEF FinalInv, Confirmed, Closes, Arbitrations, Reviews
  <2>9. ~Arbitrates
    BY DEF Arbitrates, FinalInv
  <2>10. QED BY <1>4, <2>2, <2>3, <2>4, <2>5, <2>6, <2>7, <2>8, <2>9 DEF GoalMoves
<1>5. QED BY <1>2, <1>3, <1>4 DEF StatusStep

\* Without an arbiter a goal is closed as done only after the owner has
\* finalized it and has not worked on it since.
THEOREM DoneCorrect == ~ArbiterEnabled => (Spec => []DoneOnlyAfterFinalize)
<1> SUFFICES ASSUME ~ArbiterEnabled PROVE Spec => []DoneOnlyAfterFinalize
  OBVIOUS
<1> DEFINE Inv == StatusInv /\ FinalInv
<1>1. Init => Inv
  BY InitStatusInv, InitFinalInv
<1>2. Inv /\ [Next]_vars => Inv'
  BY StatusInvStep, FinalInvStep
<1>3. Inv => DoneOnlyAfterFinalize
  <2>1. Inv => (task.reason = "done" => finalized = TRUE)
    BY DEF FinalInv
  <2>2. QED BY <2>1, Zenon DEF DoneOnlyAfterFinalize
<1> HIDE DEF Inv
<1>4. QED BY <1>1, <1>2, <1>3, PTL DEF Spec

\* The stage of GoalLifecycle that the row shows.
Shown ==
  CASE goal = 0 -> "none"
    [] goal > 0 /\ task.status = "completed" ->
         IF task.reason = "done" THEN "done" ELSE "given_up"
    [] goal > 0 /\ task.status = "merge_ready" -> "approved"
    [] goal > 0 /\ task.status \in {"review_ready", "in_review"} ->
         IF task.phase = "final" THEN "verifying" ELSE "reviewing"
    [] OTHER -> "implementing"

\* A step of the goal, from its stage a to its stage b.
ShownStep(a, b) ==
  \/ a \in {"reviewing", "verifying", "approved"} /\ b = "implementing"
  \/ a \in Lifecycle!OpenStages /\ b = "given_up"
  \/ a = "implementing" /\ b = "reviewing"
  \/ a = "approved" /\ b \in {"reviewing", "verifying"}
  \/ a = "reviewing" /\ b = "approved"
  \/ a = "verifying" /\ b = "done"

LEMMA ShownIs ==
  ASSUME Open, task.status \notin Arbitrations, task \in Task
  PROVE  /\ task.status = "active" => Shown = "implementing"
         /\ task.status = "merge_ready" => Shown = "approved"
         /\ task.status \in Reviews =>
              Shown = IF task.phase = "final" THEN "verifying" ELSE "reviewing"
         /\ Shown \in Lifecycle!OpenStages
<1>1. goal > 0 /\ goal # 0 /\ task.status \in Statuses \ {"completed"}
  BY DEF Open, Task
<1>2. QED
  BY <1>1 DEF Shown, Reviews, Arbitrations, Statuses, Lifecycle!OpenStages

LEMMA ShownMoves ==
  ASSUME ~ArbiterEnabled, StatusInv, FinalInv, StatusInv', FinalInv', GoalMoves
  PROVE  goal' = goal /\ (Shown' = Shown \/ ShownStep(Shown, Shown'))
<1>1. Open /\ goal' = goal /\ goal > 0 /\ task.status \notin Arbitrations /\ task \in Task
  BY DEF GoalMoves, Open, StatusInv, IInv, RowInv, FinalInv
<1>2. /\ task.status = "active" => Shown = "implementing"
      /\ task.status = "merge_ready" => Shown = "approved"
      /\ task.status \in Reviews =>
           Shown = IF task.phase = "final" THEN "verifying" ELSE "reviewing"
      /\ Shown \in Lifecycle!OpenStages
  BY <1>1, ShownIs
<1>3. task'.status # "completed" =>
        /\ task'.status = "active" => Shown' = "implementing"
        /\ task'.status = "merge_ready" => Shown' = "approved"
        /\ task'.status \in Reviews =>
             Shown' = IF task'.phase = "final" THEN "verifying" ELSE "reviewing"
  <2>1. task'.status # "completed" => Open'
    BY <1>1 DEF Open
  <2>2. task'.status \notin Arbitrations /\ task' \in Task
    BY DEF FinalInv, StatusInv, IInv, RowInv
  <2>3. goal' > 0 /\ goal' # 0
    BY <1>1
  <2>4. QED BY <2>1, <2>2, <2>3 DEF Shown, Reviews, Arbitrations
<1>4. task'.status = "completed" =>
        Shown' = IF task'.reason = "done" THEN "done" ELSE "given_up"
  BY <1>1 DEF Shown
<1>5. CASE Goes(task, task', "active")
  BY <1>1, <1>2, <1>3, <1>5 DEF Goes, ShownStep, Lifecycle!OpenStages
<1>6. CASE Kept
  BY <1>1, <1>2, <1>3, <1>6 DEF Kept, Stays, Goes
<1>7. CASE Abandoned
  BY <1>1, <1>2, <1>4, <1>7 DEF Abandoned, Closes, ShownStep
<1>8. CASE Submitted
  BY <1>1, <1>2, <1>3, <1>8 DEF Submitted, Goes, ShownStep, Reviews
<1>9. CASE InReview
  BY <1>1, <1>2, <1>3, <1>9 DEF InReview, Goes, Reviews
<1>10. CASE Accepted
  BY <1>1, <1>2, <1>3, <1>10 DEF Accepted, Goes, Reviews, ShownStep
<1>11. CASE Confirmed
  BY <1>1, <1>2, <1>4, <1>11 DEF Confirmed, Closes, Reviews, ShownStep
<1>12. ~Arbitrates
  BY DEF Arbitrates, FinalInv
<1>13. QED
  BY <1>1, <1>5, <1>6, <1>7, <1>8, <1>9, <1>10, <1>11, <1>12 DEF GoalMoves

LEMMA ShownRests ==
  ASSUME GoalRests PROVE goal' = goal /\ Shown' = Shown
BY DEF GoalRests, Stays, Goes, Shown

LEMMA ShownBegins ==
  ASSUME StatusInv, GoalBegins
  PROVE  /\ Shown \in {"none", "done", "given_up", "approved"}
         /\ Shown' = "implementing" /\ goal' = goal + 1
<1>1. goal \in Nat
  BY DEF StatusInv, IInv, RestOK
<1>2. goal' = goal + 1 /\ task'.status = "active"
  BY DEF GoalBegins
<1>3. Shown' = "implementing"
  BY <1>1, <1>2 DEF Shown
<1>4. Shown \in {"none", "done", "given_up", "approved"}
  BY <1>1 DEF GoalBegins, Shown, Open
<1>5. QED BY <1>2, <1>3, <1>4

LEMMA LifecycleStep ==
  ASSUME ~ArbiterEnabled, StatusInv, FinalInv, StatusInv', FinalInv', StatusStep
  PROVE  [Lifecycle!Next]_<<Shown, goal>>
<1>1. CASE GoalRests
  BY <1>1, ShownRests
<1>2. CASE GoalBegins
  <2>1. Lifecycle!Start
    BY <1>2, ShownBegins DEF Lifecycle!Start, Shown
  <2>2. QED BY <2>1 DEF Lifecycle!Next
<1>3. CASE GoalMoves
  <2>1. goal' = goal /\ (Shown' = Shown \/ ShownStep(Shown, Shown'))
    BY <1>3, ShownMoves
  <2>2. CASE Shown' = Shown
    BY <2>1, <2>2
  <2>3. CASE ShownStep(Shown, Shown')
    <3>1. \/ Lifecycle!SendBack \/ Lifecycle!GiveUp \/ Lifecycle!Submit
          \/ Lifecycle!Rework \/ Lifecycle!Finalize
          \/ Lifecycle!Approve \/ Lifecycle!Confirm
      BY <2>1, <2>3 DEF ShownStep, Shown, Lifecycle!Move, Lifecycle!SendBack,
         Lifecycle!GiveUp, Lifecycle!Submit, Lifecycle!Rework, Lifecycle!Finalize,
         Lifecycle!Approve, Lifecycle!Confirm
    <3>2. QED BY <3>1 DEF Lifecycle!Next
  <2>4. QED BY <2>1, <2>2, <2>3
<1>4. QED BY <1>1, <1>2, <1>3 DEF StatusStep

\* Without an arbiter the room implements GoalLifecycle: work is reviewed before
\* it is approved, an approved goal is finalized by its owner, and only a
\* finalized goal that the reviewer confirms is done.
THEOREM LifecycleCorrect == ~ArbiterEnabled => (Spec => FollowsLifecycle)
<1> SUFFICES ASSUME ~ArbiterEnabled PROVE Spec => FollowsLifecycle
  OBVIOUS
<1> DEFINE Inv == StatusInv /\ FinalInv
<1>1. Init => Inv /\ Lifecycle!Init
  <2>1. Init => Lifecycle!Init
    BY DEF Init, Lifecycle!Init
  <2>2. QED BY <2>1, InitStatusInv, InitFinalInv
<1>2. Inv /\ [Next]_vars => Inv' /\ [Lifecycle!Next]_<<Shown, goal>>
  BY StatusInvStep, FinalInvStep, LifecycleStep
<1> HIDE DEF Inv
<1>3. QED BY <1>1, <1>2, PTL DEF Spec, FollowsLifecycle, Lifecycle!Spec, Shown

-------------------------------------------------------------------------------
(* The next turn *)

\* No run fails or crashes, the owner's progress never repeats, nobody but a
\* reviewer says STEP_DONE, and the reviewer's patience ends before the episode.
Healthy ==
  /\ Failures = {}
  /\ SameProgress \subseteq {FALSE}
  /\ "step_done" \notin OwnerVerdicts
  /\ DeadlockThreshold <= MaxEpisodeRoundTrips

\* The goal is closed, waits for its user, or has a next turn.
Due(t, l) ==
  \/ t.status = "completed"
  \/ t.super \in {"waiting_user", "parked"}
  \/ PendingTurn(t, l) # "none"

\* A run that has spoken stored its output; only /stop cancels a run.
SpokenIsLast ==
  run.stage = "spoken" =>
    /\ last.role = RoleOf(run.intent)
    /\ last.role = "owner" => last.verdict \in OwnerVerdicts
CancelledIsStopped == run.stage \in {"cancelled", "stopped"} => Stopped(task)
TurnIsDue == run = Idle /\ human = "none" /\ ~revived /\ Open => Due(task, last)

DueInv == SpokenIsLast /\ CancelledIsStopped /\ TurnIsDue

\* The statuses in which a turn is due after the output of a role.
LEMMA DueStatus ==
  ASSUME NEW u, NEW l
  PROVE  /\ u.status = "review_ready" /\ l.role # "reviewer" => Due(u, l)
         /\ u.status = "arbiter_requested" /\ l.role # "arbiter" => Due(u, l)
         /\ u.status = "arbiter_requested" /\ u.fail # 0 => Due(u, l)
         /\ u.status = "merge_ready" /\ l.role # "owner" => Due(u, l)
         /\ u.status = "active" /\ l.role = "reviewer" => Due(u, l)
         /\ u.status = "active" /\ l.role = "arbiter" /\ l.verdict # "escalate" => Due(u, l)
         /\ u.status = "active" /\ (u.fail > 0 \/ u.plan > 0) => Due(u, l)
BY DEF Due, PendingTurn, NextTurn

LEMMA AskedIsDue ==
  ASSUME NEW t, NEW u, NEW l, Asks(t, u), l.role # "arbiter" PROVE Due(u, l)
<1>1. CASE ArbiterEnabled
  BY <1>1, DueStatus DEF Asks, Goes
<1>2. CASE ~ArbiterEnabled
  BY <1>2 DEF Asks, Closes, Due
<1>3. QED BY <1>1, <1>2

LEMMA HandToReviewerIsDue ==
  ASSUME NEW t \in Task, NEW p \in Task, NEW l, l.role = "owner"
  PROVE  Due(HandToReviewer(t, p), l)
<1>1. CASE ~Stalled(t, p)
  BY <1>1, ToReviewerGoes, DueStatus DEF HandToReviewer, Goes
<1>2. CASE Stalled(t, p) /\ t.arb < MaxArbitrations
  <2> DEFINE q == [p EXCEPT !.blocker = "stagnation"]
  <2>1. q \in Task
    BY DEF Task, Blockers
  <2>2. HandToReviewer(t, p) = RequestArbiter(q)
    BY <1>2 DEF HandToReviewer
  <2> HIDE DEF q
  <2>3. Asks(q, RequestArbiter(q))
    BY <2>1, RequestArbiterAsks
  <2>4. QED BY <2>2, <2>3, AskedIsDue
<1>3. CASE Stalled(t, p) /\ ~(t.arb < MaxArbitrations)
  <2>1. HandToReviewer(t, p) = [p EXCEPT !.super = "waiting_user", !.blocker = "stagnation"]
    BY <1>3 DEF HandToReviewer
  <2>2. HandToReviewer(t, p).super = "waiting_user"
    BY <2>1 DEF Task
  <2>3. QED BY <2>2 DEF Due
<1>4. QED BY <1>1, <1>2, <1>3

LEMMA OwnerWorkedIsDue ==
  ASSUME NEW t \in Task, t.status = "active", NEW v, NEW changed \in BOOLEAN,
         NEW same \in BOOLEAN, NEW rejected \in BOOLEAN, NEW l, l.role = "owner"
  PROVE  Due(OwnerWorked(t, v, changed, same, rejected), l)
<1> DEFINE q == Progress(t, same)
           e == EmptyStreak(t, v, changed)
           p == [q EXCEPT !.empty = e]
           f == t.fail + 1
           m == t.empty + 1
           r == [q EXCEPT !.fail = f, !.empty = m]
           y == [p EXCEPT !.fail = 0]
           z == [q EXCEPT !.fail = 0]
           u == OwnerWorked(t, v, changed, same, rejected)
<1>1. q \in Task /\ q.status = "active"
  BY ProgressStays DEF Stays, Goes
<1>2. e \in Nat /\ f \in Nat /\ f > 0 /\ m \in Nat
  BY EmptyStreakType DEF Task
<1>3. \/ u = RequestArbiter(z)
      \/ u = RequestArbiter(r)
      \/ u = r
      \/ u = RequestArbiter(y)
      \/ u = HandToReviewer(t, p)
  BY DEF OwnerWorked
<1> HIDE DEF q, e, f, m, u
<1>4. z \in Task /\ p \in Task
  BY <1>1, <1>2 DEF Task
<1>5. r \in Task /\ r.status = "active" /\ r.fail > 0
  <2>1. r \in Task
    BY <1>1, <1>2 DEF Task
  <2>2. r.status = "active" /\ r.fail = f
    BY <1>1 DEF Task
  <2>3. QED BY <1>2, <2>1, <2>2
<1> HIDE DEF p
<1>6. y \in Task
  BY <1>4 DEF Task
<1> HIDE DEF r, y, z
<1>7. ASSUME NEW x \in Task PROVE Due(RequestArbiter(x), l)
  BY RequestArbiterAsks, AskedIsDue
<1>8. Due(r, l)
  BY <1>5, DueStatus
<1>9. Due(HandToReviewer(t, p), l)
  BY <1>4, HandToReviewerIsDue
<1>10. Due(u, l)
  BY <1>3, <1>4, <1>5, <1>6, <1>7, <1>8, <1>9
<1>11. QED BY <1>10 DEF u

\* An approved goal is never handed back with its progress limit met.
LEMMA OwnerFinalizedIsDue ==
  ASSUME Healthy, NEW t \in Task, NEW v, v # "step_done", NEW changed \in BOOLEAN,
         NEW parked \in BOOLEAN, NEW l, l.role = "owner"
  PROVE  Due(OwnerFinalized(t, v, changed, FALSE, parked), l)
<1> DEFINE q == Progress(t, FALSE)
           e == EmptyStreak(t, v, changed)
           p == [q EXCEPT !.fail = 0, !.empty = e]
           z == [p EXCEPT !.plan = 0]
           u == OwnerFinalized(t, v, changed, FALSE, parked)
<1>1. q \in Task /\ q.stagn = 0 /\ q.plan = t.plan
  <2>1. q.stagn = 0 /\ q.plan = t.plan
    BY DEF Progress, Task
  <2>2. QED BY <2>1, ProgressStays
<1>2. e \in Nat
  BY EmptyStreakType
<1>3. \/ u = RequestArbiter(p)
      \/ u = BackToReview(t, p) /\ ~(t.round >= DeadlockThreshold)
      \/ u = NextItem(p, parked) /\ MoreItems(t)
      \/ u = ToReviewer(z, "final")
  BY DEF OwnerFinalized
<1> HIDE DEF q, e, u
<1>4. p \in Task /\ p.stagn = 0 /\ p.plan = t.plan
  BY <1>1, <1>2 DEF Task
<1> HIDE DEF p
<1>5. z \in Task
  BY <1>4 DEF Task
<1> HIDE DEF z
<1>6. Due(RequestArbiter(p), l)
  BY <1>4, RequestArbiterAsks, AskedIsDue
<1>7. ~(t.round >= DeadlockThreshold) => Due(BackToReview(t, p), l)
  <2>1. ~(t.round >= DeadlockThreshold) => ~Stalled(t, p)
    BY <1>4, ThresholdsAssumption DEF Healthy, Stalled, Task
  <2>2. ~Stalled(t, p) => BackToReview(t, p) = ToReviewer(p, "implementation")
    BY DEF BackToReview
  <2>3. Due(ToReviewer(p, "implementation"), l)
    BY <1>4, ToReviewerGoes, DueStatus DEF Goes
  <2>4. QED BY <2>1, <2>2, <2>3
<1>8. MoreItems(t) => Due(NextItem(p, parked), l)
  <2> SUFFICES ASSUME MoreItems(t) PROVE Due(NextItem(p, parked), l)
    OBVIOUS
  <2>1. NextItem(p, parked).status = "active" /\ NextItem(p, parked).plan = p.plan - 1
    BY <1>4 DEF NextItem, Task
  <2>2. p.plan - 1 > 0
    BY <1>4 DEF MoreItems, Task
  <2>3. QED BY <2>1, <2>2, DueStatus
<1>9. Due(ToReviewer(z, "final"), l)
  BY <1>5, ToReviewerGoes, DueStatus DEF Goes
<1>10. Due(u, l)
  BY <1>3, <1>6, <1>7, <1>8, <1>9
<1>11. QED BY <1>10 DEF u

LEMMA OwnerCompletesIsDue ==
  ASSUME Healthy, task \in Task, task.status \in WorkedIn("owner"),
         NEW v \in OwnerVerdicts, NEW changed \in BOOLEAN, NEW same \in SameProgress,
         NEW rejected \in BOOLEAN, NEW parked \in BOOLEAN, NEW l, l.role = "owner"
  PROVE  Due(OwnerCompletes(v, changed, same, rejected, parked), l)
<1>1. v # "step_done" /\ same = FALSE
  BY DEF Healthy
<1>2. CASE task.status = "merge_ready"
  BY <1>1, <1>2, OwnerFinalizedIsDue DEF OwnerCompletes
<1>3. CASE task.status = "active"
  <2>1. same \in BOOLEAN
    BY <1>1
  <2>2. OwnerCompletes(v, changed, same, rejected, parked)
          = OwnerWorked(task, v, changed, same, rejected)
    BY <1>3 DEF OwnerCompletes
  <2>3. QED BY <1>3, <2>1, <2>2, OwnerWorkedIsDue
<1>4. QED BY <1>2, <1>3 DEF WorkedIn

LEMMA ReviewedIsDue ==
  ASSUME NEW t \in Task, NEW v, NEW l, l.role = "reviewer"
  PROVE  Due(Reviewed(t, v), l)
<1>1. Due(Approved(t), l)
  BY ApprovedEnds, DueStatus DEF Goes, Closes, Due
<1>2. Due(RequestArbiter(t), l)
  BY RequestArbiterAsks, AskedIsDue
<1>3. Due(OwnerChanges(t), l)
  BY OwnerChangesGoes, DueStatus DEF Goes
<1>4. QED BY <1>1, <1>2, <1>3 DEF Reviewed

LEMMA ArbiterOutcomesAreDue ==
  ASSUME NEW t \in Task, NEW l, l.role = "arbiter", NEW u \in ArbiterOutcomes(t, l.verdict)
  PROVE  Due(u, l)
<1> DEFINE w == NextEpisode(t, "waiting_user")
           n == NextEpisode(t, "runnable")
<1>1. w \in Task /\ w.super = "waiting_user" /\ n \in Task
  BY NextEpisodeFields
<1>2. ASSUME NEW d \in Directives PROVE Due(Arbitrated(t, l.verdict, d), l)
  <2> DEFINE a == Arbitrated(t, l.verdict, d)
             s == IF l.verdict = "proceed" THEN "review_ready" ELSE "active"
             b == [n EXCEPT !.status = s, !.fail = 0, !.empty = 0, !.directive = d]
  <2>1. \/ a = [w EXCEPT !.status = "active", !.stagn = t.stagn, !.blocker = "stagnation",
                         !.directive = d]
        \/ a = [b EXCEPT !.super = "waiting_user", !.blocker = "user_input"]
        \/ a = b /\ l.verdict # "escalate"
    BY DEF Arbitrated
  <2>2. s \in {"review_ready", "active"}
    OBVIOUS
  <2> HIDE DEF w, n, s, a
  <2>3. b \in Task /\ b.status = s
    <3>1. b \in Task
      BY <1>1, <2>2 DEF Task, Statuses
    <3>2. b.status = s
      BY <1>1 DEF Task
    <3>3. QED BY <3>1, <3>2
  <2> HIDE DEF b
  <2>4. a.super = "waiting_user" \/ (a.status = s /\ l.verdict # "escalate")
    BY <1>1, <2>1, <2>3 DEF Task
  <2>5. CASE a.super = "waiting_user"
    BY <2>5 DEF Due, a
  <2>6. CASE a.status = s /\ l.verdict # "escalate"
    BY <2>2, <2>6, DueStatus DEF a
  <2>7. QED BY <2>4, <2>5, <2>6
<1>3. Due(DirectiveMissing(t), l)
  <2>1. CASE t.fail = 0
    <3>1. DirectiveMissing(t).status = "arbiter_requested" /\ DirectiveMissing(t).fail = 1
      BY <2>1 DEF DirectiveMissing, Task
    <3>2. QED BY <3>1, DueStatus
  <2>2. CASE t.fail # 0
    <3>1. DirectiveMissing(t) = [w EXCEPT !.status = "active", !.fail = @ + 1,
                                          !.blocker = "protocol"]
      BY <2>2 DEF DirectiveMissing
    <3> HIDE DEF w
    <3>2. DirectiveMissing(t).super = "waiting_user"
      BY <1>1, <3>1 DEF Task
    <3>3. QED BY <3>2 DEF Due
  <2>3. QED BY <2>1, <2>2
<1>4. ASSUME NEW d PROVE Due(DirectiveMismatch(t, d), l)
  <2>1. DirectiveMismatch(t, d) = [w EXCEPT !.status = "active", !.blocker = "protocol",
                                            !.directive = d]
    BY DEF DirectiveMismatch
  <2> HIDE DEF w
  <2>2. DirectiveMismatch(t, d).super = "waiting_user"
    BY <1>1, <2>1 DEF Task
  <2>3. QED BY <2>2 DEF Due
<1>5. QED BY <1>2, <1>3, <1>4 DEF ArbiterOutcomes

\* While a run is in flight, or a message pending, no turn is due.
LEMMA BusyIsDue ==
  ASSUME DueInv, run' # Idle \/ human' # "none", SpokenIsLast', CancelledIsStopped'
  PROVE  DueInv'
BY DEF DueInv, TurnIsDue

LEMMA ClaimIsDue ==
  ASSUME DueInv, NEW intent, NEW byHuman, Claim(intent, byHuman) PROVE DueInv'
<1>1. run'.stage = "claimed"
  BY DEF Claim
<1>2. run' # Idle
  BY <1>1 DEF Idle
<1>3. SpokenIsLast' /\ CancelledIsStopped'
  BY <1>1 DEF SpokenIsLast, CancelledIsStopped
<1>4. QED BY <1>2, <1>3, BusyIsDue

LEMMA EndedIsDue ==
  ASSUME run' = Idle, human' = "none" => Due(task', last') PROVE DueInv'
BY DEF DueInv, TurnIsDue, SpokenIsLast, CancelledIsStopped, Idle

LEMMA HumanWritesIsDue ==
  ASSUME DueInv, HumanWrites PROVE DueInv'
<1>1. human' = "new" /\ run' = run /\ last' = last /\ task' = task
  BY DEF HumanWrites
<1>2. SpokenIsLast' /\ CancelledIsStopped'
  BY <1>1 DEF DueInv, SpokenIsLast, CancelledIsStopped, Stopped
<1>3. QED BY <1>1, <1>2, BusyIsDue

LEMMA HumanMovesIsDue ==
  ASSUME StatusInv, DueInv, HumanMoves PROVE DueInv'
<1>1. CASE HumanStartsGoal
  <2>1. PICK t \in AfterMessage(NewTask) : HumanTurn(t, goal + 1, NoOutput)
    BY <1>1 DEF HumanStartsGoal
  <2>2. Claim(HumanTurnIntent(t), TRUE)
    BY <2>1 DEF HumanTurn
  <2>3. QED BY <2>2, ClaimIsDue
<1>2. CASE HumanContinuesGoal
  <2>1. PICK t \in AfterMessage(ResolvedForHuman(task)) : HumanTurn(t, goal, last)
    BY <1>2 DEF HumanContinuesGoal
  <2>2. Claim(HumanTurnIntent(t), TRUE)
    BY <2>1 DEF HumanTurn
  <2>3. QED BY <2>2, ClaimIsDue
<1>3. CASE StaleMessage
  <2>1. CASE NextTurn(task, last) = "none"
    <3>1. run' = Idle /\ task' = task /\ last' = last
      BY <1>3, <2>1 DEF StaleMessage
    <3>2. task.status = "active" /\ task.fail > 0
      BY <1>3 DEF StaleMessage, Fresh
    <3>3. Due(task', last')
      BY <3>1, <3>2, DueStatus
    <3>4. QED BY <3>1, <3>3, EndedIsDue
  <2>2. CASE NextTurn(task, last) # "none"
    <3>1. Claim(NextTurn(task, last), TRUE)
      BY <1>3, <2>2, Zenon DEF StaleMessage
    <3>2. QED BY <3>1, ClaimIsDue
  <2>3. QED BY <2>1, <2>2
<1>4. QED BY <1>1, <1>2, <1>3 DEF HumanMoves

LEMMA StoppedRunPreparesIsDue ==
  ASSUME DueInv, StoppedRunPrepares PROVE DueInv'
<1>1. run' = Idle /\ Stopped(task)
  BY DEF StoppedRunPrepares, EndRun, DueInv, CancelledIsStopped
<1>2. CASE run.intent = "owner-turn"
  <2>1. revived'
    BY <1>2, Zenon DEF StoppedRunPrepares
  <2>2. TurnIsDue'
    BY <2>1, Zenon DEF TurnIsDue
  <2>3. QED
    BY <1>1, <2>2 DEF DueInv, SpokenIsLast, CancelledIsStopped, Idle
<1>3. CASE run.intent # "owner-turn"
  <2>1. task' = task
    BY <1>3 DEF StoppedRunPrepares
  <2>2. Due(task', last')
    BY <1>1, <2>1 DEF Stopped, Due
  <2>3. QED BY <1>1, <2>2, EndedIsDue
<1>4. QED BY <1>2, <1>3

LEMMA PrepareIsDue ==
  ASSUME StatusInv, DueInv, Prepare PROVE DueInv'
<1>1. run \in Run /\ run # Idle /\ run' = [run EXCEPT !.stage = "working"]
  BY DEF Prepare, StatusInv, IInv, RestOK, Idle
<1>2. run'.stage = "working"
  BY <1>1 DEF Run
<1>3. run' # Idle /\ SpokenIsLast' /\ CancelledIsStopped'
  BY <1>2 DEF Idle, SpokenIsLast, CancelledIsStopped
<1>4. QED BY <1>3, BusyIsDue

\* What a completion leaves has a next turn, when the handler's row has one.
LEMMA CompletionIsDue ==
  ASSUME StatusInv, run.stage \in {"working", "spoken"},
         NEW u, RoleEnds(RoleOf(run.intent), task, u), Completes(u),
         Due(u, last'), run' = Idle
  PROVE  DueInv'
<1>1. \/ task' = u
      \/ task' = task /\ (task.status = "completed" \/ Stopped(task))
  BY CompletionWrites
<1>2. Due(task', last')
  BY <1>1 DEF Due, Stopped
<1>3. QED BY <1>2, EndedIsDue

LEMMA OwnerTurnIsDue ==
  ASSUME Healthy, StatusInv, DueInv, OwnerCompletesTurn \/ RejectedOwnerEnds
  PROVE  DueInv'
<1>1. RoleOf(run.intent) = "owner" /\ run.stage \in {"working", "spoken"} /\ run' = Idle
  BY DEF OwnerCompletesTurn, RejectedOwnerEnds, EndRun
<1>2. task \in Task /\ task.status \in WorkedIn("owner")
  BY <1>1, RunTypes DEF StatusInv, RunFits, Idle
<1>3. PICK v \in OwnerVerdicts, changed \in BOOLEAN, parked \in BOOLEAN,
           same \in SameProgress, rejected \in BOOLEAN :
        Completes(OwnerCompletes(v, changed, same, rejected, parked)) /\ last'.role = "owner"
  <2>1. CASE OwnerCompletesTurn
    <3>1. PICK v \in OwnerVerdicts, changed \in BOOLEAN, parked \in BOOLEAN,
               same \in SameProgress :
            /\ Completes(OwnerCompletes(v, changed, same, FALSE, parked))
            /\ last' = [role |-> "owner", verdict |-> v]
            /\ finalized' = FinalizedBy(task, task')
      BY <2>1 DEF OwnerCompletesTurn
    <3>2. last'.role = "owner"
      BY <3>1
    <3>3. FALSE \in BOOLEAN
      OBVIOUS
    <3>4. QED BY <3>1, <3>2, <3>3, Zenon
  <2>2. CASE RejectedOwnerEnds
    <3>1. last' = last /\ last.role = "owner" /\ last.verdict \in OwnerVerdicts
      BY <1>1, <2>2 DEF RejectedOwnerEnds, DueInv, SpokenIsLast
    <3>2. QED BY <2>2, <3>1 DEF RejectedOwnerEnds
  <2>3. QED BY <2>1, <2>2
<1> DEFINE u == OwnerCompletes(v, changed, same, rejected, parked)
<1>4. same \in BOOLEAN
  BY InputsAssumption
<1>5. RoleEnds("owner", task, u)
  BY <1>2, <1>4, OwnerCompletesEnds DEF RoleEnds
<1>6. Due(u, last')
  BY <1>2, <1>3, OwnerCompletesIsDue
<1>7. Completes(u)
  BY <1>3
<1> HIDE DEF u
<1>8. QED BY <1>1, <1>5, <1>6, <1>7, CompletionIsDue

LEMMA SpeaksIsDue ==
  ASSUME StatusInv, DueInv, ReadonlySpeaks \/ OwnerIsRejected PROVE DueInv'
<1>1. /\ run.stage = "working" /\ run' = [run EXCEPT !.stage = "spoken"]
      /\ last'.role = RoleOf(run.intent)
      /\ last'.role = "owner" => last'.verdict \in OwnerVerdicts
  BY DEF ReadonlySpeaks, OwnerIsRejected
<1>2. run \in Run /\ run # Idle
  BY <1>1 DEF StatusInv, IInv, RestOK, Idle
<1>3. run'.stage = "spoken" /\ run'.intent = run.intent
  BY <1>1, <1>2 DEF Run
<1>4. run' # Idle /\ SpokenIsLast' /\ CancelledIsStopped'
  BY <1>1, <1>3 DEF Idle, SpokenIsLast, CancelledIsStopped
<1>5. QED BY <1>4, BusyIsDue

LEMMA ReviewerCompletesIsDue ==
  ASSUME StatusInv, DueInv, ReviewerCompletes PROVE DueInv'
<1>1. /\ run.stage = "spoken" /\ RoleOf(run.intent) = "reviewer"
      /\ Completes(Reviewed(task, last.verdict))
      /\ run' = Idle /\ last' = last
  BY DEF ReviewerCompletes, EndRun
<1>2. task \in Task
  BY DEF StatusInv, IInv, RowInv
<1>3. last'.role = "reviewer"
  BY <1>1 DEF DueInv, SpokenIsLast
<1>4. RoleEnds("reviewer", task, Reviewed(task, last.verdict))
  BY <1>2, ReviewedEnds DEF RoleEnds
<1>5. Due(Reviewed(task, last.verdict), last')
  BY <1>2, <1>3, ReviewedIsDue
<1>6. QED BY <1>1, <1>4, <1>5, CompletionIsDue

LEMMA ArbiterCompletesIsDue ==
  ASSUME StatusInv, DueInv, ArbiterCompletes PROVE DueInv'
<1>1. /\ run.stage = "spoken" /\ RoleOf(run.intent) = "arbiter"
      /\ run' = Idle /\ last' = last
  BY DEF ArbiterCompletes, EndRun
<1>2. task \in Task /\ last.role = "arbiter"
  BY <1>1 DEF StatusInv, IInv, RowInv, DueInv, SpokenIsLast
<1>3. CASE task.status = "completed" \/ Stopped(task)
  <2>1. task' = task
    BY <1>3 DEF ArbiterCompletes
  <2>2. Due(task', last')
    BY <1>3, <2>1 DEF Due, Stopped
  <2>3. QED BY <1>1, <2>2, EndedIsDue
<1>4. CASE ~(task.status = "completed" \/ Stopped(task))
  <2>1. PICK t \in ArbiterOutcomes(task, last.verdict) : Write("in_arbitration", t)
    BY <1>4 DEF ArbiterCompletes
  <2>2. ArbiterEnds(task, t)
    BY <1>2, ArbiterOutcomesEnd
  <2>3. t.status \in AllowedNext("in_arbitration")
    BY <2>2 DEF ArbiterEnds, Goes, AllowedNext
  <2>4. task' = t
    BY <2>1, <2>3, WriteAllowed DEF StatusInv
  <2>5. Due(t, last)
    BY <1>2, ArbiterOutcomesAreDue
  <2>6. QED BY <1>1, <2>4, <2>5, EndedIsDue
<1>5. QED BY <1>3, <1>4

LEMMA EndsWithoutCompletionIsDue ==
  ASSUME Healthy, DueInv, RunFails \/ Interrupted \/ Crash \/ CancelledRunEnds
  PROVE  DueInv'
<1>1. ~RunFails /\ ~Crash
  BY DEF Healthy, RunFails, Crash
<1>2. CASE Interrupted
  <2>1. run' = Idle /\ human' # "none"
    BY <1>2 DEF Interrupted, EndRun
  <2>2. QED BY <2>1, EndedIsDue
<1>3. CASE CancelledRunEnds
  <2>1. run' = Idle /\ task' = task /\ Stopped(task)
    BY <1>3 DEF CancelledRunEnds, EndRun, DueInv, CancelledIsStopped
  <2>2. Due(task', last')
    BY <2>1 DEF Stopped, Due
  <2>3. QED BY <2>1, <2>2, EndedIsDue
<1>4. QED BY <1>1, <1>2, <1>3

LEMMA StopIsDue ==
  ASSUME StatusInv, DueInv, Stop PROVE DueInv'
<1>1. task \in Task /\ run \in Run
  BY DEF StatusInv, IInv, RestOK, RowInv
<1>2. Stopped(task')
  BY <1>1 DEF Stop, Task, Stopped
<1>3. Due(task', last')
  BY <1>2 DEF Stopped, Due
<1>4. CASE run = Idle
  <2>1. run' = Idle
    BY <1>4 DEF Stop
  <2>2. QED BY <1>3, <2>1, EndedIsDue
<1>5. CASE run # Idle
  <2>1. run'.stage \in {"cancelled", "stopped"}
    BY <1>1, <1>5 DEF Stop, Run
  <2>2. run' # Idle /\ SpokenIsLast' /\ CancelledIsStopped'
    BY <1>2, <2>1 DEF Idle, SpokenIsLast, CancelledIsStopped
  <2>3. QED BY <2>2, BusyIsDue
<1>6. QED BY <1>4, <1>5

LEMMA ClearIsDue ==
  ASSUME StatusInv, DueInv, Clear PROVE DueInv'
<1>1. run' = Idle
  BY DEF Clear
<1>2. task'.status = "completed"
  <2>1. Open /\ Write(task.status, Completed(task, "stopped"))
    BY DEF Clear, Commit
  <2>2. task \in Task /\ task.status \in Statuses \ {"completed"}
    BY <2>1 DEF Open, StatusInv, IInv, RowInv, Task
  <2>3. Completed(task, "stopped").status = "completed"
    BY <2>2, CompletedCloses DEF Closes
  <2>4. "completed" \in AllowedNext(task.status)
    BY <2>2 DEF Statuses, AllowedNext
  <2>5. task' = Completed(task, "stopped")
    BY <2>1, <2>3, <2>4, WriteAllowed DEF StatusInv
  <2>6. QED BY <2>3, <2>5
<1>3. Due(task', last')
  BY <1>2 DEF Due
<1>4. QED BY <1>1, <1>3, EndedIsDue

\* A goal that is made runnable has the next turn it had while it waited.
LEMMA ResumedIsDue ==
  ASSUME DueInv, task \in Task, run' = run, last' = last,
         task.super \in {"waiting_retry", "waiting_external"} /\ Open,
         Stays(task, task'), task'.fail = task.fail, task'.plan = task.plan,
         human = "none" \/ human' # "none", goal' = goal, revived' = revived
  PROVE  DueInv'
<1>1. run.stage \notin {"cancelled", "stopped"}
  BY DEF DueInv, CancelledIsStopped, Stopped
<1>2. SpokenIsLast' /\ CancelledIsStopped'
  BY <1>1 DEF DueInv, SpokenIsLast, CancelledIsStopped
<1>3. CASE run = Idle /\ human = "none"
  <2>1. ~revived => Due(task, last)
    BY <1>3, Zenon DEF DueInv, TurnIsDue
  <2>2. Due(task, last) => PendingTurn(task, last) # "none"
    BY DEF Due, Open
  <2>3. PendingTurn(task, last) # "none" => PendingTurn(task', last') # "none"
    BY DEF Stays, Goes, PendingTurn, NextTurn
  <2>4. ~revived' => Due(task', last')
    BY <2>1, <2>2, <2>3, Zenon DEF Due
  <2>5. TurnIsDue'
    BY <2>4, Zenon DEF TurnIsDue
  <2>6. QED BY <1>2, <2>5 DEF DueInv
<1>4. CASE ~(run = Idle /\ human = "none")
  BY <1>2, <1>4, BusyIsDue
<1>5. QED BY <1>3, <1>4

LEMMA AgedMessage ==
  ASSUME MessageAges PROVE human = "none" \/ human' # "none"
BY DEF MessageAges

LEMMA UnchangedIsDue ==
  ASSUME DueInv, task' = task, run' = run, last' = last, human' = human, goal' = goal,
         revived' = revived
  PROVE  DueInv'
BY DEF DueInv, SpokenIsLast, CancelledIsStopped, TurnIsDue, Open, Stopped

LEMMA OutsideIsDue ==
  ASSUME StatusInv, DueInv,
         \/ RetryDue \/ DeliveryUncertain
         \/ \E w \in Watchers : WatcherCreated(w) \/ WatcherEnds(w) \/ WatcherPauses(w)
  PROVE  DueInv'
<1>1. task \in Task
  BY DEF StatusInv, IInv, RowInv
<1>2. CASE RetryDue
  <2>1. task' = [task EXCEPT !.super = "runnable", !.blocker = None]
    BY <1>2 DEF RetryDue
  <2>2. Stays(task, task') /\ task'.fail = task.fail /\ task'.plan = task.plan
    BY <1>1, <2>1 DEF Task, Stays, Goes
  <2>3. /\ run' = run /\ last' = last /\ goal' = goal /\ revived' = revived /\ MessageAges
        /\ Open /\ task.super = "waiting_retry"
    BY <1>2 DEF RetryDue
  <2>4. QED BY <1>1, <2>2, <2>3, AgedMessage, ResumedIsDue
<1>3. CASE DeliveryUncertain
  <2>1. /\ run' = run /\ last' = last
        /\ run = Idle \/ run.stage = "spoken"
        /\ task' = [task EXCEPT !.super = "waiting_user", !.blocker = "external"]
    BY <1>3 DEF DeliveryUncertain
  <2>2. Due(task', last')
    BY <1>1, <2>1 DEF Task, Due
  <2>3. SpokenIsLast' /\ CancelledIsStopped'
    BY <2>1 DEF DueInv, SpokenIsLast, CancelledIsStopped, Idle
  <2>4. TurnIsDue'
    BY <2>2, Zenon DEF TurnIsDue
  <2>5. QED BY <2>3, <2>4 DEF DueInv
<1>4. ASSUME NEW w \in Watchers, WatcherCreated(w) PROVE DueInv'
  <2>1. /\ run' = run /\ last' = last /\ goal' = goal /\ revived' = revived
        /\ run.stage \in {"working", "cancelled"}
        /\ \/ task' = task /\ human' = human
           \/ task.super \in {"runnable", "waiting_external"}
    BY <1>4, Zenon DEF WatcherCreated
  <2>2. CASE task' = task /\ human' = human
    BY <2>1, <2>2, UnchangedIsDue
  <2>3. CASE task.super \in {"runnable", "waiting_external"}
    <3>1. run.stage = "working"
      BY <2>1, <2>3 DEF DueInv, CancelledIsStopped, Stopped
    <3>2. run' # Idle /\ SpokenIsLast' /\ CancelledIsStopped'
      BY <2>1, <3>1 DEF Idle, SpokenIsLast, CancelledIsStopped
    <3>3. QED BY <3>2, BusyIsDue
  <2>4. QED BY <2>1, <2>2, <2>3
<1>5. ASSUME NEW w \in Watchers, WatcherEnds(w) PROVE DueInv'
  <2>1. CASE Open /\ task.super = "waiting_external" /\ task.waitRef = w
    <3>1. /\ task' = [task EXCEPT !.super = "runnable", !.blocker = None, !.waitRef = None]
          /\ run' = run /\ last' = last /\ goal' = goal /\ revived' = revived /\ MessageAges
      BY <1>5, <2>1 DEF WatcherEnds
    <3>2. Stays(task, task') /\ task'.fail = task.fail /\ task'.plan = task.plan
      BY <1>1, <3>1 DEF Task, Stays, Goes
    <3>3. QED BY <1>1, <2>1, <3>1, <3>2, AgedMessage, ResumedIsDue
  <2>2. CASE ~(Open /\ task.super = "waiting_external" /\ task.waitRef = w)
    BY <1>5, <2>2, UnchangedIsDue DEF WatcherEnds
  <2>3. QED BY <2>1, <2>2
<1>6. ASSUME NEW w \in Watchers, WatcherPauses(w) PROVE DueInv'
  BY <1>6, UnchangedIsDue DEF WatcherPauses
<1>7. QED BY <1>2, <1>3, <1>4, <1>5, <1>6

LEMMA DueInvStep ==
  ASSUME Healthy, StatusInv, DueInv, [Next]_vars PROVE DueInv'
<1>1. CASE UNCHANGED vars
  BY <1>1, UnchangedIsDue DEF vars
<1>2. CASE HumanWrites \/ HumanMoves
  BY <1>2, HumanWritesIsDue, HumanMovesIsDue
<1>3. CASE RunMoves
  <2>1. CASE FollowUp
    BY <2>1, ClaimIsDue DEF FollowUp
  <2>2. CASE ~FollowUp
    BY <1>3, <2>2, PrepareIsDue, StoppedRunPreparesIsDue, OwnerTurnIsDue, SpeaksIsDue,
       ReviewerCompletesIsDue, ArbiterCompletesIsDue, EndsWithoutCompletionIsDue DEF RunMoves
  <2>3. QED BY <2>1, <2>2
<1>4. CASE Crash \/ Stop \/ Clear
  BY <1>4, EndsWithoutCompletionIsDue, StopIsDue, ClearIsDue
<1>5. CASE \/ RetryDue \/ DeliveryUncertain
           \/ \E w \in Watchers : WatcherCreated(w) \/ WatcherEnds(w) \/ WatcherPauses(w)
  BY <1>5, OutsideIsDue
<1>6. QED BY <1>1, <1>2, <1>3, <1>4, <1>5 DEF Next

\* In the conditions of Healthy an open goal that is runnable, with no run in
\* flight and no message to answer, always has a next turn: the automation does
\* not halt in silence, through stops, clears, checklists, watchers, rejected
\* evidence, malformed directives, interruptions and uncertain deliveries.  Only
\* a stopped goal that a late preparation resumed may lie still.
THEOREM KeepsMovingCorrect == Healthy => (Spec => []GoalKeepsMoving)
<1> SUFFICES ASSUME Healthy PROVE Spec => []GoalKeepsMoving
  OBVIOUS
<1> DEFINE Inv == StatusInv /\ DueInv
<1>1. Init => Inv
  <2>1. Init => DueInv
    BY DEF Init, DueInv, SpokenIsLast, CancelledIsStopped, TurnIsDue, Open, Idle
  <2>2. QED BY <2>1, InitStatusInv
<1>2. Inv /\ [Next]_vars => Inv'
  BY StatusInvStep, DueInvStep
<1>3. Inv => GoalKeepsMoving
  BY DEF DueInv, TurnIsDue, Due, GoalKeepsMoving, Runnable, Open
<1> HIDE DEF Inv
<1>4. QED BY <1>1, <1>2, <1>3, PTL DEF Spec
===============================================================================
