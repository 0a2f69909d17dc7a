--------------------------- MODULE PairedTaskProofs ---------------------------
(***************************************************************************)
(* What holds of PairedTask for every set of watchers, directives and      *)
(* verdicts and for all thresholds.                                        *)
(***************************************************************************)
EXTENDS PairedTask, TLAPS

\* A handler that makes u of the row t counts nothing back, and makes no goal
\* wait for a CI run that did not already.
Counts(t, u) ==
  /\ u \in Task
  /\ t.round <= t.total => u.round <= u.total
  /\ u.total >= t.total
  /\ u.arb >= t.arb
  /\ u.episode >= t.episode
  /\ u.super = "waiting_external" => t.super = "waiting_external" /\ u.waitRef = t.waitRef

\* Nor does it stop the goal as its user would.
Keeps(t, u) == Counts(t, u) /\ (Stopped(u) => Stopped(t))

-------------------------------------------------------------------------------
(* The handlers, one lemma each *)

\* Handlers compose.
LEMMA KeepsTransitive ==
  ASSUME NEW t \in Task, NEW p \in Task, NEW u,
         Keeps(t, p), Keeps(p, u)
  PROVE  Keeps(t, u)
BY DEF Keeps, Counts, Task

LEMMA KeepsItself == ASSUME NEW t \in Task PROVE Keeps(t, t)
BY DEF Keeps, Counts, Task

LEMMA CompletedKeeps ==
  ASSUME NEW t \in Task, NEW reason \in Reasons
  PROVE  Keeps(t, Completed(t, reason))
<1>1. Completed(t, reason) \in Task
  BY DEF Task, Completed, Statuses, SupervisorStates
<1>2. /\ Completed(t, reason).round = t.round
      /\ Completed(t, reason).total = t.total
      /\ Completed(t, reason).arb = t.arb
      /\ Completed(t, reason).episode = t.episode
      /\ Completed(t, reason).super = "terminal"
  BY DEF Task, Completed
<1>3. QED BY <1>1, <1>2 DEF Keeps, Counts, Task, Stopped

LEMMA RequestArbiterKeeps ==
  ASSUME NEW t \in Task PROVE Keeps(t, RequestArbiter(t))
<1>1. CASE ArbiterEnabled
  BY <1>1 DEF Keeps, Counts, Task, RequestArbiter, Stopped, Statuses
<1>2. CASE ~ArbiterEnabled
  BY <1>2, CompletedKeeps DEF RequestArbiter, Reasons
<1>3. QED BY <1>1, <1>2

LEMMA ProgressKeeps ==
  ASSUME NEW t \in Task, NEW same \in BOOLEAN
  PROVE  Keeps(t, Progress(t, same))
<1> DEFINE u == Progress(t, same)
<1>1. u \in Task
  <2> DEFINE s == IF same /\ t.print THEN t.stagn + 1 ELSE 0
             b == IF s >= StagnationThreshold THEN "stagnation" ELSE None
  <2>1. s \in Nat /\ b \in Blockers \cup {None}
    BY DEF Task, Blockers
  <2>2. u = [t EXCEPT !.print = TRUE, !.stagn = s, !.blocker = b]
    BY DEF Progress
  <2> HIDE DEF s, b, u
  <2>3. QED BY <2>1, <2>2 DEF Task
<1>2. /\ u.round = t.round
      /\ u.total = t.total
      /\ u.arb = t.arb
      /\ u.episode = t.episode
      /\ u.super = t.super
      /\ u.waitRef = t.waitRef
      /\ u.blocker \in {"stagnation", None}
  BY DEF Task, Progress
<1>3. QED BY <1>1, <1>2, NoneAssumption DEF Keeps, Counts, Task, Stopped, Blockers

LEMMA ParkForRetryKeeps ==
  ASSUME NEW t \in Task PROVE Keeps(t, ParkForRetry(t))
<1> DEFINE u == ParkForRetry(t)
           s == CASE t.status = "in_review"      -> "review_ready"
                  [] t.status = "in_arbitration" -> "arbiter_requested"
                  [] OTHER                       -> t.status
<1>1. s \in Statuses
  BY DEF Task, Statuses
<1>2. u = [t EXCEPT !.super = "waiting_retry", !.blocker = "retry", !.status = s]
  BY DEF ParkForRetry
<1> HIDE DEF u, s
<1>3. u \in Task
  BY <1>1, <1>2 DEF Task, SupervisorStates, Blockers
<1>4. /\ u.round = t.round
      /\ u.total = t.total
      /\ u.arb = t.arb
      /\ u.episode = t.episode
      /\ u.super = "waiting_retry"
  BY <1>2 DEF Task
<1>5. Keeps(t, u)
  BY <1>3, <1>4 DEF Keeps, Counts, Task, Stopped
<1>6. QED BY <1>5 DEF u

LEMMA ToReviewerKeeps ==
  ASSUME NEW t \in Task, NEW phase \in {"implementation", "final"}
  PROVE  Keeps(t, ToReviewer(t, phase))
<1> DEFINE u == ToReviewer(t, phase)
<1>1. u \in Task
  <2> DEFINE r == t.round + 1
             n == t.total + 1
  <2>1. r \in Nat /\ n \in Nat
    BY DEF Task
  <2>2. u = [t EXCEPT !.status = "review_ready", !.phase = phase, !.fail = 0,
                      !.round = r, !.total = n]
    BY DEF ToReviewer
  <2> HIDE DEF r, n, u
  <2>3. QED BY <2>1, <2>2 DEF Task, Statuses
<1>2. /\ u.round = t.round + 1
      /\ u.total = t.total + 1
      /\ u.arb = t.arb
      /\ u.episode = t.episode
      /\ u.super = t.super
      /\ u.waitRef = t.waitRef
      /\ u.blocker = t.blocker
  BY DEF ToReviewer, Task
<1> HIDE DEF u
<1>3. Keeps(t, u)
  BY <1>1, <1>2 DEF Keeps, Counts, Task, Stopped
<1>4. QED BY <1>3 DEF u

LEMMA NextEpisodeCounts ==
  ASSUME NEW t \in Task, NEW super \in {"runnable", "waiting_user"}
  PROVE  Counts(t, NextEpisode(t, super))
<1> DEFINE u == NextEpisode(t, super)
<1>1. u \in Task
  <2> DEFINE n == t.episode + 1
  <2>1. n \in Nat
    BY DEF Task
  <2>2. u = [t EXCEPT !.round = 0, !.episode = n, !.stagn = 0, !.super = super,
                      !.waitRef = None]
    BY DEF NextEpisode
  <2> HIDE DEF n, u
  <2>3. QED BY <2>1, <2>2 DEF Task, SupervisorStates
<1>2. /\ u.round = 0
      /\ u.total = t.total
      /\ u.arb = t.arb
      /\ u.episode = t.episode + 1
      /\ u.super = super
  BY DEF NextEpisode, Task
<1> HIDE DEF u
<1>3. Counts(t, u)
  BY <1>1, <1>2 DEF Counts, Task
<1>4. QED BY <1>3 DEF u

LEMMA EmptyStreakType ==
  ASSUME NEW t \in Task, NEW v, NEW changed \in BOOLEAN
  PROVE  EmptyStreak(t, v, changed) \in Nat
BY DEF EmptyStreak, Task

LEMMA HandToReviewerKeeps ==
  ASSUME NEW t \in Task, NEW p \in Task
  PROVE  Keeps(p, HandToReviewer(t, p))
<1>1. CASE ~Stalled(t, p)
  BY <1>1, ToReviewerKeeps DEF HandToReviewer
<1>2. CASE Stalled(t, p) /\ t.arb < MaxArbitrations
  <2> DEFINE q == [p EXCEPT !.blocker = "stagnation"]
  <2>1. q \in Task
    BY DEF Task, Blockers
  <2>2. Keeps(p, q)
    BY <2>1 DEF Keeps, Counts, Task, Stopped
  <2>3. Keeps(q, RequestArbiter(q))
    BY <2>1, RequestArbiterKeeps
  <2>4. HandToReviewer(t, p) = RequestArbiter(q)
    BY <1>2 DEF HandToReviewer
  <2> HIDE DEF q
  <2>5. QED BY <2>1, <2>2, <2>3, <2>4, KeepsTransitive
<1>3. CASE Stalled(t, p) /\ ~(t.arb < MaxArbitrations)
  <2> DEFINE u == [p EXCEPT !.super = "waiting_user", !.blocker = "stagnation"]
  <2>1. HandToReviewer(t, p) = u
    BY <1>3 DEF HandToReviewer
  <2>2. u \in Task
    BY DEF Task, Blockers, SupervisorStates
  <2>3. Keeps(p, u)
    BY <2>2 DEF Keeps, Counts, Task, Stopped
  <2>4. QED BY <2>1, <2>3
<1>4. QED BY <1>1, <1>2, <1>3

\* Whatever leaves these fields alone keeps the row.
LEMMA SameKeeps ==
  ASSUME NEW t \in Task, NEW u \in Task,
         u.round = t.round, u.total = t.total, u.arb = t.arb,
         u.episode = t.episode,
         \/ u.super = t.super /\ u.waitRef = t.waitRef /\ u.blocker = t.blocker
         \/ u.super = t.super /\ u.waitRef = t.waitRef /\ u.blocker # "user_input"
         \/ u.super \in SupervisorStates \ {"waiting_external", "waiting_user"}
         \/ u.super = "waiting_user" /\ u.blocker # "user_input"
  PROVE  Keeps(t, u)
BY DEF Keeps, Counts, Task, Stopped

\* Failure and empty-turn counters of a row are free to change.
LEMMA CountersKeep ==
  ASSUME NEW t \in Task, NEW f \in Nat, NEW e \in Nat
  PROVE  /\ Keeps(t, [t EXCEPT !.fail = f])
         /\ Keeps(t, [t EXCEPT !.empty = e])
         /\ Keeps(t, [t EXCEPT !.fail = f, !.empty = e])
<1>1. Keeps(t, [t EXCEPT !.fail = f])
  <2> DEFINE u == [t EXCEPT !.fail = f]
  <2>1. u \in Task
    BY DEF Task
  <2>2. QED BY <2>1, SameKeeps DEF Task
<1>2. Keeps(t, [t EXCEPT !.empty = e])
  <2> DEFINE u == [t EXCEPT !.empty = e]
  <2>1. u \in Task
    BY DEF Task
  <2>2. QED BY <2>1, SameKeeps DEF Task
<1>3. Keeps(t, [t EXCEPT !.fail = f, !.empty = e])
  <2> DEFINE u == [t EXCEPT !.fail = f, !.empty = e]
  <2>1. u \in Task
    BY DEF Task
  <2>2. QED BY <2>1, SameKeeps DEF Task
<1>4. QED BY <1>1, <1>2, <1>3

\* The status of a row, and with it the phase and the counters of failure,
\* change without touching what is counted.
LEMMA StatusKeeps ==
  ASSUME NEW t \in Task, NEW s \in Statuses, NEW ph \in {"implementation", "final"}
  PROVE  /\ Keeps(t, [t EXCEPT !.status = s])
         /\ Keeps(t, [t EXCEPT !.status = s, !.phase = ph])
         /\ Keeps(t, [t EXCEPT !.status = s, !.phase = ph, !.fail = 0, !.empty = 0])
<1>1. Keeps(t, [t EXCEPT !.status = s])
  <2> DEFINE u == [t EXCEPT !.status = s]
  <2>1. u \in Task
    BY DEF Task
  <2>2. QED BY <2>1, SameKeeps DEF Task
<1>2. Keeps(t, [t EXCEPT !.status = s, !.phase = ph])
  <2> DEFINE u == [t EXCEPT !.status = s, !.phase = ph]
  <2>1. u \in Task
    BY DEF Task
  <2>2. QED BY <2>1, SameKeeps DEF Task
<1>3. Keeps(t, [t EXCEPT !.status = s, !.phase = ph, !.fail = 0, !.empty = 0])
  <2> DEFINE u == [t EXCEPT !.status = s, !.phase = ph, !.fail = 0, !.empty = 0]
  <2>1. u \in Task
    BY DEF Task
  <2>2. QED BY <2>1, SameKeeps DEF Task
<1>4. QED BY <1>1, <1>2, <1>3

-------------------------------------------------------------------------------
(* The owner's completion *)

LEMMA OwnerWorkedKeeps ==
  ASSUME NEW t \in Task, NEW v, NEW changed \in BOOLEAN, NEW same \in BOOLEAN,
         NEW rejected \in BOOLEAN
  PROVE  Keeps(t, OwnerWorked(t, v, changed, same, rejected))
<1> DEFINE q == Progress(t, same)
           e == EmptyStreak(t, v, changed)
           p == [q EXCEPT !.empty = e]
           f == t.fail + 1
           m == t.empty + 1
           r == [q EXCEPT !.fail = f, !.empty = m]
           u == OwnerWorked(t, v, changed, same, rejected)
<1>1. Keeps(t, q) /\ q \in Task
  BY ProgressKeeps DEF Keeps, Counts
<1>2. e \in Nat /\ f \in Nat /\ m \in Nat
  BY EmptyStreakType DEF Task
<1>3. \/ u = RequestArbiter([q EXCEPT !.fail = 0])
      \/ u = RequestArbiter(r)
      \/ u = r
      \/ u = RequestArbiter([p EXCEPT !.fail = 0])
      \/ u = HandToReviewer(t, p)
  BY DEF OwnerWorked
<1> HIDE DEF q, e, f, m, u
<1>4. Keeps(q, p) /\ Keeps(q, r) /\ Keeps(q, [q EXCEPT !.fail = 0])
  BY <1>1, <1>2, CountersKeep
<1>5. p \in Task /\ r \in Task /\ [q EXCEPT !.fail = 0] \in Task
  BY <1>4 DEF Keeps, Counts
<1> DEFINE z == [q EXCEPT !.fail = 0]
           y == [p EXCEPT !.fail = 0]
<1>6. Keeps(p, y) /\ y \in Task
  <2>1. Keeps(p, y)
    BY <1>5, CountersKeep
  <2>2. QED BY <2>1 DEF Keeps, Counts
<1> HIDE DEF p, r, z, y
<1>7. Keeps(q, y)
  BY <1>1, <1>4, <1>5, <1>6, KeepsTransitive
<1>8. Keeps(q, u)
  <2>1. CASE u = RequestArbiter(z)
    <3>1. Keeps(z, RequestArbiter(z)) /\ Keeps(q, z) /\ z \in Task
      BY <1>4, <1>5, RequestArbiterKeeps DEF z
    <3>2. QED BY <3>1, <2>1, <1>1, KeepsTransitive
  <2>2. CASE u = RequestArbiter(r)
    BY <2>2, <1>1, <1>4, <1>5, RequestArbiterKeeps, KeepsTransitive
  <2>3. CASE u = r
    BY <2>3, <1>4
  <2>4. CASE u = RequestArbiter(y)
    BY <2>4, <1>1, <1>6, <1>7, RequestArbiterKeeps, KeepsTransitive
  <2>5. CASE u = HandToReviewer(t, p)
    BY <2>5, <1>1, <1>4, <1>5, HandToReviewerKeeps, KeepsTransitive
  <2>6. QED BY <1>3, <2>1, <2>2, <2>3, <2>4, <2>5 DEF z, y
<1>9. Keeps(t, u)
  BY <1>1, <1>8, KeepsTransitive
<1>10. QED BY <1>9 DEF u

LEMMA BackToReviewKeeps ==
  ASSUME NEW t \in Task, NEW p \in Task
  PROVE  Keeps(p, BackToReview(t, p))
<1>1. CASE Stalled(t, p)
  <2>1. Keeps(p, [p EXCEPT !.status = "active"])
    BY StatusKeeps DEF Statuses
  <2>2. QED BY <1>1, <2>1 DEF BackToReview
<1>2. CASE ~Stalled(t, p)
  BY <1>2, ToReviewerKeeps DEF BackToReview
<1>3. QED BY <1>1, <1>2

LEMMA NextItemKeeps ==
  ASSUME NEW t \in Task, NEW parked \in BOOLEAN, MoreItems(t)
  PROVE  Keeps(t, NextItem(t, parked))
<1> DEFINE u == NextItem(t, parked)
           n == t.plan - 1
           k == t.episode + 1
           w == IF parked THEN "parked" ELSE "runnable"
           b == IF parked THEN "stagnation" ELSE None
<1>1. n \in Nat /\ k \in Nat /\ w \in {"parked", "runnable"} /\ b \in Blockers \cup {None}
  BY DEF MoreItems, Task, Blockers
<1>2. u = [t EXCEPT !.status = "active", !.plan = n, !.episode = k, !.round = 0,
                    !.super = w, !.blocker = b]
  BY DEF NextItem
<1>3. k >= t.episode
  BY DEF Task
<1> HIDE DEF u, n, k, w, b
<1>4. u \in Task
  BY <1>1, <1>2 DEF Task, Statuses, SupervisorStates
<1>5. /\ u.round = 0
      /\ u.total = t.total
      /\ u.arb = t.arb
      /\ u.episode = k
      /\ u.super \in {"parked", "runnable"}
  BY <1>1, <1>2 DEF Task
<1>6. Keeps(t, u)
  BY <1>3, <1>4, <1>5 DEF Keeps, Counts, Task, Stopped
<1>7. QED BY <1>6 DEF u

LEMMA OwnerFinalizedKeeps ==
  ASSUME NEW t \in Task, NEW v, NEW changed \in BOOLEAN, NEW same \in BOOLEAN,
         NEW parked \in BOOLEAN
  PROVE  Keeps(t, OwnerFinalized(t, v, changed, same, parked))
<1> DEFINE q == Progress(t, same)
           e == EmptyStreak(t, v, changed)
           p == [q EXCEPT !.fail = 0, !.empty = e]
           z == [p EXCEPT !.plan = 0]
           u == OwnerFinalized(t, v, changed, same, parked)
<1>1. Keeps(t, q) /\ q \in Task
  BY ProgressKeeps DEF Keeps, Counts
<1>2. e \in Nat /\ q.plan = t.plan
  BY EmptyStreakType DEF Progress, Task
<1>3. \/ u = RequestArbiter(p)
      \/ u = BackToReview(t, p)
      \/ u = NextItem(p, parked) /\ MoreItems(t)
      \/ u = ToReviewer(z, "final")
  BY DEF OwnerFinalized
<1> HIDE DEF q, e, z, u
<1>4. Keeps(q, p)
  BY <1>1, <1>2, CountersKeep
<1>5. p \in Task /\ p.plan = t.plan
  BY <1>1, <1>2, <1>4 DEF Keeps, Counts, Task
<1> HIDE DEF p
<1>6. z \in Task
  BY <1>5 DEF z, Task
<1>7. Keeps(p, z)
  BY <1>5, <1>6, SameKeeps DEF z, Task
<1>8. Keeps(p, u)
  <2>1. CASE u = RequestArbiter(p)
    BY <2>1, <1>5, RequestArbiterKeeps
  <2>2. CASE u = BackToReview(t, p)
    BY <2>2, <1>5, BackToReviewKeeps
  <2>3. CASE u = NextItem(p, parked) /\ MoreItems(t)
    BY <2>3, <1>5, NextItemKeeps DEF MoreItems
  <2>4. CASE u = ToReviewer(z, "final")
    <3>1. Keeps(z, ToReviewer(z, "final"))
      BY <1>6, ToReviewerKeeps
    <3>2. QED BY <3>1, <2>4, <1>5, <1>6, <1>7, KeepsTransitive
  <2>5. QED BY <1>3, <2>1, <2>2, <2>3, <2>4
<1>9. Keeps(t, u)
  BY <1>1, <1>4, <1>5, <1>8, KeepsTransitive
<1>10. QED BY <1>9 DEF u

LEMMA OwnerCompletesKeeps ==
  ASSUME task \in Task, NEW v, NEW changed \in BOOLEAN, NEW same \in BOOLEAN,
         NEW rejected \in BOOLEAN, NEW parked \in BOOLEAN
  PROVE  Keeps(task, OwnerCompletes(v, changed, same, rejected, parked))
BY OwnerWorkedKeeps, OwnerFinalizedKeeps DEF OwnerCompletes

-------------------------------------------------------------------------------
(* The reviewer's and the arbiter's completion *)

LEMMA ApprovedKeeps ==
  ASSUME NEW t \in Task PROVE Keeps(t, Approved(t))
<1>1. CASE t.phase = "final"
  <2> DEFINE c == Completed(t, "done")
  <2>1. Keeps(t, c)
    BY CompletedKeeps DEF Reasons
  <2>2. c \in Task
    BY <2>1 DEF Keeps, Counts
  <2>3. Approved(t) = [c EXCEPT !.fail = 0, !.empty = 0]
    BY <1>1 DEF Approved
  <2> HIDE DEF c
  <2>4. Keeps(c, [c EXCEPT !.fail = 0, !.empty = 0])
    BY <2>2, CountersKeep
  <2>5. QED BY <2>1, <2>2, <2>3, <2>4, KeepsTransitive
<1>2. CASE t.phase # "final"
  <2>1. Approved(t) = [t EXCEPT !.status = "merge_ready", !.phase = "implementation",
                                !.fail = 0, !.empty = 0]
    BY <1>2 DEF Approved
  <2>2. QED BY <2>1, StatusKeeps DEF Statuses
<1>3. QED BY <1>1, <1>2

LEMMA OwnerChangesKeeps ==
  ASSUME NEW t \in Task PROVE Keeps(t, OwnerChanges(t))
BY StatusKeeps DEF OwnerChanges, Statuses

LEMMA ReviewedKeeps ==
  ASSUME NEW t \in Task, NEW v PROVE Keeps(t, Reviewed(t, v))
<1>1. \/ Reviewed(t, v) = Approved(t)
      \/ Reviewed(t, v) = RequestArbiter(t)
      \/ Reviewed(t, v) = OwnerChanges(t)
  BY DEF Reviewed
<1>2. QED BY <1>1, ApprovedKeeps, RequestArbiterKeeps, OwnerChangesKeeps

\* Only the arbiter's escalation hands a goal to its user, and leaves it active.
Settles(t, u) == Counts(t, u) /\ (Stopped(u) => u.status = "active")

\* A new episode, in whatever status, with whatever verdict recorded.
LEMMA EpisodeSettles ==
  ASSUME NEW t \in Task, NEW u \in Task,
         u.round = 0, u.total = t.total, u.arb = t.arb,
         u.episode = t.episode + 1,
         u.super \in {"runnable", "waiting_user"},
         u.super = "waiting_user" => u.status = "active" \/ u.blocker # "user_input"
  PROVE  Settles(t, u)
BY DEF Settles, Counts, Task, Stopped

LEMMA NextEpisodeFields ==
  ASSUME NEW t \in Task, NEW super \in {"runnable", "waiting_user"}
  PROVE  LET n == NextEpisode(t, super)
         IN  /\ n \in Task
             /\ n.round = 0
             /\ n.total = t.total
             /\ n.arb = t.arb
             /\ n.episode = t.episode + 1
             /\ n.super = super
<1> DEFINE n == NextEpisode(t, super)
<1>1. n \in Task
  BY NextEpisodeCounts DEF Counts
<1>2. /\ n.round = 0
      /\ n.total = t.total
      /\ n.arb = t.arb
      /\ n.episode = t.episode + 1
      /\ n.super = super
  BY DEF NextEpisode, Task
<1>3. QED BY <1>1, <1>2

LEMMA DirectiveMissingSettles ==
  ASSUME NEW t \in Task PROVE Settles(t, DirectiveMissing(t))
<1> DEFINE u == DirectiveMissing(t)
<1>1. CASE t.fail = 0
  <2>1. u = [t EXCEPT !.status = "arbiter_requested", !.fail = 1, !.blocker = "protocol"]
    BY <1>1 DEF DirectiveMissing
  <2> HIDE DEF u
  <2>2. u \in Task
    BY <2>1 DEF Task, Statuses, Blockers
  <2>3. /\ u.round = t.round /\ u.total = t.total /\ u.arb = t.arb
        /\ u.episode = t.episode /\ u.super = t.super /\ u.waitRef = t.waitRef
        /\ u.blocker = "protocol"
    BY <2>1 DEF Task
  <2>4. Keeps(t, u) /\ ~Stopped(u)
    BY <2>2, <2>3, SameKeeps DEF Stopped
  <2>5. Settles(t, u)
    BY <2>4 DEF Settles, Keeps
  <2>6. QED BY <2>5 DEF u
<1>2. CASE t.fail # 0
  <2> DEFINE n == NextEpisode(t, "waiting_user")
             f == n.fail + 1
  <2>1. n \in Task /\ n.round = 0 /\ n.total = t.total /\ n.arb = t.arb
        /\ n.episode = t.episode + 1 /\ n.super = "waiting_user"
    BY NextEpisodeFields
  <2>2. u = [n EXCEPT !.status = "active", !.fail = f, !.blocker = "protocol"]
    BY <1>2 DEF DirectiveMissing
  <2>3. f \in Nat
    BY <2>1 DEF Task
  <2> HIDE DEF n, f, u
  <2>4. u \in Task
    BY <2>1, <2>2, <2>3 DEF Task, Statuses, Blockers
  <2>5. u.round = 0 /\ u.total = t.total /\ u.arb = t.arb
        /\ u.episode = t.episode + 1 /\ u.super = "waiting_user" /\ u.status = "active"
    BY <2>1, <2>2 DEF Task
  <2>6. Settles(t, u)
    BY <2>4, <2>5, EpisodeSettles
  <2>7. QED BY <2>6 DEF u
<1>3. QED BY <1>1, <1>2

LEMMA DirectiveMismatchSettles ==
  ASSUME NEW t \in Task, NEW d \in Directives \cup {None}
  PROVE  Settles(t, DirectiveMismatch(t, d))
<1> DEFINE n == NextEpisode(t, "waiting_user")
           u == DirectiveMismatch(t, d)
<1>1. n \in Task /\ n.round = 0 /\ n.total = t.total /\ n.arb = t.arb
      /\ n.episode = t.episode + 1 /\ n.super = "waiting_user"
  BY NextEpisodeFields
<1>2. u = [n EXCEPT !.status = "active", !.blocker = "protocol", !.directive = d]
  BY DEF DirectiveMismatch
<1> HIDE DEF n, u
<1>3. u \in Task
  BY <1>1, <1>2 DEF Task, Statuses, Blockers
<1>4. u.round = 0 /\ u.total = t.total /\ u.arb = t.arb
      /\ u.episode = t.episode + 1 /\ u.super = "waiting_user" /\ u.status = "active"
  BY <1>1, <1>2 DEF Task
<1>5. Settles(t, u)
  BY <1>3, <1>4, EpisodeSettles
<1>6. QED BY <1>5 DEF u

LEMMA ArbitratedSettles ==
  ASSUME NEW t \in Task, NEW v, NEW d \in Directives
  PROVE  Settles(t, Arbitrated(t, v, d))
<1> DEFINE n == NextEpisode(t, "runnable")
           w == NextEpisode(t, "waiting_user")
           s == IF v = "proceed" THEN "review_ready" ELSE "active"
           a == [n EXCEPT !.status = s, !.fail = 0, !.empty = 0, !.directive = d]
           k == t.stagn
           u == Arbitrated(t, v, d)
<1>1. n \in Task /\ n.round = 0 /\ n.total = t.total /\ n.arb = t.arb
      /\ n.episode = t.episode + 1 /\ n.super = "runnable"
  BY NextEpisodeFields
<1>2. w \in Task /\ w.round = 0 /\ w.total = t.total /\ w.arb = t.arb
      /\ w.episode = t.episode + 1 /\ w.super = "waiting_user"
  BY NextEpisodeFields
<1>3. s \in Statuses /\ k \in Nat /\ (v = "escalate" => s = "active")
  BY DEF Statuses, Task
<1>4. \/ u = [w EXCEPT !.status = "active", !.stagn = k, !.blocker = "stagnation",
                       !.directive = d]
      \/ v = "escalate" /\ u = [a EXCEPT !.super = "waiting_user", !.blocker = "user_input"]
      \/ u = a
  BY DEF Arbitrated
<1> HIDE DEF n, w, s, k, u
<1>5. a \in Task
  BY <1>1, <1>3 DEF Task
<1>6. a.round = 0 /\ a.total = t.total /\ a.arb = t.arb
      /\ a.episode = t.episode + 1 /\ a.super = "runnable" /\ a.status = s
  BY <1>1 DEF Task
<1> HIDE DEF a
<1>7. CASE u = [w EXCEPT !.status = "active", !.stagn = k, !.blocker = "stagnation",
                         !.directive = d]
  <2>1. u \in Task
    BY <1>2, <1>3, <1>7 DEF Task, Statuses, Blockers
  <2>2. u.round = 0 /\ u.total = t.total /\ u.arb = t.arb
        /\ u.episode = t.episode + 1 /\ u.super = "waiting_user" /\ u.status = "active"
    BY <1>2, <1>7 DEF Task
  <2>3. QED BY <2>1, <2>2, EpisodeSettles DEF u
<1>8. CASE v = "escalate" /\ u = [a EXCEPT !.super = "waiting_user", !.blocker = "user_input"]
  <2>1. u \in Task
    BY <1>5, <1>8 DEF Task, SupervisorStates, Blockers
  <2>2. u.round = 0 /\ u.total = t.total /\ u.arb = t.arb
        /\ u.episode = t.episode + 1 /\ u.super = "waiting_user" /\ u.status = "active"
    BY <1>3, <1>5, <1>6, <1>8 DEF Task
  <2>3. QED BY <2>1, <2>2, EpisodeSettles DEF u
<1>9. CASE u = a
  BY <1>5, <1>6, <1>9, EpisodeSettles DEF u
<1>10. QED BY <1>4, <1>7, <1>8, <1>9

LEMMA ArbiterOutcomesSettle ==
  ASSUME NEW t \in Task, NEW v, NEW u \in ArbiterOutcomes(t, v)
  PROVE  Settles(t, u)
BY ArbitratedSettles, DirectiveMissingSettles, DirectiveMismatchSettles
   DEF ArbiterOutcomes

-------------------------------------------------------------------------------
(* Failed runs *)

LEMMA OwnerFailedKeeps ==
  ASSUME NEW t \in Task, NEW kind PROVE Keeps(t, OwnerFailed(t, kind))
<1> DEFINE n == t.fail + 1
           f == [t EXCEPT !.fail = n]
           u == OwnerFailed(t, kind)
<1>1. n \in Nat
  BY DEF Task
<1>2. \/ u = Completed(f, "escalated")
      \/ u = RequestArbiter(f)
      \/ u = f
      \/ u = [f EXCEPT !.status = "active"]
  BY DEF OwnerFailed
<1> HIDE DEF n, u
<1>3. Keeps(t, f)
  BY <1>1, CountersKeep
<1>4. f \in Task
  BY <1>3 DEF Keeps, Counts
<1> HIDE DEF f
<1>5. Keeps(f, u)
  BY <1>2, <1>4, CompletedKeeps, RequestArbiterKeeps, KeepsItself, StatusKeeps
     DEF Reasons, Statuses
<1>6. Keeps(t, u)
  BY <1>3, <1>4, <1>5, KeepsTransitive
<1>7. QED BY <1>6 DEF u

LEMMA ReviewerFailedKeeps ==
  ASSUME NEW t \in Task, NEW kind, NEW v PROVE Keeps(t, ReviewerFailed(t, kind, v))
<1> DEFINE s == IF t.status = "in_review" THEN "review_ready" ELSE t.status
           a == [t EXCEPT !.status = s, !.super = "waiting_user",
                          !.blocker = "authentication", !.waitRef = None]
           u == ReviewerFailed(t, kind, v)
<1>1. s \in Statuses
  BY DEF Task, Statuses
<1>2. \/ u = a
      \/ u = Completed(t, "done")
      \/ u = Approved(t)
      \/ u = OwnerChanges(t)
      \/ u = Completed(t, "escalated")
      \/ u = [t EXCEPT !.status = s]
  BY DEF ReviewerFailed
<1> HIDE DEF s, u
<1>3. Keeps(t, a)
  <2>1. a \in Task
    BY <1>1 DEF Task, SupervisorStates, Blockers
  <2>2. QED BY <2>1, SameKeeps DEF Task
<1> HIDE DEF a
<1>4. Keeps(t, u)
  BY <1>1, <1>2, <1>3, CompletedKeeps, ApprovedKeeps, OwnerChangesKeeps, StatusKeeps
     DEF Reasons
<1>5. QED BY <1>4 DEF u

LEMMA ArbiterFailedKeeps ==
  ASSUME NEW t \in Task, NEW kind PROVE Keeps(t, ArbiterFailed(t, kind))
<1> DEFINE n == t.fail + 1
           a == [t EXCEPT !.status = "active", !.fail = n, !.empty = 0]
           s == IF t.status = "in_arbitration" THEN "arbiter_requested" ELSE t.status
           u == ArbiterFailed(t, kind)
<1>1. n \in Nat /\ s \in Statuses
  BY DEF Task, Statuses
<1>2. u = a \/ u = [t EXCEPT !.status = s]
  BY DEF ArbiterFailed
<1> HIDE DEF n, s, u
<1>3. Keeps(t, a)
  <2>1. a \in Task
    BY <1>1 DEF Task, Statuses
  <2>2. QED BY <2>1, SameKeeps DEF Task
<1> HIDE DEF a
<1>4. Keeps(t, u)
  BY <1>1, <1>2, <1>3, StatusKeeps
<1>5. QED BY <1>4 DEF u

LEMMA FailedKeeps ==
  ASSUME NEW t \in Task, NEW role, NEW kind, NEW v
  PROVE  Keeps(t, Failed(t, role, kind, v))
<1>1. \/ Failed(t, role, kind, v) = ParkForRetry(t)
      \/ Failed(t, role, kind, v) = OwnerFailed(t, kind)
      \/ Failed(t, role, kind, v) = ReviewerFailed(t, kind, v)
      \/ Failed(t, role, kind, v) = ArbiterFailed(t, kind)
  BY DEF Failed
<1>2. QED
  BY <1>1, ParkForRetryKeeps, OwnerFailedKeeps, ReviewerFailedKeeps, ArbiterFailedKeeps

-------------------------------------------------------------------------------
(* Messages and the preparation of a run *)

LEMMA NewTaskType == NewTask \in Task
BY NoneAssumption DEF NewTask, Task, Statuses, SupervisorStates

LEMMA ResolvedKeeps ==
  ASSUME NEW t \in Task PROVE Keeps(t, ResolvedForHuman(t))
<1>1. CASE t.super \in {"waiting_user", "parked"}
  <2> DEFINE k == t.episode + 1
             u == ResolvedForHuman(t)
  <2>1. k \in Nat /\ k >= t.episode
    BY DEF Task
  <2>2. u = [t EXCEPT !.super = "runnable", !.episode = k, !.round = 0,
                         !.stagn = 0, !.blocker = None, !.waitRef = None]
    BY <1>1 DEF ResolvedForHuman
  <2> HIDE DEF k, u
  <2>3. u \in Task
    BY <2>1, <2>2 DEF Task, SupervisorStates
  <2>4. u.round = 0 /\ u.total = t.total /\ u.arb = t.arb
        /\ u.episode = k /\ u.super = "runnable"
    BY <2>2 DEF Task
  <2>5. Keeps(t, u)
    BY <2>1, <2>3, <2>4 DEF Keeps, Counts, Task, Stopped
  <2>6. QED BY <2>5 DEF u
<1>2. CASE t.super \notin {"waiting_user", "parked"}
  BY <1>2, KeepsItself DEF ResolvedForHuman
<1>3. QED BY <1>1, <1>2

LEMMA WithPlanKeeps ==
  ASSUME NEW t \in Task, NEW n \in PlanLengths PROVE Keeps(t, WithPlan(t, n))
<1> DEFINE u == WithPlan(t, n)
<1>1. u = [t EXCEPT !.super = "runnable", !.blocker = None, !.plan = n]
  BY DEF WithPlan
<1>2. n \in Nat
  BY InputsAssumption
<1> HIDE DEF u
<1>3. u \in Task
  BY <1>1, <1>2 DEF Task, SupervisorStates
<1>4. u.round = t.round /\ u.total = t.total /\ u.arb = t.arb
      /\ u.episode = t.episode /\ u.super = "runnable"
  BY <1>1 DEF Task
<1>5. Keeps(t, u)
  BY <1>3, <1>4, SameKeeps DEF SupervisorStates
<1>6. QED BY <1>5 DEF u

LEMMA AfterMessageKeeps ==
  ASSUME NEW t \in Task, NEW u \in AfterMessage(t)
  PROVE  Keeps(t, u)
BY KeepsItself, WithPlanKeeps DEF AfterMessage

LEMMA PreparedForOwnerKeeps ==
  ASSUME NEW row \in Task PROVE Keeps(row, PreparedForOwner(row))
<1> DEFINE s == IF row.status \in {"review_ready", "in_review"} THEN "active" ELSE row.status
           t == [row EXCEPT !.status = s]
           u == [t EXCEPT !.round = 0, !.fail = 0, !.empty = 0]
<1>0. s \in Statuses
  BY DEF Statuses, Task
<1>1. PreparedForOwner(row) = t \/ PreparedForOwner(row) = u
  BY DEF PreparedForOwner
<1> HIDE DEF s
<1>2. Keeps(row, t)
  BY <1>0, StatusKeeps
<1>3. t \in Task
  BY <1>2 DEF Keeps, Counts
<1> HIDE DEF t
<1>4. Keeps(t, u)
  <2>1. u \in Task
    BY <1>3 DEF Task
  <2>2. u.round = 0 /\ u.total = t.total /\ u.arb = t.arb
        /\ u.episode = t.episode /\ u.super = t.super /\ u.waitRef = t.waitRef
        /\ u.blocker = t.blocker
    BY <1>3 DEF Task
  <2> HIDE DEF u
  <2>3. QED BY <1>3, <2>1, <2>2 DEF Keeps, Counts, Task, Stopped
<1> HIDE DEF u
<1>5. QED BY <1>1, <1>2, <1>3, <1>4, KeepsTransitive

LEMMA PreparedForReadonlyKeeps ==
  ASSUME task \in Task, NEW pending, NEW active \in Statuses, NEW count \in {0, 1}
  PROVE  Keeps(task, PreparedForReadonly(pending, active, count))
<1> DEFINE n == task.arb + count
           u == [task EXCEPT !.status = active, !.arb = n]
<1>1. n \in Nat /\ n >= task.arb
  BY DEF Task
<1>2. \/ PreparedForReadonly(pending, active, count) = u
      \/ PreparedForReadonly(pending, active, count) = task
  BY DEF PreparedForReadonly
<1> HIDE DEF n
<1>3. u \in Task
  BY <1>1 DEF Task
<1>4. u.round = task.round /\ u.total = task.total /\ u.arb = n
      /\ u.episode = task.episode /\ u.super = task.super
      /\ u.waitRef = task.waitRef /\ u.blocker = task.blocker
  BY DEF Task
<1> HIDE DEF u
<1>5. Keeps(task, u)
  BY <1>1, <1>3, <1>4 DEF Keeps, Counts, Task, Stopped
<1>6. QED BY <1>2, <1>5, KeepsItself

-------------------------------------------------------------------------------
(* The inductive invariant *)

\* TypeOK without the row.
RestOK ==
  /\ goal \in Nat
  /\ last \in Outputs
  /\ run \in Run
  /\ human \in {"none", "new", "old"}
  /\ watchers \in [Watchers -> {"unused", "active", "paused", "ended"}]
  /\ turns \in Nat
  /\ messages \in Nat
  /\ finalized \in BOOLEAN
  /\ refused \in BOOLEAN
  /\ revived \in BOOLEAN

\* A stopped goal is active: the automation left no review or arbitration open.
StoppedIsActive == Stopped(task) => task.status = "active"

RowInv ==
  /\ task \in Task
  /\ RoundsWithinTotal
  /\ StoppedIsActive
  /\ ExternalWaitIsWatched

\* A goal is not closed while a run of it is in flight.
RunIsOpen == run # Idle => Open

IInv == RestOK /\ RowInv /\ RunIsOpen

\* What a step may do to the row (the three action properties of PairedTask).
Steady ==
  /\ goal' = goal =>
       /\ task'.total >= task.total
       /\ task'.arb >= task.arb
       /\ task'.episode >= task.episode
  /\ Open /\ Stopped(task) /\ goal' = goal =>
       \/ /\ <<task'.status, task'.total, task'.arb>> = <<task.status, task.total, task.arb>>
          /\ \/ Stopped(task')
             \/ run.stage = "stopped" /\ run.intent = "owner-turn" /\ run' = Idle
       \/ human # "none" /\ human' = "none" /\ run'.human
       \/ task'.reason = "stopped"
  /\ task.status = "completed" /\ goal' = goal => task' = task

\* A handler leaves the row alone, or moves an open goal that is not stopped.
Handled ==
  \/ task' = task
  \/ task.status # "completed" /\ ~Stopped(task) /\ Settles(task, task')

LEMMA HandledStep ==
  ASSUME RowInv, goal' = goal, watchers' = watchers, Handled
  PROVE  RowInv' /\ Steady
<1>1. CASE task' = task
  BY <1>1 DEF RowInv, RoundsWithinTotal, StoppedIsActive, ExternalWaitIsWatched,
              Open, Stopped, Steady, Task
<1>2. CASE task.status # "completed" /\ ~Stopped(task) /\ Settles(task, task')
  <2>1. task \in Task /\ task' \in Task
    BY <1>2 DEF RowInv, Settles, Counts
  <2>2. task'.round <= task'.total
    BY <1>2 DEF RowInv, Settles, Counts, RoundsWithinTotal
  <2>3. ExternalWaitIsWatched'
    BY <1>2 DEF RowInv, Settles, Counts, ExternalWaitIsWatched, Open
  <2>4. RowInv'
    BY <1>2, <2>1, <2>2, <2>3 DEF RowInv, Settles, RoundsWithinTotal, StoppedIsActive, Stopped
  <2>5. Steady
    BY <1>2 DEF Settles, Counts, Steady
  <2>6. QED BY <2>4, <2>5
<1>3. QED BY <1>1, <1>2 DEF Handled

LEMMA WriteStep ==
  ASSUME NEW from, NEW t, refused \in BOOLEAN, Write(from, t)
  PROVE  (task' = task \/ task' = t) /\ refused' \in BOOLEAN
BY Zenon DEF Write

\* A completion is written only to an open goal that is not stopped.
LEMMA CompletesStep ==
  ASSUME RestOK, RowInv, NEW t, Keeps(task, t), Completes(t)
  PROVE  Handled /\ refused' \in BOOLEAN
<1>1. CASE task.status = "completed" \/ Stopped(task)
  BY <1>1 DEF Completes, Handled, RestOK
<1>2. CASE ~(task.status = "completed" \/ Stopped(task))
  <2>1. Write(task.status, t)
    BY <1>2 DEF Completes, Commit
  <2>2. (task' = task \/ task' = t) /\ refused' \in BOOLEAN
    BY <2>1, WriteStep DEF RestOK
  <2>3. Settles(task, t)
    BY <1>2 DEF Keeps, Settles
  <2>4. QED BY <1>2, <2>2, <2>3 DEF Handled
<1>3. QED BY <1>1, <1>2

LEMMA MessageAgesStep ==
  ASSUME RestOK, MessageAges PROVE human' \in {"none", "new", "old"}
BY DEF RestOK, MessageAges

-------------------------------------------------------------------------------
(* Every action preserves it *)

\* A claim starts a run of an open goal.
LEMMA ClaimStep ==
  ASSUME RestOK, NEW intent \in Intents, NEW byHuman \in BOOLEAN,
         Claim(intent, byHuman)
  PROVE  run' \in Run /\ run'.human = byHuman /\ turns' \in Nat /\ revived' \in BOOLEAN
<1>1. run' = [stage |-> "claimed", intent |-> intent, human |-> byHuman]
  BY DEF Claim
<1>2. run' \in Run
  BY <1>1 DEF Run, Stages
<1>3. turns' \in Nat
  BY DEF Claim, RestOK
<1>4. revived' \in BOOLEAN
  BY Zenon DEF Claim
<1>5. QED BY <1>1, <1>2, <1>3, <1>4

LEMMA EndRunStep ==
  ASSUME EndRun
  PROVE  /\ run' = Idle /\ run' \in Run
         /\ goal' = goal /\ watchers' = watchers /\ turns' = turns /\ messages' = messages
BY DEF EndRun, Run

LEMMA IntentTypes ==
  ASSUME NEW t \in Task, NEW l
  PROVE  /\ HumanTurnIntent(t) \in Intents
         /\ NextTurn(t, l) \in Intents \cup {"none"}
         /\ PendingTurn(t, l) \in Intents \cup {"none"}
<1>1. HumanTurnIntent(t) \in Intents
  BY DEF HumanTurnIntent, Intents
<1>2. NextTurn(t, l) \in Intents \cup {"none"}
  BY DEF NextTurn, Intents
<1>3. PendingTurn(t, l) \in Intents \cup {"none"}
  BY <1>2 DEF PendingTurn, Intents
<1>4. QED BY <1>1, <1>2, <1>3

LEMMA HumanWritesStep ==
  ASSUME IInv, HumanWrites PROVE IInv' /\ Steady
<1>1. RestOK'
  BY DEF IInv, RestOK, HumanWrites
<1>2. RowInv' /\ Steady
  BY HandledStep DEF IInv, Handled, HumanWrites
<1>3. RunIsOpen'
  BY DEF IInv, RunIsOpen, Open, HumanWrites
<1>4. QED BY <1>1, <1>2, <1>3 DEF IInv

LEMMA HumanStartsGoalStep ==
  ASSUME IInv, HumanStartsGoal PROVE IInv' /\ Steady
<1>1. PICK t \in AfterMessage(NewTask) : HumanTurn(t, goal + 1, NoOutput)
  BY DEF HumanStartsGoal
<1>2. Keeps(NewTask, t) /\ t \in Task
  BY AfterMessageKeeps, NewTaskType DEF Keeps, Counts
<1>3. t.super # "waiting_external" /\ ~Stopped(t) /\ t.round <= t.total
  BY <1>2 DEF Keeps, Counts, NewTask, Stopped
<1>4. run' \in Run /\ turns' \in Nat /\ revived' \in BOOLEAN
  BY <1>1, <1>2, ClaimStep, IntentTypes DEF HumanTurn, IInv
<1>5. goal' = goal + 1 /\ goal' \in Nat /\ goal' > 0 /\ goal' # goal
  BY <1>1 DEF HumanTurn, IInv, RestOK
<1>6. finalized' \in BOOLEAN
  BY <1>1, Zenon DEF HumanTurn
<1>7. RestOK'
  BY <1>1, <1>4, <1>5, <1>6 DEF HumanTurn, IInv, RestOK, Outputs
<1>8. task' = t /\ t.status # "completed"
  BY <1>1 DEF HumanTurn, Runnable
<1>9. RowInv'
  BY <1>2, <1>3, <1>8 DEF RowInv, RoundsWithinTotal, StoppedIsActive, Stopped,
                          ExternalWaitIsWatched, Open
<1>10. RunIsOpen'
  BY <1>5, <1>8 DEF RunIsOpen, Open
<1>11. Steady
  BY <1>5 DEF Steady
<1>12. QED BY <1>7, <1>9, <1>10, <1>11 DEF IInv

LEMMA HumanContinuesGoalStep ==
  ASSUME IInv, HumanContinuesGoal PROVE IInv' /\ Steady
<1>1. PICK t \in AfterMessage(ResolvedForHuman(task)) : HumanTurn(t, goal, last)
  BY DEF HumanContinuesGoal
<1>2. Open /\ goal' = goal /\ watchers' = watchers /\ task' = t
  BY <1>1 DEF HumanContinuesGoal, NewGoalForHuman, HumanTurn
<1>3. task \in Task
  BY DEF IInv, RowInv
<1>4. Keeps(task, t) /\ t \in Task
  <2>1. Keeps(task, ResolvedForHuman(task)) /\ ResolvedForHuman(task) \in Task
    BY <1>3, ResolvedKeeps DEF Keeps, Counts
  <2>2. Keeps(ResolvedForHuman(task), t)
    BY <2>1, AfterMessageKeeps
  <2>3. QED BY <1>3, <2>1, <2>2, KeepsTransitive DEF Keeps, Counts
<1>5. Runnable(t) /\ ~Stopped(t)
  BY <1>1 DEF HumanTurn, Runnable, Stopped
<1>6. run' \in Run /\ run'.human /\ turns' \in Nat /\ revived' \in BOOLEAN
  BY <1>1, <1>4, ClaimStep, IntentTypes DEF HumanTurn, IInv
<1>7. human # "none" /\ human' = "none"
  BY <1>1 DEF HumanContinuesGoal, HumanTurn, Fresh
<1>8. RestOK'
  <2>1. finalized' \in BOOLEAN
    BY <1>1, Zenon DEF HumanTurn
  <2>2. QED BY <1>1, <1>6, <2>1 DEF HumanTurn, IInv, RestOK
<1>9. RowInv'
  BY <1>2, <1>4, <1>5 DEF IInv, RowInv, Keeps, Counts, RoundsWithinTotal,
                          StoppedIsActive, ExternalWaitIsWatched, Open
<1>10. RunIsOpen'
  BY <1>2, <1>5 DEF RunIsOpen, Open, Runnable
<1>11. Steady
  BY <1>2, <1>4, <1>6, <1>7 DEF Steady, Keeps, Counts, Open
<1>12. QED BY <1>8, <1>9, <1>10, <1>11 DEF IInv

LEMMA StaleMessageStep ==
  ASSUME IInv, StaleMessage PROVE IInv' /\ Steady
<1>1. RowInv' /\ Steady
  BY HandledStep DEF IInv, Handled, StaleMessage
<1>2. task \in Task /\ run = Idle
  BY DEF IInv, RowInv, StaleMessage
<1>3. CASE NextTurn(task, last) = "none"
  <2>1. RestOK' /\ RunIsOpen'
    BY <1>2, <1>3 DEF IInv, RestOK, RunIsOpen, StaleMessage
  <2>2. QED BY <1>1, <2>1 DEF IInv
<1>4. CASE NextTurn(task, last) # "none"
  <2>1. Runnable(task) /\ Claim(NextTurn(task, last), TRUE)
    BY <1>4 DEF StaleMessage
  <2>2. NextTurn(task, last) \in Intents
    BY <1>2, <1>4, IntentTypes
  <2>3. run' \in Run /\ turns' \in Nat /\ revived' \in BOOLEAN
    BY <2>1, <2>2, ClaimStep DEF IInv
  <2>4. RestOK'
    BY <2>3 DEF IInv, RestOK, StaleMessage
  <2>5. Open
    BY DEF StaleMessage, Fresh
  <2>6. RunIsOpen'
    BY <2>5 DEF RunIsOpen, Open, StaleMessage
  <2>7. QED BY <1>1, <2>4, <2>6 DEF IInv
<1>5. QED BY <1>3, <1>4

LEMMA FollowUpStep ==
  ASSUME IInv, FollowUp PROVE IInv' /\ Steady
<1>1. RowInv' /\ Steady
  BY HandledStep DEF IInv, Handled, FollowUp
<1>2. PendingTurn(task, last) \in Intents
  BY IntentTypes DEF IInv, RowInv, FollowUp
<1>3. run' \in Run /\ turns' \in Nat /\ revived' \in BOOLEAN
  BY <1>2, ClaimStep DEF IInv, FollowUp
<1>4. RestOK'
  BY <1>3 DEF IInv, RestOK, FollowUp
<1>5. RunIsOpen'
  BY DEF RunIsOpen, Open, FollowUp
<1>6. QED BY <1>1, <1>4, <1>5 DEF IInv

LEMMA PrepareStep ==
  ASSUME IInv, Prepare PROVE IInv' /\ Steady
<1> DEFINE t == CASE RoleOf(run.intent) = "reviewer" ->
                       PreparedForReadonly("review_ready", "in_review", 0)
                  [] RoleOf(run.intent) = "arbiter" ->
                       PreparedForReadonly("arbiter_requested", "in_arbitration", 1)
                  [] OTHER -> PreparedForOwner(task)
<1>1. run.stage = "claimed" /\ ~Stopped(task) /\ Commit(t)
  BY DEF Prepare
<1>2. Keeps(task, t)
  BY PreparedForReadonlyKeeps, PreparedForOwnerKeeps DEF IInv, RowInv, Statuses
<1> HIDE DEF t
<1>3. run # Idle /\ Open
  BY <1>1 DEF IInv, RunIsOpen, Idle
<1>4. (task' = task \/ task' = t) /\ refused' \in BOOLEAN
  BY <1>1, WriteStep DEF Commit, IInv, RestOK
<1>5. Handled
  BY <1>1, <1>2, <1>3, <1>4 DEF Handled, Keeps, Settles, Open
<1>6. goal' = goal /\ watchers' = watchers
  BY DEF Prepare
<1>7. RowInv' /\ Steady
  BY <1>5, <1>6, HandledStep DEF IInv
<1>8. RestOK'
  <2>1. run' \in Run
    BY <1>3 DEF IInv, RestOK, Run, Stages, Prepare
  <2>2. finalized' \in BOOLEAN
    BY Zenon DEF Prepare
  <2>3. human' \in {"none", "new", "old"}
    BY MessageAgesStep DEF IInv, Prepare
  <2>4. QED BY <1>4, <2>1, <2>2, <2>3 DEF IInv, RestOK, Prepare
<1>9. task'.status # "completed"
  <2>1. task.status # "completed" /\ task \in Task
    BY <1>3 DEF Open, IInv, RowInv
  <2>2. t.status # "completed"
    BY <2>1 DEF t, PreparedForReadonly, PreparedForOwner, Task
  <2>3. QED BY <1>4, <2>1, <2>2
<1>10. RunIsOpen'
  BY <1>3, <1>6, <1>9 DEF RunIsOpen, Open
<1>11. QED BY <1>7, <1>8, <1>10 DEF IInv

\* A run that /stop met before its preparation.
LEMMA StoppedRunPreparesStep ==
  ASSUME IInv, StoppedRunPrepares PROVE IInv' /\ Steady
<1> DEFINE t == IF run.intent = "owner-turn" THEN PreparedForOwner(ResolvedForHuman(task))
                                             ELSE task
<1>1. /\ run.stage = "stopped" /\ task' = t /\ EndRun /\ MessageAges
      /\ UNCHANGED <<last, finalized, refused>>
  BY DEF StoppedRunPrepares
<1>2. /\ run' = Idle /\ run' \in Run
      /\ goal' = goal /\ watchers' = watchers /\ turns' = turns /\ messages' = messages
  BY <1>1, EndRunStep
<1>3. task \in Task
  BY DEF IInv, RowInv
<1>4. Keeps(task, t)
  <2>1. Keeps(task, ResolvedForHuman(task)) /\ ResolvedForHuman(task) \in Task
    BY <1>3, ResolvedKeeps DEF Keeps, Counts
  <2>2. Keeps(ResolvedForHuman(task), PreparedForOwner(ResolvedForHuman(task)))
    BY <2>1, PreparedForOwnerKeeps
  <2>3. Keeps(task, PreparedForOwner(ResolvedForHuman(task)))
    BY <1>3, <2>1, <2>2, KeepsTransitive DEF Keeps, Counts
  <2>4. QED BY <1>3, <2>3, KeepsItself
<1>5. RestOK'
  <2>1. human' \in {"none", "new", "old"}
    BY <1>1, MessageAgesStep DEF IInv
  <2>2. revived' \in BOOLEAN
    BY Zenon DEF StoppedRunPrepares
  <2>3. QED BY <1>1, <1>2, <2>1, <2>2 DEF IInv, RestOK
<1>6. RunIsOpen'
  BY <1>2 DEF RunIsOpen, Idle
<1>7. Open
  BY <1>1 DEF IInv, RunIsOpen, Idle
<1>8. CASE Stopped(task)
  <2>1. /\ t.status = task.status /\ t.total = task.total /\ t.arb = task.arb
        /\ t.super \in {"runnable", "waiting_user"}
        /\ run.intent # "owner-turn" => t = task
        /\ run.intent = "owner-turn" => t.super = "runnable"
    <3>1. task.status = "active" /\ task.super = "waiting_user"
      BY <1>8 DEF IInv, RowInv, StoppedIsActive, Stopped
    <3>2. CASE run.intent = "owner-turn"
      <4> DEFINE k == task.episode + 1
                 r == [task EXCEPT !.super = "runnable", !.episode = k, !.round = 0,
                                   !.stagn = 0, !.blocker = None, !.waitRef = None]
                 a == [r EXCEPT !.status = IF @ \in {"review_ready", "in_review"}
                                           THEN "active" ELSE @]
                 u == [a EXCEPT !.round = 0, !.fail = 0, !.empty = 0]
      <4>1. ResolvedForHuman(task) = r
        BY <3>1 DEF ResolvedForHuman
      <4>2. t = u
        BY <3>2, <4>1 DEF PreparedForOwner
      <4>3. /\ r.status = "active" /\ r.total = task.total /\ r.arb = task.arb
            /\ r.super = "runnable"
        BY <1>3, <3>1 DEF Task
      <4>4. /\ u.status = "active" /\ u.total = task.total /\ u.arb = task.arb
            /\ u.super = "runnable"
        BY <1>3, <3>1 DEF Task
      <4>5. QED BY <3>1, <3>2, <4>2, <4>4
    <3>3. CASE run.intent # "owner-turn"
      BY <3>1, <3>3
    <3>4. QED BY <3>2, <3>3
  <2> HIDE DEF t
  <2>2. Steady
    BY <1>1, <1>2, <1>3, <1>4, <1>7, <1>8, <2>1 DEF Steady, Keeps, Counts, Open, Task
  <2>3. RowInv'
    BY <1>1, <1>2, <1>4, <1>8, <2>1 DEF IInv, RowInv, Keeps, Counts, RoundsWithinTotal,
                                        StoppedIsActive, Stopped, ExternalWaitIsWatched
  <2>4. QED BY <1>5, <1>6, <2>2, <2>3 DEF IInv
<1> HIDE DEF t
<1>9. CASE ~Stopped(task)
  <2>1. Handled
    BY <1>1, <1>4, <1>7, <1>9 DEF Handled, Keeps, Settles, Open
  <2>2. QED BY <1>2, <1>5, <1>6, <2>1, HandledStep DEF IInv
<1>10. QED BY <1>8, <1>9

\* A step that ends the run and leaves the row to its handler.
LEMMA EndedStep ==
  ASSUME IInv, EndRun, Handled,
         last' \in Outputs, human' \in {"none", "new", "old"},
         finalized' \in BOOLEAN, refused' \in BOOLEAN, revived' \in BOOLEAN
  PROVE  IInv' /\ Steady
<1>1. /\ run' = Idle /\ run' \in Run
      /\ goal' = goal /\ watchers' = watchers /\ turns' = turns /\ messages' = messages
  BY EndRunStep
<1>2. RowInv' /\ Steady
  BY <1>1, HandledStep DEF IInv
<1>3. RestOK'
  BY <1>1 DEF IInv, RestOK
<1>4. RunIsOpen'
  BY <1>1 DEF RunIsOpen, Idle
<1>5. QED BY <1>2, <1>3, <1>4 DEF IInv

LEMMA OwnerCompletesTurnStep ==
  ASSUME IInv, OwnerCompletesTurn PROVE IInv' /\ Steady
<1>1. PICK v \in OwnerVerdicts, changed \in BOOLEAN, parked \in BOOLEAN,
           same \in SameProgress :
        /\ Completes(OwnerCompletes(v, changed, same, FALSE, parked))
        /\ last' = [role |-> "owner", verdict |-> v]
        /\ finalized' = FinalizedBy(task, task')
  BY DEF OwnerCompletesTurn
<1>2. same \in BOOLEAN /\ v \in Verdicts
  BY InputsAssumption
<1>3. task \in Task
  BY DEF IInv, RowInv
<1>4. Keeps(task, OwnerCompletes(v, changed, same, FALSE, parked))
  BY <1>2, <1>3, OwnerCompletesKeeps
<1>5. Handled /\ refused' \in BOOLEAN
  BY <1>1, <1>4, CompletesStep DEF IInv
<1>6. finalized' \in BOOLEAN
  BY <1>1, Zenon DEF FinalizedBy
<1>7. last' \in Outputs
  BY <1>1, <1>2 DEF Outputs, Roles
<1>8. human' \in {"none", "new", "old"} /\ EndRun /\ revived' \in BOOLEAN
  BY MessageAgesStep DEF IInv, RestOK, OwnerCompletesTurn
<1>9. QED BY <1>5, <1>6, <1>7, <1>8, EndedStep

LEMMA RejectedOwnerEndsStep ==
  ASSUME IInv, RejectedOwnerEnds PROVE IInv' /\ Steady
<1>1. PICK changed \in BOOLEAN, parked \in BOOLEAN, same \in SameProgress :
        Completes(OwnerCompletes(last.verdict, changed, same, TRUE, parked))
  BY DEF RejectedOwnerEnds
<1>2. same \in BOOLEAN /\ task \in Task
  BY InputsAssumption DEF IInv, RowInv
<1>3. Keeps(task, OwnerCompletes(last.verdict, changed, same, TRUE, parked))
  BY <1>2, OwnerCompletesKeeps
<1>4. Handled /\ refused' \in BOOLEAN
  BY <1>1, <1>3, CompletesStep DEF IInv
<1>5. finalized' \in BOOLEAN
  BY Zenon DEF RejectedOwnerEnds, FinalizedBy
<1>6. last' \in Outputs /\ EndRun /\ revived' \in BOOLEAN
  BY DEF IInv, RestOK, RejectedOwnerEnds
<1>7. human' \in {"none", "new", "old"}
  BY MessageAgesStep DEF IInv, RejectedOwnerEnds
<1>8. QED BY <1>4, <1>5, <1>6, <1>7, EndedStep

LEMMA ReviewerCompletesStep ==
  ASSUME IInv, ReviewerCompletes PROVE IInv' /\ Steady
<1>1. Completes(Reviewed(task, last.verdict)) /\ EndRun
  BY DEF ReviewerCompletes
<1>2. Keeps(task, Reviewed(task, last.verdict))
  BY ReviewedKeeps DEF IInv, RowInv
<1>3. Handled /\ refused' \in BOOLEAN
  BY <1>1, <1>2, CompletesStep DEF IInv
<1>4. last' \in Outputs /\ finalized' \in BOOLEAN /\ revived' \in BOOLEAN
  BY DEF IInv, RestOK, ReviewerCompletes
<1>5. human' \in {"none", "new", "old"}
  BY MessageAgesStep DEF IInv, ReviewerCompletes
<1>6. QED BY <1>1, <1>3, <1>4, <1>5, EndedStep

LEMMA ArbiterCompletesStep ==
  ASSUME IInv, ArbiterCompletes PROVE IInv' /\ Steady
<1>1. EndRun /\ last' \in Outputs /\ finalized' \in BOOLEAN /\ revived' \in BOOLEAN
  BY DEF IInv, RestOK, ArbiterCompletes
<1>2. human' \in {"none", "new", "old"}
  BY MessageAgesStep DEF IInv, ArbiterCompletes
<1>3. Handled /\ refused' \in BOOLEAN
  <2>1. CASE task.status = "completed" \/ Stopped(task)
    BY <2>1 DEF ArbiterCompletes, Handled, IInv, RestOK
  <2>2. CASE ~(task.status = "completed" \/ Stopped(task))
    <3>1. PICK t \in ArbiterOutcomes(task, last.verdict) : Write("in_arbitration", t)
      BY <2>2 DEF ArbiterCompletes
    <3>2. Settles(task, t)
      BY <3>1, ArbiterOutcomesSettle DEF IInv, RowInv
    <3>3. (task' = task \/ task' = t) /\ refused' \in BOOLEAN
      BY <3>1, WriteStep DEF IInv, RestOK
    <3>4. QED BY <2>2, <3>2, <3>3 DEF Handled
  <2>3. QED BY <2>1, <2>2
<1>4. QED BY <1>1, <1>2, <1>3, EndedStep

LEMMA RunFailsStep ==
  ASSUME IInv, RunFails PROVE IInv' /\ Steady
<1>1. PICK kind \in Failures \ {"crash"} :
        Completes(Failed(task, RoleOf(run.intent), kind,
                         IF run.stage = "spoken" THEN last.verdict ELSE "continue"))
  BY DEF RunFails
<1>2. Keeps(task, Failed(task, RoleOf(run.intent), kind,
                         IF run.stage = "spoken" THEN last.verdict ELSE "continue"))
  BY FailedKeeps DEF IInv, RowInv
<1>3. Handled /\ refused' \in BOOLEAN
  BY <1>1, <1>2, CompletesStep DEF IInv
<1>4. human' \in {"none", "new", "old"}
  BY MessageAgesStep DEF IInv, RunFails
<1>5. EndRun /\ last' \in Outputs /\ finalized' \in BOOLEAN /\ revived' \in BOOLEAN
  BY DEF IInv, RestOK, RunFails
<1>6. QED BY <1>3, <1>4, <1>5, EndedStep

LEMMA RunEndsWithoutCompletion ==
  ASSUME IInv, Interrupted \/ Crash \/ CancelledRunEnds PROVE IInv' /\ Steady
<1>1. EndRun /\ Handled
  BY DEF Interrupted, Crash, CancelledRunEnds, Handled
<1>2. /\ last' \in Outputs /\ finalized' \in BOOLEAN /\ refused' \in BOOLEAN
      /\ revived' \in BOOLEAN /\ human' \in {"none", "new", "old"}
  BY DEF IInv, RestOK, Interrupted, Crash, CancelledRunEnds
<1>3. QED BY <1>1, <1>2, EndedStep

\* An output is stored while the run goes on.
LEMMA SpeaksStep ==
  ASSUME IInv, OwnerIsRejected \/ ReadonlySpeaks PROVE IInv' /\ Steady
<1>1. run.stage = "working" /\ run' = [run EXCEPT !.stage = "spoken"]
  BY DEF OwnerIsRejected, ReadonlySpeaks
<1>2. run # Idle /\ run' \in Run
  BY <1>1 DEF Idle, Run, Stages, IInv, RestOK
<1>3. last' \in Outputs
  <2>1. CASE OwnerIsRejected
    BY <2>1, InputsAssumption DEF OwnerIsRejected, Outputs, Roles
  <2>2. CASE ReadonlySpeaks
    BY <2>2, InputsAssumption DEF ReadonlySpeaks, Outputs, Roles, RoleOf
  <2>3. QED BY <2>1, <2>2
<1>4. UNCHANGED <<task, goal, human, watchers, turns, messages, finalized, refused, revived>>
  BY DEF OwnerIsRejected, ReadonlySpeaks
<1>5. RowInv' /\ Steady
  BY <1>4, HandledStep DEF IInv, Handled
<1>6. RestOK'
  BY <1>2, <1>3, <1>4 DEF IInv, RestOK
<1>7. RunIsOpen'
  BY <1>2, <1>4 DEF IInv, RunIsOpen, Open
<1>8. QED BY <1>5, <1>6, <1>7 DEF IInv

LEMMA StopStep ==
  ASSUME IInv, Stop PROVE IInv' /\ Steady
<1> DEFINE u == [task EXCEPT !.status = "active", !.super = "waiting_user",
                             !.blocker = "user_input", !.phase = "implementation",
                             !.fail = 0, !.empty = 0, !.directive = None,
                             !.waitRef = None]
<1>1. Open /\ task' = u /\ goal' = goal /\ watchers' = watchers
  BY DEF Stop
<1>2. task \in Task
  BY DEF IInv, RowInv
<1>3. u \in Task
  BY <1>2 DEF Task, Statuses, SupervisorStates, Blockers
<1>4. /\ u.status = "active" /\ u.super = "waiting_user" /\ u.blocker = "user_input"
      /\ u.round = task.round /\ u.total = task.total /\ u.arb = task.arb
      /\ u.episode = task.episode
  BY <1>2 DEF Task
<1> HIDE DEF u
<1>5. RowInv'
  BY <1>1, <1>3, <1>4 DEF IInv, RowInv, RoundsWithinTotal, StoppedIsActive, Stopped,
                          ExternalWaitIsWatched
<1>6. Steady
  BY <1>1, <1>2, <1>4 DEF Steady, Open, Stopped, IInv, RowInv, StoppedIsActive, Task
<1>7. RestOK'
  <2>1. run' \in Run
    BY DEF Stop, IInv, RestOK, Run, Stages, Idle
  <2>2. QED BY <2>1 DEF Stop, IInv, RestOK
<1>8. RunIsOpen'
  BY <1>1, <1>4 DEF RunIsOpen, Open
<1>9. QED BY <1>5, <1>6, <1>7, <1>8 DEF IInv

LEMMA ClearStep ==
  ASSUME IInv, Clear PROVE IInv' /\ Steady
<1> DEFINE c == Completed(task, "stopped")
<1>1. Open /\ run = Idle /\ goal' = goal /\ watchers' = watchers /\ run' = run
  BY DEF Clear
<1>2. task \in Task
  BY DEF IInv, RowInv
<1>3. Keeps(task, c) /\ c.reason = "stopped" /\ c.super = "terminal"
  BY <1>2, CompletedKeeps DEF Reasons, Completed, Task
<1>4. Write(task.status, c)
  BY DEF Clear, Commit
<1> HIDE DEF c
<1>5. (task' = task \/ task' = c) /\ refused' \in BOOLEAN
  BY <1>4, WriteStep DEF IInv, RestOK
<1>6. CASE task' = task
  <2>1. RowInv' /\ Steady
    BY <1>1, <1>6, HandledStep DEF IInv, Handled
  <2>2. RestOK' /\ RunIsOpen'
    BY <1>1, <1>5 DEF IInv, RestOK, RunIsOpen, Clear
  <2>3. QED BY <2>1, <2>2 DEF IInv
<1>7. CASE task' = c
  <2>1. RowInv'
    BY <1>1, <1>3, <1>7 DEF IInv, RowInv, Keeps, Counts, RoundsWithinTotal,
                            StoppedIsActive, Stopped, ExternalWaitIsWatched
  <2>2. Steady
    BY <1>1, <1>3, <1>7 DEF Steady, Keeps, Counts, Open
  <2>3. RestOK' /\ RunIsOpen'
    BY <1>1, <1>5 DEF IInv, RestOK, RunIsOpen, Clear
  <2>4. QED BY <2>1, <2>2, <2>3 DEF IInv
<1>8. QED BY <1>5, <1>6, <1>7

\* A timer or a delivery moves a goal that waits for nothing of its user.
LEMMA OutsideStep ==
  ASSUME IInv, Open, ~Stopped(task), Settles(task, task'),
         task'.status = task.status, MessageAges,
         UNCHANGED <<goal, last, run, watchers, turns, messages, finalized, refused, revived>>
  PROVE  IInv' /\ Steady
<1>1. Handled
  BY DEF Handled, Open
<1>2. RowInv' /\ Steady
  BY <1>1, HandledStep DEF IInv
<1>3. human' \in {"none", "new", "old"}
  BY MessageAgesStep DEF IInv
<1>4. RestOK' /\ RunIsOpen'
  BY <1>3 DEF IInv, RestOK, RunIsOpen, Open
<1>5. QED BY <1>2, <1>4 DEF IInv

LEMMA RetryDueStep ==
  ASSUME IInv, RetryDue PROVE IInv' /\ Steady
<1> DEFINE u == [task EXCEPT !.super = "runnable", !.blocker = None]
<1>1. Open /\ task.super = "waiting_retry" /\ task' = u /\ MessageAges
  BY DEF RetryDue
<1>2. task \in Task
  BY DEF IInv, RowInv
<1>3. u \in Task
  BY <1>2 DEF Task, SupervisorStates
<1>4. u.round = task.round /\ u.total = task.total /\ u.arb = task.arb
      /\ u.episode = task.episode /\ u.super = "runnable" /\ u.status = task.status
  BY <1>2 DEF Task
<1> HIDE DEF u
<1>5. Keeps(task, u) /\ ~Stopped(u)
  BY <1>2, <1>3, <1>4, SameKeeps DEF SupervisorStates, Stopped
<1>6. Settles(task, task') /\ ~Stopped(task) /\ task'.status = task.status
  BY <1>1, <1>4, <1>5 DEF Settles, Keeps, Stopped
<1>7. UNCHANGED <<goal, last, run, watchers, turns, messages, finalized, refused, revived>>
  BY DEF RetryDue
<1>8. QED BY <1>1, <1>6, <1>7, OutsideStep

LEMMA DeliveryUncertainStep ==
  ASSUME IInv, DeliveryUncertain PROVE IInv' /\ Steady
<1> DEFINE u == [task EXCEPT !.super = "waiting_user", !.blocker = "external"]
<1>1. Open /\ task.super # "waiting_user" /\ task' = u /\ MessageAges
  BY DEF DeliveryUncertain
<1>2. task \in Task
  BY DEF IInv, RowInv
<1>3. u \in Task
  BY <1>2 DEF Task, SupervisorStates, Blockers
<1>4. u.round = task.round /\ u.total = task.total /\ u.arb = task.arb
      /\ u.episode = task.episode /\ u.super = "waiting_user"
      /\ u.blocker = "external" /\ u.status = task.status
  BY <1>2 DEF Task
<1> HIDE DEF u
<1>5. Keeps(task, u) /\ ~Stopped(u)
  BY <1>2, <1>3, <1>4, SameKeeps DEF Stopped
<1>6. Settles(task, task') /\ ~Stopped(task) /\ task'.status = task.status
  BY <1>1, <1>4, <1>5 DEF Settles, Keeps, Stopped
<1>7. UNCHANGED <<goal, last, run, watchers, turns, messages, finalized, refused, revived>>
  BY DEF DeliveryUncertain
<1>8. QED BY <1>1, <1>6, <1>7, OutsideStep

\* A step of a watcher: the rest of the state, and what it asks of the row.
LEMMA WatcherStep ==
  ASSUME IInv, ExternalWaitIsWatched', Steady,
         task' \in Task, task'.round <= task'.total, StoppedIsActive',
         task'.status = task.status,
         watchers' \in [Watchers -> {"unused", "active", "paused", "ended"}],
         human' \in {"none", "new", "old"},
         UNCHANGED <<goal, last, run, turns, messages, finalized, refused, revived>>
  PROVE  IInv' /\ Steady
<1>1. RestOK' /\ RunIsOpen'
  BY DEF IInv, RestOK, RunIsOpen, Open
<1>2. RowInv'
  BY DEF RowInv, RoundsWithinTotal
<1>3. QED BY <1>1, <1>2 DEF IInv

LEMMA WatcherCreatedStep ==
  ASSUME IInv, NEW w \in Watchers, WatcherCreated(w) PROVE IInv' /\ Steady
<1>1. /\ watchers[w] = "unused"
      /\ watchers' = [watchers EXCEPT ![w] = "active"]
      /\ UNCHANGED <<goal, last, run, turns, messages, finalized, refused, revived>>
  BY DEF WatcherCreated
<1>2. task \in Task /\ watchers \in [Watchers -> {"unused", "active", "paused", "ended"}]
  BY DEF IInv, RowInv, RestOK
<1>3. watchers' \in [Watchers -> {"unused", "active", "paused", "ended"}]
      /\ watchers'[w] = "active"
      /\ \A x \in Watchers : x # w => watchers'[x] = watchers[x]
  BY <1>1, <1>2
<1>4. CASE Open /\ task.super \in {"runnable", "waiting_external"}
  <2> DEFINE u == [task EXCEPT !.super = "waiting_external", !.blocker = "external",
                               !.waitRef = w]
  <2>1. task' = u /\ MessageAges
    BY <1>4 DEF WatcherCreated
  <2>2. u \in Task
    BY <1>2 DEF Task, SupervisorStates, Blockers
  <2>3. /\ u.round = task.round /\ u.total = task.total /\ u.arb = task.arb
        /\ u.episode = task.episode /\ u.super = "waiting_external"
        /\ u.waitRef = w /\ u.status = task.status
    BY <1>2 DEF Task
  <2> HIDE DEF u
  <2>4. ExternalWaitIsWatched'
    BY <1>3, <2>1, <2>3, NoneAssumption DEF ExternalWaitIsWatched
  <2>5. Steady
    BY <1>2, <1>4, <2>1, <2>3 DEF Steady, Open, Stopped, Task
  <2>6. StoppedIsActive' /\ task'.round <= task'.total /\ task' \in Task
    BY <2>1, <2>2, <2>3 DEF StoppedIsActive, Stopped, IInv, RowInv, RoundsWithinTotal
  <2>7. human' \in {"none", "new", "old"} /\ task'.status = task.status
    BY <2>1, <2>3, MessageAgesStep DEF IInv
  <2>8. QED BY <1>1, <1>3, <2>4, <2>5, <2>6, <2>7, WatcherStep
<1>5. CASE ~(Open /\ task.super \in {"runnable", "waiting_external"})
  <2>1. UNCHANGED <<task, human>>
    BY <1>5 DEF WatcherCreated
  <2>2. ExternalWaitIsWatched'
    BY <1>1, <1>5, <2>1 DEF ExternalWaitIsWatched, Open
  <2>3. Steady
    BY <1>2, <2>1 DEF Steady, Stopped, Task
  <2>4. StoppedIsActive' /\ task'.round <= task'.total /\ task' \in Task
        /\ human' \in {"none", "new", "old"} /\ task'.status = task.status
    BY <2>1 DEF StoppedIsActive, Stopped, IInv, RowInv, RoundsWithinTotal, RestOK
  <2>5. QED BY <1>1, <1>3, <2>2, <2>3, <2>4, WatcherStep
<1>6. QED BY <1>4, <1>5

LEMMA WatcherEndsStep ==
  ASSUME IInv, NEW w \in Watchers, WatcherEnds(w) PROVE IInv' /\ Steady
<1>1. /\ watchers' = [watchers EXCEPT ![w] = "ended"]
      /\ UNCHANGED <<goal, last, run, turns, messages, finalized, refused, revived>>
  BY DEF WatcherEnds
<1>2. task \in Task /\ watchers \in [Watchers -> {"unused", "active", "paused", "ended"}]
  BY DEF IInv, RowInv, RestOK
<1>3. watchers' \in [Watchers -> {"unused", "active", "paused", "ended"}]
      /\ \A x \in Watchers : x # w => watchers'[x] = watchers[x]
  BY <1>1, <1>2
<1>4. CASE Open /\ task.super = "waiting_external" /\ task.waitRef = w
  <2> DEFINE u == [task EXCEPT !.super = "runnable", !.blocker = None, !.waitRef = None]
  <2>1. task' = u /\ MessageAges
    BY <1>4 DEF WatcherEnds
  <2>2. u \in Task
    BY <1>2 DEF Task, SupervisorStates
  <2>3. /\ u.round = task.round /\ u.total = task.total /\ u.arb = task.arb
        /\ u.episode = task.episode /\ u.super = "runnable" /\ u.status = task.status
    BY <1>2 DEF Task
  <2> HIDE DEF u
  <2>4. ExternalWaitIsWatched'
    BY <2>1, <2>3 DEF ExternalWaitIsWatched
  <2>5. Steady
    BY <1>2, <1>4, <2>1, <2>3 DEF Steady, Open, Stopped, Task
  <2>6. StoppedIsActive' /\ task'.round <= task'.total /\ task' \in Task
    BY <2>1, <2>2, <2>3 DEF StoppedIsActive, Stopped, IInv, RowInv, RoundsWithinTotal
  <2>7. human' \in {"none", "new", "old"} /\ task'.status = task.status
    BY <2>1, <2>3, MessageAgesStep DEF IInv
  <2>8. QED BY <1>1, <1>3, <2>4, <2>5, <2>6, <2>7, WatcherStep
<1>5. CASE ~(Open /\ task.super = "waiting_external" /\ task.waitRef = w)
  <2>1. UNCHANGED <<task, human>>
    BY <1>5 DEF WatcherEnds
  <2>2. ExternalWaitIsWatched'
    <3>1. SUFFICES ASSUME Open, task.super = "waiting_external"
                   PROVE  task.waitRef # None /\ watchers'[task.waitRef] \in {"active", "paused"}
      BY <1>1, <2>1 DEF ExternalWaitIsWatched, Open
    <3>2. task.waitRef # None /\ watchers[task.waitRef] \in {"active", "paused"}
      BY <3>1 DEF IInv, RowInv, ExternalWaitIsWatched
    <3>3. task.waitRef \in Watchers
      BY <1>2, <3>2 DEF Task
    <3>4. QED BY <1>3, <1>5, <3>1, <3>2, <3>3
  <2>3. Steady
    BY <1>2, <2>1 DEF Steady, Stopped, Task
  <2>4. StoppedIsActive' /\ task'.round <= task'.total /\ task' \in Task
        /\ human' \in {"none", "new", "old"} /\ task'.status = task.status
    BY <2>1 DEF StoppedIsActive, Stopped, IInv, RowInv, RoundsWithinTotal, RestOK
  <2>5. QED BY <1>1, <1>3, <2>2, <2>3, <2>4, WatcherStep
<1>6. QED BY <1>4, <1>5

LEMMA WatcherPausesStep ==
  ASSUME IInv, NEW w \in Watchers, WatcherPauses(w) PROVE IInv' /\ Steady
<1>1. PICK x \in {"active", "paused"} : watchers' = [watchers EXCEPT ![w] = x]
  BY DEF WatcherPauses
<1>2. task \in Task /\ watchers \in [Watchers -> {"unused", "active", "paused", "ended"}]
  BY DEF IInv, RowInv, RestOK
<1>3. watchers' \in [Watchers -> {"unused", "active", "paused", "ended"}]
      /\ (\A y \in Watchers : y # w => watchers'[y] = watchers[y])
      /\ (\A y \in Watchers : y = w => watchers'[y] \in {"active", "paused"})
  BY <1>1, <1>2
<1>4. UNCHANGED <<task, goal, last, run, human, turns, messages, finalized, refused, revived>>
  BY DEF WatcherPauses
<1>5. ExternalWaitIsWatched'
  <2>1. SUFFICES ASSUME Open, task.super = "waiting_external"
                 PROVE  task.waitRef # None /\ watchers'[task.waitRef] \in {"active", "paused"}
    BY <1>4 DEF ExternalWaitIsWatched, Open
  <2>2. task.waitRef # None /\ watchers[task.waitRef] \in {"active", "paused"}
    BY <2>1 DEF IInv, RowInv, ExternalWaitIsWatched
  <2>3. task.waitRef \in Watchers
    BY <1>2, <2>2 DEF Task
  <2> DEFINE r == task.waitRef
  <2>4. r \in Watchers /\ r # None /\ watchers[r] \in {"active", "paused"}
    BY <2>2, <2>3
  <2> HIDE DEF r
  <2>5. r # None /\ watchers'[r] \in {"active", "paused"}
    BY <1>3, <2>4
  <2>6. QED BY <2>5 DEF r
<1>6. Steady
  BY <1>2, <1>4 DEF Steady, Stopped, Task
<1>7. StoppedIsActive' /\ task'.round <= task'.total /\ task' \in Task
      /\ human' \in {"none", "new", "old"} /\ task'.status = task.status
  BY <1>4 DEF StoppedIsActive, Stopped, IInv, RowInv, RoundsWithinTotal, RestOK
<1>8. QED BY <1>3, <1>4, <1>5, <1>6, <1>7, WatcherStep

-------------------------------------------------------------------------------
(* The theorems *)

LEMMA InitIInv == Init => IInv
<1> SUFFICES ASSUME Init PROVE IInv
  OBVIOUS
<1>1. RestOK
  BY DEF Init, RestOK, Outputs, Run
<1>2. task \in Task
  BY NewTaskType DEF Init
<1>3. RoundsWithinTotal /\ StoppedIsActive /\ ExternalWaitIsWatched /\ RunIsOpen
  BY DEF Init, NewTask, RoundsWithinTotal, StoppedIsActive, Stopped,
         ExternalWaitIsWatched, Open, RunIsOpen
<1>4. QED BY <1>1, <1>2, <1>3 DEF IInv, RowInv

LEMMA StepIInv == IInv /\ [Next]_vars => IInv' /\ [Steady]_vars
<1> SUFFICES ASSUME IInv, [Next]_vars PROVE IInv' /\ [Steady]_vars
  OBVIOUS
<1>1. CASE UNCHANGED vars
  BY <1>1 DEF vars, IInv, RestOK, RowInv, RoundsWithinTotal, StoppedIsActive, Stopped,
              ExternalWaitIsWatched, Open, RunIsOpen
<1>2. CASE HumanWrites \/ HumanMoves
  BY <1>2, HumanWritesStep, HumanStartsGoalStep, HumanContinuesGoalStep, StaleMessageStep
     DEF HumanMoves
<1>3. CASE RunMoves
  BY <1>3, FollowUpStep, PrepareStep, StoppedRunPreparesStep, OwnerCompletesTurnStep, SpeaksStep,
     RejectedOwnerEndsStep, ReviewerCompletesStep, ArbiterCompletesStep, RunFailsStep,
     RunEndsWithoutCompletion
     DEF RunMoves
<1>4. CASE Crash \/ Stop \/ Clear \/ RetryDue \/ DeliveryUncertain
  BY <1>4, RunEndsWithoutCompletion, StopStep, ClearStep, RetryDueStep, DeliveryUncertainStep
<1>5. CASE \E w \in Watchers : WatcherCreated(w) \/ WatcherEnds(w) \/ WatcherPauses(w)
  BY <1>5, WatcherCreatedStep, WatcherEndsStep, WatcherPausesStep
<1>6. QED BY <1>1, <1>2, <1>3, <1>4, <1>5 DEF Next

THEOREM InvariantHolds == Spec => []IInv
<1>1. QED BY InitIInv, StepIInv, PTL DEF Spec

\* Every reachable state is well typed: in particular no handler counts a
\* checklist below zero.
THEOREM TypeCorrect == Spec => []TypeOK
<1>1. IInv => TypeOK
  BY DEF IInv, RestOK, RowInv, TypeOK
<1>2. QED BY <1>1, InvariantHolds, PTL

\* The round trips of an episode never exceed those of its goal, whatever
\* resets the one and keeps the other.
THEOREM RoundsCorrect == Spec => []RoundsWithinTotal
<1>1. IInv => RoundsWithinTotal
  BY DEF IInv, RowInv
<1>2. QED BY <1>1, InvariantHolds, PTL

\* A goal that waits for a CI run waits for an event that is still to come.
THEOREM ExternalWaitCorrect == Spec => []ExternalWaitIsWatched
<1>1. IInv => ExternalWaitIsWatched
  BY DEF IInv, RowInv
<1>2. QED BY <1>1, InvariantHolds, PTL

\* Round trips, arbitrations and episodes of a goal only grow.
THEOREM TotalsCorrect == Spec => TotalsNeverDecrease
<1>1. IInv /\ [Next]_vars =>
        [goal' = goal =>
           /\ task'.total >= task.total
           /\ task'.arb >= task.arb
           /\ task'.episode >= task.episode]_vars
  BY StepIInv DEF Steady
<1>2. QED BY <1>1, InvariantHolds, PTL DEF Spec, TotalsNeverDecrease

\* Nothing but its user moves a stopped goal.
THEOREM StopCorrect == Spec => StopHolds
<1>1. IInv /\ [Next]_vars =>
        [Open /\ Stopped(task) /\ goal' = goal =>
           \/ /\ <<task'.status, task'.total, task'.arb>> = <<task.status, task.total, task.arb>>
              /\ \/ Stopped(task')
                 \/ run.stage = "stopped" /\ run.intent = "owner-turn" /\ run' = Idle
           \/ human # "none" /\ human' = "none" /\ run'.human
           \/ task'.reason = "stopped"]_vars
  BY StepIInv DEF Steady
<1>2. QED BY <1>1, InvariantHolds, PTL DEF Spec, StopHolds

\* A completed goal is never written again.
THEOREM CompletedCorrect == Spec => CompletedIsFinal
<1>1. IInv /\ [Next]_vars =>
        [task.status = "completed" /\ goal' = goal => task' = task]_vars
  BY StepIInv DEF Steady
<1>2. QED BY <1>1, InvariantHolds, PTL DEF Spec, CompletedIsFinal
===============================================================================
