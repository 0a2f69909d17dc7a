--------------------------- MODULE CodexAccounts ---------------------------
(***************************************************************************)
(* The Codex accounts that concurrent turns share (codex-token-rotation.ts)*)
(* and the runs that take them: the leases, in memory and in a lock file   *)
(* beside each account's auth.json, the preparation of a run's environment *)
(* (agent-runner-environment.ts, agent-runner.ts), the rotation after a    *)
(* failure (provider-retry.ts) and what is left after a crash.             *)
(*                                                                         *)
(* A claim, a rotation and the preparation of a run contain no await: each *)
(* is one step.  Times are told apart by whether they have come.           *)
(*                                                                         *)
(* Left out: agents of a crashed process that live on, the warm-up command *)
(* and everything else that uses an account's home without a lease, auth   *)
(* files that are missing, a state file that cannot be written, usage      *)
(* figures other than "the week is used up", and a turn's attempts that do *)
(* not end (AgentTurn).                                                    *)
(***************************************************************************)
EXTENDS Integers

CONSTANTS
  NumAccounts,   \* ~/.codex-accounts/<n>
  Runs,          \* places for turns with a Codex agent; each has one at a time
  ReadonlyRuns,  \* those of reviewers and arbiters
  None,
  MaxTurns,      \* bound: turns
  MaxEvents      \* bound: times that come, logins, usage reports, switches, crashes
ASSUME CodexAccountsAssumption ==
  /\ NumAccounts \in Nat \ {0}
  /\ ReadonlyRuns \subseteq Runs
  /\ None \notin Runs /\ None \notin 0..(NumAccounts - 1)
  /\ MaxTurns \in Nat /\ MaxEvents \in Nat

Account == 0..(NumAccounts - 1)

VARIABLES
  cur,     \* currentIndex
  saved,   \* currentIndex in the state file; the rest of the file is as acct
  acct,    \* accounts[i]: authStatus ("refreshed": dead, but auth.json is newer
           \* than authDeadAt), rateLimitedUntil has not come, week used up
  lease,   \* accounts[i].leaseId while leasedUntil has not come
  lock,    \* .rbclaw-auth.lock: who made it, expiresAt has not come, its process is alive
  run,     \* the turns
  leaked,  \* history: accounts whose lease nobody will release
  turns, events

pool == [cur |-> cur, saved |-> saved, acct |-> acct, lease |-> lease, lock |-> lock]
vars == <<cur, saved, acct, lease, lock, run, leaked, turns, events>>

Lock == [file : {"none", "torn", "whole"}, by : Runs \cup {None}, fresh : BOOLEAN, alive : BOOLEAN]
NoLock == [file |-> "none", by |-> None, fresh |-> FALSE, alive |-> FALSE]
TornLock == [NoLock EXCEPT !.file = "torn"]
LockOf(r) == [file |-> "whole", by |-> r, fresh |-> TRUE, alive |-> TRUE]

AcctType == [auth : {"healthy", "dead", "refreshed"}, limited : BOOLEAN, weekUsed : BOOLEAN]
Pools == [cur : Account, saved : Account, acct : [Account -> AcctType],
          lease : [Account -> Runs \cup {None}],
          lock : [Account -> Lock]]

RunType == [phase : {"idle", "refused", "working", "flushed"},
            at : Account \cup {None}, late : BOOLEAN, rotated : BOOLEAN]

\* refused: the turn has ended for want of an account and has yet to tell.
Idle == [phase |-> "idle", at |-> None, late |-> FALSE, rotated |-> FALSE]
Refused == [Idle EXCEPT !.phase = "refused"]
Working(i, rotated) == [phase |-> "working", at |-> i, late |-> FALSE, rotated |-> rotated]

TypeOK ==
  /\ pool \in Pools
  /\ run \in [Runs -> RunType]
  /\ leaked \subseteq Account
  /\ turns \in 0..MaxTurns /\ events \in 0..MaxEvents

Fresh == [auth |-> "healthy", limited |-> FALSE, weekUsed |-> FALSE]

Init ==
  /\ cur = 0 /\ saved = 0
  /\ acct = [i \in Account |-> Fresh]
  /\ lease = [i \in Account |-> None] /\ lock = [i \in Account |-> NoLock]
  /\ run = [r \in Runs |-> Idle]
  /\ leaked = {} /\ turns = 0 /\ events = 0

-----------------------------------------------------------------------------
(* Which accounts can be used: functions of the pool p.                    *)

At(p, k) == (p.cur + k) % NumAccounts
Nearest(ks) == {k \in ks : \A j \in ks : k <= j}

\* A dead account is healthy again once its auth.json is newer.
Restored(a) == IF a.auth = "refreshed" THEN [a EXCEPT !.auth = "healthy", !.limited = FALSE] ELSE a

Saves(p) == [p EXCEPT !.saved = p.cur]

\* The scan restores what it looks at: the accounts at the distances ks.
Looked(p, ks) ==
  LET seen == {At(p, k) : k \in ks}
      q == [p EXCEPT !.acct = [i \in Account |-> IF i \in seen THEN Restored(p.acct[i]) ELSE p.acct[i]]]
  IN IF q.acct = p.acct THEN p ELSE Saves(q)

\* Mutant of Stale: the lock of a process that is gone is kept.
StaleByTime(l) == ~l.fresh

Stale(l) == ~l.fresh \/ ~l.alive

\* A lock that cannot be read is none here, but keeps its file (MayTake).
Locked(l) == l.file = "whole" /\ ~Stale(l)

Usable(p, i, anyWeek) ==
  LET a == Restored(p.acct[i])
  IN /\ a.auth = "healthy" /\ ~a.limited
     /\ anyWeek \/ ~a.weekUsed
     /\ p.lease[i] = None
     /\ ~Locked(p.lock[i])

MayTake(l) == l.file # "torn" /\ ~Locked(l)

Taken(p, i, r) ==
  [p EXCEPT !.cur = i, !.lease[i] = r, !.lock[i] = LockOf(r)]

\* The pool after a claim of r, and the account it got or None.
Claims(p, r) ==
  LET ks == {k \in Account : Usable(p, At(p, k), FALSE) /\ MayTake(p.lock[At(p, k)])}
  IN {[pool |-> Taken(Looked(p, 0..k), At(p, k), r), at |-> At(p, k)] : k \in Nearest(ks)}
       \cup {c \in {[pool |-> Looked(p, Account), at |-> None]} : ks = {}}

\* Mutant of Released: the lease is given back without a look at its id.
ReleasedWhoever(p, i, r) == [p EXCEPT !.lease[i] = None, !.lock[i] = NoLock]

Released(p, i, r) ==
  [p EXCEPT !.lease[i] = IF @ = r THEN None ELSE @,
            !.lock[i] = IF @.file = "whole" /\ @.by # r THEN @ ELSE NoLock]

-----------------------------------------------------------------------------
(* A failure: the account in use is blamed and the next one taken.         *)

\* findNextCodexAvailable: the pool after the look, and the account or None;
\* accounts whose week is used up if there are no others.
Nexts(p) ==
  LET ks == 1..(NumAccounts - 1)
      good == {k \in ks : Usable(p, At(p, k), FALSE)}
      usable == {k \in ks : Usable(p, At(p, k), TRUE)}
  IN {[pool |-> Looked(p, 1..k), at |-> At(p, k)] : k \in Nearest(good)}
       \cup {[pool |-> Looked(p, ks), at |-> At(p, k)] : k \in {j \in Nearest(usable) : good = {}}}
       \cup {c \in {[pool |-> Looked(p, ks), at |-> None]} : usable = {}}

\* Mutant of Blamed: a rate limit is not remembered.
BlamedIfDead(p, why) ==
  IF why = "auth" THEN [p EXCEPT !.acct[p.cur].auth = "dead", !.lease[p.cur] = None] ELSE p

\* accounts[currentIndex], whichever account the failed run has used.
Blamed(p, why) ==
  IF why = "auth"
  THEN [p EXCEPT !.acct[p.cur].auth = "dead", !.acct[p.cur].limited = FALSE, !.lease[p.cur] = None]
  ELSE [p EXCEPT !.acct[p.cur].limited = TRUE]

\* rotateCodexToken
Rotations(p, why) ==
  {[pool |-> Saves(IF n.at = None THEN n.pool
                   ELSE [n.pool EXCEPT !.acct[n.at].limited = FALSE, !.cur = n.at]),
    found |-> n.at # None] : n \in Nexts(Blamed(p, why))}

\* markCodexTokenHealthy: accounts[currentIndex] again.
MarkedHealthy(p) ==
  IF p.acct[p.cur].auth # "healthy" \/ p.acct[p.cur].limited
  THEN Saves([p EXCEPT !.acct[p.cur].auth = "healthy", !.acct[p.cur].limited = FALSE])
  ELSE p

-----------------------------------------------------------------------------
(* A turn: its runs are prepared, work, and end.                           *)

\* The environment of every role: a lease, unless none is to be had or the files
\* cannot be written.
Prepared(p, r, rotated) ==
  UNION {IF c.at = None THEN {[pool |-> c.pool, run |-> Refused]}
         ELSE {[pool |-> c.pool, run |-> Working(c.at, rotated)],
               [pool |-> Released(c.pool, c.at, r), run |-> Idle]} : c \in Claims(p, r)}

\* A reviewer or an arbiter claims once more before the first lease is released.
PreparedAgain(e, r) ==
  {[pool |-> Released(c.pool, e.run.at, r),
    run |-> IF c.at = None THEN Refused ELSE Working(c.at, e.run.rotated)] : c \in Claims(e.pool, r)}

\* A lease is left behind when the second environment's files or the directory of
\* the logs cannot be written.
Launches(p, r, rotated) ==
  LET ready == UNION {IF r \in ReadonlyRuns /\ e.run.phase = "working" THEN PreparedAgain(e, r) ELSE {e} :
                        e \in Prepared(p, r, rotated)}
  IN {[pool |-> e.pool, run |-> e.run, leaked |-> {}] : e \in ready}
       \cup {[pool |-> e.pool, run |-> Idle, leaked |-> {e.run.at}] : e \in {d \in ready : d.run.phase = "working"}}

PoolBecomes(p) ==
  /\ cur' = p.cur /\ saved' = p.saved /\ acct' = p.acct
  /\ lease' = p.lease /\ lock' = p.lock

Launch(r, p, rotated) ==
  \E e \in Launches(p, r, rotated) :
    /\ run' = [run EXCEPT ![r] = e.run]
    /\ leaked' = leaked \cup e.leaked
    /\ PoolBecomes(e.pool)

InFlight(r) == run[r].phase \in {"working", "flushed"}

Start(r) ==
  /\ run[r].phase = "idle"
  /\ turns < MaxTurns /\ turns' = turns + 1
  /\ Launch(r, pool, FALSE)
  /\ UNCHANGED events

\* The room is told.
Told(r) ==
  /\ run[r].phase = "refused"
  /\ run' = [run EXCEPT ![r] = Idle]
  /\ UNCHANGED <<cur, saved, acct, lease, lock, leaked, turns, events>>

\* The last output was handled: the lease is released before the process ends.
Flush(r) ==
  /\ run[r].phase = "working"
  /\ PoolBecomes(Released(pool, run[r].at, r))
  /\ run' = [run EXCEPT ![r].phase = "flushed", ![r].at = None, ![r].late = FALSE]
  /\ UNCHANGED <<leaked, turns, events>>

\* The pool when the process has ended.
Finalized(r) == IF run[r].phase = "working" THEN Released(pool, run[r].at, r) ELSE pool

Ends(r, p) ==
  /\ UNCHANGED <<leaked, turns, events>>
  /\ run' = [run EXCEPT ![r] = Idle]
  /\ PoolBecomes(p)

Succeeds(r) ==
  /\ InFlight(r)
  /\ Ends(r, IF run[r].rotated THEN MarkedHealthy(Finalized(r)) ELSE Finalized(r))

\* An error that is no reason to rotate, or no other account to rotate to.
Fails(r) == InFlight(r) /\ Ends(r, Finalized(r))

Rotates(r, why) ==
  /\ InFlight(r) /\ NumAccounts > 1
  /\ UNCHANGED <<turns, events>>
  /\ \E n \in Rotations(Finalized(r), why) :
       IF n.found THEN Launch(r, n.pool, TRUE) ELSE Ends(r, n.pool)

AttemptEnds(r) == Succeeds(r) \/ Fails(r) \/ \E why \in {"auth", "limit"} : Rotates(r, why)

-----------------------------------------------------------------------------
(* The rest of the program and the world.                                  *)

Event == events < MaxEvents /\ events' = events + 1

CooldownElapses(i) ==
  /\ acct[i].limited
  /\ Event
  /\ acct' = [acct EXCEPT ![i].limited = FALSE]
  /\ UNCHANGED <<cur, saved, lease, lock, run, leaked, turns>>

\* Two hours after the claim; the run may still be working.
LeaseElapses(i) ==
  /\ lock[i].file = "whole" /\ lock[i].fresh
  /\ Event
  /\ lock' = [lock EXCEPT ![i].fresh = FALSE]
  /\ lease' = [lease EXCEPT ![i] = None]
  /\ run' = [r \in Runs |-> IF run[r].at = i THEN [run[r] EXCEPT !.late = TRUE] ELSE run[r]]
  /\ leaked' = leaked \ {i}
  /\ UNCHANGED <<cur, saved, acct, turns>>

\* The user has logged in again: auth.json is newer than authDeadAt.
AuthFileChanges(i) ==
  /\ acct[i].auth = "dead"
  /\ Event
  /\ acct' = [acct EXCEPT ![i].auth = "refreshed"]
  /\ UNCHANGED <<cur, saved, lease, lock, run, leaked, turns>>

\* updateCodexAccountUsage; a used-up week moves on from the account in use.
UsageReport(i, used) ==
  /\ acct[i].weekUsed # used
  /\ Event
  /\ LET p == Saves([pool EXCEPT !.acct[i].weekUsed = used])
     IN IF used /\ i = cur /\ NumAccounts > 1
        THEN \E n \in Nexts(p) :
               PoolBecomes(IF n.at = None THEN n.pool ELSE Saves([n.pool EXCEPT !.cur = n.at]))
        ELSE PoolBecomes(p)
  /\ UNCHANGED <<run, leaked, turns>>

\* setCurrentCodexAccountIndex, from the dashboard.
Switch(i) ==
  /\ i # cur
  /\ Event
  /\ PoolBecomes(Saves([pool EXCEPT !.cur = i, !.acct[i].limited = FALSE]))
  /\ UNCHANGED <<run, leaked, turns>>

\* loadCodexState, unless there is but one account.  An account without an auth
\* failure on file is healthy; nothing is known of the week yet when another
\* account is looked for in place of a dead one.
LoadedAccount(a) ==
  IF NumAccounts = 1 THEN Fresh
  ELSE IF a.auth = "dead" THEN [a EXCEPT !.limited = FALSE] ELSE Restored(a)

Loads(p) ==
  LET q == [cur |-> IF NumAccounts = 1 THEN 0 ELSE p.saved, saved |-> p.saved,
            acct |-> [i \in Account |-> LoadedAccount(p.acct[i])],
            lease |-> [i \in Account |-> None],
            lock |-> [i \in Account |-> [p.lock[i] EXCEPT !.alive = FALSE]]]
      ks == {k \in 1..(NumAccounts - 1) : Usable(q, At(q, k), TRUE)}
      moved == IF q.acct[q.cur].auth = "dead" /\ ks # {}
               THEN {[q EXCEPT !.cur = At(q, k)] : k \in Nearest(ks)} ELSE {q}
      restored == NumAccounts > 1 /\ \E i \in Account : p.acct[i].auth = "refreshed"
  IN {IF restored THEN Saves(m) ELSE m : m \in moved}

\* The process ends, with the pool as p, and another one starts: turns and leases
\* are gone, lock files stay.
Restart(p) ==
  /\ Event
  /\ \E q \in Loads(p) : PoolBecomes(q)
  /\ run' = [r \in Runs |-> Idle]
  /\ leaked' = {}
  /\ UNCHANGED turns

Crash == Restart(pool)

\* It ends while a claim writes its lock file.
CrashInClaim(r) ==
  /\ run[r].phase = "idle"
  /\ \E c \in Claims(pool, r) :
       c.at # None /\ Restart([c.pool EXCEPT !.lock[c.at] = TornLock])

-----------------------------------------------------------------------------
Next ==
  \/ \E r \in Runs :
       \/ Start(r) \/ Told(r) \/ Flush(r) \/ Succeeds(r) \/ Fails(r)
       \/ \E why \in {"auth", "limit"} : Rotates(r, why)
       \/ CrashInClaim(r)
  \/ \E i \in Account :
       \/ CooldownElapses(i) \/ LeaseElapses(i) \/ AuthFileChanges(i) \/ Switch(i)
       \/ \E used \in BOOLEAN : UsageReport(i, used)
  \/ Crash

Spec == Init /\ [][Next]_vars

\* A process ends some day: its time-outs see to that (AgentTurn's TurnEnds).
FairSpec == Spec /\ \A r \in Runs : WF_vars(AttemptEnds(r))

-----------------------------------------------------------------------------
(* Properties.                                                             *)

\* Concurrent turns work with different accounts (codex-token-rotation.test.ts:
\* "leases different accounts for concurrent Codex runs"), whatever is blamed,
\* revived, switched to, taken over or left by a crash; for the two hours of a
\* lease.
WorkersExclusive ==
  \A r, s \in Runs :
    /\ r # s /\ run[r].phase = "working" /\ run[s].phase = "working"
    /\ ~run[r].late /\ ~run[s].late
    => run[r].at # run[s].at

\* An account a new turn could have: nobody works with it, and no lease was left
\* behind.
FreeIn(p, runs, left, i) ==
  LET a == Restored(p.acct[i])
  IN /\ a.auth = "healthy" /\ ~a.limited /\ ~a.weekUsed
     /\ \A r \in Runs : runs[r].phase = "working" /\ runs[r].at = i => runs[r].late
     /\ p.lock[i].file # "torn" /\ i \notin left
Free(i) == FreeIn(pool, run, leaked, i)

\* "Codex rotation pool unavailable" (agent-runner-environment.ts): every account
\* is dead, limited, used up or at work, except that a reviewer or an arbiter is
\* in its own way when one account is left (and for leases that were left behind).
\* So every lease comes back, however its turn ends and whatever a crash leaves.
RefusedOnlyWhenTaken ==
  [][\A r \in Runs :
       run[r].phase # "refused" /\ run'[r].phase = "refused" =>
         \A i, j \in Account : Free(i)' /\ Free(j)' => r \in ReadonlyRuns /\ i = j]_vars

\* A turn that fails on account after account comes to an end: each failure blames
\* one (runCodexRotationLoop).
TurnsEnd == \A r \in Runs : InFlight(r) ~> ~InFlight(r)
=============================================================================
