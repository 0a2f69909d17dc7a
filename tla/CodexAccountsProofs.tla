------------------------ MODULE CodexAccountsProofs ------------------------
(***************************************************************************)
(* Proofs about CodexAccounts.                                             *)
(***************************************************************************)
EXTENDS CodexAccounts, TLAPS

\* Run r works with account i, and its lease has not elapsed.
Holds(runs, r, i) == runs[r].phase = "working" /\ runs[r].at = i /\ ~runs[r].late

\* A lease in memory has its lock; a lock that counts is held by a run or was left
\* behind; who works has its lock.
Sound(p, runs, left) ==
  /\ \A i \in Account : p.lease[i] # None => Locked(p.lock[i]) /\ p.lock[i].by = p.lease[i]
  /\ \A i \in Account :
       Locked(p.lock[i]) => i \in left \/ \E r \in Runs : Holds(runs, r, i) /\ p.lock[i].by = r
  /\ \A r \in Runs : \A i \in Account : Holds(runs, r, i) => p.lock[i] = LockOf(r)

AtWork(runs) == \A r \in Runs : runs[r].phase = "working" => runs[r].at \in Account

IInv == TypeOK /\ AtWork(run) /\ Sound(pool, run, leaked)

USE CodexAccountsAssumption DEF CodexAccountsAssumption

\* Distances from the account in use lead to accounts, and to each of them.
LEMMA AtType ==
  ASSUME NEW p \in Pools, NEW k \in Nat
  PROVE  At(p, k) \in Account
BY CodexAccountsAssumption DEF At, Pools, Account

LEMMA AtAll ==
  ASSUME NEW p \in Pools, NEW i \in Account
  PROVE  \E k \in Account : At(p, k) = i
<1>. p.cur \in Account
  BY DEF Pools
<1>1. CASE i >= p.cur
  <2>1. i - p.cur \in Account
    BY <1>1 DEF Account
  <2>2. p.cur + (i - p.cur) = i
    BY DEF Account
  <2>3. i % NumAccounts = i
    BY DEF Account
  <2>. QED BY <2>1, <2>2, <2>3 DEF At
<1>2. CASE i < p.cur
  <2>1. (i + NumAccounts - p.cur) \in Account
    BY <1>2, CodexAccountsAssumption DEF Account
  <2>2. (p.cur + (i + NumAccounts - p.cur)) = i + NumAccounts
    BY CodexAccountsAssumption DEF Account
  <2>3. (i + NumAccounts) % NumAccounts = i
    BY CodexAccountsAssumption DEF Account
  <2>. QED BY <2>1, <2>2, <2>3 DEF At
<1>. QED BY <1>1, <1>2, CodexAccountsAssumption DEF Account

LEMMA AccountIsNat == 0 \in Account /\ Account \subseteq Nat /\ None \notin Account
BY DEF Account

LEMMA RestoredOK ==
  ASSUME NEW a \in AcctType
  PROVE  Restored(a) \in AcctType /\ Restored(Restored(a)) = Restored(a)
BY DEF AcctType, Restored

LEMMA SavesOK ==
  ASSUME NEW p \in Pools
  PROVE  /\ Saves(p) \in Pools
         /\ Saves(p).cur = p.cur /\ Saves(p).acct = p.acct
         /\ Saves(p).lease = p.lease /\ Saves(p).lock = p.lock
BY DEF Saves, Pools

\* Looking at accounts changes no lease, and says of each what it was already.
LEMMA LookedOK ==
  ASSUME NEW p \in Pools, NEW ks \in SUBSET Nat
  PROVE  /\ Looked(p, ks) \in Pools
         /\ Looked(p, ks).cur = p.cur
         /\ Looked(p, ks).lease = p.lease /\ Looked(p, ks).lock = p.lock
         /\ \A i \in Account : Restored(Looked(p, ks).acct[i]) = Restored(p.acct[i])
<1>. DEFINE seen == {At(p, k) : k \in ks}
            f == [i \in Account |-> IF i \in seen THEN Restored(p.acct[i]) ELSE p.acct[i]]
            q == [p EXCEPT !.acct = f]
<1>1. \A i \in Account : p.acct[i] \in AcctType
  BY DEF Pools
<1>2. f \in [Account -> AcctType] /\ \A i \in Account : Restored(f[i]) = Restored(p.acct[i])
  BY <1>1, RestoredOK
<1>. HIDE DEF f
<1>3. q \in Pools /\ q.cur = p.cur /\ q.lease = p.lease /\ q.lock = p.lock /\ q.acct = f
  BY <1>2 DEF Pools
<1>. HIDE DEF q
<1>4. Looked(p, ks) = IF q.acct = p.acct THEN p ELSE Saves(q)
  BY DEF Looked, q, f
<1>. QED BY <1>2, <1>3, <1>4, SavesOK

\* What a claim takes was free; it finds nothing only if nothing can be used.
Claimed(c, p, r) ==
  /\ c.pool \in Pools
  /\ \A i \in Account : i # c.at => c.pool.lease[i] = p.lease[i] /\ c.pool.lock[i] = p.lock[i]
  /\ \/ /\ c.at \in Account
        /\ p.lease[c.at] = None /\ ~Locked(p.lock[c.at])
        /\ c.pool.lease[c.at] = r /\ c.pool.lock[c.at] = LockOf(r)
     \/ /\ c.at = None
        /\ \A i \in Account : ~(Usable(c.pool, i, FALSE) /\ MayTake(c.pool.lock[i]))

LEMMA ClaimsOK ==
  ASSUME NEW p \in Pools, NEW r \in Runs, NEW c \in Claims(p, r)
  PROVE  Claimed(c, p, r)
<1>. DEFINE ks == {k \in Account : Usable(p, At(p, k), FALSE) /\ MayTake(p.lock[At(p, k)])}
<1>1. CASE \E k \in Nearest(ks) : c = [pool |-> Taken(Looked(p, 0..k), At(p, k), r), at |-> At(p, k)]
  <2>1. PICK k \in ks : c = [pool |-> Taken(Looked(p, 0..k), At(p, k), r), at |-> At(p, k)]
    BY <1>1 DEF Nearest
  <2>. k \in Nat /\ 0..k \in SUBSET Nat
    BY AccountIsNat
  <2>. DEFINE q == Looked(p, 0..k)
              i == At(p, k)
  <2>2. i \in Account /\ c.at = i /\ c.pool = Taken(q, i, r)
    BY <2>1, AtType
  <2>3. p.lease[i] = None /\ ~Locked(p.lock[i])
    BY <2>1 DEF Usable
  <2>4. q \in Pools /\ q.lease = p.lease /\ q.lock = p.lock
    BY LookedOK
  <2>. HIDE DEF q, i
  <2>5. LockOf(r) \in Lock
    BY DEF LockOf, Lock
  <2>6. /\ Taken(q, i, r) \in Pools
        /\ Taken(q, i, r).lease = [q.lease EXCEPT ![i] = r]
        /\ Taken(q, i, r).lock = [q.lock EXCEPT ![i] = LockOf(r)]
    BY <2>2, <2>4, <2>5 DEF Taken, Pools
  <2>7. p.lease \in [Account -> Runs \cup {None}] /\ p.lock \in [Account -> Lock]
    BY DEF Pools
  <2>. DEFINE t == Taken(q, i, r)
  <2>8. t.lease[i] = r /\ t.lock[i] = LockOf(r)
    BY <2>2, <2>4, <2>6, <2>7
  <2>9. \A j \in Account : j # i => t.lease[j] = p.lease[j] /\ t.lock[j] = p.lock[j]
    BY <2>2, <2>4, <2>6, <2>7
  <2>10. t \in Pools
    BY <2>6
  <2>. HIDE DEF t
  <2>11. c.pool = t /\ c.at = i
    BY <2>2 DEF t
  <2>. QED BY <2>2, <2>3, <2>8, <2>9, <2>10, <2>11 DEF Claimed
<1>2. CASE ks = {} /\ c = [pool |-> Looked(p, Account), at |-> None]
  <2>. DEFINE q == Looked(p, Account)
  <2>1. q \in Pools /\ q.lease = p.lease /\ q.lock = p.lock
        /\ \A i \in Account : Restored(q.acct[i]) = Restored(p.acct[i])
    BY LookedOK, AccountIsNat
  <2>. HIDE DEF q
  <2>2. ASSUME NEW i \in Account
        PROVE  ~(Usable(p, i, FALSE) /\ MayTake(p.lock[i]))
    <3>1. PICK k \in Account : At(p, k) = i
      BY AtAll
    <3>. QED BY <3>1, <1>2
  <2>3. \A i \in Account : ~(Usable(q, i, FALSE) /\ MayTake(q.lock[i]))
    BY <2>1, <2>2 DEF Usable
  <2>4. c.pool = q /\ c.at = None
    BY <1>2 DEF q
  <2>. QED BY <2>1, <2>3, <2>4 DEF Claimed
<1>. QED BY <1>1, <1>2 DEF Claims

LEMMA ReleasedOK ==
  ASSUME NEW p \in Pools, NEW i \in Account, NEW r \in Runs
  PROVE  /\ Released(p, i, r) \in Pools
         /\ Released(p, i, r).acct = p.acct
         /\ \A j \in Account : j # i => Released(p, i, r).lease[j] = p.lease[j] /\ Released(p, i, r).lock[j] = p.lock[j]
         /\ Released(p, i, r).lease[i] = IF p.lease[i] = r THEN None ELSE p.lease[i]
         /\ Released(p, i, r).lock[i] = IF p.lock[i].file = "whole" /\ p.lock[i].by # r THEN p.lock[i] ELSE NoLock
<1>1. NoLock \in Lock
  BY DEF NoLock, Lock
<1>2. p.lease \in [Account -> Runs \cup {None}] /\ p.lock \in [Account -> Lock]
  BY DEF Pools
<1>. DEFINE a == IF p.lease[i] = r THEN None ELSE p.lease[i]
            b == IF p.lock[i].file = "whole" /\ p.lock[i].by # r THEN p.lock[i] ELSE NoLock
<1>3. a \in Runs \cup {None} /\ b \in Lock
  BY <1>1, <1>2
<1>4. Released(p, i, r) = [p EXCEPT !.lease[i] = a, !.lock[i] = b]
  BY DEF Released
<1>. HIDE DEF a, b
<1>5. /\ [p.lease EXCEPT ![i] = a] \in [Account -> Runs \cup {None}]
      /\ [p.lock EXCEPT ![i] = b] \in [Account -> Lock]
  BY <1>2, <1>3
<1>6. /\ Released(p, i, r).acct = p.acct
      /\ Released(p, i, r).lease = [p.lease EXCEPT ![i] = a]
      /\ Released(p, i, r).lock = [p.lock EXCEPT ![i] = b]
      /\ Released(p, i, r) \in Pools
  BY <1>4, <1>5 DEF Pools
<1>. QED BY <1>2, <1>6 DEF a, b

-----------------------------------------------------------------------------
(* Sound is kept by what a launch is made of.                              *)

\* Nothing that can be had is missed: an account nobody has can be taken.
LEMMA FreeIsUsable ==
  ASSUME NEW p \in Pools, NEW rs \in [Runs -> RunType], NEW left, Sound(p, rs, left),
         NEW i \in Account, FreeIn(p, rs, left, i)
  PROVE  Usable(p, i, FALSE) /\ MayTake(p.lock[i])
<1>1. ~Locked(p.lock[i])
  BY DEF Sound, FreeIn, Holds
<1>2. p.lease[i] = None
  BY <1>1 DEF Sound
<1>. QED BY <1>1, <1>2 DEF FreeIn, Usable, MayTake

\* Leases given up, locks kept: the changes of a look, a blame or a switch.
LEMMA SoundWithFewerLeases ==
  ASSUME NEW p, NEW q, NEW rs, NEW left, Sound(p, rs, left),
         q.lock = p.lock, \A i \in Account : q.lease[i] \in {p.lease[i], None}
  PROVE  Sound(q, rs, left)
BY DEF Sound

LEMMA LockOfIsLocked ==
  ASSUME NEW r
  PROVE  Locked(LockOf(r)) /\ LockOf(r).by = r
BY DEF Locked, LockOf, Stale

\* An account just claimed counts as left behind until its run works with it.
LEMMA ClaimIsSound ==
  ASSUME NEW p \in Pools, NEW rs \in [Runs -> RunType], NEW left, Sound(p, rs, left),
         NEW r \in Runs, NEW c \in Claims(p, r)
  PROVE  Sound(c.pool, rs, left \cup {c.at})
<1>0. Claimed(c, p, r)
  BY ClaimsOK
<1>1. CASE c.at = None
  <2>1. \A i \in Account : c.pool.lease[i] = p.lease[i] /\ c.pool.lock[i] = p.lock[i]
    BY <1>0, <1>1, AccountIsNat DEF Claimed
  <2>. QED BY <2>1 DEF Sound
<1>2. CASE c.at \in Account
  <2>. /\ \A i \in Account : i # c.at => c.pool.lease[i] = p.lease[i] /\ c.pool.lock[i] = p.lock[i]
       /\ ~Locked(p.lock[c.at])
       /\ c.pool.lease[c.at] = r /\ c.pool.lock[c.at] = LockOf(r)
    BY <1>0, <1>2, AccountIsNat DEF Claimed
  <2>1. \A s \in Runs : ~Holds(rs, s, c.at)
    BY <1>2, LockOfIsLocked DEF Sound
  <2>2. ASSUME NEW i \in Account, c.pool.lease[i] # None
        PROVE  Locked(c.pool.lock[i]) /\ c.pool.lock[i].by = c.pool.lease[i]
    BY <2>2, LockOfIsLocked DEF Sound
  <2>3. ASSUME NEW i \in Account, Locked(c.pool.lock[i])
        PROVE  i \in left \cup {c.at} \/ \E s \in Runs : Holds(rs, s, i) /\ c.pool.lock[i].by = s
    BY <2>3 DEF Sound
  <2>4. ASSUME NEW s \in Runs, NEW i \in Account, Holds(rs, s, i)
        PROVE  c.pool.lock[i] = LockOf(s)
    BY <2>1, <2>4 DEF Sound
  <2>. QED BY <2>2, <2>3, <2>4 DEF Sound
<1>. QED BY <1>0, <1>1, <1>2 DEF Claimed

LEMMA WorkIsSound ==
  ASSUME NEW p, NEW rs \in [Runs -> RunType], NEW left, NEW i \in Account,
         Sound(p, rs, left \cup {i}),
         NEW r \in Runs, rs[r].phase # "working", p.lock[i] = LockOf(r), NEW b
  PROVE  Sound(p, [rs EXCEPT ![r] = Working(i, b)], left)
<1>. DEFINE ws == [rs EXCEPT ![r] = Working(i, b)]
<1>1. ws[r] = Working(i, b) /\ \A s \in Runs : s # r => ws[s] = rs[s]
  OBVIOUS
<1>. HIDE DEF ws
<1>2. \A j \in Account : Holds(ws, r, j) <=> j = i
  BY <1>1 DEF Holds, Working
<1>3. \A s \in Runs, j \in Account : s # r => (Holds(ws, s, j) <=> Holds(rs, s, j))
  BY <1>1 DEF Holds
<1>4. \A j \in Account : ~Holds(rs, r, j)
  BY DEF Holds
<1>5. ASSUME NEW j \in Account, Locked(p.lock[j])
      PROVE  j \in left \/ \E s \in Runs : Holds(ws, s, j) /\ p.lock[j].by = s
  <2>1. CASE j = i
    BY <2>1, <1>2, LockOfIsLocked
  <2>2. CASE j # i
    BY <2>2, <1>5, <1>3, <1>4 DEF Sound
  <2>. QED BY <2>1, <2>2
<1>6. ASSUME NEW s \in Runs, NEW j \in Account, Holds(ws, s, j)
      PROVE  p.lock[j] = LockOf(s)
  BY <1>2, <1>3, <1>6 DEF Sound
<1>7. Sound(p, ws, left)
  BY <1>5, <1>6 DEF Sound
<1>. QED BY <1>7 DEF ws

\* A release takes nothing from the others: the account may be in other hands.
LEMMA ReleaseIsSound ==
  ASSUME NEW p \in Pools, NEW rs \in [Runs -> RunType], NEW left, Sound(p, rs, left),
         NEW r \in Runs, NEW i \in Account, rs[r].phase = "working", rs[r].at = i,
         NEW x, x.phase # "working"
  PROVE  Sound(Released(p, i, r), [rs EXCEPT ![r] = x], left)
<1>. DEFINE ws == [rs EXCEPT ![r] = x]
            q == Released(p, i, r)
<1>1. ws[r] = x /\ \A s \in Runs : s # r => ws[s] = rs[s]
  OBVIOUS
<1>2. /\ \A j \in Account : j # i => q.lease[j] = p.lease[j] /\ q.lock[j] = p.lock[j]
      /\ q.lease[i] = IF p.lease[i] = r THEN None ELSE p.lease[i]
      /\ q.lock[i] = IF p.lock[i].file = "whole" /\ p.lock[i].by # r THEN p.lock[i] ELSE NoLock
  BY ReleasedOK
<1>. HIDE DEF ws, q
<1>3. \A j \in Account : ~Holds(ws, r, j)
  BY <1>1 DEF Holds
<1>4. \A s \in Runs, j \in Account : s # r => (Holds(ws, s, j) <=> Holds(rs, s, j))
  BY <1>1 DEF Holds
<1>5. ~Locked(NoLock)
  BY DEF Locked, NoLock
<1>6. ASSUME NEW j \in Account, q.lease[j] # None
      PROVE  Locked(q.lock[j]) /\ q.lock[j].by = q.lease[j]
  <2>1. CASE j # i
    BY <2>1, <1>2, <1>6 DEF Sound
  <2>2. CASE j = i
    <3>1. p.lease[i] # r /\ p.lease[i] # None /\ q.lease[i] = p.lease[i]
      BY <2>2, <1>2, <1>6
    <3>2. Locked(p.lock[i]) /\ p.lock[i].by = p.lease[i]
      BY <3>1 DEF Sound
    <3>3. q.lock[i] = p.lock[i]
      BY <3>1, <3>2, <1>2 DEF Locked
    <3>. QED BY <2>2, <3>1, <3>2, <3>3
  <2>. QED BY <2>1, <2>2
<1>7. ASSUME NEW j \in Account, Locked(q.lock[j])
      PROVE  j \in left \/ \E s \in Runs : Holds(ws, s, j) /\ q.lock[j].by = s
  <2>1. q.lock[j] = p.lock[j] /\ (j # i \/ q.lock[j].by # r)
    BY <1>2, <1>5, <1>7 DEF Locked
  <2>2. j \in left \/ \E s \in Runs : Holds(rs, s, j) /\ q.lock[j].by = s
    BY <1>7, <2>1 DEF Sound
  <2>3. Holds(rs, r, j) => j = i
    BY DEF Holds
  <2>. QED BY <1>4, <2>1, <2>2, <2>3
<1>8. ASSUME NEW s \in Runs, NEW j \in Account, Holds(ws, s, j)
      PROVE  q.lock[j] = LockOf(s)
  <2>1. s # r /\ Holds(rs, s, j)
    BY <1>3, <1>4, <1>8
  <2>2. p.lock[j] = LockOf(s)
    BY <2>1 DEF Sound
  <2>3. p.lock[j].file = "whole" /\ p.lock[j].by # r
    BY <2>1, <2>2 DEF LockOf
  <2>. QED BY <2>2, <2>3, <1>2
<1>9. Sound(q, ws, left)
  BY <1>6, <1>7, <1>8 DEF Sound
<1>. QED BY <1>9 DEF ws, q

-----------------------------------------------------------------------------
(* What a launch leaves, told or refused.                                  *)

RunOK(w) == w \in RunType /\ (w.phase = "working" => w.at \in Account)

LEMMA RunsOK ==
  ASSUME NEW i \in Account, NEW b \in BOOLEAN
  PROVE  /\ RunOK(Idle) /\ Idle.phase = "idle" /\ RunOK(Refused) /\ Refused.phase = "refused"
         /\ RunOK(Working(i, b)) /\ Working(i, b).phase = "working" /\ Working(i, b).at = i
BY AccountIsNat DEF RunOK, RunType, Idle, Refused, Working

\* When a claim finds nothing, no account is free.
LEMMA RefusalIsRight ==
  ASSUME NEW p \in Pools, NEW rs \in [Runs -> RunType], NEW left, Sound(p, rs, left),
         NEW r \in Runs, NEW c \in Claims(p, r), c.at = None
  PROVE  /\ Sound(c.pool, rs, left)
         /\ \A i \in Account : ~FreeIn(c.pool, rs, left, i)
<1>1. Claimed(c, p, r)
  BY ClaimsOK
<1>2. \A i \in Account : c.pool.lease[i] = p.lease[i] /\ c.pool.lock[i] = p.lock[i]
  BY <1>1, AccountIsNat DEF Claimed
<1>3. Sound(c.pool, rs, left)
  BY <1>2 DEF Sound
<1>4. \A i \in Account : ~(Usable(c.pool, i, FALSE) /\ MayTake(c.pool.lock[i]))
  BY <1>1, AccountIsNat DEF Claimed
<1>5. c.pool \in Pools
  BY <1>1 DEF Claimed
<1>. QED BY <1>3, <1>4, <1>5, FreeIsUsable

LEMMA PreparedOK ==
  ASSUME NEW p \in Pools, NEW rs \in [Runs -> RunType], NEW left, Sound(p, rs, left),
         NEW r \in Runs, rs[r].phase # "working", NEW b \in BOOLEAN, NEW e \in Prepared(p, r, b)
  PROVE  /\ e.pool \in Pools /\ RunOK(e.run)
         /\ Sound(e.pool, [rs EXCEPT ![r] = e.run], left)
         /\ e.run.phase = "refused" =>
              \A i \in Account : ~FreeIn(e.pool, [rs EXCEPT ![r] = e.run], left, i)
<1>1. PICK c \in Claims(p, r) :
        e \in IF c.at = None THEN {[pool |-> c.pool, run |-> Refused]}
              ELSE {[pool |-> c.pool, run |-> Working(c.at, b)],
                    [pool |-> Released(c.pool, c.at, r), run |-> Idle]}
  BY DEF Prepared
<1>2. /\ c.pool \in Pools
      /\ c.at \in Account => c.pool.lock[c.at] = LockOf(r)
      /\ c.at \in Account \/ c.at = None
  BY ClaimsOK, AccountIsNat DEF Claimed
<1>3. CASE c.at = None
  <2>1. Sound(c.pool, rs, left) /\ \A i \in Account : ~FreeIn(c.pool, rs, left, i)
    BY <1>3, RefusalIsRight
  <2>2. e.pool = c.pool /\ e.run = Refused
    BY <1>1, <1>3
  <2>. DEFINE ws == [rs EXCEPT ![r] = Refused]
  <2>3. \A s \in Runs, i \in Account :
          /\ Holds(ws, s, i) <=> Holds(rs, s, i)
          /\ (ws[s].phase = "working" /\ ws[s].at = i => ws[s].late) <=>
             (rs[s].phase = "working" /\ rs[s].at = i => rs[s].late)
    <3>1. ws[r] = Refused /\ \A s \in Runs : s # r => ws[s] = rs[s]
      OBVIOUS
    <3>2. Refused.phase # "working"
      BY DEF Refused, Idle
    <3>. QED BY <3>1, <3>2 DEF Holds
  <2>. HIDE DEF ws
  <2>4. Sound(c.pool, ws, left)
    BY <2>1, <2>3 DEF Sound
  <2>5. \A i \in Account : ~FreeIn(c.pool, ws, left, i)
    BY <2>1, <2>3 DEF FreeIn
  <2>6. RunOK(Refused)
    BY RunsOK, AccountIsNat
  <2>. QED BY <2>2, <2>4, <2>5, <2>6, <1>2 DEF ws
<1>4. CASE c.at \in Account
  <2>1. Sound(c.pool, rs, left \cup {c.at})
    BY ClaimIsSound
  <2>. DEFINE ws == [rs EXCEPT ![r] = Working(c.at, b)]
  <2>2. Sound(c.pool, ws, left)
    BY <2>1, <1>2, <1>4, WorkIsSound
  <2>3. RunOK(Working(c.at, b)) /\ Working(c.at, b).phase = "working" /\ Working(c.at, b).at = c.at
        /\ RunOK(Idle) /\ Idle.phase = "idle"
    BY <1>4, RunsOK
  <2>4. ws \in [Runs -> RunType] /\ ws[r] = Working(c.at, b)
    BY <2>3 DEF RunOK
  <2>5. [ws EXCEPT ![r] = Idle] = [rs EXCEPT ![r] = Idle]
    OBVIOUS
  <2>. HIDE DEF ws
  <2>6. Released(c.pool, c.at, r) \in Pools
    BY <1>2, <1>4, ReleasedOK
  <2>7. Sound(Released(c.pool, c.at, r), [ws EXCEPT ![r] = Idle], left)
    BY <1>2, <1>4, <2>2, <2>3, <2>4, ReleaseIsSound
  <2>8. \/ e.pool = c.pool /\ e.run = Working(c.at, b)
        \/ e.pool = Released(c.pool, c.at, r) /\ e.run = Idle
    BY <1>1, <1>4, AccountIsNat
  <2>9. CASE e.pool = c.pool /\ e.run = Working(c.at, b)
    BY <2>9, <1>2, <2>2, <2>3 DEF ws
  <2>10. CASE e.pool = Released(c.pool, c.at, r) /\ e.run = Idle
    BY <2>10, <2>3, <2>5, <2>6, <2>7
  <2>. QED BY <2>8, <2>9, <2>10
<1>. QED BY <1>2, <1>3, <1>4

\* The outcome of a second claim beside account i: another one that is free was
\* free for the claim.
Again(e, rs, left, r, i) ==
  /\ e.pool \in Pools /\ RunOK(e.run)
  /\ Sound(e.pool, [rs EXCEPT ![r] = e.run], left)
  /\ e.run.phase = "refused" =>
       \A j \in Account : FreeIn(e.pool, [rs EXCEPT ![r] = e.run], left, j) => j = i

LEMMA PreparedAgainOK ==
  ASSUME NEW p \in Pools, NEW rs \in [Runs -> RunType], NEW left, NEW r \in Runs,
         NEW w \in RunType, w.phase = "working", w.at \in Account, ~w.late,
         Sound(p, [rs EXCEPT ![r] = w], left),
         NEW e \in PreparedAgain([pool |-> p, run |-> w], r)
  PROVE  Again(e, rs, left, r, w.at)
<1>. DEFINE ws == [rs EXCEPT ![r] = w]
<1>0. ws \in [Runs -> RunType] /\ ws[r] = w /\ Sound(p, ws, left)
  OBVIOUS
<1>1. PICK c \in Claims(p, r) :
        e = [pool |-> Released(c.pool, w.at, r),
             run |-> IF c.at = None THEN Refused ELSE Working(c.at, w.rotated)]
  BY DEF PreparedAgain
<1>2. /\ c.pool \in Pools
      /\ c.at \in Account => ~Locked(p.lock[c.at]) /\ c.pool.lock[c.at] = LockOf(r)
      /\ c.at \in Account \/ c.at = None
  <2>1. Claimed(c, p, r)
    BY ClaimsOK
  <2>. QED BY <2>1, AccountIsNat DEF Claimed
<1>. DEFINE q == Released(c.pool, w.at, r)
<1>3. /\ q \in Pools /\ q.acct = c.pool.acct
      /\ \A j \in Account : j # w.at => q.lease[j] = c.pool.lease[j] /\ q.lock[j] = c.pool.lock[j]
  BY <1>2, ReleasedOK
<1>4. \A x : [ws EXCEPT ![r] = x] = [rs EXCEPT ![r] = x]
  OBVIOUS
<1>5. \A x, lk : Sound(c.pool, ws, lk) /\ x.phase # "working" => Sound(q, [rs EXCEPT ![r] = x], lk)
  <2>. SUFFICES ASSUME NEW x, NEW lk, Sound(c.pool, ws, lk), x.phase # "working"
                PROVE  Sound(q, [ws EXCEPT ![r] = x], lk)
    BY <1>4
  <2>. HIDE DEF ws, q
  <2>. QED BY <1>0, <1>2, ReleaseIsSound DEF q
<1>. HIDE DEF q
<1>6. CASE c.at = None
  <2>1. Sound(c.pool, ws, left) /\ \A i \in Account : ~FreeIn(c.pool, ws, left, i)
    <3>. HIDE DEF ws
    <3>. QED BY <1>0, <1>6, RefusalIsRight
  <2>2. e.pool = q /\ e.run = Refused
    BY <1>1, <1>6 DEF q
  <2>3. RunOK(Refused) /\ Refused.phase = "refused"
    BY RunsOK, AccountIsNat
  <2>4. Sound(q, [rs EXCEPT ![r] = Refused], left)
    BY <1>5, <2>1, <2>3
  <2>5. ASSUME NEW i \in Account, FreeIn(q, [rs EXCEPT ![r] = Refused], left, i), i # w.at
        PROVE  FALSE
    <3>. DEFINE vs == [rs EXCEPT ![r] = Refused]
    <3>1. \A s \in Runs : s # r => vs[s] = ws[s]
      OBVIOUS
    <3>. HIDE DEF vs, ws
    <3>2. \A s \in Runs : ws[s].phase = "working" /\ ws[s].at = i => ws[s].late
      BY <3>1, <2>5, <1>0 DEF FreeIn, vs
    <3>3. FreeIn(c.pool, ws, left, i)
      BY <3>2, <2>5, <1>3 DEF FreeIn
    <3>. QED BY <2>1, <3>3
  <2>. QED BY <1>3, <2>2, <2>3, <2>4, <2>5 DEF Again
<1>7. CASE c.at \in Account
  <2>1. Sound(c.pool, ws, left \cup {c.at})
    <3>. HIDE DEF ws
    <3>. QED BY <1>0, ClaimIsSound
  <2>2. c.at # w.at
    <3>1. Holds(ws, r, w.at)
      BY <1>0 DEF Holds
    <3>. HIDE DEF ws
    <3>2. p.lock[w.at] = LockOf(r)
      BY <1>0, <3>1 DEF Sound
    <3>. QED BY <3>2, <1>2, <1>7, LockOfIsLocked
  <2>3. q.lock[c.at] = LockOf(r)
    BY <1>2, <1>3, <1>7, <2>2
  <2>4. w.rotated \in BOOLEAN
    BY DEF RunType
  <2>5. RunOK(Idle) /\ Idle.phase = "idle"
        /\ RunOK(Working(c.at, w.rotated)) /\ Working(c.at, w.rotated).phase = "working"
    BY <1>7, <2>4, RunsOK
  <2>. DEFINE is == [rs EXCEPT ![r] = Idle]
  <2>6. Sound(q, is, left \cup {c.at})
    BY <1>5, <2>1, <2>5
  <2>7. is \in [Runs -> RunType] /\ is[r].phase # "working"
    BY <2>5 DEF RunOK
  <2>8. [is EXCEPT ![r] = Working(c.at, w.rotated)] = [rs EXCEPT ![r] = Working(c.at, w.rotated)]
    OBVIOUS
  <2>. HIDE DEF is
  <2>9. Sound(q, [is EXCEPT ![r] = Working(c.at, w.rotated)], left)
    BY <1>7, <2>3, <2>6, <2>7, WorkIsSound
  <2>10. e.pool = q /\ e.run = Working(c.at, w.rotated)
    BY <1>1, <1>7, AccountIsNat DEF q
  <2>. QED BY <2>10, <1>3, <2>5, <2>8, <2>9 DEF Again
<1>. QED BY <1>2, <1>6, <1>7

\* Who leaves a lease behind no longer works, and the lease is left.
LEMMA LeftBehind ==
  ASSUME NEW p \in Pools, NEW rs \in [Runs -> RunType], NEW left, NEW r \in Runs, NEW w \in RunType,
         Sound(p, [rs EXCEPT ![r] = w], left)
  PROVE  Sound(p, [rs EXCEPT ![r] = Idle], left \cup {w.at})
<1>. DEFINE ws == [rs EXCEPT ![r] = w]
            is == [rs EXCEPT ![r] = Idle]
<1>1. ws[r] = w /\ is[r] = Idle /\ \A s \in Runs : s # r => is[s] = ws[s]
  OBVIOUS
<1>2. Sound(p, ws, left) /\ Idle.phase # "working"
  BY DEF Idle
<1>. HIDE DEF ws, is
<1>3. \A s \in Runs, i \in Account : Holds(is, s, i) <=> s # r /\ Holds(ws, s, i)
  BY <1>1, <1>2 DEF Holds
<1>4. \A i \in Account : Holds(ws, r, i) => i = w.at
  BY <1>1 DEF Holds
<1>5. Sound(p, is, left \cup {w.at})
  BY <1>2, <1>3, <1>4 DEF Sound
<1>. QED BY <1>5 DEF is

Outcome(e, rs, left, r) ==
  /\ e.pool \in Pools /\ RunOK(e.run) /\ e.leaked \subseteq Account
  /\ Sound(e.pool, [rs EXCEPT ![r] = e.run], left \cup e.leaked)
  /\ e.run.phase = "refused" =>
       \A i, j \in Account :
         /\ FreeIn(e.pool, [rs EXCEPT ![r] = e.run], left \cup e.leaked, i)
         /\ FreeIn(e.pool, [rs EXCEPT ![r] = e.run], left \cup e.leaked, j)
         => r \in ReadonlyRuns /\ i = j

LEMMA LaunchesOK ==
  ASSUME NEW p \in Pools, NEW rs \in [Runs -> RunType], NEW left, Sound(p, rs, left),
         NEW r \in Runs, rs[r].phase # "working", NEW b \in BOOLEAN, NEW e \in Launches(p, r, b)
  PROVE  Outcome(e, rs, left, r)
<1>. DEFINE Ready(f) == IF r \in ReadonlyRuns /\ f.run.phase = "working" THEN PreparedAgain(f, r) ELSE {f}
<1>0. PICK f \in Prepared(p, r, b) : \E g \in Ready(f) :
        \/ e = [pool |-> g.pool, run |-> g.run, leaked |-> {}]
        \/ g.run.phase = "working" /\ e = [pool |-> g.pool, run |-> Idle, leaked |-> {g.run.at}]
  BY DEF Launches
<1>1. PICK g \in Ready(f) :
        \/ e = [pool |-> g.pool, run |-> g.run, leaked |-> {}]
        \/ g.run.phase = "working" /\ e = [pool |-> g.pool, run |-> Idle, leaked |-> {g.run.at}]
  BY <1>0
<1>2. /\ f.pool \in Pools /\ RunOK(f.run)
      /\ Sound(f.pool, [rs EXCEPT ![r] = f.run], left)
      /\ f.run.phase = "refused" =>
           \A i \in Account : ~FreeIn(f.pool, [rs EXCEPT ![r] = f.run], left, i)
  BY PreparedOK
<1>3. /\ g.pool \in Pools /\ RunOK(g.run)
      /\ Sound(g.pool, [rs EXCEPT ![r] = g.run], left)
      /\ g.run.phase = "refused" =>
           \A i, j \in Account :
             FreeIn(g.pool, [rs EXCEPT ![r] = g.run], left, i) /\ FreeIn(g.pool, [rs EXCEPT ![r] = g.run], left, j)
             => r \in ReadonlyRuns /\ i = j
  <2>1. CASE r \in ReadonlyRuns /\ f.run.phase = "working"
    <3>1. f.run.late = FALSE /\ f = [pool |-> f.pool, run |-> f.run]
      <4>1. PICK c \in Claims(p, r) :
              f \in IF c.at = None THEN {[pool |-> c.pool, run |-> Refused]}
                    ELSE {[pool |-> c.pool, run |-> Working(c.at, b)],
                          [pool |-> Released(c.pool, c.at, r), run |-> Idle]}
        BY DEF Prepared
      <4>. QED BY <4>1 DEF Refused, Idle, Working
    <3>. DEFINE q == f.pool
                w == f.run
    <3>2. /\ q \in Pools /\ w \in RunType /\ w.phase = "working" /\ w.at \in Account /\ ~w.late
          /\ Sound(q, [rs EXCEPT ![r] = w], left)
          /\ g \in PreparedAgain([pool |-> q, run |-> w], r)
      BY <1>1, <1>2, <2>1, <3>1 DEF RunOK
    <3>. HIDE DEF q, w
    <3>3. Again(g, rs, left, r, w.at)
      BY <3>2, PreparedAgainOK
    <3>. DEFINE ws == [rs EXCEPT ![r] = g.run]
    <3>. HIDE DEF ws
    <3>4. /\ g.pool \in Pools /\ RunOK(g.run) /\ Sound(g.pool, ws, left)
          /\ g.run.phase = "refused" => \A j \in Account : FreeIn(g.pool, ws, left, j) => j = w.at
      BY <3>3 DEF Again, ws
    <3>. QED BY <2>1, <3>4 DEF ws
  <2>2. CASE ~(r \in ReadonlyRuns /\ f.run.phase = "working")
    <3>1. g = f
      BY <1>1, <2>2
    <3>. QED BY <3>1, <1>2
  <2>. QED BY <2>1, <2>2
<1>. HIDE DEF Ready
<1>4. CASE e = [pool |-> g.pool, run |-> g.run, leaked |-> {}]
  <2>1. e.pool = g.pool /\ e.run = g.run /\ e.leaked = {} /\ left \cup {} = left
    BY <1>4
  <2>. QED BY <2>1, <1>3 DEF Outcome
<1>5. CASE g.run.phase = "working" /\ e = [pool |-> g.pool, run |-> Idle, leaked |-> {g.run.at}]
  <2>1. e.pool = g.pool /\ e.run = Idle /\ e.leaked = {g.run.at}
    BY <1>5
  <2>2. g.run \in RunType /\ g.run.at \in Account
    BY <1>3, <1>5 DEF RunOK
  <2>3. Sound(g.pool, [rs EXCEPT ![r] = Idle], left \cup {g.run.at})
    <3>. DEFINE w == g.run
                q == g.pool
    <3>1. q \in Pools /\ w \in RunType /\ Sound(q, [rs EXCEPT ![r] = w], left)
      BY <1>3, <2>2
    <3>. HIDE DEF w, q
    <3>2. Sound(q, [rs EXCEPT ![r] = Idle], left \cup {w.at})
      BY <3>1, LeftBehind
    <3>. QED BY <3>2 DEF w, q
  <2>4. RunOK(Idle) /\ Idle.phase = "idle"
    BY RunsOK, AccountIsNat
  <2>. QED BY <2>1, <2>2, <2>3, <2>4, <1>3 DEF Outcome
<1>. QED BY <1>1, <1>4, <1>5

-----------------------------------------------------------------------------
(* What else happens to the pool gives leases up, and touches no lock.     *)

Fewer(q, p) ==
  /\ q \in Pools
  /\ q.lock = p.lock
  /\ \A i \in Account : q.lease[i] \in {p.lease[i], None}

LEMMA SavesFewer ==
  ASSUME NEW p, NEW q, Fewer(q, p)
  PROVE  Fewer(Saves(q), p)
BY SavesOK DEF Fewer

LEMMA FewerIsSound ==
  ASSUME NEW p, NEW q, Fewer(q, p), NEW rs, NEW left, Sound(p, rs, left)
  PROVE  Sound(q, rs, left)
BY SoundWithFewerLeases DEF Fewer

LEMMA FewerTwice ==
  ASSUME NEW p, NEW q, NEW o, Fewer(o, q), Fewer(q, p)
  PROVE  Fewer(o, p)
BY DEF Fewer

LEMMA NextsOK ==
  ASSUME NEW p \in Pools, NEW n \in Nexts(p)
  PROVE  Fewer(n.pool, p) /\ n.at \in Account \cup {None}
<1>. DEFINE ks == 1..(NumAccounts - 1)
<1>1. \E k \in Nat, js \in SUBSET Nat :
        n.pool = Looked(p, js) /\ (n.at = At(p, k) \/ n.at = None)
  <2>1. ks \in SUBSET Nat /\ 1 \in Nat
    OBVIOUS
  <2>2. \A k \in ks : 1..k \in SUBSET Nat /\ k \in Nat
    OBVIOUS
  <2>3. \/ \E k \in ks : n = [pool |-> Looked(p, 1..k), at |-> At(p, k)]
        \/ \E k \in ks : n = [pool |-> Looked(p, ks), at |-> At(p, k)]
        \/ n = [pool |-> Looked(p, ks), at |-> None]
    BY DEF Nexts, Nearest
  <2>. HIDE DEF ks
  <2>. QED BY <2>1, <2>2, <2>3
<1>. QED BY <1>1, LookedOK, AtType DEF Fewer

LEMMA BlamedOK ==
  ASSUME NEW p \in Pools, NEW why
  PROVE  Fewer(Blamed(p, why), p)
<1>. p.cur \in Account /\ p.acct \in [Account -> AcctType] /\ p.lease \in [Account -> Runs \cup {None}]
  BY DEF Pools
<1>1. p.acct[p.cur] \in AcctType
  OBVIOUS
<1>2. CASE why = "auth"
  <2>1. [p.acct[p.cur] EXCEPT !.auth = "dead", !.limited = FALSE] \in AcctType
    BY <1>1 DEF AcctType
  <2>. DEFINE f == [p.acct EXCEPT ![p.cur] = [p.acct[p.cur] EXCEPT !.auth = "dead", !.limited = FALSE]]
              g == [p.lease EXCEPT ![p.cur] = None]
  <2>2. f \in [Account -> AcctType] /\ g \in [Account -> Runs \cup {None}]
        /\ \A i \in Account : g[i] \in {p.lease[i], None}
    BY <2>1
  <2>3. Blamed(p, why) = [p EXCEPT !.acct = f, !.lease = g]
    BY <1>2 DEF Blamed
  <2>. HIDE DEF f, g
  <2>. QED BY <2>2, <2>3 DEF Pools, Fewer
<1>3. CASE why # "auth"
  <2>1. [p.acct[p.cur] EXCEPT !.limited = TRUE] \in AcctType
    BY <1>1 DEF AcctType
  <2>. DEFINE f == [p.acct EXCEPT ![p.cur] = [p.acct[p.cur] EXCEPT !.limited = TRUE]]
  <2>2. f \in [Account -> AcctType]
    BY <2>1
  <2>3. Blamed(p, why) = [p EXCEPT !.acct = f]
    BY <1>3 DEF Blamed
  <2>. HIDE DEF f
  <2>. QED BY <2>2, <2>3 DEF Pools, Fewer
<1>. QED BY <1>2, <1>3

\* accounts[i] with one entry changed, and currentIndex.
LEMMA AccountChanged ==
  ASSUME NEW p \in Pools, NEW i \in Account, NEW a \in AcctType, NEW j \in Account
  PROVE  /\ Fewer([p EXCEPT !.acct[i] = a], p)
         /\ Fewer([p EXCEPT !.cur = j], p)
         /\ Fewer([p EXCEPT !.acct[i] = a, !.cur = j], p)
         /\ Fewer([p EXCEPT !.cur = j, !.acct[i] = a], p)
<1>. DEFINE f == [p.acct EXCEPT ![i] = a]
<1>1. f \in [Account -> AcctType]
  BY DEF Pools
<1>2. /\ [p EXCEPT !.acct[i] = a] = [p EXCEPT !.acct = f]
      /\ [p EXCEPT !.acct[i] = a, !.cur = j] = [p EXCEPT !.acct = f, !.cur = j]
      /\ [p EXCEPT !.cur = j, !.acct[i] = a] = [p EXCEPT !.cur = j, !.acct = f]
  OBVIOUS
<1>. HIDE DEF f
<1>. QED BY <1>1, <1>2 DEF Pools, Fewer

LEMMA RotationsOK ==
  ASSUME NEW p \in Pools, NEW why, NEW n \in Rotations(p, why)
  PROVE  Fewer(n.pool, p) /\ n.found \in BOOLEAN
<1>1. PICK m \in Nexts(Blamed(p, why)) :
        n = [pool |-> Saves(IF m.at = None THEN m.pool
                            ELSE [m.pool EXCEPT !.acct[m.at].limited = FALSE, !.cur = m.at]),
             found |-> m.at # None]
  BY DEF Rotations
<1>2. Blamed(p, why) \in Pools /\ Fewer(Blamed(p, why), p)
  BY BlamedOK DEF Fewer
<1>3. Fewer(m.pool, Blamed(p, why)) /\ m.at \in Account \cup {None}
  BY <1>2, NextsOK
<1>4. Fewer(m.pool, p) /\ m.pool \in Pools
  BY <1>2, <1>3, FewerTwice DEF Fewer
<1>5. CASE m.at = None
  BY <1>1, <1>4, <1>5, SavesFewer
<1>6. CASE m.at # None
  <2>. DEFINE a == [m.pool.acct[m.at] EXCEPT !.limited = FALSE]
  <2>1. a \in AcctType
    <3>1. m.pool.acct[m.at] \in AcctType
      BY <1>3, <1>4, <1>6 DEF Pools
    <3>. QED BY <3>1 DEF AcctType
  <2>2. [m.pool EXCEPT !.acct[m.at].limited = FALSE, !.cur = m.at] = [m.pool EXCEPT !.acct[m.at] = a, !.cur = m.at]
    OBVIOUS
  <2>. HIDE DEF a
  <2>3. Fewer([m.pool EXCEPT !.acct[m.at] = a, !.cur = m.at], m.pool)
    BY <2>1, <1>3, <1>4, <1>6, AccountChanged
  <2>4. Fewer([m.pool EXCEPT !.acct[m.at].limited = FALSE, !.cur = m.at], p)
    BY <2>2, <2>3, <1>4, FewerTwice
  <2>5. n.pool = Saves([m.pool EXCEPT !.acct[m.at].limited = FALSE, !.cur = m.at]) /\ n.found = TRUE
    BY <1>1, <1>6
  <2>. QED BY <2>4, <2>5, SavesFewer
<1>. QED BY <1>5, <1>6

LEMMA MarkedHealthyOK ==
  ASSUME NEW p \in Pools
  PROVE  Fewer(MarkedHealthy(p), p)
<1>. p.cur \in Account /\ p.acct \in [Account -> AcctType]
  BY DEF Pools
<1>1. [p.acct[p.cur] EXCEPT !.auth = "healthy", !.limited = FALSE] \in AcctType
  BY DEF AcctType
<1>. DEFINE f == [p.acct EXCEPT ![p.cur] = [p.acct[p.cur] EXCEPT !.auth = "healthy", !.limited = FALSE]]
            q == [p EXCEPT !.acct[p.cur].auth = "healthy", !.acct[p.cur].limited = FALSE]
<1>2. f \in [Account -> AcctType]
  BY <1>1
<1>3. q = [p EXCEPT !.acct = f]
  OBVIOUS
<1>4. MarkedHealthy(p) \in {Saves(q), p}
  BY DEF MarkedHealthy
<1>. HIDE DEF f, q
<1>5. Fewer(q, p) /\ Fewer(p, p)
  BY <1>2, <1>3 DEF Pools, Fewer
<1>. QED BY <1>4, <1>5, SavesFewer

-----------------------------------------------------------------------------
(* Each action keeps the invariant, and refuses a turn only when it must.  *)

RefusedRightly(r) ==
  run[r].phase # "refused" /\ run'[r].phase = "refused" =>
    \A i, j \in Account : Free(i)' /\ Free(j)' => r \in ReadonlyRuns /\ i = j

Good == IInv' /\ \A r \in Runs : RefusedRightly(r)

LEMMA PoolBecomesOK ==
  ASSUME NEW p \in Pools, PoolBecomes(p)
  PROVE  pool' = p
BY DEF PoolBecomes, pool, Pools

LEMMA TypesOf ==
  ASSUME IInv
  PROVE  /\ pool \in Pools /\ run \in [Runs -> RunType] /\ leaked \subseteq Account
         /\ \A r \in Runs : RunOK(run[r])
         /\ Sound(pool, run, leaked)
         /\ cur \in Account /\ acct \in [Account -> AcctType]
         /\ lease \in [Account -> Runs \cup {None}] /\ lock \in [Account -> Lock]
BY DEF IInv, TypeOK, AtWork, RunOK, pool, Pools

\* A step that keeps every turn, or lets turns become idle.
LEMMA QuietStep ==
  ASSUME IInv, pool' \in Pools, run' \in [Runs -> RunType], AtWork(run'), leaked' \subseteq Account,
         turns' \in 0..MaxTurns, events' \in 0..MaxEvents,
         Sound(pool', run', leaked'),
         \A r \in Runs : run'[r].phase = "refused" => run[r].phase = "refused"
  PROVE  Good
BY DEF Good, IInv, TypeOK, RefusedRightly, pool

LEMMA EventOK ==
  ASSUME IInv, Event
  PROVE  events' \in 0..MaxEvents
BY DEF IInv, TypeOK, Event

\* The pool once the turn is over is sound without it.
LEMMA FinalizedOK ==
  ASSUME IInv, NEW r \in Runs, NEW x \in RunType, x.phase # "working"
  PROVE  Finalized(r) \in Pools /\ Sound(Finalized(r), [run EXCEPT ![r] = x], leaked)
<1>. /\ pool \in Pools /\ run \in [Runs -> RunType] /\ Sound(pool, run, leaked)
     /\ RunOK(run[r])
  BY TypesOf
<1>1. CASE run[r].phase = "working"
  <2>1. run[r].at \in Account /\ Finalized(r) = Released(pool, run[r].at, r)
    BY <1>1 DEF RunOK, Finalized
  <2>. DEFINE i == run[r].at
              p == pool
  <2>2. i \in Account /\ p \in Pools /\ Sound(p, run, leaked) /\ run[r].at = i
    BY <2>1
  <2>3. Finalized(r) = Released(p, i, r)
    BY <2>1
  <2>. HIDE DEF i, p
  <2>4. Released(p, i, r) \in Pools
    BY <2>2, ReleasedOK
  <2>5. Sound(Released(p, i, r), [run EXCEPT ![r] = x], leaked)
    BY <1>1, <2>2, ReleaseIsSound
  <2>. QED BY <2>3, <2>4, <2>5
<1>2. CASE run[r].phase # "working"
  <2>. DEFINE ws == [run EXCEPT ![r] = x]
  <2>1. ws[r] = x /\ \A s \in Runs : s # r => ws[s] = run[s]
    OBVIOUS
  <2>. HIDE DEF ws
  <2>2. \A s \in Runs, i \in Account : Holds(ws, s, i) <=> Holds(run, s, i)
    BY <1>2, <2>1 DEF Holds
  <2>3. Sound(pool, ws, leaked)
    BY <2>2 DEF Sound
  <2>. QED BY <2>3, <1>2 DEF Finalized, ws
<1>. QED BY <1>1, <1>2

LEMMA LaunchOK ==
  ASSUME IInv, NEW r \in Runs, NEW p \in Pools, Sound(p, [run EXCEPT ![r] = Idle], leaked),
         NEW b \in BOOLEAN, Launch(r, p, b),
         turns' \in 0..MaxTurns, events' \in 0..MaxEvents
  PROVE  Good
<1>. /\ run \in [Runs -> RunType] /\ leaked \subseteq Account
     /\ \A s \in Runs : RunOK(run[s])
  BY TypesOf
<1>. DEFINE rs == [run EXCEPT ![r] = Idle]
<1>1. RunOK(Idle) /\ Idle.phase = "idle"
  BY RunsOK, AccountIsNat
<1>2. rs \in [Runs -> RunType] /\ rs[r].phase # "working"
  BY <1>1 DEF RunOK
<1>3. \A x : [rs EXCEPT ![r] = x] = [run EXCEPT ![r] = x]
  OBVIOUS
<1>. HIDE DEF rs
<1>4. PICK e \in Launches(p, r, b) :
        /\ run' = [run EXCEPT ![r] = e.run]
        /\ leaked' = leaked \cup e.leaked
        /\ PoolBecomes(e.pool)
  BY DEF Launch
<1>5. Sound(p, rs, leaked)
  BY DEF rs
<1>6. Outcome(e, rs, leaked, r)
  BY <1>2, <1>5, LaunchesOK
<1>7. pool' = e.pool
  BY <1>4, <1>6, PoolBecomesOK DEF Outcome
<1>8. run' = [rs EXCEPT ![r] = e.run]
  BY <1>3, <1>4
<1>9. /\ pool' \in Pools /\ RunOK(e.run) /\ leaked' \subseteq Account
      /\ Sound(pool', run', leaked')
      /\ e.run.phase = "refused" =>
           \A i, j \in Account :
             FreeIn(pool', run', leaked', i) /\ FreeIn(pool', run', leaked', j)
             => r \in ReadonlyRuns /\ i = j
  <2>1. /\ e.pool \in Pools /\ RunOK(e.run) /\ e.leaked \subseteq Account
        /\ Sound(e.pool, run', leaked')
        /\ e.run.phase = "refused" =>
             \A i, j \in Account :
               FreeIn(e.pool, run', leaked', i) /\ FreeIn(e.pool, run', leaked', j)
               => r \in ReadonlyRuns /\ i = j
    BY <1>6, <1>8, <1>4 DEF Outcome
  <2>. QED BY <2>1, <1>7, <1>4
<1>10. run'[r] = e.run /\ \A s \in Runs : s # r => run'[s] = run[s]
  BY <1>4
<1>11. run' \in [Runs -> RunType] /\ AtWork(run')
  BY <1>4, <1>9, <1>10 DEF RunOK, AtWork
<1>12. IInv'
  BY <1>9, <1>11 DEF IInv, TypeOK, pool
<1>13. ASSUME NEW s \in Runs
       PROVE  RefusedRightly(s)
  <2>1. CASE s = r
    <3>1. ASSUME run'[r].phase = "refused"
          PROVE  \A i, j \in Account : Free(i)' /\ Free(j)' => r \in ReadonlyRuns /\ i = j
      <4>1. \A i \in Account : Free(i)' <=> FreeIn(pool', run', leaked', i)
        BY DEF Free, pool
      <4>. QED BY <3>1, <4>1, <1>9, <1>10
    <3>. QED BY <2>1, <3>1 DEF RefusedRightly
  <2>2. CASE s # r
    BY <2>2, <1>10 DEF RefusedRightly
  <2>. QED BY <2>1, <2>2
<1>. QED BY <1>12, <1>13 DEF Good

LEMMA InitOK == Init => IInv
<1>. SUFFICES ASSUME Init PROVE IInv
  OBVIOUS
<1>1. RunOK(Idle) /\ Idle.phase = "idle" /\ NoLock \in Lock /\ Fresh \in AcctType /\ ~Locked(NoLock)
      /\ 0 \in Account
  BY RunsOK, AccountIsNat DEF NoLock, Lock, Fresh, AcctType, Locked
<1>2. \A i \in Account : pool.lease[i] = None /\ pool.lock[i] = NoLock
  BY DEF Init, pool
<1>3. \A r \in Runs : run[r] = Idle
  BY DEF Init
<1>4. Sound(pool, run, leaked)
  BY <1>1, <1>2, <1>3 DEF Sound, Holds
<1>5. pool \in Pools /\ run \in [Runs -> RunType] /\ AtWork(run)
  BY <1>1 DEF Init, pool, Pools, RunOK, AtWork
<1>. QED BY <1>4, <1>5 DEF Init, IInv, TypeOK

LEMMA StartOK ==
  ASSUME IInv, NEW r \in Runs, Start(r)
  PROVE  Good
<1>1. run[r] \in RunType /\ pool \in Pools /\ RunOK(Idle) /\ Idle.phase = "idle"
  BY TypesOf, RunsOK, AccountIsNat DEF RunOK
<1>2. Finalized(r) = pool
  BY DEF Start, Finalized
<1>3. Sound(pool, [run EXCEPT ![r] = Idle], leaked)
  BY <1>1, <1>2, FinalizedOK DEF RunOK
<1>4. turns' \in 0..MaxTurns /\ events' \in 0..MaxEvents
  BY DEF Start, IInv, TypeOK
<1>5. Launch(r, pool, FALSE)
  BY DEF Start
<1>. QED BY <1>1, <1>3, <1>4, <1>5, LaunchOK

\* A step of a turn that ends its run, or its hold on an account.
LEMMA EndsOK ==
  ASSUME IInv, NEW r \in Runs, NEW x \in RunType, x.phase \notin {"working", "refused"},
         NEW p, Fewer(p, Finalized(r)), PoolBecomes(p),
         run' = [run EXCEPT ![r] = x], UNCHANGED <<leaked, turns, events>>
  PROVE  Good
<1>. /\ run \in [Runs -> RunType] /\ leaked \subseteq Account
     /\ \A s \in Runs : RunOK(run[s])
  BY TypesOf
<1>1. p \in Pools /\ Sound(p, run', leaked')
  BY FinalizedOK, FewerIsSound DEF Fewer
<1>2. pool' = p
  BY <1>1, PoolBecomesOK
<1>3. run' \in [Runs -> RunType] /\ AtWork(run')
  BY DEF RunOK, AtWork
<1>4. \A s \in Runs : run'[s].phase = "refused" => run[s].phase = "refused"
  OBVIOUS
<1>5. turns' \in 0..MaxTurns /\ events' \in 0..MaxEvents
  BY DEF IInv, TypeOK
<1>6. pool' \in Pools /\ Sound(pool', run', leaked') /\ leaked' \subseteq Account
  BY <1>1, <1>2
<1>. QED BY <1>3, <1>4, <1>5, <1>6, QuietStep

LEMMA FinalizedFewer ==
  ASSUME IInv, NEW r \in Runs
  PROVE  Finalized(r) \in Pools /\ Fewer(Finalized(r), Finalized(r))
<1>1. RunOK(Idle) /\ Idle.phase = "idle"
  BY RunsOK, AccountIsNat
<1>. QED BY <1>1, FinalizedOK DEF RunOK, Fewer

LEMMA ToldOK ==
  ASSUME IInv, NEW r \in Runs, Told(r)
  PROVE  Good
<1>1. RunOK(Idle) /\ Idle.phase = "idle"
  BY RunsOK, AccountIsNat
<1>2. Finalized(r) = pool /\ PoolBecomes(pool)
  BY DEF Told, Finalized, PoolBecomes, pool
<1>3. Fewer(pool, Finalized(r))
  BY <1>2, FinalizedFewer
<1>. QED BY <1>1, <1>2, <1>3, EndsOK DEF Told, RunOK

LEMMA FlushOK ==
  ASSUME IInv, NEW r \in Runs, Flush(r)
  PROVE  Good
<1>. DEFINE x == [run[r] EXCEPT !.phase = "flushed", !.at = None, !.late = FALSE]
<1>1. x \in RunType /\ x.phase = "flushed"
  <2>1. run[r] \in RunType
    BY TypesOf
  <2>. QED BY <2>1 DEF RunType
<1>2. run' = [run EXCEPT ![r] = x]
  BY <1>1 DEF Flush
<1>. HIDE DEF x
<1>3. PoolBecomes(Finalized(r)) /\ Fewer(Finalized(r), Finalized(r))
  BY FinalizedFewer DEF Flush, Finalized
<1>. QED BY <1>1, <1>2, <1>3, EndsOK DEF Flush

LEMMA SucceedsOK ==
  ASSUME IInv, NEW r \in Runs, Succeeds(r)
  PROVE  Good
<1>1. RunOK(Idle) /\ Idle.phase = "idle"
  BY RunsOK, AccountIsNat
<1>. DEFINE p == IF run[r].rotated THEN MarkedHealthy(Finalized(r)) ELSE Finalized(r)
<1>2. Fewer(p, Finalized(r))
  BY FinalizedFewer, MarkedHealthyOK
<1>. HIDE DEF p
<1>3. Ends(r, p)
  BY DEF Succeeds, p
<1>. QED BY <1>1, <1>2, <1>3, EndsOK DEF Ends, RunOK

LEMMA FailsOK ==
  ASSUME IInv, NEW r \in Runs, Fails(r)
  PROVE  Good
<1>1. RunOK(Idle) /\ Idle.phase = "idle"
  BY RunsOK, AccountIsNat
<1>. QED BY <1>1, FinalizedFewer, EndsOK DEF Fails, Ends, RunOK

LEMMA RotatesOK ==
  ASSUME IInv, NEW r \in Runs, NEW why, Rotates(r, why)
  PROVE  Good
<1>1. RunOK(Idle) /\ Idle.phase = "idle"
  BY RunsOK, AccountIsNat
<1>2. PICK n \in Rotations(Finalized(r), why) : IF n.found THEN Launch(r, n.pool, TRUE) ELSE Ends(r, n.pool)
  BY DEF Rotates
<1>3. Fewer(n.pool, Finalized(r)) /\ n.found \in BOOLEAN
  BY FinalizedFewer, RotationsOK
<1>4. CASE n.found
  <2>1. n.pool \in Pools /\ Sound(n.pool, [run EXCEPT ![r] = Idle], leaked)
    BY <1>1, <1>3, FinalizedOK, FewerIsSound DEF RunOK, Fewer
  <2>2. turns' \in 0..MaxTurns /\ events' \in 0..MaxEvents
    BY DEF Rotates, IInv, TypeOK
  <2>. QED BY <1>2, <1>4, <2>1, <2>2, LaunchOK
<1>5. CASE ~n.found
  BY <1>1, <1>2, <1>3, <1>5, EndsOK DEF Ends, RunOK
<1>. QED BY <1>3, <1>4, <1>5

\* A step of the world, or of a part that takes no lease.
LEMMA EventStep ==
  ASSUME IInv, NEW p, Fewer(p, pool), PoolBecomes(p), Event, UNCHANGED <<run, leaked, turns>>
  PROVE  Good
<1>1. p \in Pools /\ pool' = p
  BY PoolBecomesOK DEF Fewer
<1>2. Sound(pool', run, leaked)
  BY <1>1, TypesOf, FewerIsSound
<1>3. run' \in [Runs -> RunType] /\ AtWork(run') /\ leaked' \subseteq Account
  BY DEF IInv, TypeOK
<1>4. turns' \in 0..MaxTurns
  BY DEF IInv, TypeOK
<1>. QED BY <1>1, <1>2, <1>3, <1>4, EventOK, QuietStep

LEMMA CooldownElapsesOK ==
  ASSUME IInv, NEW i \in Account, CooldownElapses(i)
  PROVE  Good
<1>. DEFINE a == [acct[i] EXCEPT !.limited = FALSE]
            p == [pool EXCEPT !.acct[i] = a]
<1>1. a \in AcctType /\ pool \in Pools /\ cur \in Account
  BY TypesOf DEF AcctType
<1>2. PoolBecomes(p)
  BY DEF CooldownElapses, PoolBecomes, pool
<1>. HIDE DEF a
<1>3. Fewer(p, pool)
  BY <1>1, AccountChanged
<1>. HIDE DEF p
<1>. QED BY <1>2, <1>3, EventStep DEF CooldownElapses

LEMMA AuthFileChangesOK ==
  ASSUME IInv, NEW i \in Account, AuthFileChanges(i)
  PROVE  Good
<1>. DEFINE a == [acct[i] EXCEPT !.auth = "refreshed"]
            p == [pool EXCEPT !.acct[i] = a]
<1>1. a \in AcctType /\ pool \in Pools /\ cur \in Account
  BY TypesOf DEF AcctType
<1>2. PoolBecomes(p)
  BY DEF AuthFileChanges, PoolBecomes, pool
<1>. HIDE DEF a
<1>3. Fewer(p, pool)
  BY <1>1, AccountChanged
<1>. HIDE DEF p
<1>. QED BY <1>2, <1>3, EventStep DEF AuthFileChanges

LEMMA SwitchOK ==
  ASSUME IInv, NEW i \in Account, Switch(i)
  PROVE  Good
<1>. DEFINE a == [acct[i] EXCEPT !.limited = FALSE]
            q == [pool EXCEPT !.cur = i, !.acct[i] = a]
<1>1. a \in AcctType /\ pool \in Pools /\ cur \in Account
  BY TypesOf DEF AcctType
<1>2. PoolBecomes(Saves(q))
  BY DEF Switch, PoolBecomes, pool, Saves
<1>. HIDE DEF a
<1>3. Fewer(q, pool)
  BY <1>1, AccountChanged
<1>. HIDE DEF q
<1>. QED BY <1>2, <1>3, SavesFewer, EventStep DEF Switch

LEMMA UsageReportOK ==
  ASSUME IInv, NEW i \in Account, NEW used \in BOOLEAN, UsageReport(i, used)
  PROVE  Good
<1>. DEFINE a == [acct[i] EXCEPT !.weekUsed = used]
            q == [pool EXCEPT !.acct[i] = a]
            p == Saves(q)
<1>1. a \in AcctType /\ pool \in Pools /\ cur \in Account
  BY TypesOf DEF AcctType
<1>2. p = Saves([pool EXCEPT !.acct[i].weekUsed = used])
  BY DEF pool
<1>. HIDE DEF a
<1>3. Fewer(q, pool)
  BY <1>1, AccountChanged
<1>. HIDE DEF q
<1>4. Fewer(p, pool) /\ p \in Pools
  BY <1>3, SavesFewer DEF Fewer
<1>. HIDE DEF p
<1>5. CASE used /\ i = cur /\ NumAccounts > 1
  <2>1. PICK n \in Nexts(p) :
          PoolBecomes(IF n.at = None THEN n.pool ELSE Saves([n.pool EXCEPT !.cur = n.at]))
    BY <1>2, <1>5 DEF UsageReport
  <2>2. Fewer(n.pool, p) /\ n.at \in Account \cup {None}
    BY <1>4, NextsOK
  <2>3. Fewer(n.pool, pool) /\ n.pool \in Pools
    BY <2>2, <1>4, FewerTwice DEF Fewer
  <2>4. CASE n.at = None
    BY <2>1, <2>3, <2>4, EventStep DEF UsageReport
  <2>5. CASE n.at # None
    <3>. DEFINE o == [n.pool EXCEPT !.cur = n.at]
    <3>1. Fewer(o, n.pool)
      BY <2>2, <2>3, <2>5 DEF Fewer, Pools
    <3>. HIDE DEF o
    <3>2. Fewer(Saves(o), pool)
      BY <3>1, <2>3, FewerTwice, SavesFewer
    <3>3. PoolBecomes(Saves(o))
      BY <2>1, <2>5 DEF o
    <3>. QED BY <3>2, <3>3, EventStep DEF UsageReport
  <2>. QED BY <2>4, <2>5
<1>6. CASE ~(used /\ i = cur /\ NumAccounts > 1)
  <2>1. PoolBecomes(p)
    BY <1>2, <1>6 DEF UsageReport
  <2>. QED BY <2>1, <1>4, EventStep DEF UsageReport
<1>. QED BY <1>5, <1>6

LEMMA LeaseElapsesOK ==
  ASSUME IInv, NEW i \in Account, LeaseElapses(i)
  PROVE  Good
<1>. DEFINE l == [lock[i] EXCEPT !.fresh = FALSE]
<1>1. /\ pool \in Pools /\ run \in [Runs -> RunType] /\ leaked \subseteq Account
      /\ lease \in [Account -> Runs \cup {None}] /\ lock \in [Account -> Lock]
      /\ Sound(pool, run, leaked)
      /\ \A r \in Runs : RunOK(run[r])
  BY TypesOf
<1>2. l \in Lock /\ ~Locked(l)
  BY <1>1 DEF Lock, Locked, Stale
<1>3. /\ lock' = [lock EXCEPT ![i] = l] /\ lease' = [lease EXCEPT ![i] = None]
      /\ leaked' = leaked \ {i}
      /\ run' = [r \in Runs |-> IF run[r].at = i THEN [run[r] EXCEPT !.late = TRUE] ELSE run[r]]
      /\ UNCHANGED <<cur, saved, acct, turns>>
  BY DEF LeaseElapses
<1>. HIDE DEF l
<1>4. pool' \in Pools
  BY <1>1, <1>2, <1>3 DEF pool, Pools
<1>5. run' \in [Runs -> RunType] /\ AtWork(run')
  <2>1. ASSUME NEW r \in Runs
        PROVE  run'[r] \in RunType /\ (run'[r].phase = "working" => run'[r].at \in Account)
    <3>1. run'[r] = IF run[r].at = i THEN [run[r] EXCEPT !.late = TRUE] ELSE run[r]
      BY <1>3
    <3>. QED BY <3>1, <1>1 DEF RunOK, RunType
  <2>. QED BY <2>1, <1>3 DEF AtWork
<1>6. \A r \in Runs : run'[r].phase = run[r].phase /\ run'[r].at = run[r].at
                      /\ run'[r].late = IF run[r].at = i THEN TRUE ELSE run[r].late
  BY <1>1, <1>3 DEF RunType
<1>7. /\ \A j \in Account : j # i => pool'.lease[j] = pool.lease[j] /\ pool'.lock[j] = pool.lock[j]
      /\ pool'.lease[i] = None /\ ~Locked(pool'.lock[i])
  BY <1>1, <1>2, <1>3 DEF pool
<1>8. \A r \in Runs : ~Holds(run', r, i) /\ \A j \in Account : j # i => (Holds(run', r, j) <=> Holds(run, r, j))
  BY <1>6 DEF Holds
<1>9. Sound(pool', run', leaked')
  <2>. DEFINE p == pool'
              rs == run'
              left == leaked'
  <2>0. left = leaked \ {i}
    BY <1>3
  <2>1. /\ \A j \in Account : j # i => p.lease[j] = pool.lease[j] /\ p.lock[j] = pool.lock[j]
        /\ p.lease[i] = None /\ ~Locked(p.lock[i])
        /\ \A r \in Runs : ~Holds(rs, r, i) /\ \A j \in Account : j # i => (Holds(rs, r, j) <=> Holds(run, r, j))
    BY <1>7, <1>8
  <2>. HIDE DEF p, rs, left
  <2>2. ASSUME NEW j \in Account, p.lease[j] # None
        PROVE  Locked(p.lock[j]) /\ p.lock[j].by = p.lease[j]
    BY <2>1, <2>2, <1>1 DEF Sound
  <2>3. ASSUME NEW j \in Account, Locked(p.lock[j])
        PROVE  j \in left \/ \E r \in Runs : Holds(rs, r, j) /\ p.lock[j].by = r
    BY <2>0, <2>1, <2>3, <1>1 DEF Sound
  <2>4. ASSUME NEW r \in Runs, NEW j \in Account, Holds(rs, r, j)
        PROVE  p.lock[j] = LockOf(r)
    BY <2>1, <2>4, <1>1 DEF Sound
  <2>5. Sound(p, rs, left)
    BY <2>2, <2>3, <2>4 DEF Sound
  <2>. QED BY <2>5 DEF p, rs, left
<1>10. turns' \in 0..MaxTurns /\ events' \in 0..MaxEvents
  BY EventOK DEF LeaseElapses, IInv, TypeOK
<1>. QED BY <1>1, <1>3, <1>4, <1>5, <1>6, <1>9, <1>10, QuietStep

\* After a restart nobody has a lease, and no lock file counts.
Empty(q) ==
  /\ q \in Pools
  /\ \A i \in Account : q.lease[i] = None /\ ~Locked(q.lock[i])

LEMMA Distances ==
  ASSUME NEW q
  PROVE  {k \in 1..(NumAccounts - 1) : Usable(q, At(q, k), TRUE)} \subseteq Nat
BY DEF Usable

LEMMA LoadsOK ==
  ASSUME NEW p \in Pools, NEW q \in Loads(p)
  PROVE  Empty(q)
<1>. DEFINE b == [cur |-> IF NumAccounts = 1 THEN 0 ELSE p.saved, saved |-> p.saved,
                  acct |-> [i \in Account |-> LoadedAccount(p.acct[i])],
                  lease |-> [i \in Account |-> None],
                  lock |-> [i \in Account |-> [p.lock[i] EXCEPT !.alive = FALSE]]]
<1>1. Empty(b)
  <2>1. ASSUME NEW i \in Account
        PROVE  /\ LoadedAccount(p.acct[i]) \in AcctType
               /\ [p.lock[i] EXCEPT !.alive = FALSE] \in Lock
               /\ ~Locked([p.lock[i] EXCEPT !.alive = FALSE])
    <3>1. p.acct[i] \in AcctType /\ p.lock[i] \in Lock
      BY DEF Pools
    <3>2. Restored(p.acct[i]) \in AcctType
      BY <3>1, RestoredOK
    <3>3. LoadedAccount(p.acct[i]) \in AcctType
      BY <3>1, <3>2 DEF LoadedAccount, Fresh, AcctType
    <3>. QED BY <3>1, <3>3 DEF Lock, Locked, Stale
  <2>2. p.saved \in Account /\ 0 \in Account
    BY AccountIsNat DEF Pools
  <2>. QED BY <2>1, <2>2 DEF Empty, Pools
<1>. DEFINE ks == {k \in 1..(NumAccounts - 1) : Usable(b, At(b, k), TRUE)}
            moved == IF b.acct[b.cur].auth = "dead" /\ ks # {}
                     THEN {[b EXCEPT !.cur = At(b, k)] : k \in Nearest(ks)} ELSE {b}
<1>2. PICK m \in moved : q = Saves(m) \/ q = m
  BY DEF Loads
<1>3. m = b \/ \E k \in Nat : m = [b EXCEPT !.cur = At(b, k)]
  <2>0. ks \subseteq Nat
    <3>. HIDE DEF b
    <3>. QED BY Distances
  <2>. HIDE DEF b, ks
  <2>1. \A k \in Nearest(ks) : k \in Nat
    BY <2>0 DEF Nearest
  <2>2. m = b \/ \E k \in Nearest(ks) : m = [b EXCEPT !.cur = At(b, k)]
    OBVIOUS
  <2>. QED BY <2>1, <2>2
<1>. HIDE DEF b, ks, moved
<1>4. Empty(m)
  <2>1. \A k \in Nat : At(b, k) \in Account
    BY <1>1, AtType DEF Empty
  <2>. QED BY <1>1, <1>3, <2>1 DEF Empty, Pools
<1>. QED BY <1>2, <1>4, SavesOK DEF Empty

LEMMA RestartOK ==
  ASSUME IInv, NEW p \in Pools, Restart(p)
  PROVE  Good
<1>1. PICK q \in Loads(p) : PoolBecomes(q)
  BY DEF Restart
<1>2. Empty(q)
  BY LoadsOK
<1>3. pool' = q /\ q \in Pools
  BY <1>1, <1>2, PoolBecomesOK DEF Empty
<1>4. RunOK(Idle) /\ Idle.phase = "idle"
  BY RunsOK, AccountIsNat
<1>5. run' = [r \in Runs |-> Idle] /\ leaked' = {}
  BY DEF Restart
<1>6. run' \in [Runs -> RunType] /\ AtWork(run')
      /\ \A r \in Runs : run'[r].phase = "idle"
  BY <1>4, <1>5 DEF RunOK, AtWork
<1>7. \A r \in Runs, i \in Account : ~Holds(run', r, i)
  BY <1>6 DEF Holds
<1>8. Sound(q, run', leaked')
  BY <1>2, <1>7 DEF Sound, Empty
<1>9. Sound(pool', run', leaked') /\ pool' \in Pools
  BY <1>3, <1>8
<1>10. turns' \in 0..MaxTurns /\ events' \in 0..MaxEvents
  BY EventOK DEF Restart, IInv, TypeOK
<1>. QED BY <1>5, <1>6, <1>9, <1>10, QuietStep

LEMMA CrashInClaimOK ==
  ASSUME IInv, NEW r \in Runs, CrashInClaim(r)
  PROVE  Good
<1>1. PICK c \in Claims(pool, r) : c.at # None /\ Restart([c.pool EXCEPT !.lock[c.at] = TornLock])
  BY DEF CrashInClaim
<1>2. pool \in Pools
  BY TypesOf
<1>3. Claimed(c, pool, r)
  BY <1>2, ClaimsOK
<1>4. TornLock \in Lock
  BY DEF TornLock, NoLock, Lock
<1>5. c.pool \in Pools /\ c.at \in Account
  BY <1>1, <1>3 DEF Claimed
<1>. DEFINE p == [c.pool EXCEPT !.lock[c.at] = TornLock]
<1>6. p \in Pools
  BY <1>4, <1>5 DEF Pools
<1>7. Restart(p)
  BY <1>1
<1>. HIDE DEF p
<1>. QED BY <1>6, <1>7, RestartOK

LEMMA StutterOK ==
  ASSUME IInv, UNCHANGED vars
  PROVE  Good
BY DEF Good, IInv, TypeOK, pool, vars, AtWork, Sound, Holds, RefusedRightly

LEMMA NextOK ==
  ASSUME IInv, [Next]_vars
  PROVE  Good
<1>1. CASE \E r \in Runs : Start(r) \/ Told(r) \/ Flush(r) \/ Succeeds(r) \/ Fails(r)
  BY <1>1, StartOK, ToldOK, FlushOK, SucceedsOK, FailsOK
<1>2. CASE \E r \in Runs : \E why \in {"auth", "limit"} : Rotates(r, why)
  BY <1>2, RotatesOK
<1>3. CASE \E r \in Runs : CrashInClaim(r)
  BY <1>3, CrashInClaimOK
<1>4. CASE \E i \in Account : CooldownElapses(i) \/ LeaseElapses(i) \/ AuthFileChanges(i) \/ Switch(i)
  BY <1>4, CooldownElapsesOK, LeaseElapsesOK, AuthFileChangesOK, SwitchOK
<1>5. CASE \E i \in Account : \E used \in BOOLEAN : UsageReport(i, used)
  BY <1>5, UsageReportOK
<1>6. CASE Crash
  <2>1. pool \in Pools
    BY TypesOf
  <2>2. Restart(pool)
    BY <1>6 DEF Crash
  <2>. DEFINE p == pool
  <2>3. p \in Pools /\ Restart(p)
    BY <2>1, <2>2
  <2>. HIDE DEF p
  <2>. QED BY <2>3, RestartOK
<1>7. CASE UNCHANGED vars
  BY <1>7, StutterOK
<1>. QED BY <1>1, <1>2, <1>3, <1>4, <1>5, <1>6, <1>7 DEF Next

-----------------------------------------------------------------------------
(* Theorems.                                                               *)

\* The invariant the others follow from: leases in memory, lock files and turns
\* agree (claimCodexAuthLease, releaseDiskLease, loadCodexState).
THEOREM InvariantHolds == Spec => []IInv
<1>1. IInv /\ [Next]_vars => IInv'
  BY NextOK DEF Good
<1>. QED BY InitOK, <1>1, PTL DEF Spec

\* The pool, the lock files and the turns keep their types, and turns and events
\* their bounds.
THEOREM TypeCorrect == Spec => []TypeOK
<1>1. IInv => TypeOK
  BY DEF IInv
<1>. QED BY InvariantHolds, <1>1, PTL

\* However many accounts and turns: two turns at work within the two hours of their
\* leases have different accounts (claimCodexAuthLease).
THEOREM ExclusiveCorrect == Spec => []WorkersExclusive
<1>1. ASSUME IInv
      PROVE  WorkersExclusive
  <2>. SUFFICES ASSUME NEW r \in Runs, NEW s \in Runs, r # s,
                       run[r].phase = "working", run[s].phase = "working",
                       ~run[r].late, ~run[s].late, run[r].at = run[s].at
                PROVE  FALSE
    BY DEF WorkersExclusive
  <2>1. run[r].at \in Account /\ Sound(pool, run, leaked)
    BY <1>1, TypesOf DEF RunOK
  <2>2. Holds(run, r, run[r].at) /\ Holds(run, s, run[r].at)
    BY DEF Holds
  <2>3. pool.lock[run[r].at] = LockOf(r) /\ pool.lock[run[r].at] = LockOf(s)
    BY <2>1, <2>2 DEF Sound
  <2>. QED BY <2>3, LockOfIsLocked
<1>. QED BY InvariantHolds, <1>1, PTL

\* However many accounts and turns: a turn is refused only when no account is free,
\* except for the one that a reviewer or an arbiter has itself (prepareGroupEnvironment).
THEOREM RefusedCorrect == Spec => RefusedOnlyWhenTaken
<1>. DEFINE Rightly ==
       \A r \in Runs :
         run[r].phase # "refused" /\ run'[r].phase = "refused" =>
           \A i, j \in Account : Free(i)' /\ Free(j)' => r \in ReadonlyRuns /\ i = j
<1>1. IInv /\ [Next]_vars => Rightly
  <2>. SUFFICES ASSUME IInv, [Next]_vars PROVE \A r \in Runs : RefusedRightly(r)
    BY DEF RefusedRightly
  <2>. QED BY NextOK DEF Good
<1>2. RefusedOnlyWhenTaken <=> [][Rightly]_vars
  BY DEF RefusedOnlyWhenTaken
<1>. HIDE DEF Rightly
<1>3. IInv /\ [Next]_vars => [Rightly]_vars
  BY <1>1
<1>. QED BY InvariantHolds, <1>2, <1>3, PTL DEF Spec
=============================================================================
