------------------------- MODULE MessageRuntimeProofs -------------------------
(***************************************************************************)
(* What holds of MessageRuntime for every set of rooms, every mixture of   *)
(* messages and their times, any number of parts of an output and all      *)
(* bounds.                                                                 *)
(***************************************************************************)
EXTENDS MessageRuntime, SequenceTheorems, WellFoundedInduction, TLAPS

Pcs == {"idle", "deliver", "gather", "gate", "starting", "agent", "pre", "compact", "final",
        "say", "advance", "end"}
Thens == {"idle", "end", "advance", "agent", "pre", "compact"}
RunType == [pc : Pcs, upTo : Nat, byTime : BOOLEAN, snap : Nat, input : SUBSET Nat,
            then : Thens, ok : BOOLEAN, recheck : BOOLEAN]
Message == [room : Rooms, kind : Kinds, at : Times]

Is(i, r, kind) == msgs[i].room = r /\ msgs[i].kind = kind

\* What excuses that a message nobody was given is behind the cursor.
Excepted(i, r) ==
  \/ \E b \in DOMAIN msgs : Is(b, r, "bot") /\ i < b /\ b <= cursor[r]
  \/ Overtaken(i)

\* Every human message up to n was given to an agent or consumed, or will be
\* with S, or is excused.
Covers(r, S, n) ==
  \A i \in DOMAIN msgs : Is(i, r, "human") /\ i <= n => i \in taken \cup S \/ Excepted(i, r)
Covered(r, n) == Covers(r, {}, n)

\* What the run x of a room has gathered is what was unread at its snapshot of
\* the cursor.
Gathered(r, x) ==
  /\ \A i \in x.input : x.snap < i /\ i <= x.upTo
  /\ \A i \in DOMAIN msgs : Is(i, r, "human") /\ x.snap < i /\ i <= x.upTo => i \in x.input

\* A /compact: the agent gets what was gathered in front of it.
Compacts(r, x) ==
  /\ x.upTo \in DOMAIN msgs /\ Is(x.upTo, r, "compact")
  /\ \A k \in x.input : k < x.upTo /\ Covers(r, x.input, k)

\* The cursor may pass what is behind c and not later.
Overtakes(r, c) ==
  /\ c \in DOMAIN msgs /\ msgs[c].room = r
  /\ \/ msgs[c].kind \in Commands \ {"stop"}
     \/ \E k \in DOMAIN msgs : Is(k, r, "compact") /\ c < k

\* The agent has been started with the input of the run x.
Given(x) ==
  \/ x.pc \in {"agent", "pre", "compact", "final"}
  \/ x.pc = "say" /\ x.then \in {"agent", "pre", "compact"}

\* The run x of a room is going to move the cursor to its upTo.
Advances(x) == x.pc = "advance" \/ (x.pc = "say" /\ x.then = "advance")

Sound(r, x) ==
  /\ x.upTo \in 0..Len(msgs) /\ x.input \subseteq DOMAIN msgs
  /\ \A k \in x.input : msgs[k].room = r
  /\ x.pc = "starting" => x.then \in {"agent", "pre", "compact"}
  /\ x.pc \in {"agent", "pre", "compact"} => x.then = x.pc
  /\ x.pc = "final" => x.then = "agent"
  /\ x.pc = "gate" => Gathered(r, x)
  /\ x.then = "agent" => Covers(r, x.input, x.upTo)
  /\ x.then \in {"pre", "compact"} => Compacts(r, x)
  /\ x.then = "pre" => x.input # {}
  /\ Given(x) => x.input \subseteq taken
  /\ Advances(x) => Covered(r, x.upTo)
  /\ x.byTime => Overtakes(r, x.upTo)

Types ==
  /\ msgs \in Seq(Message)
  /\ polled \in 0..Len(msgs)
  /\ cursor \in [Rooms -> 0..Len(msgs)]
  /\ run \in [Rooms -> RunType]
  /\ batch \subseteq DOMAIN msgs
  /\ acking \in Rooms \cup {None}
  /\ taken \subseteq DOMAIN msgs

ReadInv == Types /\ \A r \in Rooms : Sound(r, run[r]) /\ Covered(r, cursor[r])

USE WorkItemsAssumption, KindsAssumption, TimesAssumption

\* Every non-empty set of numbers has a least one, a bounded one a greatest.
LEMMA Least ==
  ASSUME NEW S \in SUBSET Nat, S # {}
  PROVE  \E x \in S : \A y \in S : x <= y
<1> DEFINE R == {p \in Nat \X Nat : p[1] < p[2]}
<1>1. IsWellFoundedOn(R, Nat)
  BY NatLessThanWellFounded DEF OpToRel
<1>2. \E x \in S : \A y \in S : ~(<<y, x>> \in R)
  BY <1>1, WFMin
<1>3. PICK x \in S : \A y \in S : ~(<<y, x>> \in R)
  BY <1>2
<1>4. ASSUME NEW y \in S PROVE x <= y
  <2>1. ~(<<y, x>> \in R) /\ x \in Nat /\ y \in Nat
    BY <1>3, <1>4
  <2>2. ~(y < x)
    BY <2>1
  <2>3. QED BY <2>1, <2>2
<1>5. QED BY <1>4

LEMMA MaxOf ==
  ASSUME NEW n \in Nat, NEW S \in SUBSET (0..n), S # {}
  PROVE  Max(S) \in S /\ \A y \in S : y <= Max(S)
<1> DEFINE T == {m \in 0..n : n - m \in S}
<1>1. T \in SUBSET Nat /\ T # {}
  <2>1. PICK y \in S : TRUE
    OBVIOUS
  <2>2. n - y \in T
    BY <2>1
  <2>3. T \subseteq 0..n /\ 0..n \subseteq Nat
    OBVIOUS
  <2>4. QED BY <2>2, <2>3
<1>2. PICK x \in T : \A y \in T : x <= y
  BY <1>1, Least
<1>3. n - x \in S /\ \A y \in S : n - x >= y
  <2>1. ASSUME NEW y \in S PROVE n - x >= y
    <3>1. n - y \in T
      BY <2>1
    <3>2. QED BY <1>2, <3>1
  <2>2. QED BY <2>1
<1>4. QED BY <1>3 DEF Max

LEMMA MinOf ==
  ASSUME NEW S \in SUBSET Nat, S # {}
  PROVE  Min(S) \in S /\ \A y \in S : Min(S) <= y
BY Least DEF Min

LEMMA NoRunType ==
  /\ NoRun \in RunType /\ NoRun.pc = "idle" /\ NoRun.upTo = 0 /\ NoRun.input = {}
  /\ NoRun.then = "idle" /\ NoRun.byTime = FALSE
BY DEF NoRun, RunType, Pcs, Thens

LEMMA AdvanceToType ==
  ASSUME Types, NEW r \in Rooms, NEW n \in 0..Len(msgs), AdvanceTo(r, n)
  PROVE  /\ cursor' \in [Rooms -> 0..Len(msgs)]
         /\ \A q \in Rooms : q # r => cursor'[q] = cursor[q]
         /\ cursor[r] <= cursor'[r] /\ n <= cursor'[r]
         /\ cursor'[r] = n \/ cursor'[r] = cursor[r]
<1> DEFINE S == {cursor[r], n}
<1>1. Len(msgs) \in Nat /\ cursor[r] \in 0..Len(msgs)
  BY DEF Types
<1>2. S \in SUBSET (0..Len(msgs)) /\ S # {}
  BY <1>1
<1>3. Max(S) \in S /\ \A y \in S : y <= Max(S)
  BY <1>1, <1>2, MaxOf
<1>4. cursor' = [cursor EXCEPT ![r] = Max(S)]
  BY DEF AdvanceTo
<1> HIDE DEF S
<1>5. Max(S) \in 0..Len(msgs)
  BY <1>2, <1>3
<1>6. cursor' \in [Rooms -> 0..Len(msgs)]
  BY <1>4, <1>5 DEF Types
<1>7. cursor'[r] = Max(S) /\ \A q \in Rooms : q # r => cursor'[q] = cursor[q]
  BY <1>4 DEF Types
<1>8. QED BY <1>3, <1>6, <1>7 DEF S

\* The bounds of sets of messages.
LEMMA SetOfMessages ==
  ASSUME Types, NEW S \in SUBSET DOMAIN msgs, S # {}
  PROVE  /\ Max(S) \in S /\ \A i \in S : i <= Max(S)
         /\ Min(S) \in S
         /\ Max(S) \in DOMAIN msgs /\ Min(S) \in DOMAIN msgs
         /\ Max(S) \in 0..Len(msgs) /\ Min(S) \in 0..Len(msgs)
<1>1. DOMAIN msgs = 1..Len(msgs) /\ Len(msgs) \in Nat
  BY DEF Types
<1>2. S \in SUBSET (0..Len(msgs)) /\ S \in SUBSET Nat
  BY <1>1
<1>3. QED BY <1>1, <1>2, MaxOf, MinOf

\* The newest message of the room that is not later than one of its messages.
LEMMA LatestIs ==
  ASSUME Types, NEW r \in Rooms, NEW i \in DOMAIN msgs, msgs[i].room = r
  PROVE  /\ LatestSeqAtOrBefore(r, i) \in DOMAIN msgs
         /\ LatestSeqAtOrBefore(r, i) \in 0..Len(msgs)
         /\ msgs[LatestSeqAtOrBefore(r, i)].room = r
         /\ i <= LatestSeqAtOrBefore(r, i)
         /\ msgs[LatestSeqAtOrBefore(r, i)].at <= msgs[i].at
<1> DEFINE S == {j \in Of(r, DOMAIN msgs) : msgs[j].at <= msgs[i].at}
<1>1. msgs[i].at \in Nat
  <2>1. msgs[i] \in Message
    BY DEF Types
  <2>2. QED BY <2>1 DEF Message
<1>2. i \in S /\ S \subseteq DOMAIN msgs
  BY <1>1 DEF Of
<1>3. \A j \in S : msgs[j].room = r /\ msgs[j].at <= msgs[i].at
  BY DEF Of
<1>4. LatestSeqAtOrBefore(r, i) = Max(S)
  BY DEF LatestSeqAtOrBefore
<1> HIDE DEF S
<1>5. Max(S) \in S /\ (\A j \in S : j <= Max(S)) /\ Max(S) \in DOMAIN msgs /\ Max(S) \in 0..Len(msgs)
  BY <1>2, SetOfMessages
<1>6. QED BY <1>2, <1>3, <1>4, <1>5

----------------------------------------------------------------------------
(* What holds of a run goes on to hold *)

\* The table of messages only grows.
Grown ==
  /\ DOMAIN msgs \subseteq DOMAIN msgs' /\ Len(msgs) <= Len(msgs')
  /\ \A i \in DOMAIN msgs : msgs'[i] = msgs[i]
  /\ \A i \in DOMAIN msgs' : i \in DOMAIN msgs \/ i > Len(msgs)

LEMMA SameGrown == Types /\ msgs' = msgs => Grown
BY DEF Types, Grown

LEMMA ExceptedStays ==
  ASSUME Types, Grown, NEW r \in Rooms, cursor[r] <= cursor'[r], cursor'[r] \in Nat,
         NEW i \in DOMAIN msgs, msgs[i].room = r, Excepted(i, r)
  PROVE  Excepted(i, r)'
<1>1. /\ cursor[r] \in Nat /\ cursor'[r] \in Nat /\ DOMAIN msgs \subseteq Nat
      /\ DOMAIN msgs \subseteq DOMAIN msgs' /\ \A j \in DOMAIN msgs : msgs'[j] = msgs[j]
  BY DEF Types, Grown
<1>2. CASE \E b \in DOMAIN msgs : Is(b, r, "bot") /\ i < b /\ b <= cursor[r]
  <2>1. PICK b \in DOMAIN msgs : Is(b, r, "bot") /\ i < b /\ b <= cursor[r]
    BY <1>2
  <2>2. b \in DOMAIN msgs' /\ Is(b, r, "bot")' /\ i < b /\ b <= cursor'[r]
    BY <1>1, <2>1 DEF Is
  <2>3. QED BY <2>2 DEF Excepted
<1>3. CASE Overtaken(i)
  <2>1. PICK c \in DOMAIN msgs, j \in DOMAIN msgs :
          /\ msgs[c].room = r /\ msgs[j].room = r
          /\ c < i /\ i <= j /\ msgs[j].at <= msgs[c].at /\ j <= cursor[r]
          /\ \/ msgs[c].kind \in Commands \ {"stop"}
             \/ \E k \in DOMAIN msgs : msgs[k].room = r /\ c < k /\ msgs[k].kind = "compact"
    BY <1>3 DEF Overtaken, Of
  <2>2. j <= cursor'[r] /\ msgs'[i].room = r
    BY <1>1, <2>1
  <2>3. /\ c \in DOMAIN msgs' /\ j \in DOMAIN msgs' /\ msgs'[c] = msgs[c] /\ msgs'[j] = msgs[j]
        /\ \A k \in DOMAIN msgs : k \in DOMAIN msgs' /\ msgs'[k] = msgs[k]
    BY <1>1
  <2>4. Overtaken(i)'
    BY <2>1, <2>2, <2>3 DEF Overtaken, Of
  <2>5. QED BY <2>4 DEF Excepted
<1>4. QED BY <1>2, <1>3 DEF Excepted

LEMMA CoversStays ==
  ASSUME Types, Grown, NEW r \in Rooms, cursor[r] <= cursor'[r], cursor'[r] \in Nat,
         DOMAIN msgs' \subseteq Nat, taken \subseteq taken',
         NEW S, NEW n \in 0..Len(msgs), Covers(r, S, n)
  PROVE  Covers(r, S, n)'
<1>1. SUFFICES ASSUME NEW i \in DOMAIN msgs', Is(i, r, "human")', i <= n
               PROVE  i \in taken' \cup S \/ Excepted(i, r)'
  BY DEF Covers
<1>2. i \in DOMAIN msgs /\ Is(i, r, "human")
  <2>1. Len(msgs) \in Nat
    BY DEF Types
  <2>2. ~(i > Len(msgs))
    BY <1>1, <2>1
  <2>3. QED BY <1>1, <2>2 DEF Grown, Is
<1>3. i \in taken \cup S \/ Excepted(i, r)
  BY <1>1, <1>2 DEF Covers
<1>4. QED BY <1>2, <1>3, ExceptedStays DEF Is

LEMMA OvertakesStays ==
  ASSUME Grown, NEW r, NEW c, Overtakes(r, c)
  PROVE  Overtakes(r, c)'
<1>1. c \in DOMAIN msgs' /\ msgs'[c] = msgs[c] /\ msgs[c].room = r
  BY DEF Overtakes, Grown
<1>2. CASE msgs[c].kind \in Commands \ {"stop"}
  BY <1>1, <1>2 DEF Overtakes
<1>3. CASE \E k \in DOMAIN msgs : Is(k, r, "compact") /\ c < k
  <2>1. \E k \in DOMAIN msgs' : Is(k, r, "compact")' /\ c < k
    BY <1>3 DEF Grown, Is
  <2>2. QED BY <1>1, <2>1 DEF Overtakes
<1>4. QED BY <1>2, <1>3 DEF Overtakes

\* A run record that is sound stays so while the cursor moves on and more is
\* stored and consumed.
LEMMA SoundStays ==
  ASSUME Types, Types', Grown, NEW r \in Rooms, cursor[r] <= cursor'[r], taken \subseteq taken',
         NEW x, Sound(r, x)
  PROVE  Sound(r, x)'
<1>1. /\ x.upTo \in 0..Len(msgs) /\ x.input \subseteq DOMAIN msgs
      /\ \A k \in x.input : msgs[k].room = r
      /\ DOMAIN msgs = 1..Len(msgs) /\ Len(msgs) \in Nat /\ Len(msgs') \in Nat
  BY DEF Sound, Types
<1>2. /\ (x.upTo \in 0..Len(msgs))' /\ x.input \subseteq DOMAIN msgs'
      /\ \A k \in x.input : msgs'[k].room = r
  BY <1>1 DEF Grown
<1>3. ASSUME NEW S, NEW n \in 0..Len(msgs), Covers(r, S, n) PROVE Covers(r, S, n)'
  <2>1. cursor'[r] \in Nat /\ DOMAIN msgs' \subseteq Nat
    BY DEF Types
  <2>2. QED BY <1>3, <2>1, CoversStays
<1>4. x.pc = "gate" => Gathered(r, x)'
  <2>1. SUFFICES ASSUME x.pc = "gate" PROVE Gathered(r, x)'
    OBVIOUS
  <2>2. Gathered(r, x)
    BY <2>1 DEF Sound
  <2>3. ASSUME NEW i \in DOMAIN msgs', Is(i, r, "human")', x.snap < i, i <= x.upTo
        PROVE  i \in x.input
    <3>1. i \in DOMAIN msgs
      <4>1. PICK u \in 0..Len(msgs) : u = x.upTo
        BY <1>1
      <4>2. DOMAIN msgs' \subseteq Nat
        BY DEF Types
      <4>3. ~(i > Len(msgs))
        BY <1>1, <2>3, <4>1, <4>2
      <4>4. QED BY <2>3, <4>3 DEF Grown
    <3>2. QED BY <2>2, <2>3, <3>1 DEF Gathered, Is, Grown
  <2>4. QED BY <2>2, <2>3 DEF Gathered
<1>5. x.then = "agent" => Covers(r, x.input, x.upTo)'
  BY <1>1, <1>3 DEF Sound
<1>6. x.then \in {"pre", "compact"} => Compacts(r, x)'
  <2>1. SUFFICES ASSUME Compacts(r, x) PROVE Compacts(r, x)'
    BY DEF Sound
  <2>2. x.upTo \in DOMAIN msgs' /\ Is(x.upTo, r, "compact")'
    BY <2>1 DEF Compacts, Grown, Is
  <2>3. ASSUME NEW k \in x.input PROVE k < x.upTo /\ Covers(r, x.input, k)'
    <3>1. k < x.upTo /\ Covers(r, x.input, k) /\ k \in 0..Len(msgs)
      BY <1>1, <2>1 DEF Compacts
    <3>2. QED BY <1>3, <3>1
  <2>4. QED BY <2>2, <2>3 DEF Compacts
<1>7. Advances(x) => Covered(r, x.upTo)'
  <2>1. SUFFICES ASSUME Advances(x) PROVE Covers(r, {}, x.upTo)'
    BY DEF Covered
  <2>2. Covers(r, {}, x.upTo)
    BY <2>1 DEF Sound, Covered
  <2>3. QED BY <1>1, <1>3, <2>2
<1>8. x.byTime => Overtakes(r, x.upTo)'
  BY OvertakesStays DEF Sound
<1>9. Given(x) => x.input \subseteq taken'
  BY DEF Sound
<1>10. QED BY <1>2, <1>4, <1>5, <1>6, <1>7, <1>8, <1>9 DEF Sound

\* A step keeps ReadInv, the messages and the cursors' progress.
ReadOn == ReadInv' /\ Grown /\ \A r \in Rooms : cursor[r] <= cursor'[r]

\* A step keeps ReadInv if the cursor moves only to where it covers and each
\* run is left alone or sound.
LEMMA ReadStep ==
  ASSUME ReadInv, Types', Grown, taken \subseteq taken',
         \A r \in Rooms : cursor[r] <= cursor'[r],
         \A r \in Rooms : cursor'[r] = cursor[r] \/ Covered(r, cursor[r])',
         \A r \in Rooms : run'[r] = run[r] \/ Sound(r, run[r])'
  PROVE  ReadOn
<1>1. ASSUME NEW r \in Rooms PROVE Covered(r, cursor[r])'
  <2>1. CASE cursor'[r] = cursor[r]
    <3>1. PICK n \in 0..Len(msgs) : n = cursor[r]
      BY DEF ReadInv, Types
    <3>2. Covers(r, {}, n)
      BY <3>1 DEF ReadInv, Covered
    <3>3. cursor'[r] \in Nat /\ DOMAIN msgs' \subseteq Nat
      BY DEF Types
    <3>4. Covers(r, {}, n)'
      BY <3>2, <3>3, CoversStays DEF ReadInv
    <3>5. QED BY <2>1, <3>1, <3>4 DEF Covered
  <2>2. QED BY <2>1
<1>2. ASSUME NEW r \in Rooms PROVE Sound(r, run[r])'
  <2>1. CASE run'[r] = run[r]
    <3>1. PICK x : x = run[r]
      OBVIOUS
    <3>2. Sound(r, x)
      BY <3>1 DEF ReadInv
    <3>3. Sound(r, x)'
      BY <3>2, SoundStays DEF ReadInv
    <3>4. run'[r] = x
      BY <2>1, <3>1
    <3>5. QED BY <3>3, <3>4 DEF Sound, Gathered, Compacts, Given, Advances
  <2>2. QED BY <2>1
<1>3. QED BY <1>1, <1>2 DEF ReadOn, ReadInv

\* A record at rest, or that only says something.
LEMMA RestSound ==
  ASSUME Types', NEW r, NEW x, x.input = {}, x.upTo = 0, ~x.byTime,
         x.pc \in {"idle", "say"}, x.then \in {"idle", "end"}
  PROVE  Sound(r, x)'
BY DEF Types, Sound, Given, Advances

LEMMA InitRead == Init => ReadInv
<1>1. SUFFICES ASSUME Init PROVE ReadInv
  OBVIOUS
<1>2. Len(msgs) = 0 /\ DOMAIN msgs = {} /\ msgs \in Seq(Message)
  BY <1>1 DEF Init
<1>3. Types
  BY <1>1, <1>2, NoRunType DEF Init, Types
<1>4. ASSUME NEW r \in Rooms PROVE Sound(r, run[r]) /\ Covered(r, cursor[r])
  <2>1. run[r] = NoRun
    BY <1>1 DEF Init
  <2>2. Sound(r, NoRun)
    BY <1>3, NoRunType DEF Types, Sound, Given, Advances
  <2>3. Covered(r, cursor[r])
    BY <1>2 DEF Covered, Covers
  <2>4. QED BY <2>1, <2>2, <2>3
<1>5. QED BY <1>3, <1>4 DEF ReadInv

\* Nothing that ReadInv speaks of changes.
LEMMA ReadSame ==
  ASSUME ReadInv, UNCHANGED <<msgs, polled, cursor, run, taken>>,
         batch' \subseteq batch, acking' \in Rooms \cup {None}
  PROVE  ReadOn
<1>1. Types'
  BY DEF ReadInv, Types
<1>2. \A r \in Rooms : cursor[r] <= cursor'[r]
  BY DEF ReadInv, Types
<1>3. Grown
  BY SameGrown DEF ReadInv
<1>4. QED BY <1>1, <1>2, <1>3, ReadStep

\* The loop or a run moves the cursor of a room, or leaves it.
LEMMA CursorMoves ==
  ASSUME Types, NEW r \in Rooms,
         \/ UNCHANGED cursor
         \/ \E n \in 0..Len(msgs) : AdvanceTo(r, n)
  PROVE  /\ cursor' \in [Rooms -> 0..Len(msgs)]
         /\ \A q \in Rooms : q # r => cursor'[q] = cursor[q]
         /\ \A q \in Rooms : cursor[q] <= cursor'[q]
<1>1. CASE UNCHANGED cursor
  BY <1>1 DEF Types
<1>2. CASE \E n \in 0..Len(msgs) : AdvanceTo(r, n)
  <2>1. /\ cursor' \in [Rooms -> 0..Len(msgs)] /\ cursor[r] <= cursor'[r]
        /\ \A q \in Rooms : q # r => cursor'[q] = cursor[q]
    BY <1>2, AdvanceToType
  <2>2. \A q \in Rooms : q # r => cursor[q] <= cursor'[q]
    BY <2>1 DEF Types
  <2>3. QED BY <2>1, <2>2
<1>3. QED BY <1>1, <1>2

\* A step of the run of a room, which goes on as x.
LEMMA RunRead ==
  ASSUME ReadInv, NEW r \in Rooms, NEW x \in RunType, run' = [run EXCEPT ![r] = x],
         UNCHANGED <<msgs, polled, batch, acking>>,
         taken \subseteq taken', taken' \subseteq DOMAIN msgs,
         \/ UNCHANGED cursor
         \/ \E n \in 0..Len(msgs) : AdvanceTo(r, n),
         cursor'[r] = cursor[r] \/ Covered(r, cursor[r])',
         Types' => Sound(r, x)'
  PROVE  ReadOn
<1>1. /\ cursor' \in [Rooms -> 0..Len(msgs)]
      /\ \A q \in Rooms : q # r => cursor'[q] = cursor[q]
      /\ \A q \in Rooms : cursor[q] <= cursor'[q]
  BY CursorMoves DEF ReadInv
<1>2. run' \in [Rooms -> RunType] /\ run'[r] = x /\ \A q \in Rooms : q # r => run'[q] = run[q]
  BY DEF ReadInv, Types
<1>3. Types'
  BY <1>1, <1>2 DEF ReadInv, Types
<1>4. Grown
  BY SameGrown DEF ReadInv
<1>5. Sound(r, run[r])'
  BY <1>2, <1>3 DEF Sound, Gathered, Compacts, Given, Advances
<1>6. QED BY <1>1, <1>2, <1>3, <1>4, <1>5, ReadStep

\* The run goes on as x, which is sound already, and the cursor stays.
LEMMA GoesOnRead ==
  ASSUME ReadInv, NEW r \in Rooms, NEW x \in RunType, run' = [run EXCEPT ![r] = x],
         UNCHANGED <<msgs, polled, cursor, batch, acking, taken>>, Sound(r, x)
  PROVE  ReadOn
<1>1. Types /\ taken' \subseteq DOMAIN msgs /\ cursor[r] <= cursor'[r] /\ Grown
  <2>1. Types
    BY DEF ReadInv
  <2>2. QED BY <2>1, SameGrown DEF Types
<1>2. Types' => Sound(r, x)'
  BY <1>1, SoundStays
<1>3. QED BY <1>1, <1>2, RunRead

\* A run ends and moves the cursor to n, or leaves it.
LEMMA EndRead ==
  ASSUME ReadInv, NEW r \in Rooms, NEW ok, NEW more, EndRun(r, ok, more),
         UNCHANGED <<msgs, polled, batch, acking>>,
         taken \subseteq taken', taken' \subseteq DOMAIN msgs,
         \/ UNCHANGED cursor
         \/ \E n \in 0..Len(msgs) : AdvanceTo(r, n),
         cursor'[r] = cursor[r] \/ Covered(r, cursor[r])'
  PROVE  ReadOn
<1>1. PICK x \in RunType : x = NoRun
  BY NoRunType
<1>2. run' = [run EXCEPT ![r] = x]
  BY <1>1 DEF EndRun
<1>3. /\ x.input = {} /\ x.upTo = 0 /\ ~x.byTime
      /\ x.pc \in {"idle", "say"} /\ x.then \in {"idle", "end"}
  BY <1>1, NoRunType
<1>4. Types' => Sound(r, x)'
  BY <1>3, RestSound
<1>5. QED BY <1>2, <1>4, RunRead

\* The loop dispatches a room: the runs stay as they are.
LEMMA DispatchRead ==
  ASSUME ReadInv, NEW r \in Rooms, UNCHANGED <<msgs, polled, run>>,
         batch' \subseteq batch, acking' \in Rooms \cup {None},
         taken \subseteq taken', taken' \subseteq DOMAIN msgs,
         \/ UNCHANGED cursor
         \/ \E n \in 0..Len(msgs) : AdvanceTo(r, n),
         cursor'[r] = cursor[r] \/ Covered(r, cursor[r])'
  PROVE  ReadOn
<1>1. /\ cursor' \in [Rooms -> 0..Len(msgs)]
      /\ \A q \in Rooms : q # r => cursor'[q] = cursor[q]
      /\ \A q \in Rooms : cursor[q] <= cursor'[q]
  BY CursorMoves DEF ReadInv
<1>2. Types'
  BY <1>1 DEF ReadInv, Types
<1>3. Grown
  BY SameGrown DEF ReadInv
<1>4. QED BY <1>1, <1>2, <1>3, ReadStep

----------------------------------------------------------------------------
(* What makes a position covered *)

\* It was consumed up to it, ...
LEMMA ConsumedCovers ==
  ASSUME Types, NEW r \in Rooms, NEW n \in 0..Len(msgs), AdvanceTo(r, n), msgs' = msgs,
         {i \in Of(r, DOMAIN msgs) : i <= n} \subseteq taken'
  PROVE  cursor'[r] = cursor[r] \/ Covered(r, cursor[r])'
<1>1. cursor'[r] = n \/ cursor'[r] = cursor[r]
  BY AdvanceToType
<1>2. QED BY <1>1 DEF Covered, Covers, Of, Is

\* ... or a bot's message is there, ...
LEMMA BotCovers ==
  ASSUME Types, NEW r \in Rooms, NEW n \in DOMAIN msgs, AdvanceTo(r, n), msgs' = msgs,
         Is(n, r, "bot")
  PROVE  cursor'[r] = cursor[r] \/ Covered(r, cursor[r])'
<1>1. n \in 0..Len(msgs) /\ DOMAIN msgs = 1..Len(msgs) /\ Len(msgs) \in Nat
  BY DEF Types
<1>2. cursor'[r] = n \/ cursor'[r] = cursor[r]
  BY <1>1, AdvanceToType
<1>3. ASSUME cursor'[r] = n PROVE Covered(r, cursor[r])'
  <2>1. SUFFICES ASSUME NEW i \in DOMAIN msgs', Is(i, r, "human")', i <= cursor'[r]
                 PROVE  \E b \in DOMAIN msgs' : Is(b, r, "bot")' /\ i < b /\ b <= cursor'[r]
    BY DEF Covered, Covers, Excepted
  <2>2. i # n
    BY <2>1 DEF Is
  <2>3. i < n /\ n <= n
    BY <1>1, <1>3, <2>1, <2>2
  <2>4. QED BY <1>3, <2>3 DEF Is
<1>4. QED BY <1>2, <1>3

\* ... or what lies between it and the cursor was given away or consumed, ...
LEMMA TakenCovers ==
  ASSUME ReadInv, NEW r \in Rooms, NEW n \in 0..Len(msgs), AdvanceTo(r, n), msgs' = msgs,
         taken \subseteq taken',
         \A i \in DOMAIN msgs : Is(i, r, "human") /\ cursor[r] < i /\ i <= n => i \in taken'
  PROVE  cursor'[r] = cursor[r] \/ Covered(r, cursor[r])'
<1>1. Types /\ DOMAIN msgs = 1..Len(msgs) /\ Len(msgs) \in Nat /\ cursor[r] \in Nat
  BY DEF ReadInv, Types
<1>2. (cursor'[r] = n \/ cursor'[r] = cursor[r]) /\ cursor[r] <= cursor'[r] /\ cursor'[r] \in Nat
  BY <1>1, AdvanceToType
<1>3. ASSUME cursor'[r] = n PROVE Covered(r, cursor[r])'
  <2>1. SUFFICES ASSUME NEW i \in DOMAIN msgs, Is(i, r, "human"), i <= n, i \notin taken'
                 PROVE  Excepted(i, r)'
    BY <1>3 DEF Covered, Covers, Is
  <2>2. i <= cursor[r] /\ i \notin taken
    BY <1>1, <2>1
  <2>3. Excepted(i, r)
    BY <2>1, <2>2 DEF ReadInv, Covered, Covers
  <2>4. QED BY <1>1, <1>2, <2>1, <2>3, SameGrown, ExceptedStays DEF Is
<1>4. QED BY <1>2, <1>3

\* ... or it was so already, ...
LEMMA WasCovered ==
  ASSUME Types, NEW r \in Rooms, NEW n \in 0..Len(msgs), AdvanceTo(r, n), msgs' = msgs,
         taken \subseteq taken', Covered(r, n)
  PROVE  cursor'[r] = cursor[r] \/ Covered(r, cursor[r])'
<1>1. /\ cursor'[r] = n \/ cursor'[r] = cursor[r]
      /\ cursor[r] <= cursor'[r] /\ cursor'[r] \in Nat /\ DOMAIN msgs' \subseteq Nat
  BY AdvanceToType DEF Types
<1>2. Covers(r, {}, n)'
  BY <1>1, SameGrown, CoversStays DEF Covered
<1>3. QED BY <1>1, <1>2 DEF Covered

\* ... or what lies between it and a position so covered came behind a command
\* and is not later.
LEMMA TimeCovers ==
  ASSUME Types, NEW r \in Rooms, NEW u, Overtakes(r, u), Covered(r, u)',
         AdvanceTo(r, LatestSeqAtOrBefore(r, u)), msgs' = msgs
  PROVE  /\ LatestSeqAtOrBefore(r, u) \in 0..Len(msgs)
         /\ cursor'[r] = cursor[r] \/ Covered(r, cursor[r])'
<1>1. u \in DOMAIN msgs /\ msgs[u].room = r
  BY DEF Overtakes
<1>2. PICK j \in DOMAIN msgs : j = LatestSeqAtOrBefore(r, u) /\ j \in 0..Len(msgs)
                               /\ msgs[j].room = r /\ u <= j /\ msgs[j].at <= msgs[u].at
  BY <1>1, LatestIs
<1>3. AdvanceTo(r, j)
  BY <1>2
<1>4. cursor'[r] = j \/ cursor'[r] = cursor[r]
  BY <1>2, <1>3, AdvanceToType
<1>5. ASSUME cursor'[r] = j PROVE Covered(r, cursor[r])'
  <2>1. SUFFICES ASSUME NEW i \in DOMAIN msgs', Is(i, r, "human")', i <= j
                 PROVE  i \in taken' \/ Excepted(i, r)'
    BY <1>5 DEF Covered, Covers
  <2>2. CASE i <= u
    BY <2>1, <2>2 DEF Covered, Covers
  <2>3. CASE ~(i <= u)
    <3>1. u < i /\ msgs'[i].room = r
      <4>1. DOMAIN msgs \subseteq Nat /\ DOMAIN msgs' \subseteq Nat
        BY DEF Types
      <4>2. QED BY <1>1, <2>1, <2>3, <4>1 DEF Is
    <3>2. j <= cursor'[r]
      <4>1. j \in Nat
        BY <1>2 DEF Types
      <4>2. QED BY <1>5, <4>1
    <3>3. \/ msgs'[u].kind \in Commands \ {"stop"}
          \/ \E k \in Of(r, DOMAIN msgs') : u < k /\ msgs'[k].kind = "compact"
      BY DEF Overtakes, Of, Is
    <3>4. u \in DOMAIN msgs' /\ msgs'[u].room = r /\ j \in DOMAIN msgs' /\ msgs'[j].room = r
          /\ msgs'[j].at <= msgs'[u].at
      BY <1>1, <1>2
    <3>5. Overtaken(i)'
      BY <2>1, <3>1, <3>2, <3>3, <3>4 DEF Overtaken, Of
    <3>6. QED BY <3>5 DEF Excepted
  <2>4. QED BY <2>2, <2>3
<1>6. QED BY <1>2, <1>4, <1>5

----------------------------------------------------------------------------
(* The loop *)

\* The room dispatched, and what of it is in the batch.
LEMMA DispatchedType ==
  ASSUME Types, batch # {}
  PROVE  /\ DispatchedRoom \in Rooms
         /\ \A i \in Dispatched : i \in DOMAIN msgs /\ msgs[i].room = DispatchedRoom
         /\ batch \ Of(DispatchedRoom, batch) \subseteq batch
<1>1. Min(batch) \in DOMAIN msgs
  BY SetOfMessages DEF Types
<1>2. msgs[Min(batch)] \in Message
  BY <1>1 DEF Types
<1>3. DispatchedRoom \in Rooms
  BY <1>2 DEF DispatchedRoom, Message
<1>4. QED BY <1>3 DEF Dispatched, Of, Types

LEMMA IgnoredRead == ReadInv /\ DispatchIgnored => ReadOn
<1> SUFFICES ASSUME ReadInv, DispatchIgnored PROVE ReadOn
  OBVIOUS
<1> PICK r \in Rooms : r = DispatchedRoom
  BY DispatchedType DEF ReadInv, DispatchIgnored
<1> DEFINE S == Dispatched
<1>1. /\ Processable(S) = {} /\ batch' = batch \ Of(r, batch)
      /\ IF S = {} THEN UNCHANGED cursor ELSE AdvanceTo(r, Max(S))
      /\ batch # {} /\ UNCHANGED <<msgs, polled, run, acking, taken>>
  BY DEF DispatchIgnored
<1>2. Types
  BY DEF ReadInv
<1>3. r \in Rooms /\ S \subseteq DOMAIN msgs /\ batch' \subseteq batch
      /\ \A i \in S : msgs[i].room = r
  BY <1>1, <1>2, DispatchedType
<1>4. \A i \in S : Is(i, r, "bot")
  BY <1>1, <1>3 DEF Processable, OfKind, Is
<1>5. taken' \subseteq DOMAIN msgs /\ acking' \in Rooms \cup {None}
  BY <1>1, <1>2 DEF Types
<1> HIDE DEF S
<1>6. CASE S = {}
  BY <1>1, <1>3, <1>5, <1>6, DispatchRead
<1>7. CASE S # {}
  <2>1. Max(S) \in S /\ Max(S) \in DOMAIN msgs /\ Max(S) \in 0..Len(msgs)
    BY <1>2, <1>3, <1>7, SetOfMessages
  <2>2. AdvanceTo(r, Max(S)) /\ Is(Max(S), r, "bot")
    BY <1>1, <1>4, <1>7, <2>1
  <2>3. cursor'[r] = cursor[r] \/ Covered(r, cursor[r])'
    BY <1>1, <1>2, <1>3, <2>1, <2>2, BotCovers
  <2>4. QED BY <1>1, <1>3, <1>5, <2>1, <2>2, <2>3, DispatchRead
<1>8. QED BY <1>6, <1>7

\* Where nobody has written, any position is covered.
LEMMA NobodyThere ==
  ASSUME NEW r, NEW S, BotsOnly(r, S)
  PROVE  \A i \in DOMAIN msgs : ~Is(i, r, "human")
BY DEF BotsOnly, Humans, OfKind, Of, Is, AllKinds

LEMMA BotsOnlyRead == ReadInv /\ DispatchBotsOnly => ReadOn
<1> SUFFICES ASSUME ReadInv, DispatchBotsOnly PROVE ReadOn
  OBVIOUS
<1> PICK r \in Rooms : r = DispatchedRoom
  BY DispatchedType DEF ReadInv, DispatchBotsOnly
<1> DEFINE S == Processable(Dispatched)
<1>1. /\ S # {} /\ BotsOnly(r, S) /\ batch' = batch \ Of(r, batch) /\ AdvanceTo(r, Max(S))
      /\ batch # {} /\ UNCHANGED <<msgs, polled, run, acking, taken>>
  BY DEF DispatchBotsOnly
<1>2. Types
  BY DEF ReadInv
<1>3. r \in Rooms /\ S \subseteq DOMAIN msgs /\ batch' \subseteq batch
  BY <1>1, <1>2, DispatchedType DEF Processable
<1>4. taken' \subseteq DOMAIN msgs /\ acking' \in Rooms \cup {None}
  BY <1>1, <1>2 DEF Types
<1> HIDE DEF S
<1>5. Max(S) \in 0..Len(msgs)
  BY <1>1, <1>2, <1>3, SetOfMessages
<1>6. cursor'[r] = cursor[r] \/ Covered(r, cursor[r])'
  BY <1>1, <1>3, <1>5, NobodyThere, TakenCovers
<1>7. QED BY <1>1, <1>3, <1>4, <1>5, <1>6, DispatchRead

\* The first command of messages that hold one.
LEMMA FirstCommandIn ==
  ASSUME Types, NEW S \in SUBSET DOMAIN msgs, OfKind(Commands, S) # {}
  PROVE  /\ FirstCommand(S) \in S /\ FirstCommand(S) \in DOMAIN msgs
         /\ FirstCommand(S) \in 0..Len(msgs)
         /\ msgs[FirstCommand(S)].kind # "human"
<1> DEFINE C == OfKind(Commands, S)
<1>1. C \in SUBSET DOMAIN msgs /\ C \subseteq S /\ \A i \in C : msgs[i].kind # "human"
  BY DEF OfKind, Commands
<1>2. FirstCommand(S) = Min(C)
  BY DEF FirstCommand
<1> HIDE DEF C
<1>3. Min(C) \in C /\ Min(C) \in DOMAIN msgs /\ Min(C) \in 0..Len(msgs)
  BY <1>1, SetOfMessages DEF C
<1>4. QED BY <1>1, <1>2, <1>3

LEMMA StopRead == ReadInv /\ DispatchStop => ReadOn
<1> SUFFICES ASSUME ReadInv, DispatchStop PROVE ReadOn
  OBVIOUS
<1> PICK r \in Rooms : r = DispatchedRoom
  BY DispatchedType DEF ReadInv, DispatchStop
<1> DEFINE S == Processable(Dispatched)
           c == FirstCommand(S)
<1>1. /\ OfKind(Commands, S) # {} /\ batch' = batch \ Of(r, batch) /\ AdvanceTo(r, c)
      /\ taken' = taken \cup {i \in Of(r, DOMAIN msgs) : i <= c}
      /\ acking' = r /\ batch # {} /\ UNCHANGED <<msgs, polled, run>>
  BY DEF DispatchStop
<1>2. Types
  BY DEF ReadInv
<1>3. r \in Rooms /\ S \subseteq DOMAIN msgs /\ batch' \subseteq batch
  BY <1>1, <1>2, DispatchedType DEF Processable
<1>4. taken' \subseteq DOMAIN msgs
  BY <1>1, <1>2 DEF Types, Of
<1>5. c \in 0..Len(msgs)
  BY <1>1, <1>2, <1>3, FirstCommandIn
<1> HIDE DEF S, c
<1>6. cursor'[r] = cursor[r] \/ Covered(r, cursor[r])'
  BY <1>1, <1>2, <1>3, <1>5, ConsumedCovers
<1>7. QED BY <1>1, <1>3, <1>4, <1>5, <1>6, DispatchRead

LEMMA ToQueueRead == ReadInv /\ DispatchToQueue => ReadOn
<1> SUFFICES ASSUME ReadInv, DispatchToQueue PROVE ReadOn
  OBVIOUS
<1>1. /\ batch' = batch \ Of(DispatchedRoom, batch)
      /\ UNCHANGED <<msgs, polled, cursor, run, acking, taken>>
  BY DEF DispatchToQueue
<1>2. acking' \in Rooms \cup {None} /\ batch' \subseteq batch
  BY <1>1 DEF ReadInv, Types
<1>3. QED BY <1>1, <1>2, ReadSame

LEMMA PeersRead == ReadInv /\ DispatchPeers => ReadOn
<1> SUFFICES ASSUME ReadInv, DispatchPeers PROVE ReadOn
  OBVIOUS
<1> PICK r \in Rooms : r = DispatchedRoom
  BY DispatchedType DEF ReadInv, DispatchPeers
<1> DEFINE S == Processable(Dispatched)
           U == Processable(Unread(r))
           piped == IF U = {} THEN S ELSE U
<1>1. /\ S # {} /\ batch' = batch \ Of(r, batch)
      /\ \/ taken' = taken \cup piped /\ AdvanceTo(r, Max(piped))
         \/ UNCHANGED <<cursor, taken>>
      /\ batch # {} /\ UNCHANGED <<msgs, polled, run, acking>>
  BY DEF DispatchPeers
<1>2. Types /\ DOMAIN msgs = 1..Len(msgs) /\ Len(msgs) \in Nat
  BY DEF ReadInv, Types
<1>3. r \in Rooms /\ S \subseteq DOMAIN msgs /\ batch' \subseteq batch
  BY <1>1, <1>2, DispatchedType DEF Processable
<1>4. U \subseteq DOMAIN msgs
  BY DEF Processable, Unread, Of
<1>5. piped \subseteq DOMAIN msgs /\ piped # {}
  BY <1>1, <1>3, <1>4
<1>6. \A i \in DOMAIN msgs : Is(i, r, "human") /\ cursor[r] < i => i \in U
  BY <1>2 DEF Processable, Unread, Of, OfKind, Is
<1>7. taken \subseteq taken' /\ taken' \subseteq DOMAIN msgs /\ acking' \in Rooms \cup {None}
  BY <1>1, <1>2, <1>5 DEF Types
<1>8. CASE UNCHANGED <<cursor, taken>>
  BY <1>1, <1>3, <1>7, <1>8, DispatchRead
<1>9. CASE taken' = taken \cup piped /\ AdvanceTo(r, Max(piped))
  <2>1. \A i \in DOMAIN msgs : Is(i, r, "human") /\ cursor[r] < i => i \in taken'
    BY <1>6, <1>9
  <2> HIDE DEF piped
  <2>2. Max(piped) \in 0..Len(msgs)
    BY <1>2, <1>5, SetOfMessages
  <2>3. cursor'[r] = cursor[r] \/ Covered(r, cursor[r])'
    BY <1>1, <1>3, <1>7, <1>9, <2>1, <2>2, TakenCovers
  <2>4. QED BY <1>1, <1>3, <1>7, <1>9, <2>2, <2>3, DispatchRead
<1>10. QED BY <1>1, <1>8, <1>9

LEMMA PollRead == ReadInv /\ Poll => ReadOn
<1> SUFFICES ASSUME ReadInv, Poll PROVE ReadOn
  OBVIOUS
<1>1. Types'
  BY DEF ReadInv, Types, Poll
<1>2. UNCHANGED <<msgs, cursor, run, taken>> /\ \A r \in Rooms : cursor[r] <= cursor'[r]
  BY DEF ReadInv, Types, Poll
<1>3. Grown
  BY <1>2, SameGrown DEF ReadInv
<1>4. QED BY <1>1, <1>2, <1>3, ReadStep

LEMMA AckRead == ReadInv /\ AckStop => ReadOn
<1> SUFFICES ASSUME ReadInv, AckStop PROVE ReadOn
  OBVIOUS
<1>1. UNCHANGED <<msgs, polled, cursor, run, taken>> /\ acking' = None
      /\ batch' \subseteq batch
  BY DEF AckStop
<1>2. QED BY <1>1, ReadSame

\* A new message is behind every cursor.
LEMMA ReceiveRead ==
  ASSUME ReadInv, NEW r \in Rooms, NEW kind \in Kinds, NEW at \in Times, Receive(r, kind, at)
  PROVE  ReadOn
<1> DEFINE m == [room |-> r, kind |-> kind, at |-> at]
<1>1. m \in Message
  BY DEF Message
<1>2. msgs' = Append(msgs, m) /\ UNCHANGED <<polled, cursor, run, batch, acking, taken>>
  BY DEF Receive
<1> HIDE DEF m
<1>3. /\ msgs \in Seq(Message) /\ Len(msgs) \in Nat /\ msgs' \in Seq(Message)
      /\ DOMAIN msgs = 1..Len(msgs) /\ DOMAIN msgs' = 1..Len(msgs) + 1
      /\ Len(msgs') = Len(msgs) + 1
      /\ \A i \in DOMAIN msgs : msgs'[i] = msgs[i]
  BY <1>1, <1>2 DEF ReadInv, Types
<1>4. DOMAIN msgs \subseteq DOMAIN msgs' /\ 0..Len(msgs) \subseteq 0..Len(msgs')
      /\ \A i \in DOMAIN msgs' : i \in DOMAIN msgs \/ i > Len(msgs)
  BY <1>3
<1>5. Types'
  BY <1>2, <1>3, <1>4 DEF ReadInv, Types
<1>6. Grown
  BY <1>3, <1>4 DEF Grown
<1>7. \A q \in Rooms : cursor[q] <= cursor'[q]
  BY <1>2 DEF ReadInv, Types
<1>8. QED BY <1>2, <1>5, <1>6, <1>7, ReadStep

----------------------------------------------------------------------------
(* The run of a room *)

\* The records that the steps of a run make.
LEMMA RunRecord ==
  ASSUME NEW pc \in Pcs, NEW upTo \in Nat, NEW snap \in Nat, NEW input \in SUBSET Nat,
         NEW then \in Thens, NEW ok \in BOOLEAN, NEW recheck \in BOOLEAN
  PROVE  /\ [NoRun EXCEPT !.pc = pc, !.snap = snap, !.input = input, !.upTo = upTo] \in RunType
         /\ [NoRun EXCEPT !.pc = pc, !.then = then, !.recheck = recheck] \in RunType
         /\ [NoRun EXCEPT !.pc = pc, !.then = then, !.upTo = upTo, !.byTime = TRUE] \in RunType
         /\ [NoRun EXCEPT !.upTo = upTo, !.input = input] \in RunType
         /\ [NoRun EXCEPT !.pc = pc, !.then = then, !.ok = ok] \in RunType
         /\ [NoRun EXCEPT !.pc = pc, !.then = then] \in RunType
<1>1. PICK z \in RunType : z = NoRun
  BY NoRunType
<1>2. /\ [z EXCEPT !.pc = pc, !.snap = snap, !.input = input, !.upTo = upTo] \in RunType
      /\ [z EXCEPT !.pc = pc, !.then = then, !.recheck = recheck] \in RunType
      /\ [z EXCEPT !.pc = pc, !.then = then, !.upTo = upTo, !.byTime = TRUE] \in RunType
  BY DEF RunType
<1>3. /\ [z EXCEPT !.upTo = upTo, !.input = input] \in RunType
      /\ [z EXCEPT !.pc = pc, !.then = then, !.ok = ok] \in RunType
      /\ [z EXCEPT !.pc = pc, !.then = then] \in RunType
  BY DEF RunType
<1>4. QED BY <1>1, <1>2, <1>3

LEMMA RunRecordEdit ==
  ASSUME NEW x \in RunType, NEW pc \in Pcs, NEW then \in Thens, NEW ok \in BOOLEAN
  PROVE  /\ [x EXCEPT !.pc = pc] \in RunType /\ [x EXCEPT !.pc = pc, !.then = then] \in RunType
         /\ [x EXCEPT !.pc = pc, !.ok = ok] \in RunType
BY DEF RunType

\* What is unread of a room: it is there, and no human message of it is left out.
LEMMA UnreadOf ==
  ASSUME Types, NEW r \in Rooms
  PROVE  /\ Unread(r) \subseteq DOMAIN msgs /\ Processable(Unread(r)) \subseteq Unread(r)
         /\ \A i \in Unread(r) : msgs[i].room = r /\ cursor[r] < i
         /\ \A i \in DOMAIN msgs : Is(i, r, "human") /\ cursor[r] < i => i \in Processable(Unread(r))
         /\ \A i \in Unread(r) : i \notin Processable(Unread(r)) => Is(i, r, "bot")
<1>1. cursor[r] \in Nat /\ DOMAIN msgs = 1..Len(msgs) /\ Len(msgs) \in Nat
  BY DEF Types
<1>2. QED BY <1>1 DEF Unread, Of, Processable, OfKind, Is

LEMMA GatherRead ==
  ASSUME ReadInv, NEW r \in Rooms, Gather(r)
  PROVE  ReadOn
<1> DEFINE missed == Processable(Unread(r))
<1>1. Types /\ Len(msgs) \in Nat /\ DOMAIN msgs = 1..Len(msgs) /\ cursor[r] \in 0..Len(msgs)
  BY DEF ReadInv, Types
<1>2. UNCHANGED <<msgs, polled, batch, acking, taken>> /\ taken' \subseteq DOMAIN msgs
  BY <1>1 DEF Gather, Types
<1>3. missed \subseteq DOMAIN msgs /\ Unread(r) \subseteq DOMAIN msgs
  BY <1>1, UnreadOf
<1>4. CASE missed = {} \/ BotsOnly(r, missed)
  <2> DEFINE S == IF missed = {} THEN Unread(r) ELSE missed
  <2>1. EndRun(r, TRUE, FALSE)
        /\ IF Unread(r) = {} THEN UNCHANGED cursor ELSE AdvanceTo(r, Max(S))
    BY <1>4 DEF Gather
  <2>2. CASE Unread(r) = {}
    BY <1>2, <2>1, <2>2, EndRead
  <2>3. CASE Unread(r) # {}
    <3>1. S # {} /\ S \subseteq DOMAIN msgs
      BY <1>3, <2>3
    <3>2. \/ \A i \in S : Is(i, r, "bot")
          \/ \A i \in DOMAIN msgs : ~Is(i, r, "human")
      BY <1>1, <1>4, UnreadOf, NobodyThere
    <3> HIDE DEF S
    <3>3. Max(S) \in S /\ Max(S) \in DOMAIN msgs /\ Max(S) \in 0..Len(msgs)
      BY <1>1, <3>1, SetOfMessages
    <3>4. cursor'[r] = cursor[r] \/ Covered(r, cursor[r])'
      <4>1. CASE \A i \in S : Is(i, r, "bot")
        BY <1>1, <1>2, <2>1, <2>3, <3>3, <4>1, BotCovers
      <4>2. CASE \A i \in DOMAIN msgs : ~Is(i, r, "human")
        BY <1>2, <2>1, <2>3, <3>3, <4>2, TakenCovers
      <4>3. QED BY <3>2, <4>1, <4>2
    <3>5. QED BY <1>2, <2>1, <2>3, <3>3, <3>4, EndRead
  <2>4. QED BY <2>2, <2>3
<1>5. CASE ~(missed = {} \/ BotsOnly(r, missed))
  <2>1. PICK n \in DOMAIN msgs : n = Max(missed) /\ \A i \in missed : i <= n
    BY <1>1, <1>3, <1>5, SetOfMessages
  <2>2. PICK S \in SUBSET DOMAIN msgs, s \in 0..Len(msgs) : S = missed /\ s = cursor[r]
    BY <1>1, <1>3
  <2> DEFINE x == [NoRun EXCEPT !.pc = "gate", !.snap = s, !.input = S, !.upTo = n]
  <2>3. run' = [run EXCEPT ![r] = x] /\ UNCHANGED cursor
    BY <1>5, <2>1, <2>2 DEF Gather
  <2>4. x \in RunType
    <3>1. S \in SUBSET Nat /\ s \in Nat /\ n \in Nat /\ "gate" \in Pcs /\ "idle" \in Thens
      BY <1>1 DEF Pcs, Thens
    <3>2. QED BY <3>1, RunRecord
  <2>5. x.pc = "gate" /\ x.snap = s /\ x.input = S /\ x.upTo = n /\ x.then = "idle" /\ ~x.byTime
    BY DEF NoRun
  <2>6. /\ \A i \in S : s < i /\ i <= n /\ msgs[i].room = r
        /\ \A i \in DOMAIN msgs : Is(i, r, "human") /\ s < i => i \in S
    BY <1>1, <2>1, <2>2, UnreadOf
  <2> HIDE DEF x
  <2>7. Gathered(r, x)
    BY <2>5, <2>6 DEF Gathered
  <2>8. Sound(r, x)
    BY <1>1, <2>5, <2>6, <2>7 DEF Sound, Given, Advances
  <2>9. QED BY <1>2, <2>3, <2>4, <2>8, GoesOnRead
<1>6. QED BY <1>4, <1>5

\* At the gate, with the cursor it gathered at, a run has all that nobody has
\* been given.
LEMMA GateCovers ==
  ASSUME ReadInv, NEW r \in Rooms, Gated(r)
  PROVE  /\ \A n \in 0..Len(msgs) : n <= run[r].upTo => Covers(r, run[r].input, n)
         /\ \A k \in run[r].input : k <= run[r].upTo /\ cursor[r] < k
<1>1. /\ run[r].pc = "gate" /\ cursor[r] = run[r].snap
      /\ Sound(r, run[r]) /\ Covered(r, cursor[r])
  BY DEF Gated, Stale, ReadInv
<1>2. /\ Gathered(r, run[r]) /\ run[r].upTo \in Nat
      /\ DOMAIN msgs = 1..Len(msgs) /\ Len(msgs) \in Nat /\ cursor[r] \in Nat
  BY <1>1 DEF Sound, ReadInv, Types
<1>3. ASSUME NEW n \in 0..Len(msgs), n <= run[r].upTo, NEW i \in DOMAIN msgs,
             Is(i, r, "human"), i <= n
      PROVE  i \in taken \cup run[r].input \/ Excepted(i, r)
  <2>1. CASE i <= cursor[r]
    BY <1>1, <1>3, <2>1 DEF Covered, Covers
  <2>2. CASE ~(i <= cursor[r])
    <3>1. cursor[r] < i /\ i <= run[r].upTo
      BY <1>2, <1>3, <2>2
    <3>2. QED BY <1>1, <1>2, <1>3, <3>1 DEF Gathered
  <2>3. QED BY <2>1, <2>2
<1>4. QED BY <1>1, <1>2, <1>3 DEF Covers, Gathered

LEMMA PromptRead ==
  ASSUME ReadInv, NEW r \in Rooms, Prompt(r)
  PROVE  ReadOn
<1>1. PICK z \in RunType : z = run[r]
  BY DEF ReadInv, Types
<1> DEFINE x == [z EXCEPT !.pc = "starting", !.then = "agent"]
<1>2. Gated(r) /\ run' = [run EXCEPT ![r] = x]
      /\ UNCHANGED <<msgs, polled, cursor, batch, acking, taken>>
  BY <1>1 DEF Prompt, Starting
<1>3. x \in RunType /\ x.pc = "starting" /\ x.then = "agent" /\ x.input = z.input
      /\ x.upTo = z.upTo /\ x.byTime = z.byTime
  <2>1. "starting" \in Pcs /\ "agent" \in Thens
    BY DEF Pcs, Thens
  <2>2. x \in RunType
    BY <2>1, RunRecordEdit, TRUE \in BOOLEAN
  <2>3. QED BY <2>2 DEF RunType
<1> HIDE DEF x
<1>4. Sound(r, z) /\ Covers(r, z.input, z.upTo)
  <2>1. Sound(r, z)
    BY <1>1 DEF ReadInv
  <2>2. z.upTo \in 0..Len(msgs) /\ z.upTo <= z.upTo
    BY <2>1 DEF Sound, ReadInv, Types
  <2>3. QED BY <1>1, <1>2, <2>1, <2>2, GateCovers
<1>5. Sound(r, x)
  BY <1>3, <1>4 DEF Sound, Given, Advances
<1>6. QED BY <1>2, <1>3, <1>5, GoesOnRead

\* The agent is started: from now on its messages count as given to it.
LEMMA StartAgentRead ==
  ASSUME ReadInv, NEW r \in Rooms, run[r].then \in {"agent", "pre", "compact"}, StartAgent(r)
  PROVE  ReadOn
<1>1. PICK z \in RunType, t \in {"agent", "pre", "compact"} : z = run[r] /\ t = run[r].then
  BY DEF ReadInv, Types
<1> DEFINE x == [z EXCEPT !.pc = t]
<1>2. run' = [run EXCEPT ![r] = x] /\ taken' = taken \cup z.input
      /\ UNCHANGED <<msgs, polled, cursor, batch, acking>>
  BY <1>1 DEF StartAgent, Goto, ReadInv, Types, RunType
<1>3. x \in RunType /\ x.pc = t /\ x.then = t /\ x.input = z.input
      /\ x.upTo = z.upTo /\ x.byTime = z.byTime
  <2>1. t \in Pcs /\ "agent" \in Thens
    BY DEF Pcs, Thens
  <2>2. x \in RunType
    BY <2>1, RunRecordEdit, TRUE \in BOOLEAN
  <2>3. QED BY <1>1, <2>2 DEF RunType
<1> HIDE DEF x
<1>4. Types /\ Sound(r, z) /\ z.input \subseteq DOMAIN msgs /\ cursor[r] <= cursor'[r]
  BY <1>1, <1>2 DEF ReadInv, Sound, Types
<1>5. taken' \subseteq DOMAIN msgs /\ Grown
  BY <1>2, <1>4, SameGrown DEF Types
<1>6. ASSUME Types' PROVE Sound(r, x)'
  <2>1. Sound(r, z)'
    BY <1>2, <1>4, <1>5, <1>6, SoundStays
  <2>2. QED BY <1>1, <1>2, <1>3, <2>1 DEF Sound, Given, Advances, Compacts
<1>7. QED BY <1>2, <1>3, <1>5, <1>6, RunRead

\* What a run that consumes its command up to it may rely on.
LEMMA CommandIn ==
  ASSUME ReadInv, NEW r \in Rooms, NEW kinds, HasCommand(r, kinds)
  PROVE  /\ CommandOf(r) \in DOMAIN msgs /\ CommandOf(r) \in 0..Len(msgs) /\ CommandOf(r) \in Nat
         /\ CommandOf(r) \in run[r].input /\ msgs[CommandOf(r)].room = r
         /\ msgs[CommandOf(r)].kind \in kinds
<1>1. Types /\ run[r].input \in SUBSET DOMAIN msgs /\ Len(msgs) \in Nat
      /\ \A k \in run[r].input : msgs[k].room = r
  BY DEF ReadInv, Sound, Types
<1>2. OfKind(Commands, run[r].input) # {} /\ msgs[CommandOf(r)].kind \in kinds
  BY DEF HasCommand
<1>3. QED BY <1>1, <1>2, FirstCommandIn DEF CommandOf

LEMMA StopOrClearRead ==
  ASSUME ReadInv, NEW r \in Rooms, RunStopOrClear(r)
  PROVE  ReadOn
<1>1. PICK c \in DOMAIN msgs : c = CommandOf(r) /\ c \in 0..Len(msgs) /\ msgs[c].room = r
                               /\ msgs[c].kind \in {"stop", "clear"}
  BY CommandIn DEF RunStopOrClear
<1>2. PICK b \in BOOLEAN : b = (msgs[CommandOf(r)].kind = "stop")
  OBVIOUS
<1> DEFINE x == [NoRun EXCEPT !.pc = "say", !.then = "end", !.recheck = b]
<1>3. /\ AdvanceTo(r, IF msgs[c].kind = "stop" THEN c ELSE LatestSeqAtOrBefore(r, c))
      /\ taken' = taken \cup {i \in Of(r, DOMAIN msgs) : i <= c}
      /\ run' = [run EXCEPT ![r] = x] /\ UNCHANGED <<msgs, polled, batch, acking>>
  BY <1>1, <1>2 DEF RunStopOrClear, Say, ConsumeUpTo
<1>4. x \in RunType /\ x.input = {} /\ x.upTo = 0 /\ ~x.byTime
      /\ x.pc \in {"idle", "say"} /\ x.then \in {"idle", "end"}
  <2>1. "say" \in Pcs /\ "end" \in Thens
    BY DEF Pcs, Thens
  <2>2. x \in RunType
    BY <2>1, RunRecord, 0 \in Nat, {} \in SUBSET Nat
  <2>3. QED BY <2>2 DEF NoRun
<1> HIDE DEF x
<1>5. Types /\ DOMAIN msgs = 1..Len(msgs) /\ Len(msgs) \in Nat
  BY DEF ReadInv, Types
<1>6. taken' \subseteq DOMAIN msgs
  BY <1>3, <1>5 DEF Types, Of
<1>7. \E n \in 0..Len(msgs) : AdvanceTo(r, n) /\ (cursor'[r] = cursor[r] \/ Covered(r, cursor[r])')
  <2>1. CASE msgs[c].kind = "stop"
    <3>1. AdvanceTo(r, c)
      BY <1>3, <2>1
    <3>2. QED BY <1>1, <1>3, <1>5, <3>1, ConsumedCovers
  <2>2. CASE msgs[c].kind # "stop"
    <3>1. AdvanceTo(r, LatestSeqAtOrBefore(r, c))
      BY <1>3, <2>2
    <3>2. Overtakes(r, c)
      BY <1>1, <2>2 DEF Overtakes, Commands
    <3>3. Covered(r, c)'
      BY <1>3 DEF Covered, Covers, Of, Is
    <3>4. QED BY <1>3, <1>5, <3>1, <3>2, <3>3, TimeCovers
  <2>3. QED BY <2>1, <2>2
<1>8. Types' => Sound(r, x)'
  BY <1>4, RestSound
<1>9. QED BY <1>3, <1>4, <1>6, <1>7, <1>8, RunRead

LEMMA DeniedRead ==
  ASSUME ReadInv, NEW r \in Rooms, RunDenied(r)
  PROVE  ReadOn
<1>1. PICK c \in DOMAIN msgs : c = CommandOf(r) /\ c \in 0..Len(msgs) /\ msgs[c].room = r
                               /\ msgs[c].kind = "denied"
  BY CommandIn DEF RunDenied
<1> DEFINE x == [NoRun EXCEPT !.pc = "say", !.then = "advance", !.upTo = c, !.byTime = TRUE]
<1>2. /\ taken' = taken \cup {i \in Of(r, DOMAIN msgs) : i <= c}
      /\ run' = [run EXCEPT ![r] = x] /\ UNCHANGED <<msgs, polled, cursor, batch, acking>>
  BY <1>1 DEF RunDenied, Say, ConsumeUpTo
<1>3. Types /\ Len(msgs) \in Nat /\ c \in Nat
  BY DEF ReadInv, Types
<1>4. x \in RunType /\ x.pc = "say" /\ x.then = "advance" /\ x.upTo = c /\ x.input = {}
  <2>1. "say" \in Pcs /\ "advance" \in Thens
    BY DEF Pcs, Thens
  <2>2. x \in RunType
    BY <1>3, <2>1, RunRecord, {} \in SUBSET Nat, TRUE \in BOOLEAN
  <2>3. QED BY <2>2 DEF NoRun
<1> HIDE DEF x
<1>5. taken' \subseteq DOMAIN msgs
  BY <1>2, <1>3 DEF Types, Of
<1>6. Covered(r, c)'
  BY <1>2 DEF Covered, Covers, Of, Is
<1>7. Overtakes(r, c)'
  BY <1>1, <1>2 DEF Overtakes, Commands
<1>8. Sound(r, x)'
  BY <1>1, <1>2, <1>4, <1>6, <1>7 DEF Sound, Given
<1>9. QED BY <1>2, <1>4, <1>5, <1>8, RunRead

LEMMA CompactRead ==
  ASSUME ReadInv, NEW r \in Rooms, RunCompact(r)
  PROVE  ReadOn
<1>1. PICK c \in DOMAIN msgs : c = CommandOf(r) /\ c \in 0..Len(msgs) /\ Is(c, r, "compact")
                               /\ c \in run[r].input
  BY CommandIn DEF RunCompact, Is
<1>2. Types /\ Len(msgs) \in Nat /\ c \in Nat /\ run[r].input \subseteq DOMAIN msgs
      /\ DOMAIN msgs = 1..Len(msgs) /\ \A k \in run[r].input : msgs[k].room = r
  BY DEF ReadInv, Types, Sound
<1>3. PICK S \in SUBSET DOMAIN msgs : S = {i \in run[r].input : i < c}
  BY <1>2
<1>4. PICK t \in {"pre", "compact"} : t = IF S = {} THEN "compact" ELSE "pre"
  OBVIOUS
<1> DEFINE y == [NoRun EXCEPT !.upTo = c, !.input = S]
           x == [y EXCEPT !.pc = "starting", !.then = t]
<1>5. Gated(r) /\ run' = [run EXCEPT ![r] = x]
      /\ UNCHANGED <<msgs, polled, cursor, batch, acking, taken>>
  BY <1>1, <1>3, <1>4 DEF RunCompact, Starting
<1>6. x \in RunType /\ x.pc = "starting" /\ x.then = t /\ x.upTo = c /\ x.input = S /\ ~x.byTime
  <2>1. "starting" \in Pcs /\ t \in Thens /\ "idle" \in Pcs /\ S \in SUBSET Nat
    BY <1>2 DEF Pcs, Thens
  <2>2. y \in RunType
    BY <1>2, <2>1, RunRecord, TRUE \in BOOLEAN
  <2>3. y.upTo = c /\ y.input = S /\ ~y.byTime
    BY DEF NoRun
  <2> HIDE DEF y
  <2>4. x \in RunType
    BY <2>1, <2>2, RunRecordEdit, TRUE \in BOOLEAN
  <2>5. QED BY <2>2, <2>3, <2>4 DEF RunType
<1> HIDE DEF x, y
<1>7. ASSUME NEW k \in S PROVE k < c /\ Covers(r, S, k)
  <2>1. k \in run[r].input /\ k < c /\ k \in 0..Len(msgs) /\ k <= run[r].upTo /\ k \in Nat
    BY <1>2, <1>3, <1>5, GateCovers
  <2>2. Covers(r, run[r].input, k)
    BY <1>5, <2>1, GateCovers
  <2>3. \A i \in run[r].input : i <= k => i \in S
    BY <1>2, <1>3, <2>1
  <2>4. QED BY <2>1, <2>2, <2>3 DEF Covers
<1>8. Compacts(r, x)
  BY <1>1, <1>6, <1>7 DEF Compacts
<1>9. Sound(r, x)
  BY <1>1, <1>2, <1>3, <1>4, <1>6, <1>8 DEF Sound, Given, Advances
<1>10. QED BY <1>5, <1>6, <1>9, GoesOnRead

\* The run and what holds of it.
LEMMA RunIs ==
  ASSUME ReadInv, NEW r \in Rooms
  PROVE  /\ run[r] \in RunType /\ Sound(r, run[r]) /\ Types
         /\ DOMAIN msgs = 1..Len(msgs) /\ Len(msgs) \in Nat
BY DEF ReadInv, Types

LEMMA CompactSaysRead ==
  ASSUME ReadInv, NEW r \in Rooms, CompactSays(r)
  PROVE  ReadOn
<1>1. PICK z \in RunType : z = run[r] /\ Sound(r, z)
  BY RunIs
<1>2. PICK pc \in {"pre", "compact"} : pc = z.pc
  BY <1>1 DEF CompactSays
<1> DEFINE x == [z EXCEPT !.pc = "say", !.then = pc]
<1>3. run' = [run EXCEPT ![r] = x] /\ UNCHANGED <<msgs, polled, cursor, batch, acking, taken>>
  BY <1>1, <1>2 DEF CompactSays, Say
<1>4. x \in RunType /\ x.pc = "say" /\ x.then = z.pc /\ x.upTo = z.upTo /\ x.input = z.input
      /\ x.byTime = z.byTime
  <2>1. "say" \in Pcs /\ pc \in Thens
    BY DEF Pcs, Thens
  <2>2. x \in RunType
    BY <2>1, RunRecordEdit, TRUE \in BOOLEAN
  <2>3. QED BY <1>2, <2>2 DEF RunType
<1> HIDE DEF x
<1>5. Sound(r, x)
  BY <1>1, <1>2, <1>4 DEF Sound, Given, Advances, Compacts
<1>6. QED BY <1>3, <1>4, <1>5, GoesOnRead

LEMMA PreEndsRead ==
  ASSUME ReadInv, NEW r \in Rooms, PreEnds(r)
  PROVE  ReadOn
<1>1. PICK z \in RunType : z = run[r] /\ Sound(r, z)
  BY RunIs
<1> DEFINE x == [z EXCEPT !.pc = "starting", !.then = "compact"]
<1>2. run' = [run EXCEPT ![r] = x] /\ UNCHANGED <<msgs, polled, cursor, batch, acking, taken>>
      /\ z.pc = "pre"
  BY <1>1 DEF PreEnds, Starting
<1>3. x \in RunType /\ x.pc = "starting" /\ x.then = "compact" /\ x.upTo = z.upTo
      /\ x.input = z.input /\ x.byTime = z.byTime
  <2>1. "starting" \in Pcs /\ "compact" \in Thens
    BY DEF Pcs, Thens
  <2>2. x \in RunType
    BY <2>1, RunRecordEdit, TRUE \in BOOLEAN
  <2>3. QED BY <2>2 DEF RunType
<1> HIDE DEF x
<1>4. Sound(r, x)
  BY <1>1, <1>2, <1>3 DEF Sound, Given, Advances, Compacts
<1>5. QED BY <1>2, <1>3, <1>4, GoesOnRead

LEMMA PreFailsRead ==
  ASSUME ReadInv, NEW r \in Rooms, PreFails(r)
  PROVE  ReadOn
<1>1. PICK z \in RunType : z = run[r] /\ Sound(r, z)
  BY RunIs
<1>2. Types /\ DOMAIN msgs = 1..Len(msgs) /\ Len(msgs) \in Nat /\ z.pc = "pre"
      /\ UNCHANGED <<msgs, polled, cursor, batch, acking, taken>>
  BY <1>1, RunIs DEF PreFails
<1>3. taken' \subseteq DOMAIN msgs
  BY <1>2 DEF Types
<1>4. "say" \in Pcs /\ "advance" \in Thens /\ "end" \in Thens
  BY DEF Pcs, Thens
<1>5. CASE run' = [run EXCEPT ![r] = [NoRun EXCEPT !.pc = "say", !.then = "end", !.ok = FALSE]]
  <2> DEFINE x == [NoRun EXCEPT !.pc = "say", !.then = "end", !.ok = FALSE]
  <2>1. x \in RunType
    BY <1>4, RunRecord, 0 \in Nat, {} \in SUBSET Nat, FALSE \in BOOLEAN
  <2>2. /\ x.input = {} /\ x.upTo = 0 /\ ~x.byTime
        /\ x.pc \in {"idle", "say"} /\ x.then \in {"idle", "end"}
    BY DEF NoRun
  <2>3. run' = [run EXCEPT ![r] = x]
    BY <1>5
  <2> HIDE DEF x
  <2>4. Types' => Sound(r, x)'
    BY <2>2, RestSound
  <2>5. QED BY <1>2, <1>3, <2>1, <2>3, <2>4, RunRead
<1>6. CASE run' = [run EXCEPT ![r] = [NoRun EXCEPT !.pc = "say", !.then = "advance",
                                                   !.upTo = Max(z.input), !.byTime = TRUE]]
  <2>1. /\ Compacts(r, z) /\ z.input # {} /\ z.input \subseteq DOMAIN msgs /\ z.input \subseteq taken
        /\ \A k \in z.input : msgs[k].room = r
    BY <1>1, <1>2 DEF Sound, Given
  <2>2. PICK m \in DOMAIN msgs : m = Max(z.input) /\ m \in z.input /\ m \in 0..Len(msgs)
    BY <1>2, <2>1, SetOfMessages
  <2> DEFINE x == [NoRun EXCEPT !.pc = "say", !.then = "advance", !.upTo = m, !.byTime = TRUE]
  <2>3. x \in RunType
    <3>1. m \in Nat
      BY <1>2
    <3>2. QED BY <1>4, <3>1, RunRecord, {} \in SUBSET Nat, TRUE \in BOOLEAN
  <2>4. x.pc = "say" /\ x.then = "advance" /\ x.upTo = m /\ x.input = {}
    BY DEF NoRun
  <2>5. run' = [run EXCEPT ![r] = x]
    BY <1>6, <2>2
  <2> HIDE DEF x
  <2>6. Covered(r, m)
    BY <2>1, <2>2 DEF Compacts, Covered, Covers
  <2>7. Overtakes(r, m)
    BY <2>1, <2>2 DEF Compacts, Overtakes
  <2>8. Sound(r, x)
    BY <2>2, <2>4, <2>6, <2>7 DEF Sound, Given
  <2>9. QED BY <1>2, <2>3, <2>5, <2>8, GoesOnRead
<1>7. \/ run' = [run EXCEPT ![r] = [NoRun EXCEPT !.pc = "say", !.then = "end", !.ok = FALSE]]
      \/ run' = [run EXCEPT ![r] = [NoRun EXCEPT !.pc = "say", !.then = "advance",
                                                 !.upTo = Max(z.input), !.byTime = TRUE]]
  BY <1>1 DEF PreFails, FailAndSay
<1>8. QED BY <1>5, <1>6, <1>7

\* A /compact that ended, well or not, is consumed.
LEMMA CompactCovers ==
  ASSUME ReadInv, NEW r \in Rooms, CompactAdvances(r), msgs' = msgs
  PROVE  /\ \E n \in 0..Len(msgs) : AdvanceTo(r, n)
         /\ cursor'[r] = cursor[r] \/ Covered(r, cursor[r])'
         /\ taken \subseteq taken' /\ taken' \subseteq DOMAIN msgs
<1>1. PICK z \in RunType : z = run[r] /\ Sound(r, z)
  BY RunIs
<1>2. PICK u : u = z.upTo
  OBVIOUS
<1>3. /\ AdvanceTo(r, LatestSeqAtOrBefore(r, u)) /\ z.pc = "compact"
      /\ taken' = taken \cup {i \in Of(r, DOMAIN msgs) : i <= u}
  BY <1>1, <1>2 DEF CompactAdvances, ConsumeUpTo
<1>4. Types
  BY RunIs
<1>5. Overtakes(r, u)
  <2>1. u \in DOMAIN msgs /\ Is(u, r, "compact")
    BY <1>1, <1>2, <1>3 DEF Sound, Compacts
  <2>2. QED BY <2>1 DEF Overtakes, Is, Commands
<1>6. Covered(r, u)'
  BY <1>3 DEF Covered, Covers, Of, Is
<1>7. taken \subseteq taken' /\ taken' \subseteq DOMAIN msgs
  BY <1>3, <1>4 DEF Types, Of
<1>8. QED BY <1>3, <1>4, <1>5, <1>6, <1>7, TimeCovers

LEMMA CompactEndsRead ==
  ASSUME ReadInv, NEW r \in Rooms, CompactEnds(r)
  PROVE  ReadOn
<1>1. CompactAdvances(r) /\ EndRun(r, TRUE, FALSE) /\ UNCHANGED <<msgs, polled, batch, acking>>
  BY DEF CompactEnds
<1>2. QED BY <1>1, CompactCovers, EndRead

LEMMA CompactFailsRead ==
  ASSUME ReadInv, NEW r \in Rooms, CompactFails(r)
  PROVE  ReadOn
<1> DEFINE x == [NoRun EXCEPT !.pc = "say", !.then = "end"]
<1>1. CompactAdvances(r) /\ run' = [run EXCEPT ![r] = x] /\ UNCHANGED <<msgs, polled, batch, acking>>
  BY DEF CompactFails, FailAndSay
<1>2. x \in RunType
  <2>1. "say" \in Pcs /\ "end" \in Thens
    BY DEF Pcs, Thens
  <2>2. QED BY <2>1, RunRecord, 0 \in Nat, {} \in SUBSET Nat, TRUE \in BOOLEAN
<1>3. /\ x.input = {} /\ x.upTo = 0 /\ ~x.byTime
      /\ x.pc \in {"idle", "say"} /\ x.then \in {"idle", "end"}
  BY DEF NoRun
<1> HIDE DEF x
<1>4. Types' => Sound(r, x)'
  BY <1>3, RestSound
<1>5. QED BY <1>1, <1>2, <1>4, CompactCovers, RunRead

\* The cursor moves to what the run was given, or to what a command takes along.
LEMMA AdvanceRead ==
  ASSUME ReadInv, NEW r \in Rooms, Advance(r)
  PROVE  ReadOn
<1>1. PICK z \in RunType : z = run[r] /\ Sound(r, z)
  BY RunIs
<1>2. PICK u \in 0..Len(msgs) : u = z.upTo
  BY <1>1 DEF Sound
<1>3. /\ AdvanceTo(r, IF z.byTime THEN LatestSeqAtOrBefore(r, u) ELSE u)
      /\ EndRun(r, run[r].ok, FALSE)
      /\ UNCHANGED <<msgs, polled, batch, acking, taken>> /\ z.pc = "advance"
  BY <1>1, <1>2 DEF Advance
<1>4. Types /\ taken' \subseteq DOMAIN msgs
  BY <1>3, RunIs DEF Types
<1>5. Covered(r, u)
  <2>1. Advances(z)
    <3>1. z.pc = "advance"
      BY <1>3
    <3>2. QED BY <3>1 DEF Advances
  <2>2. Covered(r, z.upTo)
    BY <1>1, <2>1 DEF Sound
  <2>3. QED BY <1>2, <2>2 DEF Covered, Covers
<1>6. \E n \in 0..Len(msgs) : AdvanceTo(r, n) /\ (cursor'[r] = cursor[r] \/ Covered(r, cursor[r])')
  <2>1. CASE ~z.byTime
    <3>1. AdvanceTo(r, u)
      BY <1>3, <2>1
    <3>2. QED BY <1>3, <1>4, <1>5, <3>1, WasCovered
  <2>2. CASE z.byTime
    <3>1. AdvanceTo(r, LatestSeqAtOrBefore(r, u)) /\ Overtakes(r, u)
      BY <1>1, <1>2, <1>3, <2>2 DEF Sound
    <3>2. u \in DOMAIN msgs /\ msgs[u].room = r
      BY <3>1 DEF Overtakes
    <3>3. PICK j \in 0..Len(msgs) : j = LatestSeqAtOrBefore(r, u)
      BY <1>4, <3>2, LatestIs
    <3>4. cursor[r] <= cursor'[r] /\ cursor'[r] \in Nat /\ DOMAIN msgs' \subseteq Nat
      BY <1>3, <1>4, <3>1, <3>3, AdvanceToType DEF Types
    <3>5. Covered(r, u)'
      BY <1>3, <1>4, <1>5, <3>4, SameGrown, CoversStays DEF Covered
    <3>6. QED BY <1>3, <1>4, <3>1, <3>5, TimeCovers
  <2>3. QED BY <2>1, <2>2
<1>7. QED BY <1>3, <1>4, <1>6, EndRead

\* A run that goes on as it is at another step.
LEMMA GotoRead ==
  ASSUME ReadInv, NEW r \in Rooms, NEW pc \in Pcs, Goto(r, pc),
         UNCHANGED <<msgs, polled, cursor, batch, acking, taken>>,
         \/ pc \in {"deliver", "gather"}
         \/ run[r].pc = "agent" /\ pc \in {"final", "advance"}
         \/ run[r].pc = "say" /\ pc = run[r].then
  PROVE  ReadOn
<1>1. PICK z \in RunType : z = run[r] /\ Sound(r, z)
  BY RunIs
<1> DEFINE x == [z EXCEPT !.pc = pc]
<1>2. run' = [run EXCEPT ![r] = x]
  BY <1>1 DEF Goto, ReadInv, Types, RunType
<1>3. x \in RunType /\ x.pc = pc /\ x.then = z.then /\ x.input = z.input
      /\ x.upTo = z.upTo /\ x.byTime = z.byTime
  BY RunRecordEdit DEF RunType
<1> HIDE DEF x
<1>4. /\ x.upTo \in 0..Len(msgs) /\ x.input \subseteq DOMAIN msgs
      /\ \A k \in x.input : msgs[k].room = r
      /\ x.then = "agent" => Covers(r, x.input, x.upTo)
      /\ x.then \in {"pre", "compact"} => Compacts(r, x)
      /\ x.then = "pre" => x.input # {}
      /\ x.byTime => Overtakes(r, x.upTo)
  BY <1>1, <1>3 DEF Sound, Compacts
<1>5. ASSUME pc \in {"deliver", "gather"} PROVE Sound(r, x)
  <2>1. x.pc \in {"deliver", "gather"}
    BY <1>3, <1>5
  <2>2. ~Given(x) /\ ~Advances(x)
    BY <2>1 DEF Given, Advances
  <2>3. QED BY <1>4, <2>1, <2>2 DEF Sound
<1>6. ASSUME z.pc = "agent", pc \in {"final", "advance"} PROVE Sound(r, x)
  <2>1. z.then = "agent" /\ z.input \subseteq taken /\ Covers(r, z.input, z.upTo)
    BY <1>1, <1>6 DEF Sound, Given
  <2>2. Covered(r, z.upTo)
    BY <2>1 DEF Covered, Covers
  <2>3. x.pc \in {"final", "advance"} /\ x.then = "agent" /\ x.input \subseteq taken
    BY <1>3, <1>6, <2>1
  <2>4. Covered(r, x.upTo)
    BY <1>3, <2>2
  <2>5. QED BY <1>4, <2>3, <2>4 DEF Sound
<1>7. ASSUME z.pc = "say", pc = z.then PROVE Sound(r, x)
  <2>1. /\ z.then \in Thens
        /\ z.then \in {"agent", "pre", "compact"} => z.input \subseteq taken
        /\ z.then = "advance" => Covered(r, z.upTo)
    <3>1. z.then \in Thens
      BY DEF RunType
    <3>2. z.then \in {"agent", "pre", "compact"} => Given(z)
      BY <1>7 DEF Given
    <3>3. z.then = "advance" => Advances(z)
      BY <1>7 DEF Advances
    <3>4. QED BY <1>1, <3>1, <3>2, <3>3 DEF Sound
  <2>2. /\ x.pc \in Thens /\ x.then = x.pc
        /\ x.pc \in {"agent", "pre", "compact"} => x.input \subseteq taken
    BY <1>3, <1>7, <2>1
  <2>3. x.pc = "advance" => Covered(r, x.upTo)
    BY <1>3, <1>7, <2>1
  <2>4. Given(x) => x.input \subseteq taken
    BY <2>2 DEF Given, Thens
  <2>5. Advances(x) => Covered(r, x.upTo)
    BY <2>2, <2>3 DEF Advances, Thens
  <2>6. QED BY <1>4, <2>2, <2>4, <2>5 DEF Sound, Thens
<1>8. Sound(r, x)
  BY <1>1, <1>5, <1>6, <1>7
<1>9. QED BY <1>2, <1>3, <1>8, GoesOnRead

LEMMA FinalRead ==
  ASSUME ReadInv, NEW r \in Rooms, del[r]["run"].ok \in BOOLEAN, FinalDelivered(r)
  PROVE  ReadOn
<1>1. PICK z \in RunType, ok \in BOOLEAN :
        z = run[r] /\ Sound(r, z) /\ ok = del[r]["run"].ok
  BY RunIs
<1> DEFINE x == [z EXCEPT !.pc = "advance", !.ok = ok]
<1>2. z.pc = "final" /\ run' = [run EXCEPT ![r] = x]
      /\ UNCHANGED <<msgs, polled, cursor, batch, acking, taken>>
  BY <1>1 DEF FinalDelivered
<1>3. x \in RunType /\ x.pc = "advance" /\ x.then = z.then /\ x.input = z.input
      /\ x.upTo = z.upTo /\ x.byTime = z.byTime
  <2>1. "advance" \in Pcs /\ "end" \in Thens
    BY DEF Pcs, Thens
  <2>2. x \in RunType
    BY <2>1, RunRecordEdit
  <2>3. QED BY <2>2 DEF RunType
<1> HIDE DEF x
<1>4. z.then = "agent" /\ z.input \subseteq taken /\ Covers(r, z.input, z.upTo)
  BY <1>1, <1>2 DEF Sound, Given
<1>5. Covered(r, z.upTo)
  BY <1>4 DEF Covered, Covers
<1>6. Sound(r, x)
  BY <1>1, <1>3, <1>4, <1>5 DEF Sound, Given
<1>7. QED BY <1>2, <1>3, <1>6, GoesOnRead

\* The steps of a run that move neither the cursor nor what is taken.
LEMMA QuietRead ==
  ASSUME ReadInv, NEW r \in Rooms,
         \/ StartRun(r) \/ LeftOverDelivered(r) \/ GatherAgain(r) \/ SaidIt(r)
         \/ AgentAnswers(r) \/ AgentIsSilent(r) \/ AgentThrows(r) \/ End(r)
  PROVE  ReadOn
<1>1. Types /\ run[r] \in RunType /\ run[r].then \in Thens /\ run[r].ok \in BOOLEAN
  BY RunIs DEF RunType
<1>2. UNCHANGED <<msgs, polled, cursor, batch, acking, taken>>
  BY DEF StartRun, LeftOverDelivered, GatherAgain, SaidIt, AgentAnswers, AgentIsSilent,
         AgentThrows, End
<1>3. taken' \subseteq DOMAIN msgs
  BY <1>1, <1>2 DEF Types
<1>4. ASSUME \E ok, more : EndRun(r, ok, more) PROVE ReadOn
  BY <1>2, <1>3, <1>4, EndRead
<1>5. {"deliver", "gather", "final", "advance"} \subseteq Pcs
  BY DEF Pcs
<1>6. CASE StartRun(r)
  <2>1. \E pc \in {"deliver", "gather"} : Goto(r, pc)
    BY <1>6 DEF StartRun
  <2>2. QED BY <1>2, <1>5, <2>1, GotoRead
<1>7. CASE GatherAgain(r)
  BY <1>2, <1>5, <1>7, GotoRead DEF GatherAgain
<1>8. CASE SaidIt(r)
  <2>1. run[r].pc = "say" /\ Goto(r, run[r].then)
    BY <1>8 DEF SaidIt
  <2>2. PICK pc \in Thens : pc = run[r].then
    BY <1>1
  <2>3. pc \in Pcs
    BY DEF Pcs, Thens
  <2>4. QED BY <1>2, <2>1, <2>2, <2>3, GotoRead
<1>9. CASE AgentAnswers(r)
  BY <1>2, <1>5, <1>9, GotoRead DEF AgentAnswers
<1>10. CASE AgentIsSilent(r)
  BY <1>2, <1>5, <1>10, GotoRead DEF AgentIsSilent
<1>11. CASE LeftOverDelivered(r) \/ AgentThrows(r) \/ End(r)
  BY <1>4, <1>11 DEF LeftOverDelivered, AgentThrows, End
<1>12. QED BY <1>6, <1>7, <1>8, <1>9, <1>10, <1>11

LEMMA RestartRead == ReadInv /\ Restart => ReadOn
<1> SUFFICES ASSUME ReadInv, Restart PROVE ReadOn
  OBVIOUS
<1>1. /\ run' = [r \in Rooms |-> NoRun] /\ batch' = {} /\ acking' = None
      /\ cursor' = [r \in Rooms |-> IF Recovered(r) \/ Unread(r) = {} THEN cursor[r] ELSE Max(Unread(r))]
      /\ UNCHANGED <<msgs, polled, taken>>
  BY DEF Restart
<1>2. Types /\ DOMAIN msgs = 1..Len(msgs) /\ Len(msgs) \in Nat
  BY DEF ReadInv, Types
<1>3. ASSUME NEW r \in Rooms
      PROVE  /\ cursor'[r] \in 0..Len(msgs) /\ cursor[r] <= cursor'[r]
             /\ cursor'[r] = cursor[r] \/ Covered(r, cursor[r])'
  <2>1. cursor[r] \in 0..Len(msgs)
    BY <1>2 DEF Types
  <2>2. CASE Recovered(r) \/ Unread(r) = {}
    BY <1>1, <1>2, <2>1, <2>2
  <2>3. CASE ~(Recovered(r) \/ Unread(r) = {})
    <3>1. cursor'[r] = Max(Unread(r)) /\ Processable(Unread(r)) = {}
      BY <1>1, <2>3 DEF Recovered
    <3>2. /\ Unread(r) \subseteq DOMAIN msgs /\ \A i \in Unread(r) : Is(i, r, "bot") /\ cursor[r] < i
      BY <1>2, <3>1, UnreadOf
    <3>3. PICK n \in DOMAIN msgs : n = Max(Unread(r)) /\ n \in Unread(r)
      BY <1>2, <2>3, <3>2, SetOfMessages
    <3>4. Is(n, r, "bot") /\ cursor[r] < n /\ cursor'[r] = n /\ n \in 1..Len(msgs)
      BY <1>2, <3>1, <3>2, <3>3
    <3>5. Covered(r, cursor[r])'
      <4>1. SUFFICES ASSUME NEW i \in DOMAIN msgs, Is(i, r, "human"), i <= n
                     PROVE  \E b \in DOMAIN msgs : Is(b, r, "bot") /\ i < b /\ b <= cursor'[r]
        BY <1>1, <3>4 DEF Covered, Covers, Excepted, Is
      <4>2. i # n
        BY <3>4, <4>1 DEF Is
      <4>3. i < n /\ n <= n
        BY <1>2, <3>4, <4>1, <4>2
      <4>4. QED BY <3>4, <4>3
    <3>6. QED BY <1>2, <2>1, <3>4, <3>5
  <2>4. QED BY <2>2, <2>3
<1>4. Types'
  BY <1>1, <1>2, <1>3, NoRunType DEF Types
<1>5. ASSUME NEW r \in Rooms PROVE Sound(r, run[r])'
  <2>1. PICK x : x = NoRun
    OBVIOUS
  <2>2. Sound(r, x)'
    BY <1>4, <2>1, NoRunType, RestSound
  <2>3. run'[r] = x
    BY <1>1, <2>1
  <2>4. QED BY <2>2, <2>3 DEF Sound, Gathered, Compacts, Given, Advances
<1>6. Grown
  BY <1>1, <1>2, SameGrown
<1>7. QED BY <1>1, <1>3, <1>4, <1>5, <1>6, ReadStep

LEMMA SideRead ==
  ASSUME ReadInv, NEW r \in Rooms, Relay(r) \/ Relayed(r) \/ Deliveries(r)
  PROVE  ReadOn
<1>1. UNCHANGED <<msgs, polled, cursor, run, batch, acking, taken>>
  BY DEF Relay, Relayed, Deliveries, memory
<1>2. acking' \in Rooms \cup {None}
  BY <1>1 DEF ReadInv, Types
<1>3. QED BY <1>1, <1>2, ReadSame

----------------------------------------------------------------------------
(* Outputs and deliveries *)

Item == [room : Rooms, by : Sources, status : Statuses, upTo : Nat, uncertain : BOOLEAN]
Showing == [sent : [1..Parts -> 0..1], edited : BOOLEAN]
Delivery == [item : Nat, stage : {"none", "edit", "send", "mark", "done"}, part : Nat, ok : BOOLEAN]

\* The rows are typed, each part of one is shown once at most, and a delivery
\* is under way only of a row that is there.
ItemInv ==
  /\ items \in Seq(Item)
  /\ shown \in Seq(Showing) /\ Len(shown) = Len(items)
  /\ del \in [Rooms -> [Deliverers -> Delivery]]
  /\ \A r \in Rooms, w \in Deliverers :
       del[r][w].stage # "none" => del[r][w].item \in DOMAIN items
  /\ faults \in 0..MaxFaults

LEMMA InitItems == Init => ItemInv
<1> SUFFICES ASSUME Init PROVE ItemInv
  OBVIOUS
<1>1. items = <<>> /\ shown = <<>> /\ faults = 0 /\ 0 \in 0..MaxFaults
      /\ del = [r \in Rooms |-> [w \in Deliverers |-> NoDelivery]]
  BY DEF Init, ItemsInit
<1>2. NoDelivery \in Delivery /\ NoDelivery.stage = "none"
  BY DEF NoDelivery, Delivery
<1>3. QED BY <1>1, <1>2 DEF ItemInv

LEMMA SupersededType ==
  ASSUME ItemInv, NEW r \in Rooms
  PROVE  Superseded(r) \in Seq(Item) /\ Len(Superseded(r)) = Len(items)
<1>1. items \in Seq(Item) /\ Len(items) \in Nat /\ DOMAIN items = 1..Len(items)
  BY DEF ItemInv
<1>2. ASSUME NEW x \in Item PROVE [x EXCEPT !.status = "superseded"] \in Item
  BY DEF Item, Statuses
<1>3. ASSUME NEW i \in DOMAIN items PROVE Superseded(r)[i] \in Item
  <2>1. items[i] \in Item
    BY <1>1
  <2>2. Superseded(r)[i] = [items[i] EXCEPT !.status = "superseded"] \/ Superseded(r)[i] = items[i]
    BY DEF Superseded
  <2>3. QED BY <1>2, <2>1, <2>2
<1>4. Superseded(r) \in [1..Len(items) -> Item]
  BY <1>1, <1>3 DEF Superseded
<1>5. QED BY <1>1, <1>4, SeqDef

\* A delivery begins or ends.
LEMMA DeliverType ==
  ASSUME ItemInv, NEW r \in Rooms, NEW w \in Deliverers, NEW i \in Nat,
         NEW stage \in {"edit", "send"}, Deliver(r, w, i, stage)
  PROVE  /\ del' \in [Rooms -> [Deliverers -> Delivery]]
         /\ del'[r][w].item = i /\ del'[r][w].stage = stage
         /\ \A q \in Rooms, v \in Deliverers : q # r \/ v # w => del'[q][v] = del[q][v]
<1> DEFINE x == [NoDelivery EXCEPT !.item = i, !.stage = stage]
<1>1. x \in Delivery /\ x.item = i /\ x.stage = stage
  BY DEF NoDelivery, Delivery
<1>2. del' = [del EXCEPT ![r][w] = x]
  BY DEF Deliver
<1> HIDE DEF x
<1>3. QED BY <1>1, <1>2 DEF ItemInv

LEMMA FreeType ==
  ASSUME ItemInv, NEW r \in Rooms, NEW w \in Deliverers, Free(r, w),
         UNCHANGED <<items, shown, faults>>
  PROVE  /\ ItemInv' /\ del'[r][w].stage = "none"
         /\ \A q \in Rooms, v \in Deliverers : q # r \/ v # w => del'[q][v] = del[q][v]
<1>1. NoDelivery \in Delivery /\ NoDelivery.stage = "none"
  BY DEF NoDelivery, Delivery
<1>2. /\ del' \in [Rooms -> [Deliverers -> Delivery]] /\ del'[r][w] = NoDelivery
      /\ \A q \in Rooms, v \in Deliverers : q # r \/ v # w => del'[q][v] = del[q][v]
  BY <1>1 DEF Free, ItemInv
<1>3. QED BY <1>1, <1>2 DEF ItemInv

\* An output is written down and its delivery begins.
LEMMA ProduceType ==
  ASSUME ItemInv, NEW r \in Rooms, NEW w \in Deliverers, NEW by \in Sources, NEW upTo \in Nat,
         NEW stage \in {"edit", "send"},
         items' = Append(Superseded(r),
           [room |-> r, by |-> by, status |-> "produced", upTo |-> upTo, uncertain |-> FALSE]),
         shown' = Append(shown, [sent |-> [p \in 1..Parts |-> 0], edited |-> FALSE]),
         Deliver(r, w, Len(items) + 1, stage), faults' \in 0..MaxFaults
  PROVE  /\ ItemInv' /\ del'[r][w].stage = stage
         /\ \A q \in Rooms, v \in Deliverers : q # r \/ v # w => del'[q][v] = del[q][v]
<1> DEFINE row == [room |-> r, by |-> by, status |-> "produced", upTo |-> upTo, uncertain |-> FALSE]
           nothing == [sent |-> [p \in 1..Parts |-> 0], edited |-> FALSE]
<1>1. row \in Item /\ nothing \in Showing
  BY DEF Item, Showing, Statuses
<1> HIDE DEF row, nothing
<1>2. Superseded(r) \in Seq(Item) /\ Len(Superseded(r)) = Len(items) /\ Len(items) \in Nat
      /\ DOMAIN items = 1..Len(items) /\ shown \in Seq(Showing) /\ Len(shown) = Len(items)
  BY SupersededType DEF ItemInv
<1>3. items' = Append(Superseded(r), row) /\ shown' = Append(shown, nothing)
  BY DEF row, nothing
<1>4. items' \in Seq(Item) /\ Len(items') = Len(items) + 1 /\ DOMAIN items' = 1..Len(items) + 1
  BY <1>1, <1>2, <1>3
<1>5. shown' \in Seq(Showing) /\ Len(shown') = Len(items')
  BY <1>1, <1>2, <1>3, <1>4
<1>6. /\ del' \in [Rooms -> [Deliverers -> Delivery]]
      /\ del'[r][w].item = Len(items) + 1 /\ del'[r][w].stage = stage
      /\ \A q \in Rooms, v \in Deliverers : q # r \/ v # w => del'[q][v] = del[q][v]
  BY <1>2, DeliverType
<1>7. ASSUME NEW q \in Rooms, NEW v \in Deliverers, del'[q][v].stage # "none"
      PROVE  del'[q][v].item \in DOMAIN items'
  <2>1. CASE q = r /\ v = w
    BY <1>2, <1>4, <1>6, <2>1
  <2>2. CASE q # r \/ v # w
    BY <1>2, <1>4, <1>6, <1>7, <2>2 DEF ItemInv
  <2>3. QED BY <2>1, <2>2
<1>8. QED BY <1>4, <1>5, <1>6, <1>7 DEF ItemInv

\* What the room shows of a row after a part of it, or an edit, arrived.
LEMMA ShownType ==
  ASSUME NEW t \in Seq(Showing), NEW i \in DOMAIN t, NEW b \in BOOLEAN
  PROVE  [t EXCEPT ![i].edited = b] \in Seq(Showing) /\ Len([t EXCEPT ![i].edited = b]) = Len(t)
<1>1. i \in 1..Len(t) /\ t[i] \in Showing
  OBVIOUS
<1>2. [t[i] EXCEPT !.edited = b] \in Showing
  BY <1>1 DEF Showing
<1>3. [t EXCEPT ![i].edited = b] = [t EXCEPT ![i] = [t[i] EXCEPT !.edited = b]]
  OBVIOUS
<1>4. QED BY <1>1, <1>2, <1>3, ExceptSeq

LEMMA PostedType ==
  ASSUME NEW t \in Seq(Showing), NEW i \in DOMAIN t, NEW p
  PROVE  /\ [t EXCEPT ![i].sent[p] = Posted(@)] \in Seq(Showing)
         /\ Len([t EXCEPT ![i].sent[p] = Posted(@)]) = Len(t)
<1> DEFINE x == [t[i] EXCEPT !.sent[p] = Posted(@)]
<1>1. i \in 1..Len(t) /\ t[i] \in Showing
  OBVIOUS
<1>2. x \in Showing
  <2> DEFINE now == [t[i].sent EXCEPT ![p] = Posted(@)]
  <2>1. t[i].sent \in [1..Parts -> 0..1]
    BY <1>1 DEF Showing
  <2>2. now \in [1..Parts -> 0..1]
    <3>1. PICK f \in [1..Parts -> 0..1] : f = t[i].sent
      BY <2>1
    <3>2. p \in 1..Parts => Posted(f[p]) \in 0..1
      BY <3>1 DEF Posted
    <3>3. now = [f EXCEPT ![p] = Posted(f[p])]
      BY <3>1
    <3> HIDE DEF now
    <3>4. QED BY <3>2, <3>3
  <2>3. x = [t[i] EXCEPT !.sent = now]
    BY <1>1 DEF Showing
  <2> HIDE DEF now
  <2>4. QED BY <1>1, <2>2, <2>3 DEF Showing
<1>3. [t EXCEPT ![i].sent[p] = Posted(@)] = [t EXCEPT ![i] = x]
  OBVIOUS
<1> HIDE DEF x
<1>4. QED BY <1>1, <1>2, <1>3, ExceptSeq

\* What a step of a delivery makes of its record, and of a row.
LEMMA DeliveryStaged ==
  ASSUME NEW d \in Delivery, NEW stage \in {"send", "done"}
  PROVE  /\ [d EXCEPT !.stage = stage] \in Delivery /\ [d EXCEPT !.stage = stage].item = d.item
         /\ [d EXCEPT !.stage = stage].stage = stage
BY DEF Delivery

LEMMA DeliveryMarked ==
  ASSUME NEW d \in Delivery, NEW ok \in BOOLEAN
  PROVE  /\ [d EXCEPT !.stage = "mark", !.ok = ok] \in Delivery
         /\ [d EXCEPT !.stage = "mark", !.ok = ok].item = d.item
         /\ [d EXCEPT !.stage = "mark", !.ok = ok].stage = "mark"
BY DEF Delivery

LEMMA DeliveryPart ==
  ASSUME NEW d \in Delivery
  PROVE  /\ [d EXCEPT !.part = d.part + 1] \in Delivery
         /\ [d EXCEPT !.part = d.part + 1].item = d.item
         /\ [d EXCEPT !.part = d.part + 1].stage = d.stage
<1>1. PICK n \in Nat : n = d.part + 1
  BY DEF Delivery
<1>2. /\ [d EXCEPT !.part = n] \in Delivery /\ [d EXCEPT !.part = n].item = d.item
      /\ [d EXCEPT !.part = n].stage = d.stage
  BY DEF Delivery
<1>3. QED BY <1>1, <1>2

LEMMA MarkedType ==
  ASSUME ItemInv, NEW i \in DOMAIN items, MarkDelivered(i) \/ MarkFailed(i)
  PROVE  items' \in Seq(Item) /\ Len(items') = Len(items) /\ DOMAIN items' = DOMAIN items
<1>1. items \in Seq(Item) /\ i \in 1..Len(items) /\ items[i] \in Item
  BY DEF ItemInv
<1>2. ASSUME NEW x \in Item
      PROVE  /\ [x EXCEPT !.status = "delivered", !.uncertain = FALSE] \in Item
             /\ [x EXCEPT !.status = "delivery_retry"] \in Item
             /\ [x EXCEPT !.uncertain = TRUE] \in Item
  BY DEF Item, Statuses
<1>3. PICK x \in Item : items' = [items EXCEPT ![i] = x]
  <2>1. \/ items' = [items EXCEPT ![i] = [items[i] EXCEPT !.status = "delivered", !.uncertain = FALSE]]
        \/ items' = [items EXCEPT ![i] = [items[i] EXCEPT !.status = "delivery_retry"]]
        \/ items' = [items EXCEPT ![i] = [items[i] EXCEPT !.uncertain = TRUE]]
    BY <1>1 DEF MarkDelivered, MarkFailed
  <2>2. QED BY <1>1, <1>2, <2>1
<1>4. QED BY <1>1, <1>3, ExceptSeq

\* One call of a deliverer keeps the rows, and stays under way.
LEMMA DeliveryType ==
  ASSUME ItemInv, NEW r \in Rooms, NEW w \in Deliverers, DeliveryStep(r, w)
  PROVE  /\ ItemInv' /\ del[r][w].stage # "none" /\ del'[r][w].stage # "none"
         /\ \A q \in Rooms, v \in Deliverers : q # r \/ v # w => del'[q][v] = del[q][v]
<1>1. PICK i \in DOMAIN items : i = del[r][w].item
  BY DEF ItemInv, DeliveryStep, EditProgress, SendPart, Mark
<1>2. PICK d \in Delivery : d = del[r][w] /\ d.item = i
  BY <1>1 DEF ItemInv
<1>3. i \in DOMAIN shown /\ shown \in Seq(Showing) /\ Len(shown) = Len(items)
      /\ items \in Seq(Item) /\ MaxFaults \in Nat /\ faults \in 0..MaxFaults
      /\ Parts \in Nat
  BY DEF ItemInv
<1>4. faults' = faults \/ (faults' = faults + 1 /\ faults < MaxFaults) => faults' \in 0..MaxFaults
  BY <1>3
<1>5. ASSUME NEW e \in Delivery, del' = [del EXCEPT ![r][w] = e], e.item = i, e.stage # "none",
             items' \in Seq(Item), Len(items') = Len(items), DOMAIN items' = DOMAIN items,
             shown' \in Seq(Showing), Len(shown') = Len(shown), faults' \in 0..MaxFaults,
             d.stage # "none"
      PROVE  /\ ItemInv' /\ del[r][w].stage # "none" /\ del'[r][w].stage # "none"
             /\ \A q \in Rooms, v \in Deliverers : q # r \/ v # w => del'[q][v] = del[q][v]
  <2>1. /\ del' \in [Rooms -> [Deliverers -> Delivery]] /\ del'[r][w] = e
        /\ \A q \in Rooms, v \in Deliverers : q # r \/ v # w => del'[q][v] = del[q][v]
    BY <1>5 DEF ItemInv
  <2>2. ASSUME NEW q \in Rooms, NEW v \in Deliverers, del'[q][v].stage # "none"
        PROVE  del'[q][v].item \in DOMAIN items'
    BY <1>5, <2>1, <2>2 DEF ItemInv
  <2>3. QED BY <1>2, <1>3, <1>5, <2>1, <2>2 DEF ItemInv
<1>6. /\ [del EXCEPT ![r][w].stage = "send"] = [del EXCEPT ![r][w] = [d EXCEPT !.stage = "send"]]
      /\ [del EXCEPT ![r][w].stage = "done"] = [del EXCEPT ![r][w] = [d EXCEPT !.stage = "done"]]
      /\ [del EXCEPT ![r][w].part = @ + 1] = [del EXCEPT ![r][w] = [d EXCEPT !.part = d.part + 1]]
  BY <1>2 DEF ItemInv
<1>7. ASSUME NEW ok \in BOOLEAN
      PROVE  [del EXCEPT ![r][w].stage = "mark", ![r][w].ok = ok]
               = [del EXCEPT ![r][w] = [d EXCEPT !.stage = "mark", !.ok = ok]]
  BY <1>2 DEF ItemInv
<1>8. CASE EditProgress(r, w)
  <2>1. PICK b \in BOOLEAN : shown' = [shown EXCEPT ![i].edited = b]
    BY <1>1, <1>8 DEF EditProgress
  <2>2. shown' \in Seq(Showing) /\ Len(shown') = Len(shown)
    BY <1>3, <2>1, ShownType
  <2>3. /\ d.stage # "none" /\ UNCHANGED items /\ faults' \in 0..MaxFaults
        /\ \/ del' = [del EXCEPT ![r][w].stage = "mark", ![r][w].ok = TRUE]
           \/ del' = [del EXCEPT ![r][w].stage = "send"]
    BY <1>2, <1>3, <1>4, <1>8 DEF EditProgress, Fault, NoFault
  <2>4. PICK e \in Delivery :
          del' = [del EXCEPT ![r][w] = e] /\ e.item = i /\ e.stage # "none"
    <3>1. CASE del' = [del EXCEPT ![r][w].stage = "mark", ![r][w].ok = TRUE]
      <4>1. del' = [del EXCEPT ![r][w] = [d EXCEPT !.stage = "mark", !.ok = TRUE]]
        BY <1>7, <3>1
      <4>2. /\ [d EXCEPT !.stage = "mark", !.ok = TRUE] \in Delivery
            /\ [d EXCEPT !.stage = "mark", !.ok = TRUE].item = i
            /\ [d EXCEPT !.stage = "mark", !.ok = TRUE].stage = "mark"
        BY <1>2, DeliveryMarked
      <4>3. QED BY <4>1, <4>2
    <3>2. CASE del' = [del EXCEPT ![r][w].stage = "send"]
      BY <1>2, <1>6, <3>2, DeliveryStaged
    <3>3. QED BY <2>3, <3>1, <3>2
  <2>5. QED BY <1>3, <1>5, <2>2, <2>3, <2>4
<1>9. CASE SendPart(r, w)
  <2> DEFINE posted == [shown EXCEPT ![i].sent[d.part] = Posted(@)]
  <2>1. posted \in Seq(Showing) /\ Len(posted) = Len(shown) /\ i \in DOMAIN posted
    BY <1>3, PostedType
  <2>2. shown' = shown \/ shown' = posted \/ shown' = [posted EXCEPT ![i].edited = FALSE]
    BY <1>1, <1>2, <1>9 DEF SendPart
  <2>3. /\ d.stage # "none" /\ UNCHANGED items /\ faults' \in 0..MaxFaults
        /\ \/ del' = [del EXCEPT ![r][w].stage = "mark", ![r][w].ok = TRUE]
           \/ del' = [del EXCEPT ![r][w].stage = "mark", ![r][w].ok = FALSE]
           \/ del' = [del EXCEPT ![r][w].part = @ + 1]
    BY <1>2, <1>3, <1>4, <1>9 DEF SendPart, Fault, NoFault
  <2> HIDE DEF posted
  <2>4. shown' \in Seq(Showing) /\ Len(shown') = Len(shown)
    <3>1. CASE shown' = shown \/ shown' = posted
      BY <1>3, <2>1, <3>1
    <3>2. CASE shown' = [posted EXCEPT ![i].edited = FALSE]
      <4>1. FALSE \in BOOLEAN
        OBVIOUS
      <4>2. QED BY <2>1, <3>2, <4>1, ShownType
    <3>3. QED BY <2>2, <3>1, <3>2
  <2>5. PICK e \in Delivery :
          del' = [del EXCEPT ![r][w] = e] /\ e.item = i /\ e.stage # "none"
    <3>1. CASE del' = [del EXCEPT ![r][w].stage = "mark", ![r][w].ok = TRUE]
      <4>1. del' = [del EXCEPT ![r][w] = [d EXCEPT !.stage = "mark", !.ok = TRUE]]
        BY <1>7, <3>1
      <4>2. /\ [d EXCEPT !.stage = "mark", !.ok = TRUE] \in Delivery
            /\ [d EXCEPT !.stage = "mark", !.ok = TRUE].item = i
            /\ [d EXCEPT !.stage = "mark", !.ok = TRUE].stage = "mark"
        BY <1>2, DeliveryMarked
      <4>3. QED BY <4>1, <4>2
    <3>2. CASE del' = [del EXCEPT ![r][w].stage = "mark", ![r][w].ok = FALSE]
      <4>1. del' = [del EXCEPT ![r][w] = [d EXCEPT !.stage = "mark", !.ok = FALSE]]
        BY <1>7, <3>2
      <4>2. /\ [d EXCEPT !.stage = "mark", !.ok = FALSE] \in Delivery
            /\ [d EXCEPT !.stage = "mark", !.ok = FALSE].item = i
            /\ [d EXCEPT !.stage = "mark", !.ok = FALSE].stage = "mark"
        BY <1>2, DeliveryMarked
      <4>3. QED BY <4>1, <4>2
    <3>3. CASE del' = [del EXCEPT ![r][w].part = @ + 1]
      BY <1>2, <1>6, <2>3, <3>3, DeliveryPart
    <3>4. QED BY <2>3, <3>1, <3>2, <3>3
  <2>6. QED BY <1>3, <1>5, <2>3, <2>4, <2>5
<1>10. CASE Mark(r, w)
  <2>1. /\ (MarkDelivered(i) \/ MarkFailed(i)) /\ UNCHANGED <<shown, faults>> /\ d.stage # "none"
        /\ del' = [del EXCEPT ![r][w].stage = "done"]
    BY <1>1, <1>2, <1>10 DEF Mark
  <2>2. items' \in Seq(Item) /\ Len(items') = Len(items) /\ DOMAIN items' = DOMAIN items
    BY <2>1, MarkedType
  <2>3. PICK e \in Delivery :
          del' = [del EXCEPT ![r][w] = e] /\ e.item = i /\ e.stage # "none"
    BY <1>2, <1>6, <2>1, DeliveryStaged
  <2>4. QED BY <1>3, <1>5, <2>1, <2>2, <2>3
<1>11. QED BY <1>8, <1>9, <1>10 DEF DeliveryStep

\* The run of a room waits for its own delivery exactly while one is under way.
Busy == {"deliver", "final", "say"}
LinkInv == \A r \in Rooms : run[r].pc \in Busy <=> del[r]["run"].stage # "none"

OutInv == ItemInv /\ LinkInv

\* A step that touches no row and no delivery, and takes no run into or out of
\* a delivery.
LEMMA QuietOut ==
  ASSUME OutInv, UNCHANGED <<items, shown, del>>, faults' \in 0..MaxFaults,
         \A r \in Rooms : run'[r].pc \in Busy <=> run[r].pc \in Busy
  PROVE  OutInv'
<1>1. ItemInv'
  BY DEF OutInv, ItemInv
<1>2. LinkInv'
  BY DEF OutInv, LinkInv
<1>3. QED BY <1>1, <1>2 DEF OutInv

\* A step of one run: another room's run and its delivery stay.
LEMMA TurnOut ==
  ASSUME OutInv, ItemInv', NEW r \in Rooms, NEW x, Types, run' = [run EXCEPT ![r] = x],
         \A q \in Rooms, v \in Deliverers : q # r \/ v # "run" => del'[q][v] = del[q][v],
         x.pc \in Busy <=> del'[r]["run"].stage # "none"
  PROVE  OutInv'
<1>1. run'[r] = x /\ \A q \in Rooms : q # r => run'[q] = run[q]
  BY DEF Types
<1>2. "run" \in Deliverers
  BY DEF Deliverers
<1>3. LinkInv'
  BY <1>1, <1>2 DEF OutInv, LinkInv
<1>4. QED BY <1>3 DEF OutInv

LEMMA StillOut ==
  ASSUME OutInv, NEW r \in Rooms, NEW x, Types, run' = [run EXCEPT ![r] = x],
         x.pc \notin Busy, run[r].pc \notin Busy,
         UNCHANGED <<items, shown, del>>, faults' \in 0..MaxFaults
  PROVE  OutInv'
<1>1. run'[r] = x /\ \A q \in Rooms : q # r => run'[q] = run[q]
  BY DEF Types
<1>2. \A q \in Rooms : run'[q].pc \in Busy <=> run[q].pc \in Busy
  BY <1>1
<1>3. QED BY <1>2, QuietOut

LEMMA LoopOut ==
  ASSUME OutInv,
         \/ \E r \in Rooms, kind \in Kinds, at \in Times : Receive(r, kind, at)
         \/ Poll \/ Dispatch \/ AckStop
  PROVE  OutInv'
<1>1. faults \in 0..MaxFaults /\ MaxFaults \in Nat
  BY DEF OutInv, ItemInv
<1>2. UNCHANGED <<items, shown, del, run>> /\ (UNCHANGED faults \/ Fault)
  BY DEF Receive, Poll, Dispatch, DispatchIgnored, DispatchBotsOnly, DispatchStop, DispatchToQueue,
         DispatchPeers, AckStop, NoFault, itemVars
<1>3. faults' \in 0..MaxFaults
  BY <1>1, <1>2 DEF Fault
<1>4. QED BY <1>2, <1>3, QuietOut

LEMMA NotBusy ==
  "idle" \notin Busy /\ NoRun.pc = "idle" /\ \A pc \in Thens : pc \notin Busy
BY DEF Busy, NoRun, Thens

\* The steps of a run that send nothing.
LEMMA PlainOut ==
  ASSUME OutInv, Types, NEW r \in Rooms,
         \/ Gather(r) \/ GatherAgain(r) \/ Prompt(r) \/ RunCompact(r) \/ PreEnds(r)
         \/ (StartAgent(r) /\ run[r].then \in {"agent", "pre", "compact"})
         \/ CompactEnds(r) \/ Advance(r) \/ End(r) \/ AgentIsSilent(r) \/ AgentThrows(r)
  PROVE  OutInv'
<1>1. UNCHANGED <<items, shown, del>> /\ (UNCHANGED faults \/ Fault)
  BY DEF Gather, GatherAgain, Prompt, StartAgent, RunCompact, PreEnds, CompactEnds, Advance, End,
         AgentIsSilent, AgentThrows, itemVars
<1>2. faults' \in 0..MaxFaults
  BY <1>1 DEF OutInv, ItemInv, Fault
<1>3. run[r].pc \notin Busy
  BY DEF Gather, GatherAgain, Prompt, StartAgent, RunCompact, PreEnds, CompactEnds, Advance, End,
         AgentIsSilent, AgentThrows, CompactAdvances, Gated, Busy
<1>4. ASSUME NEW x, run' = [run EXCEPT ![r] = x], x.pc \notin Busy PROVE OutInv'
  BY <1>1, <1>2, <1>3, <1>4, StillOut
<1>5. ASSUME \E ok, more : EndRun(r, ok, more) PROVE OutInv'
  BY <1>4, <1>5, NotBusy DEF EndRun
<1>6. ASSUME NEW pc \in Pcs \ Busy, Goto(r, pc) PROVE OutInv'
  <2>1. run' = [run EXCEPT ![r] = [run[r] EXCEPT !.pc = pc]] /\ [run[r] EXCEPT !.pc = pc].pc = pc
    BY <1>6 DEF Goto, Types, RunType
  <2>2. QED BY <1>4, <1>6, <2>1
<1>7. {"gather", "agent", "pre", "compact", "advance"} \subseteq Pcs \ Busy
  BY DEF Pcs, Busy
<1>8. CASE Gather(r)
  <2>1. \/ EndRun(r, TRUE, FALSE)
        \/ \E s, i, u : run' = [run EXCEPT ![r] = [NoRun EXCEPT !.pc = "gate", !.snap = s,
                                                               !.input = i, !.upTo = u]]
    BY <1>8 DEF Gather
  <2>2. ASSUME NEW s, NEW i, NEW u
        PROVE  [NoRun EXCEPT !.pc = "gate", !.snap = s, !.input = i, !.upTo = u].pc \notin Busy
    BY DEF NoRun, Busy
  <2>3. QED BY <1>4, <1>5, <2>1, <2>2
<1>9. CASE GatherAgain(r) \/ AgentIsSilent(r) \/ (StartAgent(r) /\ run[r].then \in {"agent", "pre", "compact"})
  <2>1. \E pc \in {"gather", "agent", "pre", "compact", "advance"} : Goto(r, pc)
    BY <1>9 DEF GatherAgain, AgentIsSilent, StartAgent
  <2>2. QED BY <1>6, <1>7, <2>1
<1>10. CASE CompactEnds(r) \/ Advance(r) \/ End(r) \/ AgentThrows(r)
  BY <1>5, <1>10 DEF CompactEnds, Advance, End, AgentThrows
<1>11. ASSUME NEW x \in RunType, NEW t, run' = [run EXCEPT ![r] = Starting(x, t)] PROVE OutInv'
  <2>1. Starting(x, t).pc = "starting"
    BY DEF Starting, RunType
  <2>2. Starting(x, t).pc \notin Busy
    BY <2>1 DEF Busy
  <2>3. QED BY <1>4, <1>11, <2>2
<1>12. CASE Prompt(r) \/ PreEnds(r)
  <2>1. PICK z \in RunType : z = run[r]
    BY DEF Types
  <2>2. PICK t : run' = [run EXCEPT ![r] = Starting(z, t)]
    BY <1>12, <2>1 DEF Prompt, PreEnds
  <2>3. QED BY <1>11, <2>2
<1>13. CASE RunCompact(r)
  <2>1. PICK u, i, t : run' = [run EXCEPT ![r] = Starting([NoRun EXCEPT !.upTo = u, !.input = i], t)]
    BY <1>13 DEF RunCompact
  <2> DEFINE x == Starting([NoRun EXCEPT !.upTo = u, !.input = i], t)
  <2>2. x.pc = "starting"
    BY DEF Starting, NoRun
  <2>3. x.pc \notin Busy /\ run' = [run EXCEPT ![r] = x]
    BY <2>1, <2>2 DEF Busy
  <2> HIDE DEF x
  <2>4. QED BY <1>4, <2>3
<1>14. QED BY <1>8, <1>9, <1>10, <1>12, <1>13

\* A run's delivery is over, and the run goes on.
LEMMA FreedOut ==
  ASSUME OutInv, Types, NEW r \in Rooms,
         LeftOverDelivered(r) \/ SaidIt(r) \/ FinalDelivered(r)
  PROVE  OutInv'
<1>1. Free(r, "run") /\ UNCHANGED <<items, shown, faults>> /\ "run" \in Deliverers
  BY DEF LeftOverDelivered, SaidIt, FinalDelivered, Deliverers
<1>2. /\ ItemInv' /\ del'[r]["run"].stage = "none"
      /\ \A q \in Rooms, v \in Deliverers : q # r \/ v # "run" => del'[q][v] = del[q][v]
  BY <1>1, FreeType DEF OutInv
<1>3. ASSUME NEW x, run' = [run EXCEPT ![r] = x], x.pc \notin Busy PROVE OutInv'
  BY <1>2, <1>3, TurnOut
<1>4. CASE LeftOverDelivered(r)
  BY <1>3, <1>4, NotBusy DEF LeftOverDelivered, EndRun
<1>5. CASE SaidIt(r)
  <2>1. run[r] \in RunType /\ run[r].then \in Thens
    BY DEF Types, RunType
  <2>2. run' = [run EXCEPT ![r] = [run[r] EXCEPT !.pc = run[r].then]]
        /\ [run[r] EXCEPT !.pc = run[r].then].pc = run[r].then
    BY <1>5, <2>1 DEF SaidIt, Goto, Types, RunType
  <2>3. QED BY <1>3, <2>1, <2>2, NotBusy
<1>6. CASE FinalDelivered(r)
  <2> DEFINE x == [run[r] EXCEPT !.pc = "advance", !.ok = del[r]["run"].ok]
  <2>1. run[r] \in RunType
    BY DEF Types
  <2>2. run' = [run EXCEPT ![r] = x] /\ x.pc = "advance"
    BY <1>6, <2>1 DEF FinalDelivered, Types, RunType
  <2>3. x.pc \notin Busy
    BY <2>2 DEF Busy
  <2> HIDE DEF x
  <2>4. QED BY <1>3, <2>2, <2>3
<1>7. QED BY <1>4, <1>5, <1>6

\* A run writes an output down and waits for its delivery.
LEMMA SentOut ==
  ASSUME OutInv, ReadInv, NEW r \in Rooms,
         \/ RunStopOrClear(r) \/ RunDenied(r) \/ CompactSays(r) \/ PreFails(r) \/ CompactFails(r)
         \/ AgentAnswers(r)
  PROVE  OutInv'
<1>1. Types /\ run[r] \in RunType /\ run[r].upTo \in Nat /\ faults \in 0..MaxFaults
      /\ "run" \in Deliverers /\ "say" \in Sources /\ "final" \in Sources /\ ItemInv
  BY DEF ReadInv, Types, RunType, OutInv, ItemInv, Deliverers, Sources
<1>2. PICK by \in Sources, upTo \in Nat, stage \in {"edit", "send"} :
        /\ items' = Append(Superseded(r),
             [room |-> r, by |-> by, status |-> "produced", upTo |-> upTo, uncertain |-> FALSE])
        /\ shown' = Append(shown, [sent |-> [p \in 1..Parts |-> 0], edited |-> FALSE])
        /\ Deliver(r, "run", Len(items) + 1, stage)
  <2>1. CASE RunStopOrClear(r) \/ RunDenied(r) \/ CompactSays(r)
    BY <1>1, <2>1, 0 \in Nat DEF RunStopOrClear, RunDenied, CompactSays, Say, Produce
  <2>2. CASE PreFails(r) \/ CompactFails(r)
    BY <1>1, <2>2, 0 \in Nat DEF PreFails, CompactFails, FailAndSay
  <2>3. CASE AgentAnswers(r)
    BY <1>1, <2>3 DEF AgentAnswers, Produce
  <2>4. QED BY <2>1, <2>2, <2>3
<1>3. faults' \in 0..MaxFaults
  <2>1. UNCHANGED faults \/ Fault
    BY DEF RunStopOrClear, RunDenied, CompactSays, PreFails, CompactFails, FailAndSay, AgentAnswers,
           Say, Produce, Fault
  <2>2. QED BY <1>1, <2>1 DEF Fault
<1>4. /\ ItemInv' /\ del'[r]["run"].stage # "none"
      /\ \A q \in Rooms, v \in Deliverers : q # r \/ v # "run" => del'[q][v] = del[q][v]
  BY <1>1, <1>2, <1>3, ProduceType
<1>5. ASSUME NEW x, run' = [run EXCEPT ![r] = x], x.pc \in Busy PROVE OutInv'
  BY <1>1, <1>4, <1>5, TurnOut
<1>6. "say" \in Busy /\ "final" \in Busy
  BY DEF Busy
<1>7. CASE RunStopOrClear(r) \/ RunDenied(r) \/ PreFails(r) \/ CompactFails(r)
  <2>1. CASE RunStopOrClear(r)
    <3>1. PICK t, c : run' = [run EXCEPT ![r] = [NoRun EXCEPT !.pc = "say", !.then = t, !.recheck = c]]
      BY <2>1 DEF RunStopOrClear, Say
    <3>2. [NoRun EXCEPT !.pc = "say", !.then = t, !.recheck = c].pc = "say"
      BY DEF NoRun
    <3>3. QED BY <1>5, <1>6, <3>1, <3>2
  <2>2. CASE RunDenied(r)
    <3>1. PICK t, u : run' = [run EXCEPT ![r] = [NoRun EXCEPT !.pc = "say", !.then = t, !.upTo = u, !.byTime = TRUE]]
      BY <2>2 DEF RunDenied, Say
    <3>2. [NoRun EXCEPT !.pc = "say", !.then = t, !.upTo = u, !.byTime = TRUE].pc = "say"
      BY DEF NoRun
    <3>3. QED BY <1>5, <1>6, <3>1, <3>2
  <2>3. CASE CompactFails(r)
    <3>1. PICK t : run' = [run EXCEPT ![r] = [NoRun EXCEPT !.pc = "say", !.then = t]]
      BY <2>3 DEF CompactFails, FailAndSay
    <3>2. [NoRun EXCEPT !.pc = "say", !.then = t].pc = "say"
      BY DEF NoRun
    <3>3. QED BY <1>5, <1>6, <3>1, <3>2
  <2>4. CASE PreFails(r)
    <3>1. PICK u : \/ run' = [run EXCEPT ![r] = [NoRun EXCEPT !.pc = "say", !.then = "advance", !.upTo = u, !.byTime = TRUE]]
                   \/ run' = [run EXCEPT ![r] = [NoRun EXCEPT !.pc = "say", !.then = "end", !.ok = FALSE]]
      BY <2>4 DEF PreFails, FailAndSay
    <3>2. /\ [NoRun EXCEPT !.pc = "say", !.then = "advance", !.upTo = u, !.byTime = TRUE].pc = "say"
          /\ [NoRun EXCEPT !.pc = "say", !.then = "end", !.ok = FALSE].pc = "say"
      BY DEF NoRun
    <3>3. QED BY <1>5, <1>6, <3>1, <3>2
  <2>5. QED BY <1>7, <2>1, <2>2, <2>3, <2>4
<1>8. CASE CompactSays(r)
  <2>1. run' = [run EXCEPT ![r] = [run[r] EXCEPT !.pc = "say", !.then = run[r].pc]]
    BY <1>8 DEF CompactSays, Say
  <2>2. [run[r] EXCEPT !.pc = "say", !.then = run[r].pc].pc = "say"
    BY <1>1 DEF RunType
  <2>3. QED BY <1>5, <1>6, <2>1, <2>2
<1>9. CASE AgentAnswers(r)
  <2>1. run' = [run EXCEPT ![r] = [run[r] EXCEPT !.pc = "final"]]
        /\ [run[r] EXCEPT !.pc = "final"].pc = "final"
    BY <1>1, <1>9 DEF AgentAnswers, Goto, Types, RunType
  <2>2. QED BY <1>5, <1>6, <2>1
<1>10. QED BY <1>7, <1>8, <1>9

LEMMA StartOut ==
  ASSUME OutInv, Types, NEW r \in Rooms, StartRun(r)
  PROVE  OutInv'
<1>1. UNCHANGED <<items, shown, faults>> /\ run[r].pc = "idle" /\ run[r] \in RunType
      /\ ItemInv /\ "run" \in Deliverers
  BY DEF StartRun, Running, Types, OutInv, Deliverers
<1>2. ASSUME NEW pc, Goto(r, pc)
      PROVE  run' = [run EXCEPT ![r] = [run[r] EXCEPT !.pc = pc]] /\ [run[r] EXCEPT !.pc = pc].pc = pc
  BY <1>1, <1>2 DEF Goto, Types, RunType
<1>3. CASE Goto(r, "gather") /\ UNCHANGED del
  <2>1. "gather" \notin Busy /\ "idle" \notin Busy /\ faults' \in 0..MaxFaults
    BY <1>1 DEF Busy, ItemInv
  <2> DEFINE x == [run[r] EXCEPT !.pc = "gather"]
  <2>2. run' = [run EXCEPT ![r] = x] /\ x.pc \notin Busy
    BY <1>2, <1>3, <2>1
  <2> HIDE DEF x
  <2>3. QED BY <1>1, <1>3, <2>1, <2>2, StillOut
<1>4. CASE OpenItem(r) # 0 /\ Goto(r, "deliver") /\ Deliver(r, "run", OpenItem(r), "send")
  <2>1. DOMAIN items = 1..Len(items) /\ Len(items) \in Nat
    BY <1>1 DEF ItemInv
  <2>2. PICK i \in DOMAIN items : i = OpenItem(r)
    <3>1. Deliverable(r) \in SUBSET Nat /\ Deliverable(r) \subseteq DOMAIN items
      BY <2>1 DEF Deliverable
    <3>2. Deliverable(r) # {} /\ OpenItem(r) = Min(Deliverable(r))
      BY <1>4 DEF OpenItem
    <3>3. QED BY <3>1, <3>2, MinOf
  <2>3. /\ del' \in [Rooms -> [Deliverers -> Delivery]]
        /\ del'[r]["run"].item = i /\ del'[r]["run"].stage = "send"
        /\ \A q \in Rooms, v \in Deliverers : q # r \/ v # "run" => del'[q][v] = del[q][v]
    BY <1>1, <1>4, <2>1, <2>2, DeliverType
  <2>4. ItemInv'
    BY <1>1, <2>2, <2>3 DEF ItemInv
  <2>5. "deliver" \in Busy
    BY DEF Busy
  <2> DEFINE x == [run[r] EXCEPT !.pc = "deliver"]
  <2>6. run' = [run EXCEPT ![r] = x] /\ x.pc \in Busy
    BY <1>2, <1>4, <2>5
  <2> HIDE DEF x
  <2>7. x.pc \in Busy <=> del'[r]["run"].stage # "none"
    BY <2>3, <2>6
  <2>8. QED BY <2>3, <2>4, <2>6, <2>7, TurnOut
<1>5. QED BY <1>3, <1>4 DEF StartRun

\* The relay and the calls of the deliverers leave the runs alone.
LEMMA SideOut ==
  ASSUME OutInv, NEW r \in Rooms, Relay(r) \/ Relayed(r) \/ Deliveries(r)
  PROVE  OutInv'
<1>1. UNCHANGED run /\ ItemInv /\ LinkInv
  BY DEF Relay, Relayed, Deliveries, memory, OutInv
<1>2. "ipc" \in Deliverers /\ "run" \in Deliverers /\ "ipc" \in Sources
  BY DEF Deliverers, Sources
<1>3. CASE Relay(r)
  <2>1. /\ ItemInv'
        /\ \A q \in Rooms, v \in Deliverers : q # r \/ v # "ipc" => del'[q][v] = del[q][v]
    <3>1. faults' \in 0..MaxFaults /\ Produce(r, "ipc", "ipc", 0, "send")
      BY <1>1, <1>3 DEF Relay, Produce, ItemInv
    <3>2. QED BY <1>1, <1>2, <3>1, ProduceType, 0 \in Nat DEF Produce
  <2>2. QED BY <1>1, <1>2, <2>1 DEF OutInv, LinkInv
<1>4. CASE Relayed(r)
  <2>1. /\ ItemInv'
        /\ \A q \in Rooms, v \in Deliverers : q # r \/ v # "ipc" => del'[q][v] = del[q][v]
    BY <1>1, <1>2, <1>4, FreeType DEF Relayed
  <2>2. QED BY <1>1, <1>2, <2>1 DEF OutInv, LinkInv
<1>5. CASE Deliveries(r)
  <2>1. PICK w \in Deliverers : DeliveryStep(r, w)
    BY <1>5 DEF Deliveries
  <2>2. /\ ItemInv' /\ del[r][w].stage # "none" /\ del'[r][w].stage # "none"
        /\ \A q \in Rooms, v \in Deliverers : q # r \/ v # w => del'[q][v] = del[q][v]
    BY <1>1, <2>1, DeliveryType
  <2>3. QED BY <1>1, <1>2, <2>2 DEF OutInv, LinkInv
<1>6. QED BY <1>3, <1>4, <1>5

LEMMA RestartOut == OutInv /\ Restart => OutInv'
<1> SUFFICES ASSUME OutInv, Restart PROVE OutInv'
  OBVIOUS
<1>1. /\ run' = [r \in Rooms |-> NoRun] /\ UNCHANGED <<items, shown, faults>>
      /\ del' = [r \in Rooms |-> [w \in Deliverers |-> NoDelivery]]
  BY DEF Restart
<1>2. NoDelivery \in Delivery /\ NoDelivery.stage = "none" /\ "run" \in Deliverers
  BY DEF NoDelivery, Delivery, Deliverers
<1>3. ItemInv'
  BY <1>1, <1>2 DEF OutInv, ItemInv
<1>4. LinkInv'
  BY <1>1, <1>2, NotBusy DEF LinkInv
<1>5. QED BY <1>3, <1>4 DEF OutInv

----------------------------------------------------------------------------
(* The invariant *)

PendingInv == pending \in [Rooms -> BOOLEAN]

LEMMA PendingSet ==
  ASSUME PendingInv, NEW r, NEW b \in BOOLEAN, pending' = [pending EXCEPT ![r] = b]
  PROVE  PendingInv'
BY DEF PendingInv

LEMMA PendingStep == PendingInv /\ [Next]_vars => PendingInv'
<1> SUFFICES ASSUME PendingInv, [Next]_vars PROVE PendingInv'
  OBVIOUS
<1>1. ASSUME UNCHANGED pending PROVE PendingInv'
  BY <1>1 DEF PendingInv
<1>2. ASSUME NEW r, NEW c, NEW d,
             \/ pending' = [pending EXCEPT ![r] = @ \/ c]
             \/ pending' = [pending EXCEPT ![r] = @ \/ c \/ d]
      PROVE  PendingInv'
  <2>1. PICK b \in BOOLEAN : pending' = [pending EXCEPT ![r] = b]
    <3>1. CASE pending' = [pending EXCEPT ![r] = @ \/ c]
      <4>1. (pending[r] \/ c) \in BOOLEAN
        OBVIOUS
      <4>2. QED BY <3>1, <4>1
    <3>2. CASE pending' = [pending EXCEPT ![r] = @ \/ c \/ d]
      <4>1. (pending[r] \/ c \/ d) \in BOOLEAN
        OBVIOUS
      <4>2. QED BY <3>2, <4>1
    <3>3. QED BY <1>2, <3>1, <3>2
  <2>2. QED BY <2>1, PendingSet
<1>3. ASSUME NEW r, NEW ok, NEW more, EndRun(r, ok, more) PROVE PendingInv'
  BY <1>2, <1>3 DEF EndRun
<1>4. CASE UNCHANGED vars
  BY <1>1, <1>4 DEF vars, memory
<1>5. CASE \E r \in Rooms, kind \in Kinds, at \in Times : Receive(r, kind, at)
  BY <1>2, <1>5 DEF Receive
<1>6. CASE Poll \/ AckStop \/ DispatchIgnored \/ DispatchBotsOnly
  BY <1>1, <1>6 DEF Poll, AckStop, DispatchIgnored, DispatchBotsOnly
<1>7. CASE DispatchStop
  <2>1. PICK r, c : pending' = [pending EXCEPT ![r] = @ \/ c]
    BY <1>7 DEF DispatchStop
  <2>2. QED BY <1>2, <2>1
<1>8. CASE DispatchToQueue
  <2>1. PICK r, c, d : pending' = [pending EXCEPT ![r] = @ \/ c \/ d]
    BY <1>8 DEF DispatchToQueue
  <2>2. QED BY <1>2, <2>1
<1>9. CASE DispatchPeers
  <2>1. UNCHANGED pending \/ \E r : pending' = [pending EXCEPT ![r] = TRUE]
    BY <1>9 DEF DispatchPeers
  <2>2. QED BY <1>1, <2>1, PendingSet
<1>10. ASSUME NEW r \in Rooms, StartRun(r) PROVE PendingInv'
  BY <1>10, PendingSet DEF StartRun
<1>11. ASSUME NEW r \in Rooms,
              \/ LeftOverDelivered(r) \/ CompactEnds(r) \/ Advance(r) \/ End(r) \/ AgentThrows(r)
       PROVE  PendingInv'
  BY <1>3, <1>11 DEF LeftOverDelivered, CompactEnds, Advance, End, AgentThrows
<1>12. ASSUME NEW r \in Rooms, Gather(r) PROVE PendingInv'
  <2>1. UNCHANGED pending \/ EndRun(r, TRUE, FALSE)
    BY <1>12 DEF Gather
  <2>2. QED BY <1>1, <1>3, <2>1
<1>13. ASSUME NEW r \in Rooms,
              \/ GatherAgain(r) \/ Prompt(r) \/ StartAgent(r) \/ RunStopOrClear(r) \/ RunDenied(r) \/ RunCompact(r)
              \/ PreEnds(r) \/ SaidIt(r) \/ FinalDelivered(r) \/ AgentAnswers(r) \/ AgentIsSilent(r)
              \/ PreFails(r) \/ CompactFails(r) \/ CompactSays(r) \/ Relay(r) \/ Relayed(r) \/ Deliveries(r)
       PROVE  PendingInv'
  <2>1. UNCHANGED pending
    BY <1>13 DEF GatherAgain, Prompt, StartAgent, RunStopOrClear, RunDenied, RunCompact, PreEnds, SaidIt,
         FinalDelivered, AgentAnswers, AgentIsSilent, PreFails, CompactFails, CompactSays, Relay, Relayed,
         Deliveries, memory
  <2>2. QED BY <1>1, <2>1
<1>14. CASE Restart
  <2>1. pending' = [r \in Rooms |-> Recovered(r)]
    BY <1>14 DEF Restart
  <2>2. \A r \in Rooms : Recovered(r) \in BOOLEAN
    BY DEF Recovered
  <2>3. QED BY <2>1, <2>2 DEF PendingInv
<1>15. QED
  BY <1>4, <1>5, <1>6, <1>7, <1>8, <1>9, <1>10, <1>11, <1>12, <1>13, <1>14 DEF Next, Dispatch, RunStep

\* What no run has claimed and is behind the cursor stays so, and unclaimed.
GoneInv ==
  /\ gone \subseteq DOMAIN msgs
  /\ \A i \in gone : i <= cursor[msgs[i].room]
  /\ \A r \in Rooms : ClaimedBy(run[r]) \cap gone = {}

IInv == ReadInv /\ OutInv /\ PendingInv /\ GoneInv

LEMMA InitIInv == Init => IInv
<1> SUFFICES ASSUME Init PROVE IInv
  OBVIOUS
<1>1. ReadInv /\ ItemInv
  BY InitRead, InitItems
<1>2. LinkInv
  BY NotBusy DEF Init, ItemsInit, LinkInv, NoDelivery, Deliverers
<1>3. PendingInv
  BY DEF Init, PendingInv
<1>4. GoneInv
  BY DEF Init, GoneInv
<1>5. QED BY <1>1, <1>2, <1>3, <1>4 DEF IInv, OutInv

\* An agent that is started is to work on a turn or a command.
LEMMA StartsAgent ==
  ASSUME ReadInv, NEW r \in Rooms, StartAgent(r)
  PROVE  run[r].then \in {"agent", "pre", "compact"}
BY RunIs DEF StartAgent, Sound

LEMMA ReadNext == IInv /\ Next => ReadOn
<1> SUFFICES ASSUME IInv, Next PROVE ReadOn
  OBVIOUS
<1>1. ReadInv /\ \A r \in Rooms : del[r]["run"].ok \in BOOLEAN
  BY DEF IInv, OutInv, ItemInv, Delivery, Deliverers
<1>2. ASSUME NEW r \in Rooms, NEW kind \in Kinds, NEW at \in Times, Receive(r, kind, at)
      PROVE  ReadOn
  BY <1>1, <1>2, ReceiveRead
<1>3. CASE Poll \/ Dispatch \/ AckStop
  BY <1>1, <1>3, PollRead, AckRead, IgnoredRead, BotsOnlyRead, StopRead, ToQueueRead, PeersRead
  DEF Dispatch
<1>4. ASSUME NEW r \in Rooms,
             \/ StartRun(r) \/ LeftOverDelivered(r) \/ GatherAgain(r) \/ SaidIt(r)
             \/ AgentAnswers(r) \/ AgentIsSilent(r) \/ AgentThrows(r) \/ End(r)
      PROVE  ReadOn
  BY <1>1, <1>4, QuietRead
<1>5. ASSUME NEW r \in Rooms, Gather(r) \/ Prompt(r) \/ RunStopOrClear(r) \/ RunDenied(r)
      PROVE  ReadOn
  BY <1>1, <1>5, GatherRead, PromptRead, StopOrClearRead, DeniedRead
<1>6. ASSUME NEW r \in Rooms, \/ RunCompact(r) \/ CompactSays(r) \/ PreEnds(r) \/ PreFails(r)
                              \/ CompactEnds(r) \/ CompactFails(r) \/ Advance(r)
      PROVE  ReadOn
  BY <1>1, <1>6, CompactRead, CompactSaysRead, PreEndsRead, PreFailsRead, CompactEndsRead,
     CompactFailsRead, AdvanceRead
<1>7. ASSUME NEW r \in Rooms, FinalDelivered(r) PROVE ReadOn
  BY <1>1, <1>7, FinalRead
<1>8. ASSUME NEW r \in Rooms, StartAgent(r) PROVE ReadOn
  BY <1>1, <1>8, StartsAgent, StartAgentRead
<1>9. ASSUME NEW r \in Rooms, Relay(r) \/ Relayed(r) \/ Deliveries(r) PROVE ReadOn
  BY <1>1, <1>9, SideRead
<1>10. CASE Restart
  BY <1>1, <1>10, RestartRead
<1>11. QED BY <1>2, <1>3, <1>4, <1>5, <1>6, <1>7, <1>8, <1>9, <1>10 DEF Next, RunStep

LEMMA OutNext == IInv /\ Next => OutInv'
<1> SUFFICES ASSUME IInv, Next PROVE OutInv'
  OBVIOUS
<1>1. OutInv /\ ReadInv /\ Types
  BY DEF IInv, ReadInv
<1>2. CASE \/ \E r \in Rooms, kind \in Kinds, at \in Times : Receive(r, kind, at)
           \/ Poll \/ Dispatch \/ AckStop
  BY <1>1, <1>2, LoopOut
<1>3. ASSUME NEW r \in Rooms, StartRun(r) \/ RunStep(r) \/ AgentThrows(r) \/ PreFails(r)
                              \/ CompactFails(r) \/ CompactSays(r)
      PROVE  OutInv'
  BY <1>1, <1>3, StartOut, PlainOut, FreedOut, SentOut, StartsAgent DEF RunStep
<1>4. ASSUME NEW r \in Rooms, Relay(r) \/ Relayed(r) \/ Deliveries(r) PROVE OutInv'
  BY <1>1, <1>4, SideOut
<1>5. CASE Restart
  BY <1>1, <1>5, RestartOut
<1>6. QED BY <1>2, <1>3, <1>4, <1>5 DEF Next

\* A run goes on as x, with no new claim or one made at the gate.
ClaimsOn(r, x) ==
  \/ ClaimedBy(x) \subseteq ClaimedBy(run[r])
  \/ Gated(r) /\ ClaimedBy(x) \subseteq run[r].input

\* A record made of an empty one claims nothing.
LEMMA NothingClaimed ==
  ASSUME NEW r, NEW x, x.input = {}
  PROVE  ClaimsOn(r, x)
BY DEF ClaimsOn, ClaimedBy

\* A run that keeps its input claims no more, unless it was at the gate.
LEMMA KeepsClaim ==
  ASSUME NEW r, NEW x, x.input = run[r].input, run[r].pc \notin {"gather", "gate"}
  PROVE  ClaimsOn(r, x)
BY DEF ClaimsOn, ClaimedBy

LEMMA ClaimStep ==
  ASSUME Types, Next, ~Restart
  PROVE  \/ UNCHANGED run
         \/ \E q \in Rooms : \E x : run' = [run EXCEPT ![q] = x] /\ ClaimsOn(q, x)
<1>1. ASSUME NEW q \in Rooms, NEW x, run' = [run EXCEPT ![q] = x], ClaimsOn(q, x)
      PROVE  \E p \in Rooms : \E y : run' = [run EXCEPT ![p] = y] /\ ClaimsOn(p, y)
  BY <1>1
<1>2. CASE \/ \E q \in Rooms, kind \in Kinds, at \in Times : Receive(q, kind, at)
           \/ Poll \/ Dispatch \/ AckStop
           \/ \E q \in Rooms : Relay(q) \/ Relayed(q) \/ Deliveries(q)
  BY <1>2 DEF Receive, Poll, Dispatch, DispatchIgnored, DispatchBotsOnly, DispatchStop,
     DispatchToQueue, DispatchPeers, AckStop, memory, Relay, Relayed, Deliveries
<1>3. ASSUME NEW q \in Rooms, NEW ok, NEW more, EndRun(q, ok, more)
      PROVE  \E p \in Rooms : \E y : run' = [run EXCEPT ![p] = y] /\ ClaimsOn(p, y)
  BY <1>1, <1>3, NoRunType, NothingClaimed DEF EndRun
<1>4. ASSUME NEW q \in Rooms, NEW pc, Goto(q, pc), pc = "gather" \/ run[q].pc \notin {"gather", "gate"}
      PROVE  \E p \in Rooms : \E y : run' = [run EXCEPT ![p] = y] /\ ClaimsOn(p, y)
  <2>1. PICK z \in RunType : z = run[q]
    BY DEF Types
  <2>2. PICK x : x = [z EXCEPT !.pc = pc]
    OBVIOUS
  <2>3. x.pc = pc /\ x.input = z.input
    BY <2>2 DEF RunType
  <2>4. run' = [run EXCEPT ![q] = x]
    BY <1>4, <2>1, <2>2 DEF Goto
  <2>5. ClaimsOn(q, x)
    BY <1>4, <2>1, <2>3 DEF ClaimsOn, ClaimedBy
  <2>6. QED BY <2>4, <2>5
<1>5. ASSUME NEW q \in Rooms,
             LeftOverDelivered(q) \/ CompactEnds(q) \/ Advance(q) \/ End(q) \/ AgentThrows(q)
      PROVE  \E p \in Rooms : \E y : run' = [run EXCEPT ![p] = y] /\ ClaimsOn(p, y)
  BY <1>3, <1>5 DEF LeftOverDelivered, CompactEnds, Advance, End, AgentThrows
<1>6. ASSUME NEW q \in Rooms,
             \/ StartRun(q) \/ GatherAgain(q) \/ StartAgent(q) \/ SaidIt(q)
             \/ AgentAnswers(q) \/ AgentIsSilent(q)
      PROVE  \E p \in Rooms : \E y : run' = [run EXCEPT ![p] = y] /\ ClaimsOn(p, y)
  <2>1. \E pc : Goto(q, pc) /\ (pc = "gather" \/ run[q].pc \notin {"gather", "gate"})
    BY <1>6 DEF StartRun, Running, GatherAgain, StartAgent, SaidIt, AgentAnswers, AgentIsSilent
  <2>2. QED BY <1>4, <2>1
<1>7. ASSUME NEW q \in Rooms, Gather(q)
      PROVE  \E p \in Rooms : \E y : run' = [run EXCEPT ![p] = y] /\ ClaimsOn(p, y)
  <2>1. CASE EndRun(q, TRUE, FALSE)
    BY <1>3, <2>1
  <2>2. CASE \E s, i, u : run' = [run EXCEPT ![q] = [NoRun EXCEPT !.pc = "gate", !.snap = s,
                                                                 !.input = i, !.upTo = u]]
    <3>1. PICK s, i, u, x : run' = [run EXCEPT ![q] = x]
                 /\ x = [NoRun EXCEPT !.pc = "gate", !.snap = s, !.input = i, !.upTo = u]
      BY <2>2
    <3>2. x.pc = "gate"
      BY <3>1 DEF NoRun
    <3>3. QED BY <1>1, <3>1, <3>2 DEF ClaimsOn, ClaimedBy
  <2>3. QED BY <1>7, <2>1, <2>2 DEF Gather
<1>8. ASSUME NEW q \in Rooms, RunStopOrClear(q) \/ RunDenied(q) \/ PreFails(q) \/ CompactFails(q)
      PROVE  \E p \in Rooms : \E y : run' = [run EXCEPT ![p] = y] /\ ClaimsOn(p, y)
  <2>1. \E x : run' = [run EXCEPT ![q] = x] /\ x.input = {}
    <3>1. CASE RunStopOrClear(q)
      <4>1. PICK t, c : run' = [run EXCEPT ![q] = [NoRun EXCEPT !.pc = "say", !.then = t, !.recheck = c]]
        BY <3>1 DEF RunStopOrClear, Say
      <4>2. [NoRun EXCEPT !.pc = "say", !.then = t, !.recheck = c].input = {}
        BY DEF NoRun
      <4>3. QED BY <4>1, <4>2
    <3>2. CASE RunDenied(q)
      <4>1. PICK t, u : run' = [run EXCEPT ![q] = [NoRun EXCEPT !.pc = "say", !.then = t, !.upTo = u, !.byTime = TRUE]]
        BY <3>2 DEF RunDenied, Say
      <4>2. [NoRun EXCEPT !.pc = "say", !.then = t, !.upTo = u, !.byTime = TRUE].input = {}
        BY DEF NoRun
      <4>3. QED BY <4>1, <4>2
    <3>3. CASE CompactFails(q)
      <4>1. PICK t : run' = [run EXCEPT ![q] = [NoRun EXCEPT !.pc = "say", !.then = t]]
        BY <3>3 DEF CompactFails, FailAndSay
      <4>2. [NoRun EXCEPT !.pc = "say", !.then = t].input = {}
        BY DEF NoRun
      <4>3. QED BY <4>1, <4>2
    <3>4. CASE PreFails(q)
      <4>1. PICK u : \/ run' = [run EXCEPT ![q] = [NoRun EXCEPT !.pc = "say", !.then = "advance", !.upTo = u, !.byTime = TRUE]]
                     \/ run' = [run EXCEPT ![q] = [NoRun EXCEPT !.pc = "say", !.then = "end", !.ok = FALSE]]
        BY <3>4 DEF PreFails, FailAndSay
      <4>2. /\ [NoRun EXCEPT !.pc = "say", !.then = "advance", !.upTo = u, !.byTime = TRUE].input = {}
            /\ [NoRun EXCEPT !.pc = "say", !.then = "end", !.ok = FALSE].input = {}
        BY DEF NoRun
      <4>3. QED BY <4>1, <4>2
    <3>5. QED BY <1>8, <3>1, <3>2, <3>3, <3>4
  <2>2. QED BY <1>1, <2>1, NothingClaimed
<1>9. ASSUME NEW q \in Rooms, PreEnds(q) \/ CompactSays(q) \/ FinalDelivered(q)
      PROVE  \E p \in Rooms : \E y : run' = [run EXCEPT ![p] = y] /\ ClaimsOn(p, y)
  <2>1. PICK z \in RunType : z = run[q]
    BY DEF Types
  <2>2. \E x : run' = [run EXCEPT ![q] = x] /\ x.input = z.input
    <3>1. PICK pc, then, ok :
            \/ run' = [run EXCEPT ![q] = [z EXCEPT !.pc = pc, !.then = then]]
            \/ run' = [run EXCEPT ![q] = [z EXCEPT !.pc = pc, !.ok = ok]]
      <4>1. CASE PreEnds(q)
        BY <2>1, <4>1 DEF PreEnds, Starting
      <4>2. CASE CompactSays(q)
        BY <2>1, <4>2 DEF CompactSays, Say
      <4>3. CASE FinalDelivered(q)
        BY <2>1, <4>3 DEF FinalDelivered
      <4>4. QED BY <1>9, <4>1, <4>2, <4>3
    <3>2. /\ [z EXCEPT !.pc = pc, !.then = then].input = z.input
          /\ [z EXCEPT !.pc = pc, !.ok = ok].input = z.input
      BY DEF RunType
    <3>3. QED BY <3>1, <3>2
  <2>3. run[q].pc \notin {"gather", "gate"}
    BY <1>9 DEF PreEnds, CompactSays, FinalDelivered
  <2>4. QED BY <1>1, <2>1, <2>2, <2>3, KeepsClaim
<1>10. ASSUME NEW q \in Rooms, Prompt(q) \/ RunCompact(q)
       PROVE  \E p \in Rooms : \E y : run' = [run EXCEPT ![p] = y] /\ ClaimsOn(p, y)
  <2>1. PICK z \in RunType : z = run[q]
    BY DEF Types
  <2>2. CASE Prompt(q)
    <3>1. \E x : run' = [run EXCEPT ![q] = x] /\ x.input = z.input
      <4>1. run' = [run EXCEPT ![q] = [z EXCEPT !.pc = "starting", !.then = "agent"]]
        BY <2>1, <2>2 DEF Prompt, Starting
      <4>2. [z EXCEPT !.pc = "starting", !.then = "agent"].input = z.input
        BY DEF RunType
      <4>3. QED BY <4>1, <4>2
    <3>2. Gated(q)
      BY <2>2 DEF Prompt
    <3>3. QED BY <1>1, <2>1, <3>1, <3>2 DEF ClaimsOn, ClaimedBy
  <2>3. CASE RunCompact(q)
    <3>1. PICK i, u, t, x : /\ run' = [run EXCEPT ![q] = x] /\ i \subseteq z.input
                            /\ x = Starting([NoRun EXCEPT !.upTo = u, !.input = i], t)
      BY <2>1, <2>3 DEF RunCompact
    <3>2. x.input = i
      BY <3>1 DEF Starting, NoRun
    <3>3. Gated(q)
      BY <2>3 DEF RunCompact
    <3>4. QED BY <1>1, <2>1, <3>1, <3>2, <3>3 DEF ClaimsOn, ClaimedBy
  <2>4. QED BY <1>10, <2>2, <2>3
<1>11. QED BY <1>2, <1>5, <1>6, <1>7, <1>8, <1>9, <1>10 DEF Next, RunStep

\* What becomes gone is behind its room's cursor, and its run does not claim it.
LEMMA GoneGrows ==
  ASSUME Types, Next
  PROVE  \A i \in gone' :
           i \in gone \/ /\ i \in DOMAIN msgs /\ i <= cursor'[msgs[i].room]
                         /\ i \notin ClaimedBy(run'[msgs[i].room])
<1>1. CASE UNCHANGED gone
  BY <1>1
<1>2. CASE \E q \in Rooms : Remember(q)
  <2>1. PICK q \in Rooms : Remember(q)
    BY <1>2
  <2>2. QED BY <2>1 DEF Remember, Of
<1>3. CASE Restart
  <2>1. /\ run' = [r \in Rooms |-> NoRun]
        /\ gone' = gone \cup {i \in DOMAIN msgs : i <= cursor'[msgs[i].room]}
    BY <1>3 DEF Restart
  <2>2. ASSUME NEW i \in DOMAIN msgs PROVE msgs[i].room \in Rooms
    <3>1. msgs[i] \in Message
      BY DEF Types
    <3>2. QED BY <3>1 DEF Message
  <2>3. \A i \in DOMAIN msgs : ClaimedBy(run'[msgs[i].room]) = {}
    BY <2>1, <2>2, NoRunType DEF ClaimedBy
  <2>4. QED BY <2>1, <2>3
<1>4. CASE \/ \E q \in Rooms, kind \in Kinds, at \in Times : Receive(q, kind, at)
           \/ Poll \/ DispatchToQueue \/ AckStop
           \/ \E q \in Rooms : Relay(q) \/ Relayed(q) \/ Deliveries(q)
           \/ \E q \in Rooms : \/ StartRun(q) \/ LeftOverDelivered(q) \/ GatherAgain(q) \/ Prompt(q)
                               \/ StartAgent(q) \/ RunDenied(q) \/ RunCompact(q) \/ PreEnds(q)
                               \/ SaidIt(q) \/ FinalDelivered(q) \/ End(q) \/ AgentAnswers(q)
                               \/ AgentIsSilent(q) \/ CompactSays(q)
  <2>1. UNCHANGED gone
    BY <1>4 DEF Receive, Poll, DispatchToQueue, AckStop, Relay, Relayed, Deliveries, StartRun,
       LeftOverDelivered, GatherAgain, Prompt, StartAgent, RunDenied, RunCompact, PreEnds, SaidIt,
       FinalDelivered, End, AgentAnswers, AgentIsSilent, CompactSays
  <2>2. QED BY <1>1, <2>1
<1>5. CASE \E q \in Rooms : \/ Gather(q) \/ RunStopOrClear(q) \/ CompactEnds(q) \/ CompactFails(q)
                            \/ PreFails(q) \/ Advance(q) \/ AgentThrows(q)
  BY <1>2, <1>5 DEF Gather, RunStopOrClear, CompactEnds, CompactFails, PreFails, Advance, AgentThrows
<1>6. CASE DispatchIgnored \/ DispatchBotsOnly \/ DispatchStop \/ DispatchPeers
  <2>1. batch # {} /\ Remember(DispatchedRoom)
    BY <1>6 DEF DispatchIgnored, DispatchBotsOnly, DispatchStop, DispatchPeers
  <2>2. QED BY <1>2, <2>1, DispatchedType
<1>7. QED BY <1>3, <1>4, <1>5, <1>6 DEF Next, Dispatch, RunStep

LEMMA GoneNext == IInv /\ Next => GoneInv'
<1> SUFFICES ASSUME IInv, Next PROVE GoneInv'
  OBVIOUS
<1>1. ReadInv /\ Types /\ GoneInv /\ ReadInv' /\ Grown /\ \A r \in Rooms : cursor[r] <= cursor'[r]
  BY ReadNext DEF IInv, ReadInv, ReadOn
<1>2. \A i \in gone' :
        i \in gone \/ /\ i \in DOMAIN msgs /\ i <= cursor'[msgs[i].room]
                      /\ i \notin ClaimedBy(run'[msgs[i].room])
  BY <1>1, GoneGrows
<1>3. /\ \A i \in DOMAIN msgs : i \in DOMAIN msgs' /\ msgs'[i] = msgs[i] /\ msgs[i].room \in Rooms
                                /\ i \in Nat
      /\ \A r \in Rooms : cursor[r] \in Nat /\ cursor'[r] \in Nat
  <2>1. /\ msgs \in Seq(Message) /\ cursor \in [Rooms -> 0..Len(msgs)]
        /\ cursor' \in [Rooms -> 0..Len(msgs')] /\ Len(msgs') \in Nat
    BY <1>1 DEF ReadInv, Types
  <2>2. ASSUME NEW i \in DOMAIN msgs
        PROVE  i \in DOMAIN msgs' /\ msgs'[i] = msgs[i] /\ msgs[i].room \in Rooms /\ i \in Nat
    <3>1. msgs[i] \in Message /\ i \in Nat
      BY <2>1
    <3>2. msgs[i].room \in Rooms
      BY <3>1 DEF Message
    <3>3. i \in DOMAIN msgs' /\ msgs'[i] = msgs[i]
      BY <1>1, <2>1 DEF Grown
    <3>4. QED BY <3>1, <3>2, <3>3
  <2>3. \A r \in Rooms : cursor[r] \in Nat /\ cursor'[r] \in Nat
    BY <2>1
  <2>4. QED BY <2>2, <2>3
<1>4. gone' \subseteq DOMAIN msgs' /\ gone' \subseteq DOMAIN msgs
  BY <1>1, <1>2, <1>3 DEF GoneInv
<1>5. ASSUME NEW i \in gone' PROVE i <= cursor'[msgs'[i].room]
  <2>1. CASE i \in gone
    <3>1. i \in DOMAIN msgs /\ i <= cursor[msgs[i].room]
      BY <1>1, <2>1 DEF GoneInv
    <3>2. QED BY <1>1, <1>3, <3>1
  <2>2. CASE i \notin gone
    BY <1>2, <1>3, <2>2
  <2>3. QED BY <2>1, <2>2
<1>6. ASSUME NEW r \in Rooms, NEW i \in ClaimedBy(run'[r]), i \in gone' PROVE FALSE
  <2>1. i \in DOMAIN msgs /\ msgs[i].room = r
    <3>1. i \in run'[r].input
      BY <1>6 DEF ClaimedBy
    <3>2. msgs'[i].room = r
      BY <1>1, <3>1 DEF ReadInv, Sound
    <3>3. QED BY <1>3, <1>4, <1>6, <3>2
  <2>2. i \in gone
    BY <1>2, <1>6, <2>1
  <2>3. i \notin ClaimedBy(run[r]) /\ i <= cursor[r]
    BY <1>1, <2>1, <2>2 DEF GoneInv
  <2>4. ~(Gated(r) /\ i \in run[r].input)
    <3>1. SUFFICES ASSUME Gated(r), i \in run[r].input PROVE FALSE
      OBVIOUS
    <3>2. cursor[r] < i
      BY <1>1, <3>1, GateCovers
    <3>3. QED BY <1>3, <2>1, <2>3, <3>2
  <2>5. CASE Restart
    <3>1. run'[r] = NoRun
      BY <2>5 DEF Restart
    <3>2. QED BY <1>6, <3>1, NoRunType DEF ClaimedBy
  <2>6. CASE ~Restart
    <3>1. CASE UNCHANGED run
      BY <1>6, <2>3, <3>1
    <3>2. CASE \E q \in Rooms : \E x : run' = [run EXCEPT ![q] = x] /\ ClaimsOn(q, x)
      <4>0. PICK q \in Rooms : \E x : run' = [run EXCEPT ![q] = x] /\ ClaimsOn(q, x)
        BY <3>2
      <4>1. PICK x : run' = [run EXCEPT ![q] = x] /\ ClaimsOn(q, x)
        BY <4>0
      <4>2. CASE q # r
        <5>1. run'[r] = run[r]
          BY <1>1, <4>1, <4>2 DEF Types
        <5>2. QED BY <1>6, <2>3, <5>1
      <4>3. CASE q = r
        <5>1. run'[r] = x
          BY <1>1, <4>1, <4>3 DEF Types
        <5>2. QED BY <1>6, <2>3, <2>4, <4>1, <4>3, <5>1 DEF ClaimsOn
      <4>4. QED BY <4>2, <4>3
    <3>3. QED BY <1>1, <2>6, <3>1, <3>2, ClaimStep
  <2>7. QED BY <2>5, <2>6
<1>7. QED BY <1>4, <1>5, <1>6 DEF GoneInv

LEMMA StepIInv == IInv /\ [Next]_vars => IInv'
<1> SUFFICES ASSUME IInv, [Next]_vars PROVE IInv'
  OBVIOUS
<1>1. PendingInv'
  BY PendingStep DEF IInv
<1>2. CASE Next
  <2>1. ReadInv'
    BY <1>2, ReadNext DEF ReadOn
  <2>2. QED BY <1>1, <1>2, <2>1, OutNext, GoneNext DEF IInv
<1>3. CASE UNCHANGED vars
  <2>1. UNCHANGED <<msgs, polled, cursor, run, taken, gone, batch, acking, items, shown, del, faults>>
    BY <1>3 DEF vars, memory, itemVars
  <2>2. ReadInv /\ OutInv /\ acking \in Rooms \cup {None} /\ faults \in 0..MaxFaults /\ GoneInv
    BY DEF IInv, ReadInv, Types, OutInv, ItemInv
  <2>3. ReadInv'
    BY <2>1, <2>2, ReadSame DEF ReadOn
  <2>4. OutInv'
    BY <2>1, <2>2, QuietOut
  <2>5. GoneInv'
    BY <2>1, <2>2 DEF GoneInv
  <2>6. QED BY <1>1, <2>3, <2>4, <2>5 DEF IInv
<1>4. QED BY <1>2, <1>3

----------------------------------------------------------------------------
(* The theorems *)

\* The inductive invariant holds of every run of the loop, the rooms' runs, the
\* relay, and the restarts between them.
THEOREM InvariantHolds == Spec => []IInv
BY InitIInv, StepIInv, PTL DEF Spec

LEMMA InvariantTypes == IInv => TypeOK
<1> SUFFICES ASSUME IInv PROVE TypeOK
  OBVIOUS
<1>1. Types /\ ItemInv /\ LinkInv /\ PendingInv /\ GoneInv /\ \A r \in Rooms : Sound(r, run[r])
  BY DEF IInv, OutInv, ReadInv
<1>2. shown \in Seq([sent : [1..Parts -> Nat], edited : BOOLEAN])
  <2>1. ASSUME NEW f \in [1..Parts -> 0..1] PROVE f \in [1..Parts -> Nat]
    OBVIOUS
  <2>2. Showing \subseteq [sent : [1..Parts -> Nat], edited : BOOLEAN]
    BY <2>1 DEF Showing
  <2>3. QED BY <1>1, <2>2, SeqMonotonic DEF ItemInv
<1>3. WorkItemsTypeOK
  <2>1. \A r \in Rooms, w \in Deliverers : del[r][w] \in Delivery
    BY <1>1 DEF ItemInv
  <2>2. QED BY <1>1, <1>2, <2>1 DEF ItemInv, WorkItemsTypeOK, Item, Delivery
<1>4. \A r \in Rooms : run[r].pc \in Pcs
  BY <1>1 DEF Types, RunType
<1>5. \A r \in Rooms : run[r].pc \in Busy <=> ~Idle(r, "run")
  BY <1>1 DEF LinkInv, Idle
<1>6. QED BY <1>1, <1>3, <1>4, <1>5 DEF TypeOK, Types, Sound, PendingInv, GoneInv, Message, Pcs, Busy

\* Types, and that a run and its delivery go together.
THEOREM TypeCorrect == Spec => []TypeOK
BY InvariantHolds, InvariantTypes, PTL

LEMMA InvariantSends == IInv => SentAtMostOnce
<1> SUFFICES ASSUME IInv, NEW i \in DOMAIN items, NEW p \in 1..Parts
             PROVE  shown[i].sent[p] <= 1
  BY DEF SentAtMostOnce
<1>1. shown[i] \in Showing
  BY DEF IInv, OutInv, ItemInv
<1>2. shown[i].sent[p] \in 0..1
  BY <1>1 DEF Showing
<1>3. QED BY <1>2

\* However often a delivery is repeated, and by whom, the room shows each part
\* of an output once.
THEOREM SendsOnce == Spec => []SentAtMostOnce
BY InvariantHolds, InvariantSends, PTL

LEMMA InvariantSkips == IInv => NothingSkipped
<1> SUFFICES ASSUME IInv, NEW r \in Rooms, NEW i \in OfKind({"human"}, Of(r, DOMAIN msgs)),
                    i <= cursor[r], i \notin taken
             PROVE  \/ \E b \in OfKind({"bot"}, Of(r, DOMAIN msgs)) : i < b /\ b <= cursor[r]
                    \/ Overtaken(i)
  BY DEF NothingSkipped
<1>1. Covered(r, cursor[r])
  BY DEF IInv, ReadInv
<1>2. i \in DOMAIN msgs /\ Is(i, r, "human")
  BY DEF OfKind, Of, Is
<1>3. Excepted(i, r)
  BY <1>1, <1>2 DEF Covered, Covers
<1>4. QED BY <1>3 DEF Excepted, OfKind, Of, Is

\* The agent's cursor passes no human message that nobody was given, in any
\* order of ticks, runs, commands and crashes, but behind a bot's message or
\* with a command that is consumed by its timestamp.
THEOREM SkipsNothing == Spec => []NothingSkipped
BY InvariantHolds, InvariantSkips, PTL

LEMMA InvariantConsumed == IInv => ConsumedStaysConsumed
BY DEF IInv, GoneInv, ConsumedStaysConsumed

\* No run claims for its agent what /stop, a piped dispatch or an earlier run had
\* consumed before.
THEOREM ConsumedCorrect == Spec => []ConsumedStaysConsumed
BY InvariantHolds, InvariantConsumed, PTL
=============================================================================
