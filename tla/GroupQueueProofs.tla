-------------------------- MODULE GroupQueueProofs --------------------------
(***************************************************************************)
(* Proofs about GroupQueue, for any sets of groups, tasks and runs and any *)
(* positive limits: the type invariant, the exactness of the counters, the *)
(* bound on the runs in flight, that pending work is never stranded, that  *)
(* shutdown leaves no registered process without SIGKILL, that a message   *)
(* waits only while the limit is reached, and, where there are no tasks,   *)
(* that a group has one run at most and its fields tell which.             *)
(***************************************************************************)
EXTENDS GroupQueue, FiniteSetTheorems, SequenceTheorems, TLAPS

-----------------------------------------------------------------------------
(* Facts about waitingGroups *)

\* Splicing one element out of a sequence moves the later ones forward
\* (drainWaiting's waitingGroups.splice).
LEMMA SpliceElements ==
  ASSUME NEW S, NEW s \in Seq(S), NEW i \in DOMAIN s
  PROVE  /\ RemoveAt(s, i) \in Seq(S)
         /\ Len(RemoveAt(s, i)) = Len(s) - 1
         /\ \A j \in 1 .. Len(s) - 1 :
              RemoveAt(s, i)[j] = IF j < i THEN s[j] ELSE s[j + 1]
<1>1. i \in 1 .. Len(s) /\ i \in Int /\ Len(s) \in Nat
  OBVIOUS
<1>2. /\ SubSeq(s, 1, i - 1) \in Seq(S)
      /\ Len(SubSeq(s, 1, i - 1)) = i - 1
      /\ \A j \in 1 .. i - 1 : SubSeq(s, 1, i - 1)[j] = s[j]
  BY <1>1
<1>3. /\ SubSeq(s, i + 1, Len(s)) \in Seq(S)
      /\ Len(SubSeq(s, i + 1, Len(s))) = Len(s) - i
      /\ \A j \in 1 .. Len(s) - i : SubSeq(s, i + 1, Len(s))[j] = s[i + j]
  BY <1>1
<1> DEFINE a == SubSeq(s, 1, i - 1)
           b == SubSeq(s, i + 1, Len(s))
<1>4. a \in Seq(S) /\ b \in Seq(S) /\ Len(a) = i - 1 /\ Len(b) = Len(s) - i
  BY <1>2, <1>3
<1>5. /\ \A j \in 1 .. i - 1 : a[j] = s[j]
      /\ \A j \in 1 .. Len(s) - i : b[j] = s[i + j]
  BY <1>2, <1>3
<1>6. RemoveAt(s, i) = a \o b
  BY DEF RemoveAt
<1> HIDE DEF a, b
<1>7. /\ a \o b \in Seq(S) /\ Len(a \o b) = Len(s) - 1
      /\ \A j \in 1 .. Len(a) + Len(b) :
           (a \o b)[j] = IF j <= Len(a) THEN a[j] ELSE b[j - Len(a)]
  <2>1. Len(a) + Len(b) = Len(s) - 1
    BY <1>1, <1>4
  <2> QED  BY <1>4, <2>1, ConcatProperties, Zenon
<1>8. ASSUME NEW j \in 1 .. Len(s) - 1
      PROVE  (a \o b)[j] = IF j < i THEN s[j] ELSE s[j + 1]
  <2>0. j \in 1 .. Len(a) + Len(b)
    BY <1>1, <1>4
  <2>1. CASE j < i
    <3>1. j <= Len(a) /\ j \in 1 .. i - 1
      BY <1>1, <1>4, <2>1
    <3> QED  BY <1>5, <1>7, <2>0, <2>1, <3>1
  <2>2. CASE j >= i
    <3>1. /\ ~(j <= Len(a)) /\ j - Len(a) \in 1 .. Len(s) - i
          /\ i + (j - Len(a)) = j + 1
      BY <1>1, <1>4, <2>2
    <3>2. b[j - Len(a)] = s[j + 1]
      BY <1>5, <3>1
    <3>3. ~(j < i)
      BY <1>1, <2>2
    <3> QED  BY <1>7, <2>0, <3>1, <3>2, <3>3
  <2>3. j < i \/ j >= i
    BY <1>1
  <2> QED  BY <2>1, <2>2, <2>3, Zenon
<1> QED  BY <1>6, <1>7, <1>8

\* Splicing keeps every other element.
LEMMA SpliceFacts ==
  ASSUME NEW S, NEW s \in Seq(S), NEW i \in DOMAIN s
  PROVE  /\ RemoveAt(s, i) \in Seq(S)
         /\ \A e \in S : Contains(s, e) /\ e # s[i] => Contains(RemoveAt(s, i), e)
<1>1. i \in 1 .. Len(s) /\ i \in Int /\ Len(s) \in Nat
  OBVIOUS
<1>2. /\ RemoveAt(s, i) \in Seq(S)
      /\ Len(RemoveAt(s, i)) = Len(s) - 1
      /\ \A j \in 1 .. Len(s) - 1 :
           RemoveAt(s, i)[j] = IF j < i THEN s[j] ELSE s[j + 1]
  BY SpliceElements
<1>3. ASSUME NEW e \in S, Contains(s, e), e # s[i]
      PROVE  Contains(RemoveAt(s, i), e)
  <2>1. PICK k \in 1 .. Len(s) : s[k] = e
    BY <1>3 DEF Contains
  <2>2. CASE k < i
    <3>1. k \in 1 .. Len(s) - 1 /\ RemoveAt(s, i)[k] = e
      BY <1>1, <1>2, <2>1, <2>2
    <3> QED  BY <1>2, <3>1 DEF Contains
  <2>3. CASE k > i
    <3>1. k - 1 \in 1 .. Len(s) - 1 /\ RemoveAt(s, i)[k - 1] = e
      BY <1>1, <1>2, <2>1, <2>3
    <3> QED  BY <1>2, <3>1 DEF Contains
  <2> QED  BY <1>1, <1>3, <2>1, <2>2, <2>3
<1> QED  BY <1>2, <1>3

\* waitingGroups.push keeps every element and adds g.
LEMMA WaitingWithFacts ==
  ASSUME waitingGroups \in Seq(Groups), NEW g \in Groups
  PROVE  /\ WaitingWith(g) \in Seq(Groups)
         /\ Contains(WaitingWith(g), g)
         /\ \A h \in Groups :
              Contains(waitingGroups, h) => Contains(WaitingWith(g), h)
<1>1. CASE Contains(waitingGroups, g)
  BY <1>1 DEF WaitingWith
<1>2. CASE ~Contains(waitingGroups, g)
  <2> DEFINE w == Append(waitingGroups, g)
  <2>1. WaitingWith(g) = w
    BY <1>2 DEF WaitingWith
  <2>2. /\ w \in Seq(Groups) /\ Len(w) = Len(waitingGroups) + 1
        /\ Len(waitingGroups) \in Nat
        /\ w[Len(w)] = g
        /\ \A j \in 1 .. Len(waitingGroups) : w[j] = waitingGroups[j]
    OBVIOUS
  <2> HIDE DEF w
  <2>3. Contains(w, g)
    BY <2>2 DEF Contains
  <2>4. ASSUME NEW h \in Groups, Contains(waitingGroups, h) PROVE Contains(w, h)
    <3>1. PICK k \in 1 .. Len(waitingGroups) : waitingGroups[k] = h
      BY <2>4 DEF Contains
    <3>2. k \in 1 .. Len(w) /\ w[k] = h
      BY <2>2, <3>1
    <3> QED  BY <3>2 DEF Contains
  <2> QED  BY <2>1, <2>2, <2>3, <2>4
<1> QED  BY <1>1, <1>2

-----------------------------------------------------------------------------
(* Type correctness *)

LEMMA LimitsPositive ==
  /\ MaxConcurrentTasks \in Nat \ {0}
  /\ EffectiveMaxConcurrent \in Nat \ {0}
BY LimitsAssumption DEF MaxConcurrentTasks, EffectiveMaxConcurrent

\* What starting a run does to the types of the variables it changes.
StartTypes ==
  /\ phase' \in [Groups -> Phases]
  /\ currentRunId' \in [Groups -> RunIds \cup {None}]
  /\ runningTaskId' \in [Groups -> Tasks \cup {None}]
  /\ pendingMessages' \in [Groups -> BOOLEAN]
  /\ activeCount' \in Int
  /\ activeTaskCount' \in Int
  /\ runs' \in SUBSET Run

LEMMA NewRunType ==
  ASSUME NEW r \in FreshRunIds, NEW g \in Groups,
         NEW kind \in {"messages", "task"}, NEW t \in Tasks \cup {None}
  PROVE  NewRun(r, g, kind, t) \in Run /\ r \in RunIds
<1>1. r \in RunIds
  BY DEF FreshRunIds
<1>2. 0 \in 0 .. MaxSpawns
  BY LimitsAssumption
<1> QED  BY <1>1, <1>2 DEF NewRun, Run

LEMMA RunForGroupTypes ==
  ASSUME TypeOK, NEW g \in Groups, RunForGroup(g)
  PROVE  StartTypes
<1>1. PICK r \in FreshRunIds :
        /\ runs' = runs \cup {NewRun(r, g, "messages", None)}
        /\ currentRunId' = [currentRunId EXCEPT ![g] = r]
  BY DEF RunForGroup
<1>2. NewRun(r, g, "messages", None) \in Run /\ r \in RunIds
  BY NewRunType, Zenon
<1>6. runs' \in SUBSET Run
  BY <1>1, <1>2 DEF TypeOK
<1>3. currentRunId' \in [Groups -> RunIds \cup {None}]
  BY <1>1, <1>2 DEF TypeOK
<1>4. /\ pendingMessages' = [pendingMessages EXCEPT ![g] = FALSE]
      /\ phase' = [phase EXCEPT ![g] = "running_messages"]
      /\ activeCount' = activeCount + 1
      /\ runningTaskId' = runningTaskId /\ activeTaskCount' = activeTaskCount
  BY DEF RunForGroup
<1>5. pendingMessages' \in [Groups -> BOOLEAN]
  BY <1>4, Zenon DEF TypeOK
<1> QED  BY <1>3, <1>4, <1>5, <1>6 DEF TypeOK, StartTypes, Phases

LEMMA RunTaskTypes ==
  ASSUME TypeOK, NEW g \in Groups, NEW t \in Tasks, RunTask(g, t)
  PROVE  StartTypes
<1>1. PICK r \in FreshRunIds : runs' = runs \cup {NewRun(r, g, "task", t)}
  BY DEF RunTask
<1>2. runs' \in SUBSET Run
  BY <1>1, NewRunType DEF TypeOK
<1> QED  BY <1>2 DEF RunTask, TypeOK, StartTypes, Phases

LEMMA NoStartTypes ==
  ASSUME TypeOK, NoStart, pendingMessages' \in [Groups -> BOOLEAN]
  PROVE  StartTypes
BY DEF NoStart, TypeOK, StartTypes

LEMMA MessageCheckTypes ==
  ASSUME TypeOK, NEW g \in Groups, NEW b \in BOOLEAN, MessageCheck(g, b)
  PROVE  StartTypes /\ waitingGroups' \in Seq(Groups)
<1>1. WaitingWith(g) \in Seq(Groups)
  BY WaitingWithFacts DEF TypeOK
<1>2. CASE NoStart
  <2>1. pendingMessages' \in [Groups -> BOOLEAN]
    <3>1. \/ pendingMessages' = [pendingMessages EXCEPT ![g] = TRUE]
          \/ pendingMessages' = [pendingMessages EXCEPT ![g] = FALSE]
      BY Zenon DEF MessageCheck, RunForGroup
    <3> QED  BY <3>1, Zenon DEF TypeOK
  <2>2. waitingGroups' \in Seq(Groups)
    BY <1>1 DEF MessageCheck, TypeOK
  <2> QED  BY <1>2, <2>1, <2>2, NoStartTypes
<1>3. CASE RunForGroup(g)
  <2>1. waitingGroups' \in Seq(Groups)
    BY <1>1 DEF MessageCheck, TypeOK
  <2> QED  BY <1>3, <2>1, RunForGroupTypes
<1> QED  BY <1>2, <1>3 DEF MessageCheck

\* The first task of a group's queue, and the queue without it.
LEMMA QueueTypes ==
  ASSUME TypeOK, NEW g \in Groups, pendingTasks[g] # << >>
  PROVE  /\ Head(pendingTasks[g]) \in Tasks
         /\ [pendingTasks EXCEPT ![g] = Tail(@)] \in [Groups -> Seq(Tasks)]
BY HeadTailProperties DEF TypeOK

LEMMA EnqueueTypes ==
  ASSUME TypeOK, NEW g \in Groups,
         \/ \E d \in IpcDirChoices : EnqueueMessageCheck(g, d)
         \/ \E t \in Tasks : EnqueueTask(g, t)
  PROVE  TypeOK'
<1>1. ASSUME NEW d \in IpcDirChoices, EnqueueMessageCheck(g, d) PROVE TypeOK'
  <2>1. BackoffActive(g) \in BOOLEAN
    BY DEF BackoffActive, TypeOK
  <2>2. StartTypes /\ waitingGroups' \in Seq(Groups)
    BY <1>1, <2>1, MessageCheckTypes DEF EnqueueMessageCheck
  <2>3. d \in BOOLEAN
    BY LimitsAssumption
  <2>4. ipcDir' \in [Groups -> BOOLEAN]
    BY <1>1, <2>3, Zenon DEF EnqueueMessageCheck, TypeOK
  <2>5. arrivals' \in 0 .. MaxArrivals
    BY <1>1, LimitsAssumption DEF EnqueueMessageCheck, TypeOK
  <2> QED
    BY <1>1, <2>2, <2>4, <2>5, Zenon DEF EnqueueMessageCheck, TypeOK, StartTypes
<1>2. ASSUME NEW t \in Tasks, EnqueueTask(g, t) PROVE TypeOK'
  <2>1. StartTypes
    <3>1. CASE RunTask(g, t)
      BY <3>1, RunTaskTypes
    <3>2. CASE NoStart /\ UNCHANGED pendingMessages
      BY <3>2, NoStartTypes DEF TypeOK
    <3> QED  BY <1>2, <3>1, <3>2 DEF EnqueueTask
  <2>2. [pendingTasks EXCEPT ![g] = Append(@, t)] \in [Groups -> Seq(Tasks)]
    BY DEF TypeOK
  <2>3. pendingTasks' \in [Groups -> Seq(Tasks)]
    BY <1>2, <2>2, Zenon DEF EnqueueTask, TypeOK
  <2>4. waitingGroups' \in Seq(Groups)
    BY <1>2, WaitingWithFacts, Zenon DEF EnqueueTask, TypeOK
  <2>5. arrivals' \in 0 .. MaxArrivals
    BY <1>2, LimitsAssumption DEF EnqueueTask, TypeOK
  <2> QED
    BY <1>2, <2>1, <2>3, <2>4, <2>5, Zenon
    DEF EnqueueTask, TypeOK, StartTypes, procVars
<1> QED  BY <1>1, <1>2

LEMMA DrainTypes ==
  ASSUME TypeOK, DrainGroup \/ DrainWaiting
  PROVE  TypeOK'
<1>1. ASSUME DrainGroup PROVE TypeOK'
  <2> DEFINE g == cont.group
  <2>1. g \in Groups /\ NoCont \in Conts
        /\ [step |-> "drainWaiting", group |-> None] \in Conts
    BY <1>1 DEF DrainGroup, TypeOK, Conts, NoCont
  <2>2. CASE shuttingDown \/ (pendingTasks[g] = << >> /\ ~pendingMessages[g])
    <3>1. StartTypes
      BY <1>1, <2>2, NoStartTypes DEF DrainGroup, TypeOK
    <3> QED
      BY <1>1, <2>1, <2>2, <3>1 DEF DrainGroup, TypeOK, StartTypes, procVars
  <2>3. CASE ~shuttingDown /\ pendingTasks[g] # << >>
    <3>1. StartTypes
      BY <1>1, <2>1, <2>3, QueueTypes, RunTaskTypes DEF DrainGroup
    <3>2. pendingTasks' \in [Groups -> Seq(Tasks)]
      BY <1>1, <2>1, <2>3, QueueTypes DEF DrainGroup
    <3> QED
      BY <1>1, <2>1, <2>3, <3>1, <3>2
      DEF DrainGroup, TypeOK, StartTypes, procVars
  <2>4. CASE ~shuttingDown /\ pendingTasks[g] = << >> /\ pendingMessages[g]
    <3>1. StartTypes
      BY <1>1, <2>1, <2>4, RunForGroupTypes DEF DrainGroup
    <3> QED
      BY <1>1, <2>1, <2>4, <3>1 DEF DrainGroup, TypeOK, StartTypes, procVars
  <2> QED  BY <2>2, <2>3, <2>4
<1>2. ASSUME DrainWaiting PROVE TypeOK'
  <2>1. ASSUME NEW i \in DOMAIN waitingGroups
        PROVE  waitingGroups[i] \in Groups /\ RemoveAt(waitingGroups, i) \in Seq(Groups)
    BY SpliceFacts, ElementOfSeq, LenProperties DEF TypeOK
  <2>2. CASE \E i \in DOMAIN waitingGroups :
               /\ waitingGroups' = RemoveAt(waitingGroups, i)
               /\ RunForGroup(waitingGroups[i])
               /\ UNCHANGED <<pendingTasks, cont>>
    <3>1. StartTypes /\ waitingGroups' \in Seq(Groups)
      BY <2>1, <2>2, RunForGroupTypes
    <3> QED
      BY <1>2, <2>2, <3>1 DEF DrainWaiting, TypeOK, StartTypes, procVars
  <2>3. CASE \E i \in DOMAIN waitingGroups :
               /\ WaitingForTask(i)
               /\ waitingGroups' = RemoveAt(waitingGroups, i)
               /\ RunTask(waitingGroups[i], Head(pendingTasks[waitingGroups[i]]))
               /\ pendingTasks' = [pendingTasks EXCEPT ![waitingGroups[i]] = Tail(@)]
               /\ UNCHANGED cont
    <3>1. /\ StartTypes /\ waitingGroups' \in Seq(Groups)
          /\ pendingTasks' \in [Groups -> Seq(Tasks)]
      BY <2>1, <2>3, RunTaskTypes, QueueTypes DEF WaitingForTask
    <3> QED
      BY <1>2, <2>3, <3>1 DEF DrainWaiting, TypeOK, StartTypes, procVars
  <2>4. CASE /\ cont' = NoCont
             /\ NoStart /\ UNCHANGED <<waitingGroups, pendingMessages, pendingTasks>>
    <3>1. StartTypes /\ NoCont \in Conts
      BY <2>4, NoStartTypes DEF TypeOK, NoCont, Conts
    <3> QED
      BY <1>2, <2>4, <3>1 DEF DrainWaiting, TypeOK, StartTypes, procVars
  <2> QED  BY <1>2, <2>2, <2>3, <2>4 DEF DrainWaiting, FirstOf
<1> QED  BY <1>1, <1>2

\* The end of a run resets its group, with or without a retry.
LEMMA RunEndsTypes ==
  ASSUME TypeOK, NEW x \in runs, RunEnds(x)
  PROVE  TypeOK'
<1> DEFINE g == x.group
<1>1. g \in Groups
  BY DEF TypeOK, Run
<1>2. FinishRun(x)
  BY DEF RunEnds, MessageRunSucceeds, MessageRunFails, TaskRunEnds
<1>3. /\ retryCount' \in [Groups -> 0 .. MaxRetries]
      /\ retryTimer' \in [Groups -> {"off", "waiting", "elapsed"}]
      /\ retryScheduled' \in [Groups -> BOOLEAN]
  <2>1. CASE MessageRunSucceeds(x)
    <3>1. 0 \in 0 .. MaxRetries
      BY LimitsAssumption
    <3> QED  BY <1>1, <2>1, <3>1 DEF MessageRunSucceeds, TypeOK
  <2>2. CASE MessageRunFails(x)
    <3>1. CASE retryCount[g] + 1 > MaxRetries
      <4>1. 0 \in 0 .. MaxRetries
        BY LimitsAssumption
      <4> QED
        BY <1>1, <2>2, <3>1, <4>1 DEF MessageRunFails, ScheduleRetry, TypeOK
    <3>2. CASE ~(retryCount[g] + 1 > MaxRetries)
      <4>1. retryCount[g] + 1 \in 0 .. MaxRetries
        BY <1>1, <3>2, LimitsAssumption DEF TypeOK
      <4>2. /\ retryCount' = [retryCount EXCEPT ![g] = @ + 1]
            /\ retryTimer' = [retryTimer EXCEPT ![g] = "waiting"]
            /\ retryScheduled' = [retryScheduled EXCEPT ![g] = TRUE]
        BY <2>2, <3>2 DEF MessageRunFails, ScheduleRetry
      <4>3. /\ retryCount \in [Groups -> 0 .. MaxRetries]
            /\ retryTimer \in [Groups -> {"off", "waiting", "elapsed"}]
            /\ retryScheduled \in [Groups -> BOOLEAN]
        BY DEF TypeOK
      <4> QED  BY <1>1, <4>1, <4>2, <4>3
    <3> QED  BY <3>1, <3>2
  <2>3. CASE TaskRunEnds(x)
    BY <2>3 DEF TaskRunEnds, TypeOK
  <2> QED  BY <2>1, <2>2, <2>3 DEF RunEnds
<1>4. cont' \in Conts
  BY <1>1, <1>2 DEF FinishRun, Conts
<1>5. /\ phase' \in [Groups -> Phases]
      /\ currentRunId' \in [Groups -> RunIds \cup {None}]
      /\ runningTaskId' \in [Groups -> Tasks \cup {None}]
      /\ lastCloseRequest' \in [Groups -> Close \cup {None}]
      /\ process' \in [Groups -> Procs \cup {None}]
      /\ postTerm' \in [Groups -> Captured \cup {None}]
      /\ postKill' \in [Groups -> Captured \cup {None}]
  BY <1>1, <1>2 DEF FinishRun, TypeOK, Phases
<1>6. /\ runs' \in SUBSET Run /\ activeCount' \in Int /\ activeTaskCount' \in Int
  BY <1>2 DEF FinishRun, TypeOK
<1>7. ipcDir' \in [Groups -> BOOLEAN]
  BY <1>1, <1>2, Zenon DEF FinishRun, TypeOK
<1> QED
  BY <1>2, <1>3, <1>4, <1>5, <1>6, <1>7, Zenon DEF FinishRun, TypeOK

LEMMA ModeTypes ==
  ASSUME TypeOK, SetProcessMessagesFn \/ EnterRecoveryMode \/ EndRecoveryMode
  PROVE  TypeOK'
<1>1. [step |-> "drainWaiting", group |-> None] \in Conts
  BY DEF Conts
<1>2. CASE SetProcessMessagesFn
  BY <1>1, <1>2 DEF SetProcessMessagesFn, TypeOK, procVars
<1>3. CASE EnterRecoveryMode
  BY <1>3 DEF EnterRecoveryMode, TypeOK, procVars
<1>4. CASE EndRecoveryMode
  BY <1>1, <1>4 DEF EndRecoveryMode, TypeOK, procVars
<1> QED  BY <1>2, <1>3, <1>4

LEMMA RetryTimerTypes ==
  ASSUME TypeOK, NEW g \in Groups, BackoffElapses(g) \/ RetryTimerFires(g)
  PROVE  TypeOK'
<1>1. CASE BackoffElapses(g)
  BY <1>1 DEF BackoffElapses, TypeOK, procVars
<1>2. CASE RetryTimerFires(g)
  <2>1. StartTypes /\ waitingGroups' \in Seq(Groups)
    <3>1. CASE MessageCheck(g, FALSE)
      BY <3>1, MessageCheckTypes
    <3>2. CASE NoStart /\ UNCHANGED <<pendingMessages, waitingGroups>>
      BY <3>2, NoStartTypes DEF TypeOK
    <3> QED  BY <1>2, <3>1, <3>2 DEF RetryTimerFires
  <2>2. retryTimer' \in [Groups -> {"off", "waiting", "elapsed"}]
    BY <1>2 DEF RetryTimerFires, TypeOK
  <2>3. retryScheduled' \in [Groups -> BOOLEAN]
    BY <1>2, Zenon DEF RetryTimerFires, TypeOK
  <2> QED
    BY <1>2, <2>1, <2>2, <2>3, Zenon
    DEF RetryTimerFires, TypeOK, StartTypes, procVars
<1> QED  BY <1>1, <1>2

LEMMA SignalTypes ==
  ASSUME TypeOK, NEW P, NEW s \in {"TERM", "KILL"}, Signal(P, s)
  PROVE  sig' \in [Procs -> {"none", "TERM", "KILL"}]
BY DEF Signal, TypeOK

LEMMA ClosingTypes ==
  ASSUME TypeOK, NEW G \in SUBSET Groups, NEW req, \A g \in G : req[g] \in Close,
         Closing(G, req)
  PROVE  /\ phase' \in [Groups -> Phases]
         /\ lastCloseRequest' \in [Groups -> Close \cup {None}]
BY DEF Closing, TypeOK, Phases

LEMMA CloseStdinTypes ==
  ASSUME TypeOK, NEW g \in Groups, NEW run \in RunIds \cup {None},
         NEW reason \in TurnCloseReasons \cup LoopCloseReasons,
         CloseStdin(g, run, reason), runs' \in SUBSET Run
  PROVE  TypeOK'
<1> DEFINE id == IF run # None THEN run ELSE currentRunId[g]
           captured == [proc |-> process[g], run |-> id]
           req == [h \in {g} |-> [run |-> id, reason |-> reason]]
<1>1. id \in RunIds \cup {None} /\ process[g] \in Procs \cup {None}
  BY DEF TypeOK
<1>2. \A h \in {g} : req[h] \in Close
  BY <1>1 DEF Close
<1>3. /\ phase' \in [Groups -> Phases]
      /\ lastCloseRequest' \in [Groups -> Close \cup {None}]
  BY <1>2, ClosingTypes DEF CloseStdin
<1>4. process[g] # None /\ id # None => captured \in Captured
  BY <1>1 DEF Captured
<1>5. /\ postTerm' \in [Groups -> Captured \cup {None}]
      /\ postKill' \in [Groups -> Captured \cup {None}]
  BY <1>4 DEF CloseStdin, TypeOK
<1> QED  BY <1>3, <1>5, Zenon DEF CloseStdin, TypeOK

LEMMA ProcessTypes ==
  ASSUME TypeOK,
         \/ \E x \in runs : \E p \in Procs : \E d \in IpcDirChoices :
              RegisterProcess(x, p, d)
         \/ \E p \in Procs : ProcessExits(p) \/ StopKillTimer(p)
         \/ \E x \in runs : \E reason \in TurnCloseReasons : TurnCloses(x, reason)
         \/ \E g \in Groups : \E reason \in LoopCloseReasons : LoopCloses(g, reason)
         \/ \E g \in Groups : PostCloseTerm(g) \/ PostCloseKill(g) \/ KillProcess(g)
  PROVE  TypeOK'
<1>1. ASSUME NEW x \in runs, NEW p \in Procs, NEW d \in IpcDirChoices,
             RegisterProcess(x, p, d)
      PROVE  TypeOK'
  <2>1. x.group \in Groups /\ x.id \in RunIds /\ d \in BOOLEAN
    BY LimitsAssumption DEF TypeOK, Run
  <2>2. [x EXCEPT !.spawns = @ + 1] \in Run
    <3>1. x \in Run /\ x.spawns < MaxSpawns
      BY <1>1 DEF RegisterProcess, TypeOK
    <3>2. x.spawns + 1 \in 0 .. MaxSpawns
      BY <3>1, LimitsAssumption DEF Run
    <3> QED  BY <3>1, <3>2 DEF Run
  <2>3. runs' \in SUBSET Run
    BY <1>1, <2>2 DEF RegisterProcess, TypeOK
  <2>4. ipcDir' \in [Groups -> BOOLEAN]
    BY <1>1, <2>1, Zenon DEF RegisterProcess, TypeOK
  <2>5. /\ live' \in [Procs -> RunIds \cup {None}]
        /\ sig' \in [Procs -> {"none", "TERM", "KILL"}]
        /\ process' \in [Groups -> Procs \cup {None}]
    BY <1>1, <2>1 DEF RegisterProcess, TypeOK
  <2> QED  BY <1>1, <2>3, <2>4, <2>5, Zenon DEF RegisterProcess, TypeOK
<1>2. ASSUME NEW p \in Procs, ProcessExits(p) PROVE TypeOK'
  BY <1>2 DEF ProcessExits, TypeOK, schedVars
<1>3. ASSUME NEW p \in Procs, StopKillTimer(p) PROVE TypeOK'
  <2>1. sig' \in [Procs -> {"none", "TERM", "KILL"}]
    BY <1>3, SignalTypes DEF StopKillTimer
  <2> QED  BY <1>3, <2>1 DEF StopKillTimer, TypeOK, schedVars
<1>4. ASSUME NEW x \in runs, NEW reason \in TurnCloseReasons, TurnCloses(x, reason)
      PROVE  TypeOK'
  <2>0. x \in Run
    BY DEF TypeOK
  <2>1. x.group \in Groups /\ x.id \in RunIds
    BY <2>0 DEF Run
  <2>2. [x EXCEPT !.closeRequested = TRUE] \in Run
    BY <2>0 DEF Run
  <2>3. runs' \in SUBSET Run
    BY <1>4, <2>2 DEF TurnCloses, TypeOK
  <2> QED  BY <1>4, <2>1, <2>3, CloseStdinTypes DEF TurnCloses
<1>5. ASSUME NEW g \in Groups, NEW reason \in LoopCloseReasons, LoopCloses(g, reason)
      PROVE  TypeOK'
  <2>1. runs' \in SUBSET Run
    BY <1>5 DEF LoopCloses, TypeOK
  <2> QED  BY <1>5, <2>1, CloseStdinTypes DEF LoopCloses
<1>6. ASSUME NEW g \in Groups, PostCloseTerm(g) PROVE TypeOK'
  <2>1. sig' \in [Procs -> {"none", "TERM", "KILL"}]
    BY <1>6, SignalTypes DEF PostCloseTerm
  <2> QED  BY <1>6, <2>1 DEF PostCloseTerm, TypeOK, schedVars
<1>7. ASSUME NEW g \in Groups, PostCloseKill(g) PROVE TypeOK'
  <2>1. sig' \in [Procs -> {"none", "TERM", "KILL"}]
    BY <1>7, SignalTypes DEF PostCloseKill
  <2> QED  BY <1>7, <2>1 DEF PostCloseKill, TypeOK, schedVars
<1>8. ASSUME NEW g \in Groups, KillProcess(g) PROVE TypeOK'
  <2>1. sig' \in [Procs -> {"none", "TERM", "KILL"}]
    BY <1>8, SignalTypes DEF KillProcess
  <2>2. process[g] \in Procs
    BY <1>8 DEF KillProcess, Alive, TypeOK
  <2> QED  BY <1>8, <2>1, <2>2 DEF KillProcess, TypeOK, schedVars
<1> QED  BY <1>1, <1>2, <1>3, <1>4, <1>5, <1>6, <1>7, <1>8

LEMMA ShutdownTypes ==
  ASSUME TypeOK, BeginShutdown \/ ShutdownTerm \/ ShutdownKill
  PROVE  TypeOK'
<1>1. CASE BeginShutdown
  <2> DEFINE registered == {g \in Groups : process[g] # None}
             closing == {g \in registered : phase[g] = "running_messages" /\ ipcDir[g]}
             req == [g \in closing |-> [run |-> currentRunId[g], reason |-> "shutdown"]]
  <2>1. \A g \in closing : req[g] \in Close
    BY DEF TypeOK, Close
  <2>2. /\ phase' \in [Groups -> Phases]
        /\ lastCloseRequest' \in [Groups -> Close \cup {None}]
    BY <1>1, <2>1, ClosingTypes DEF BeginShutdown
  <2>3. shutdownProcs' \in SUBSET Procs /\ shutdown' \in {"no", "grace", "term", "exited"}
    BY <1>1 DEF BeginShutdown, TypeOK
  <2>4. retryScheduled' \in [Groups -> BOOLEAN]
    BY <1>1, Zenon DEF BeginShutdown
  <2>5. /\ retryTimer' \in [Groups -> {"off", "waiting", "elapsed"}]
        /\ postTerm' \in [Groups -> Captured \cup {None}]
        /\ postKill' \in [Groups -> Captured \cup {None}]
    BY <1>1 DEF BeginShutdown
  <2> QED
    BY <1>1, <2>2, <2>3, <2>4, <2>5, Zenon DEF BeginShutdown, TypeOK
<1>2. ASSUME NEW stage, NEW s \in {"TERM", "KILL"}, NEW next \in {"term", "exited"},
             ShutdownWaitEnds(stage, s, next)
      PROVE  TypeOK'
  <2>1. sig' \in [Procs -> {"none", "TERM", "KILL"}]
    BY <1>2, SignalTypes DEF ShutdownWaitEnds
  <2>2. shutdown' \in {"no", "grace", "term", "exited"}
    BY <1>2 DEF ShutdownWaitEnds
  <2> QED  BY <1>2, <2>1, <2>2, Zenon DEF ShutdownWaitEnds, TypeOK
<1> QED  BY <1>1, <1>2 DEF ShutdownTerm, ShutdownKill

LEMMA InitTypes == Init => TypeOK
<1> SUFFICES ASSUME Init PROVE TypeOK
  OBVIOUS
<1>1. NoCont \in Conts /\ 0 \in 0 .. MaxRetries /\ 0 \in 0 .. MaxArrivals
  BY LimitsAssumption DEF NoCont, Conts
<1>2. /\ pendingMessages \in [Groups -> BOOLEAN]
      /\ retryScheduled \in [Groups -> BOOLEAN]
      /\ ipcDir \in [Groups -> BOOLEAN]
      /\ handlerSet \in BOOLEAN
  BY Zenon DEF Init
<1>3. pendingTasks \in [Groups -> Seq(Tasks)] /\ waitingGroups \in Seq(Groups)
  BY DEF Init
<1> QED  BY <1>1, <1>2, <1>3 DEF Init, TypeOK, Phases

LEMMA StepTypes == TypeOK /\ [Next]_vars => TypeOK'
<1> SUFFICES ASSUME TypeOK, [Next]_vars PROVE TypeOK'
  OBVIOUS
<1>1. CASE UNCHANGED vars
  BY <1>1 DEF vars, schedVars, procVars, TypeOK
<1>2. CASE Next
  BY <1>2, EnqueueTypes, DrainTypes, RunEndsTypes, ModeTypes, RetryTimerTypes,
     ProcessTypes, ShutdownTypes, Zenon DEF Next, Timers
<1> QED  BY <1>1, <1>2

\* Every variable keeps its type: in particular the retry counter stays
\* within MAX_RETRIES and every queue holds only groups or tasks.
THEOREM TypeCorrect == Spec => []TypeOK
BY InitTypes, StepTypes, PTL DEF Spec

-----------------------------------------------------------------------------
(* The counters equal the runs in flight *)

TaskRuns(R) == {x \in R : x.kind = "task"}

\* No two runs in flight have the same id.
UniqueIds == \A x, y \in runs : x.id = y.id => x = y

RunsInv ==
  /\ IsFiniteSet(runs)
  /\ UniqueIds
  /\ CountersExact

\* Adding one run of a fresh id counts one more.
LEMMA AddRun ==
  ASSUME RunsInv, NEW r \in FreshRunIds, NEW g, NEW kind, NEW t,
         runs' = runs \cup {NewRun(r, g, kind, t)},
         activeCount' = activeCount + 1,
         activeTaskCount' = IF kind = "task" THEN activeTaskCount + 1
                                             ELSE activeTaskCount
  PROVE  RunsInv'
<1> DEFINE n == NewRun(r, g, kind, t)
<1>1. n \notin runs /\ n.id = r /\ n.kind = kind
  BY DEF NewRun, FreshRunIds
<1>2. IsFiniteSet(runs') /\ Cardinality(runs') = Cardinality(runs) + 1
  BY <1>1, FS_AddElement DEF RunsInv
<1>3. UniqueIds'
  BY <1>1 DEF UniqueIds, RunsInv, FreshRunIds
<1>4. IsFiniteSet(TaskRuns(runs))
  BY FS_Subset DEF RunsInv, TaskRuns
<1>5. Cardinality(TaskRuns(runs')) =
        IF kind = "task" THEN Cardinality(TaskRuns(runs)) + 1
                         ELSE Cardinality(TaskRuns(runs))
  <2>1. CASE kind = "task"
    <3>1. TaskRuns(runs') = TaskRuns(runs) \cup {n} /\ n \notin TaskRuns(runs)
      BY <1>1, <2>1 DEF TaskRuns
    <3> QED  BY <1>4, <2>1, <3>1, FS_AddElement
  <2>2. CASE kind # "task"
    <3>1. TaskRuns(runs') = TaskRuns(runs)
      BY <1>1, <2>2 DEF TaskRuns
    <3> QED  BY <2>2, <3>1
  <2> QED  BY <2>1, <2>2
<1> QED  BY <1>2, <1>3, <1>5 DEF RunsInv, CountersExact, TaskRuns

\* Rewriting a run's own bookkeeping leaves the counts alone.
LEMMA ReplaceRun ==
  ASSUME RunsInv, NEW x \in runs, NEW y, y.id = x.id, y.kind = x.kind,
         runs' = (runs \ {x}) \cup {y},
         UNCHANGED <<activeCount, activeTaskCount>>
  PROVE  RunsInv'
<1>1. y \notin runs \ {x}
  BY DEF RunsInv, UniqueIds
<1>2. IsFiniteSet(runs \ {x}) /\ Cardinality(runs \ {x}) = Cardinality(runs) - 1
  BY FS_RemoveElement DEF RunsInv
<1>3. Cardinality(runs) \in Nat /\ IsFiniteSet(TaskRuns(runs))
  BY FS_CardinalityType, FS_Subset DEF RunsInv, TaskRuns
<1>4. IsFiniteSet(runs') /\ Cardinality(runs') = Cardinality(runs)
  BY <1>1, <1>2, <1>3, FS_AddElement
<1>5. UniqueIds'
  BY DEF UniqueIds, RunsInv
<1>6. Cardinality(TaskRuns(runs')) = Cardinality(TaskRuns(runs))
  <2>1. CASE x.kind = "task"
    <3>1. TaskRuns(runs') = (TaskRuns(runs) \ {x}) \cup {y} /\ x \in TaskRuns(runs)
      BY <2>1 DEF TaskRuns
    <3>2. y \notin TaskRuns(runs) \ {x}
      BY <1>1 DEF TaskRuns
    <3>3. /\ IsFiniteSet(TaskRuns(runs) \ {x})
          /\ Cardinality(TaskRuns(runs) \ {x}) = Cardinality(TaskRuns(runs)) - 1
      BY <1>3, <3>1, FS_RemoveElement
    <3>4. Cardinality(TaskRuns(runs)) \in Nat
      BY <1>3, FS_CardinalityType
    <3>5. Cardinality((TaskRuns(runs) \ {x}) \cup {y}) =
            Cardinality(TaskRuns(runs) \ {x}) + 1
      BY <3>2, <3>3, FS_AddElement
    <3> QED  BY <3>1, <3>3, <3>4, <3>5
  <2>2. CASE x.kind # "task"
    <3>1. TaskRuns(runs') = TaskRuns(runs)
      BY <2>2 DEF TaskRuns
    <3> QED  BY <3>1
  <2> QED  BY <2>1, <2>2
<1> QED  BY <1>4, <1>5, <1>6 DEF RunsInv, CountersExact, TaskRuns

\* The end of a run counts one less.
LEMMA RemoveRun ==
  ASSUME RunsInv, NEW x \in runs, FinishRun(x)
  PROVE  RunsInv' /\ activeCount' = activeCount - 1
<1>1. /\ IsFiniteSet(runs \ {x})
      /\ Cardinality(runs \ {x}) = Cardinality(runs) - 1
      /\ IsFiniteSet(TaskRuns(runs))
  BY FS_RemoveElement, FS_Subset DEF RunsInv, TaskRuns
<1>2. Cardinality(TaskRuns(runs \ {x})) =
        IF x.kind = "task" THEN Cardinality(TaskRuns(runs)) - 1
                           ELSE Cardinality(TaskRuns(runs))
  <2>1. CASE x.kind = "task"
    <3>1. TaskRuns(runs \ {x}) = TaskRuns(runs) \ {x} /\ x \in TaskRuns(runs)
      BY <2>1 DEF TaskRuns
    <3> QED  BY <1>1, <2>1, <3>1, FS_RemoveElement
  <2>2. CASE x.kind # "task"
    <3>1. TaskRuns(runs \ {x}) = TaskRuns(runs)
      BY <2>2 DEF TaskRuns
    <3> QED  BY <2>2, <3>1
  <2> QED  BY <2>1, <2>2
<1>3. UniqueIds'
  BY DEF FinishRun, RunsInv, UniqueIds
<1> QED  BY <1>1, <1>2, <1>3 DEF FinishRun, RunsInv, CountersExact, TaskRuns

LEMMA StartCounts ==
  ASSUME RunsInv, NEW g, NEW t, RunForGroup(g) \/ RunTask(g, t)
  PROVE  RunsInv' /\ activeCount' = activeCount + 1
<1>1. CASE RunForGroup(g)
  <2>1. PICK r \in FreshRunIds :
          /\ runs' = runs \cup {NewRun(r, g, "messages", None)}
          /\ activeCount' = activeCount + 1 /\ activeTaskCount' = activeTaskCount
    BY <1>1 DEF RunForGroup
  <2> QED  BY <2>1, AddRun
<1>2. CASE RunTask(g, t)
  <2>1. PICK r \in FreshRunIds :
          /\ runs' = runs \cup {NewRun(r, g, "task", t)}
          /\ activeCount' = activeCount + 1
          /\ activeTaskCount' = activeTaskCount + 1
    BY <1>2 DEF RunTask
  <2> QED  BY <2>1, AddRun
<1> QED  BY <1>1, <1>2


SameCounts == UNCHANGED <<activeCount, activeTaskCount>>

StartsRun == \E g, t : RunForGroup(g) \/ RunTask(g, t)

RewritesRun ==
  \E x \in runs : \E y : /\ y.id = x.id /\ y.kind = x.kind /\ y.group = x.group
                         /\ runs' = (runs \ {x}) \cup {y}
                         /\ SameCounts

\* Every step starts one run, ends one run, rewrites one run's own
\* bookkeeping, or leaves the runs and the counters alone.
LEMMA StepOnRuns ==
  ASSUME [Next]_vars
  PROVE  \/ SameCounts /\ UNCHANGED runs
         \/ StartsRun
         \/ \E x \in runs : FinishRun(x)
         \/ RewritesRun
<1> DEFINE Still == SameCounts /\ UNCHANGED runs
<1>1. ASSUME NoStart PROVE Still
  BY <1>1 DEF NoStart, SameCounts
<1>2. ASSUME NEW g, NEW b, MessageCheck(g, b) PROVE Still \/ StartsRun
  BY <1>1, <1>2 DEF MessageCheck, StartsRun
<1>3. ASSUME NEW g \in Groups,
             \/ \E d \in IpcDirChoices : EnqueueMessageCheck(g, d)
             \/ \E t \in Tasks : EnqueueTask(g, t)
             \/ BackoffElapses(g) \/ RetryTimerFires(g)
      PROVE  Still \/ StartsRun
  BY <1>1, <1>2, <1>3
  DEF EnqueueMessageCheck, EnqueueTask, BackoffElapses, RetryTimerFires,
      StartsRun, SameCounts
<1>4. ASSUME DrainGroup \/ DrainWaiting PROVE Still \/ StartsRun
  BY <1>1, <1>4 DEF DrainGroup, DrainWaiting, StartsRun
<1>5. ASSUME NEW x \in runs, RunEnds(x) PROVE FinishRun(x)
  BY <1>5 DEF RunEnds, MessageRunSucceeds, MessageRunFails, TaskRunEnds
<1>6. ASSUME \/ SetProcessMessagesFn \/ EnterRecoveryMode \/ EndRecoveryMode
             \/ BeginShutdown \/ ShutdownTerm \/ ShutdownKill
             \/ \E p \in Procs : ProcessExits(p) \/ StopKillTimer(p)
             \/ \E g \in Groups : \/ PostCloseTerm(g) \/ PostCloseKill(g)
                                  \/ KillProcess(g)
                                  \/ \E reason \in LoopCloseReasons : LoopCloses(g, reason)
             \/ UNCHANGED vars
      PROVE  Still
  BY <1>6
  DEF SetProcessMessagesFn, EnterRecoveryMode, EndRecoveryMode, BeginShutdown,
      ShutdownTerm, ShutdownKill, ShutdownWaitEnds, ProcessExits, StopKillTimer,
      PostCloseTerm, PostCloseKill, KillProcess, LoopCloses, CloseStdin, vars,
      schedVars, SameCounts
<1>7. ASSUME NEW x \in runs,
             \/ \E p \in Procs : \E d \in IpcDirChoices : RegisterProcess(x, p, d)
             \/ \E reason \in TurnCloseReasons : TurnCloses(x, reason)
      PROVE  RewritesRun
  <2>1. CASE \E p \in Procs : \E d \in IpcDirChoices : RegisterProcess(x, p, d)
    <3> DEFINE y == [x EXCEPT !.spawns = @ + 1]
    <3>1. y.id = x.id /\ y.kind = x.kind /\ y.group = x.group
      OBVIOUS
    <3>2. runs' = (runs \ {x}) \cup {y} /\ SameCounts
      BY <2>1 DEF RegisterProcess, SameCounts
    <3> QED  BY <3>1, <3>2, Zenon DEF RewritesRun
  <2>2. CASE \E reason \in TurnCloseReasons : TurnCloses(x, reason)
    <3> DEFINE y == [x EXCEPT !.closeRequested = TRUE]
    <3>1. y.id = x.id /\ y.kind = x.kind /\ y.group = x.group
      OBVIOUS
    <3>2. runs' = (runs \ {x}) \cup {y} /\ SameCounts
      BY <2>2 DEF TurnCloses, CloseStdin, SameCounts
    <3> QED  BY <3>1, <3>2, Zenon DEF RewritesRun
  <2> QED  BY <1>7, <2>1, <2>2
<1> QED
  BY <1>3, <1>4, <1>5, <1>6, <1>7, Zenon DEF Next, Timers

LEMMA RunsInductive == RunsInv /\ [Next]_vars => RunsInv'
<1> SUFFICES ASSUME RunsInv, [Next]_vars PROVE RunsInv'
  OBVIOUS
<1>1. CASE SameCounts /\ UNCHANGED runs
  BY <1>1 DEF RunsInv, UniqueIds, CountersExact, SameCounts
<1>2. CASE StartsRun
  BY <1>2, StartCounts DEF StartsRun
<1>3. CASE \E x \in runs : FinishRun(x)
  BY <1>3, RemoveRun
<1>4. CASE RewritesRun
  BY <1>4, ReplaceRun DEF RewritesRun, SameCounts
<1> QED  BY <1>1, <1>2, <1>3, <1>4, StepOnRuns

\* activeCount and activeTaskCount are exact in every reachable state.
THEOREM CountersCorrect == Spec => []CountersExact
<1>1. Init => RunsInv
  <2> SUFFICES ASSUME Init PROVE RunsInv
    OBVIOUS
  <2>1. runs = {} /\ TaskRuns(runs) = {} /\ activeCount = 0 /\ activeTaskCount = 0
    BY DEF Init, TaskRuns
  <2> QED  BY <2>1, FS_EmptySet DEF RunsInv, UniqueIds, CountersExact, TaskRuns
<1>2. RunsInv => CountersExact
  BY DEF RunsInv
<1> QED  BY <1>1, <1>2, RunsInductive, PTL DEF Spec

-----------------------------------------------------------------------------
(* The bound on the runs in flight *)

\* drainGroup starts a run without a limit test; it may, because the run
\* whose end it handles has left its slot.
CapacityInv ==
  /\ activeCount <= Capacity
  /\ cont.step = "drainGroup" => activeCount < Capacity

LEMMA CapacityStep ==
  TypeOK /\ RunsInv /\ CapacityInv /\ [Next]_vars => CapacityInv'
<1> SUFFICES ASSUME TypeOK, RunsInv, CapacityInv, [Next]_vars PROVE CapacityInv'
  OBVIOUS
<1>1. /\ activeCount \in Int /\ Capacity \in Nat
      /\ EffectiveMaxConcurrent <= Capacity /\ EffectiveMaxConcurrent \in Nat
  BY LimitsAssumption DEF TypeOK, EffectiveMaxConcurrent, Capacity
<1>2. NoCont.step # "drainGroup"
  BY DEF NoCont
<1>3. ASSUME SameCounts, cont' = cont \/ cont'.step # "drainGroup"
      PROVE  CapacityInv'
  BY <1>1, <1>3 DEF CapacityInv, SameCounts, Capacity
<1>4. ASSUME NoStart PROVE SameCounts
  BY <1>4 DEF NoStart, SameCounts
<1>5. ASSUME NEW g, NEW t, RunForGroup(g) \/ RunTask(g, t),
             cont'.step # "drainGroup", activeCount < Capacity
      PROVE  CapacityInv'
  <2>1. activeCount' = activeCount + 1
    BY <1>5 DEF RunForGroup, RunTask
  <2> QED  BY <1>1, <1>5, <2>1 DEF CapacityInv, Capacity
<1>6. ASSUME NEW g, NEW b, MessageCheck(g, b), EventLoopFree, UNCHANGED cont
      PROVE  CapacityInv'
  <2>1. cont'.step # "drainGroup"
    BY <1>2, <1>6 DEF EventLoopFree
  <2>2. CASE NoStart
    BY <1>3, <1>4, <2>1, <2>2
  <2>3. CASE activeCount < EffectiveMaxConcurrent /\ RunForGroup(g)
    BY <1>1, <1>5, <2>1, <2>3
  <2> QED  BY <1>6, <2>2, <2>3 DEF MessageCheck
<1>7. ASSUME NEW g \in Groups,
             \/ \E d \in IpcDirChoices : EnqueueMessageCheck(g, d)
             \/ \E t \in Tasks : EnqueueTask(g, t)
             \/ BackoffElapses(g) \/ RetryTimerFires(g)
      PROVE  CapacityInv'
  <2>1. CASE \E d \in IpcDirChoices : EnqueueMessageCheck(g, d)
    BY <1>6, <2>1 DEF EnqueueMessageCheck
  <2>2. ASSUME NEW t \in Tasks, EnqueueTask(g, t) PROVE CapacityInv'
    <3>1. cont'.step # "drainGroup"
      BY <1>2, <2>2 DEF EnqueueTask, EventLoopFree
    <3>2. CASE NoStart
      BY <1>3, <1>4, <3>1, <3>2
    <3>3. CASE activeCount < EffectiveMaxConcurrent /\ RunTask(g, t)
      BY <1>1, <1>5, <3>1, <3>3
    <3> QED  BY <2>2, <3>2, <3>3 DEF EnqueueTask
  <2>3. CASE BackoffElapses(g)
    BY <1>3, <2>3 DEF BackoffElapses, SameCounts
  <2>4. CASE RetryTimerFires(g)
    BY <1>3, <1>4, <1>6, <2>4 DEF RetryTimerFires
  <2> QED  BY <1>7, <2>1, <2>2, <2>3, <2>4
<1>8. ASSUME DrainGroup PROVE CapacityInv'
  <2>1. activeCount < Capacity
    BY <1>8 DEF DrainGroup, CapacityInv
  <2>2. cont'.step # "drainGroup"
    BY <1>2, <1>8 DEF DrainGroup
  <2> QED  BY <1>3, <1>4, <1>5, <1>8, <2>1, <2>2 DEF DrainGroup
<1>9. ASSUME DrainWaiting PROVE CapacityInv'
  <2>1. cont'.step # "drainGroup"
    BY <1>2, <1>9 DEF DrainWaiting
  <2>2. CASE NoStart
    BY <1>3, <1>4, <2>1, <2>2
  <2>3. CASE /\ activeCount < EffectiveMaxConcurrent
             /\ \E g, t : RunForGroup(g) \/ RunTask(g, t)
    BY <1>1, <1>5, <2>1, <2>3
  <2> QED  BY <1>9, <2>2, <2>3 DEF DrainWaiting
<1>10. ASSUME NEW x \in runs, RunEnds(x) PROVE CapacityInv'
  <2>1. FinishRun(x)
    BY <1>10 DEF RunEnds, MessageRunSucceeds, MessageRunFails, TaskRunEnds
  <2>2. activeCount' = activeCount - 1
    BY <2>1 DEF FinishRun
  <2> QED  BY <1>1, <2>2 DEF CapacityInv, Capacity
<1>11. ASSUME \/ SetProcessMessagesFn \/ EnterRecoveryMode \/ EndRecoveryMode
              \/ BeginShutdown \/ ShutdownTerm \/ ShutdownKill
              \/ \E p \in Procs : ProcessExits(p) \/ StopKillTimer(p)
              \/ \E g \in Groups : \/ PostCloseTerm(g) \/ PostCloseKill(g)
                                   \/ KillProcess(g)
                                   \/ \E reason \in LoopCloseReasons : LoopCloses(g, reason)
              \/ \E x \in runs : \E p \in Procs : \E d \in IpcDirChoices :
                   RegisterProcess(x, p, d)
              \/ \E x \in runs : \E reason \in TurnCloseReasons : TurnCloses(x, reason)
              \/ UNCHANGED vars
       PROVE  CapacityInv'
  <2> SUFFICES SameCounts /\ (cont' = cont \/ cont'.step # "drainGroup")
    BY <1>3
  <2>1. CASE SetProcessMessagesFn \/ EnterRecoveryMode \/ EndRecoveryMode
    BY <2>1
    DEF SetProcessMessagesFn, EnterRecoveryMode, EndRecoveryMode, SameCounts
  <2>2. CASE BeginShutdown \/ ShutdownTerm \/ ShutdownKill
    BY <2>2
    DEF BeginShutdown, ShutdownTerm, ShutdownKill, ShutdownWaitEnds, SameCounts
  <2>3. CASE \/ \E p \in Procs : ProcessExits(p) \/ StopKillTimer(p)
             \/ \E g \in Groups : PostCloseTerm(g) \/ PostCloseKill(g) \/ KillProcess(g)
             \/ UNCHANGED vars
    BY <2>3
    DEF ProcessExits, StopKillTimer, PostCloseTerm, PostCloseKill, KillProcess,
        vars, schedVars, SameCounts
  <2>4. CASE \/ \E g \in Groups : \E reason \in LoopCloseReasons : LoopCloses(g, reason)
             \/ \E x \in runs : \E reason \in TurnCloseReasons : TurnCloses(x, reason)
    BY <2>4 DEF LoopCloses, TurnCloses, CloseStdin, SameCounts
  <2>5. CASE \E x \in runs : \E p \in Procs : \E d \in IpcDirChoices :
                RegisterProcess(x, p, d)
    BY <2>5 DEF RegisterProcess, SameCounts
  <2> QED  BY <1>11, <2>1, <2>2, <2>3, <2>4, <2>5, Zenon
<1> QED
  BY <1>7, <1>8, <1>9, <1>10, <1>11, Zenon DEF Next, Timers

\* Whatever the order of arrivals, ends, retries and changes of mode, there
\* are never more runs in flight than the larger of the two limits.
THEOREM CapacityCorrect == Spec => []CapacityRespected
<1>1. Init => TypeOK /\ RunsInv /\ CapacityInv
  <2> SUFFICES ASSUME Init PROVE RunsInv /\ CapacityInv
    BY InitTypes
  <2>1. runs = {} /\ TaskRuns(runs) = {} /\ activeCount = 0 /\ activeTaskCount = 0
    BY DEF Init, TaskRuns
  <2>2. RunsInv
    BY <2>1, FS_EmptySet DEF RunsInv, UniqueIds, CountersExact, TaskRuns
  <2>3. CapacityInv
    BY <2>1, LimitsAssumption DEF Init, CapacityInv, Capacity, NoCont
  <2> QED  BY <2>2, <2>3
<1>2. RunsInv /\ CapacityInv => CapacityRespected
  BY DEF RunsInv, CountersExact, CapacityInv, CapacityRespected
<1> QED
  BY <1>1, <1>2, StepTypes, RunsInductive, CapacityStep, PTL DEF Spec

-----------------------------------------------------------------------------
(* Pending work is never stranded *)

\* What will look at a group's pending work again.  Between callbacks the
\* second disjunct needs a run in flight; inside a callback the rest of the
\* callback, and before setProcessMessagesFn that call, will do.
Awake(g) ==
  \/ InFlight(g)
  \/ Contains(waitingGroups, g) /\ (runs # {} \/ ~handlerSet \/ cont # NoCont)
  \/ pendingTasks[g] = << >> /\ retryTimer[g] # "off"
  \/ cont = [step |-> "drainGroup", group |-> g]

WakeInv ==
  /\ \A g \in Groups : phase[g] # "idle" => InFlight(g)
  /\ ~shuttingDown => \A g \in Groups : HasWork(g) => Awake(g)

\* A taken slot is a run in flight.
LEMMA TakenSlot ==
  ASSUME TypeOK, RunsInv,
         \/ activeCount >= EffectiveMaxConcurrent
         \/ activeTaskCount >= MaxConcurrentTasks
  PROVE  runs # {}
<1> SUFFICES ASSUME runs = {} PROVE FALSE
  OBVIOUS
<1>1. TaskRuns(runs) = {}
  BY DEF TaskRuns
<1>2. activeCount = 0 /\ activeTaskCount = 0
  BY <1>1, FS_EmptySet DEF RunsInv, CountersExact, TaskRuns
<1> QED  BY <1>2, LimitsPositive

\* Starting a run puts it in flight and keeps every other run.
LEMMA StartInFlight ==
  ASSUME NEW g, NEW t, RunForGroup(g) \/ RunTask(g, t)
  PROVE  /\ InFlight(g)' /\ runs' # {}
         /\ \A h : InFlight(h) => InFlight(h)'
<1>1. PICK r, kind, u : runs' = runs \cup {NewRun(r, g, kind, u)}
  BY DEF RunForGroup, RunTask
<1>2. NewRun(r, g, kind, u).group = g
  BY DEF NewRun
<1> HIDE DEF NewRun
<1>3. runs \subseteq runs' /\ NewRun(r, g, kind, u) \in runs'
  BY <1>1
<1> QED  BY <1>2, <1>3 DEF InFlight

\* A start keeps WakeInv: the group has a run now, and the other groups lose
\* nothing but what the caller took from waitingGroups or pendingTasks of g.
LEMMA StartWakes ==
  ASSUME TypeOK, WakeInv, NEW g \in Groups, NEW t,
         RunForGroup(g) \/ RunTask(g, t),
         \A h \in Groups \ {g} :
           Contains(waitingGroups, h) => Contains(waitingGroups, h)',
         \A h \in Groups \ {g} : /\ pendingTasks'[h] = pendingTasks[h]
                                 /\ retryTimer'[h] = retryTimer[h]
                                 /\ cont # [step |-> "drainGroup", group |-> h],
         UNCHANGED shutdown
  PROVE  WakeInv'
<1>1. /\ InFlight(g)' /\ runs' # {}
      /\ \A h : InFlight(h) => InFlight(h)'
  BY StartInFlight
<1>2. /\ \A h \in Groups \ {g} : phase'[h] = phase[h]
      /\ \A h \in Groups \ {g} : pendingMessages'[h] = pendingMessages[h]
  BY DEF RunForGroup, RunTask, TypeOK
<1>3. ASSUME NEW h \in Groups, phase'[h] # "idle" PROVE InFlight(h)'
  BY <1>1, <1>2, <1>3 DEF WakeInv
<1>4. ASSUME ~shuttingDown', NEW h \in Groups, HasWork(h)' PROVE Awake(h)'
  <2>1. CASE h = g
    BY <1>1, <2>1 DEF Awake
  <2>2. CASE h # g
    <3>1. HasWork(h) /\ ~shuttingDown
      BY <1>2, <1>4, <2>2 DEF HasWork, shuttingDown
    <3>2. Awake(h) /\ cont # [step |-> "drainGroup", group |-> h]
      BY <2>2, <3>1 DEF WakeInv
    <3> QED  BY <1>1, <2>2, <3>2 DEF Awake
  <2> QED  BY <2>1, <2>2
<1> QED  BY <1>3, <1>4 DEF WakeInv

\* A step that starts no run and adds no work keeps WakeInv if it keeps the
\* groups of the runs in flight, the waiting groups and the retry timers.
LEMMA QuietStep ==
  ASSUME WakeInv,
         \A h : InFlight(h) => InFlight(h)',
         \A h \in Groups : phase'[h] # "idle" => phase[h] # "idle",
         UNCHANGED <<pendingMessages, pendingTasks, waitingGroups>>,
         \A h \in Groups : retryTimer[h] # "off" => retryTimer'[h] # "off",
         ~shuttingDown' => ~shuttingDown,
         runs # {} => runs' # {},
         \/ UNCHANGED <<handlerSet, cont>>
         \/ cont = NoCont /\ cont' = [step |-> "drainWaiting", group |-> None]
  PROVE  WakeInv'
<1>1. ASSUME NEW h \in Groups, phase'[h] # "idle" PROVE InFlight(h)'
  BY <1>1 DEF WakeInv
<1>2. ASSUME ~shuttingDown', NEW h \in Groups, HasWork(h)' PROVE Awake(h)'
  <2>1. Awake(h)
    BY <1>2 DEF WakeInv, HasWork
  <2>2. CASE UNCHANGED <<handlerSet, cont>>
    BY <2>1, <2>2 DEF Awake
  <2>3. CASE cont = NoCont /\ cont' = [step |-> "drainWaiting", group |-> None]
    BY <2>1, <2>3 DEF Awake, NoCont
  <2> QED  BY <2>2, <2>3
<1> QED  BY <1>1, <1>2 DEF WakeInv

\* The message check of a group whose back-off, if any, has a timer.
LEMMA MessageCheckWakes ==
  ASSUME TypeOK, RunsInv, WakeInv, NEW g \in Groups, NEW b \in BOOLEAN,
         MessageCheck(g, b), cont = NoCont,
         b => retryTimer'[g] # "off",
         \A h \in Groups \ {g} : retryTimer'[h] = retryTimer[h],
         UNCHANGED <<pendingTasks, shutdown, cont, handlerSet>>
  PROVE  WakeInv'
<1>1. CASE RunForGroup(g) /\ UNCHANGED waitingGroups
  <2>1. \A h \in Groups \ {g} : cont # [step |-> "drainGroup", group |-> h]
    BY DEF NoCont
  <2> QED  BY <1>1, <2>1, StartWakes
<1>2. CASE /\ NoStart
           /\ pendingMessages' = [pendingMessages EXCEPT ![g] = TRUE]
  <2>1. /\ UNCHANGED <<runs, phase>>
        /\ \A h : InFlight(h) <=> InFlight(h)'
    BY <1>2 DEF NoStart, InFlight
  <2>2. \A h \in Groups : Contains(waitingGroups, h) => Contains(waitingGroups, h)'
    <3>1. waitingGroups' = waitingGroups \/ waitingGroups' = WaitingWith(g)
      BY DEF MessageCheck
    <3>2. CASE waitingGroups' = waitingGroups
      BY <3>2
    <3>3. CASE waitingGroups' = WaitingWith(g)
      <4>1. \A h \in Groups : Contains(waitingGroups, h) => Contains(WaitingWith(g), h)
        BY WaitingWithFacts DEF TypeOK
      <4> QED  BY <3>3, <4>1
    <3> QED  BY <3>1, <3>2, <3>3
  <2>3. ~shuttingDown => Awake(g)'
    <3>1. CASE phase[g] # "idle"
      BY <2>1, <3>1 DEF WakeInv, Awake
    <3>2. CASE /\ phase[g] = "idle" /\ handlerSet /\ b
      <4>1. CASE pendingTasks[g] = << >>
        BY <3>2, <4>1 DEF Awake
      <4>2. CASE pendingTasks[g] # << >> /\ ~shuttingDown
        <5>1. Awake(g)
          BY <4>2 DEF WakeInv, HasWork
        <5> QED  BY <2>1, <2>2, <4>2, <5>1 DEF Awake, NoCont
      <4> QED  BY <4>1, <4>2
    <3>3. CASE /\ phase[g] = "idle"
               /\ ~handlerSet \/ (~b /\ activeCount >= EffectiveMaxConcurrent)
               /\ waitingGroups' = WaitingWith(g)
      <4>1. Contains(waitingGroups, g)'
        BY <3>3, WaitingWithFacts DEF TypeOK
      <4>2. ~handlerSet' \/ runs' # {}
        BY <2>1, <3>3, TakenSlot
      <4> QED  BY <4>1, <4>2 DEF Awake
    <3>4. activeCount < EffectiveMaxConcurrent /\ RunForGroup(g) => FALSE
      <4>1. ASSUME RunForGroup(g) PROVE FALSE
        <5>1. activeCount' = activeCount + 1 /\ activeCount' = activeCount
          BY <1>2, <4>1 DEF RunForGroup, NoStart
        <5> QED  BY <5>1 DEF TypeOK
      <4> QED  BY <4>1
    <3> QED  BY <3>1, <3>2, <3>3, <3>4, Zenon DEF MessageCheck
  <2>4. ASSUME NEW h \in Groups, ~shuttingDown', HasWork(h)' PROVE Awake(h)'
    <3>1. CASE h = g
      BY <2>3, <2>4, <3>1 DEF shuttingDown
    <3>2. CASE h # g
      <4>1. HasWork(h) /\ ~shuttingDown
        BY <1>2, <2>4, <3>2 DEF HasWork, TypeOK, shuttingDown
      <4>2. Awake(h)
        BY <4>1 DEF WakeInv
      <4> QED  BY <2>1, <2>2, <3>2, <4>2 DEF Awake, NoCont
    <3> QED  BY <3>1, <3>2
  <2>5. ASSUME NEW h \in Groups, phase'[h] # "idle" PROVE InFlight(h)'
    BY <2>1, <2>5 DEF WakeInv
  <2> QED  BY <2>4, <2>5 DEF WakeInv
<1> QED  BY <1>1, <1>2 DEF MessageCheck

LEMMA EnqueueWakes ==
  ASSUME TypeOK, RunsInv, WakeInv, NEW g \in Groups,
         \/ \E d \in IpcDirChoices : EnqueueMessageCheck(g, d)
         \/ \E t \in Tasks : EnqueueTask(g, t)
         \/ BackoffElapses(g) \/ RetryTimerFires(g)
  PROVE  WakeInv'
<1>1. ASSUME NEW d \in IpcDirChoices, EnqueueMessageCheck(g, d) PROVE WakeInv'
  <2>1. BackoffActive(g) \in BOOLEAN /\ (BackoffActive(g) => retryTimer[g] # "off")
    BY DEF BackoffActive, TypeOK
  <2> QED
    BY <1>1, <2>1, MessageCheckWakes DEF EnqueueMessageCheck, EventLoopFree
<1>2. ASSUME NEW t \in Tasks, EnqueueTask(g, t) PROVE WakeInv'
  <2>1. CASE RunTask(g, t) /\ UNCHANGED <<pendingTasks, waitingGroups>>
    <3>1. \A h \in Groups \ {g} : cont # [step |-> "drainGroup", group |-> h]
      BY <1>2 DEF EnqueueTask, EventLoopFree, NoCont
    <3> QED  BY <1>2, <2>1, <3>1, StartWakes DEF EnqueueTask
  <2>2. CASE /\ NoStart /\ UNCHANGED pendingMessages
             /\ pendingTasks' = [pendingTasks EXCEPT ![g] = Append(@, t)]
    <3>1. /\ UNCHANGED <<runs, phase, cont, handlerSet, retryTimer>> /\ cont = NoCont
          /\ \A h : InFlight(h) <=> InFlight(h)'
          /\ shuttingDown' = shuttingDown
      BY <1>2, <2>2 DEF NoStart, InFlight, EnqueueTask, EventLoopFree, shuttingDown
    <3>2. \A h \in Groups : Contains(waitingGroups, h) => Contains(waitingGroups, h)'
      <4>1. waitingGroups' = waitingGroups \/ waitingGroups' = WaitingWith(g)
        BY <1>2 DEF EnqueueTask
      <4>2. CASE waitingGroups' = waitingGroups
        BY <4>2
      <4>3. CASE waitingGroups' = WaitingWith(g)
        <5>1. \A h \in Groups : Contains(waitingGroups, h) => Contains(WaitingWith(g), h)
          BY WaitingWithFacts DEF TypeOK
        <5> QED  BY <4>3, <5>1
      <4> QED  BY <4>1, <4>2, <4>3
    <3>3. Awake(g)'
      <4>1. CASE phase[g] # "idle"
        BY <3>1, <4>1 DEF WakeInv, Awake
      <4>2. CASE /\ \/ activeCount >= EffectiveMaxConcurrent
                    \/ activeTaskCount >= MaxConcurrentTasks
                 /\ waitingGroups' = WaitingWith(g)
        <5>1. Contains(waitingGroups, g)'
          BY <4>2, WaitingWithFacts DEF TypeOK
        <5>2. runs' # {}
          BY <3>1, <4>2, TakenSlot
        <5> QED  BY <5>1, <5>2 DEF Awake
      <4>3. RunTask(g, t) => FALSE
        <5>1. ASSUME RunTask(g, t) PROVE FALSE
          <6>1. activeCount' = activeCount + 1 /\ activeCount' = activeCount
            BY <2>2, <5>1 DEF RunTask, NoStart
          <6> QED  BY <6>1 DEF TypeOK
        <5> QED  BY <5>1
      <4> QED  BY <1>2, <4>1, <4>2, <4>3, Zenon DEF EnqueueTask
    <3>4. ASSUME NEW h \in Groups, ~shuttingDown', HasWork(h)' PROVE Awake(h)'
      <4>1. CASE h = g
        BY <3>3, <4>1
      <4>2. CASE h # g
        <5>1. HasWork(h) /\ ~shuttingDown /\ pendingTasks'[h] = pendingTasks[h]
          BY <2>2, <3>1, <3>4, <4>2 DEF HasWork, TypeOK
        <5>2. Awake(h)
          BY <5>1 DEF WakeInv
        <5> QED  BY <3>1, <3>2, <5>1, <5>2 DEF Awake
      <4> QED  BY <4>1, <4>2
    <3>5. ASSUME NEW h \in Groups, phase'[h] # "idle" PROVE InFlight(h)'
      BY <3>1, <3>5 DEF WakeInv
    <3> QED  BY <3>4, <3>5 DEF WakeInv
  <2> QED  BY <1>2, <2>1, <2>2 DEF EnqueueTask
<1>3. CASE BackoffElapses(g)
  <2>1. \A h \in Groups : retryTimer[h] # "off" => retryTimer'[h] # "off"
    BY <1>3 DEF BackoffElapses, TypeOK
  <2> QED  BY <1>3, <2>1, QuietStep DEF BackoffElapses, InFlight, shuttingDown
<1>4. CASE RetryTimerFires(g)
  <2>1. \A h \in Groups \ {g} : retryTimer'[h] = retryTimer[h]
    BY <1>4 DEF RetryTimerFires, TypeOK
  <2>2. CASE ~shuttingDown /\ MessageCheck(g, FALSE)
    BY <1>4, <2>1, <2>2, MessageCheckWakes DEF RetryTimerFires, EventLoopFree
  <2>3. CASE shuttingDown /\ NoStart
    <3>1. shuttingDown'
      BY <1>4, <2>3 DEF RetryTimerFires, shuttingDown
    <3> QED  BY <2>3, <3>1 DEF WakeInv, NoStart, InFlight
  <2> QED  BY <1>4, <2>2, <2>3 DEF RetryTimerFires
<1> QED  BY <1>1, <1>2, <1>3, <1>4

LEMMA RunEndWakes ==
  ASSUME TypeOK, WakeInv, NEW x \in runs, RunEnds(x)
  PROVE  WakeInv'
<1> DEFINE g == x.group
<1>1. g \in Groups /\ FinishRun(x) /\ cont = NoCont
  BY DEF TypeOK, Run, RunEnds, MessageRunSucceeds, MessageRunFails, TaskRunEnds,
         CanFinish, EventLoopFree
<1>2. \A h \in Groups \ {g} : /\ phase'[h] = phase[h]
                              /\ retryTimer'[h] = retryTimer[h]
  BY <1>1 DEF FinishRun, TypeOK, RunEnds, MessageRunSucceeds, MessageRunFails,
              TaskRunEnds, ScheduleRetry
<1>3. phase'[g] = "idle" /\ cont' = [step |-> "drainGroup", group |-> g]
  BY <1>1 DEF FinishRun, TypeOK
<1>4. \A h : h # g /\ InFlight(h) => InFlight(h)'
  BY <1>1 DEF InFlight, FinishRun
<1>5. ASSUME NEW h \in Groups, phase'[h] # "idle" PROVE InFlight(h)'
  BY <1>2, <1>3, <1>4, <1>5 DEF WakeInv
<1>6. ASSUME ~shuttingDown', NEW h \in Groups, HasWork(h)' PROVE Awake(h)'
  <2>1. CASE h = g
    BY <1>3, <2>1 DEF Awake
  <2>2. CASE h # g
    <3>1. HasWork(h) /\ ~shuttingDown
      BY <1>1, <1>6 DEF FinishRun, HasWork, shuttingDown
    <3>2. Awake(h) /\ cont # [step |-> "drainGroup", group |-> h]
      BY <1>1, <3>1 DEF WakeInv, NoCont
    <3>3. cont' # NoCont /\ UNCHANGED <<waitingGroups, pendingTasks>>
      BY <1>1, <1>3 DEF FinishRun, NoCont
    <3> QED  BY <1>2, <1>4, <2>2, <3>2, <3>3 DEF Awake
  <2> QED  BY <2>1, <2>2
<1> QED  BY <1>5, <1>6 DEF WakeInv

LEMMA DrainGroupWakes ==
  ASSUME TypeOK, WakeInv, DrainGroup
  PROVE  WakeInv'
<1> DEFINE g == cont.group
<1>1. /\ g \in Groups /\ cont = [step |-> "drainGroup", group |-> g]
      /\ \A h \in Groups \ {g} : cont # [step |-> "drainGroup", group |-> h]
  BY DEF DrainGroup, TypeOK, Conts
<1>2. CASE RunForGroup(g) /\ UNCHANGED pendingTasks
  BY <1>1, <1>2, StartWakes DEF DrainGroup
<1>3. CASE /\ RunTask(g, Head(pendingTasks[g]))
           /\ pendingTasks' = [pendingTasks EXCEPT ![g] = Tail(@)]
  <2>1. \A h \in Groups \ {g} : pendingTasks'[h] = pendingTasks[h]
    BY <1>3 DEF TypeOK
  <2> QED  BY <1>1, <1>3, <2>1, StartWakes DEF DrainGroup
<1>4. CASE shuttingDown /\ NoStart
  <2>1. shuttingDown'
    BY <1>4 DEF DrainGroup, shuttingDown
  <2> QED  BY <1>4, <2>1 DEF WakeInv, NoStart, InFlight
<1>5. CASE /\ pendingTasks[g] = << >> /\ ~pendingMessages[g]
           /\ cont' = [step |-> "drainWaiting", group |-> None]
           /\ NoStart /\ UNCHANGED <<pendingMessages, pendingTasks>>
  <2>1. /\ UNCHANGED <<runs, phase, waitingGroups, retryTimer>>
        /\ shuttingDown' = shuttingDown /\ cont' # NoCont
        /\ \A h : InFlight(h) <=> InFlight(h)'
    BY <1>5 DEF DrainGroup, NoStart, InFlight, NoCont, shuttingDown
  <2>2. ASSUME ~shuttingDown', NEW h \in Groups, HasWork(h)' PROVE Awake(h)'
    <3>1. HasWork(h) /\ h # g
      BY <1>5, <2>2 DEF HasWork
    <3>2. Awake(h) /\ cont # [step |-> "drainGroup", group |-> h]
      BY <1>1, <2>1, <2>2, <3>1 DEF WakeInv
    <3> QED  BY <1>5, <2>1, <3>2 DEF Awake
  <2> QED  BY <2>1, <2>2 DEF WakeInv
<1> QED  BY <1>2, <1>3, <1>4, <1>5 DEF DrainGroup

LEMMA DrainWaitingWakes ==
  ASSUME TypeOK, RunsInv, WakeInv, DrainWaiting
  PROVE  WakeInv'
<1>1. cont.step = "drainWaiting" /\ \A h \in Groups : cont # [step |-> "drainGroup", group |-> h]
  BY DEF DrainWaiting
<1>2. ASSUME NEW i \in DOMAIN waitingGroups,
             waitingGroups' = RemoveAt(waitingGroups, i)
      PROVE  /\ waitingGroups[i] \in Groups
             /\ \A h \in Groups \ {waitingGroups[i]} :
                  Contains(waitingGroups, h) => Contains(waitingGroups, h)'
  <2>1. \A h \in Groups : Contains(waitingGroups, h) /\ h # waitingGroups[i]
                            => Contains(RemoveAt(waitingGroups, i), h)
    BY SpliceFacts DEF TypeOK
  <2> QED  BY <1>2, <2>1, ElementOfSeq, LenProperties DEF TypeOK
<1>3. ASSUME NEW i \in DOMAIN waitingGroups,
             waitingGroups' = RemoveAt(waitingGroups, i),
             RunForGroup(waitingGroups[i]), UNCHANGED pendingTasks
      PROVE  WakeInv'
  BY <1>1, <1>2, <1>3, StartWakes DEF DrainWaiting
<1>4. ASSUME NEW i \in DOMAIN waitingGroups,
             waitingGroups' = RemoveAt(waitingGroups, i),
             RunTask(waitingGroups[i], Head(pendingTasks[waitingGroups[i]])),
             pendingTasks' = [pendingTasks EXCEPT ![waitingGroups[i]] = Tail(@)]
      PROVE  WakeInv'
  <2>1. \A h \in Groups \ {waitingGroups[i]} : pendingTasks'[h] = pendingTasks[h]
    BY <1>2, <1>4 DEF TypeOK
  <2> QED  BY <1>1, <1>2, <1>4, <2>1, StartWakes DEF DrainWaiting
<1>5. ASSUME \/ activeCount >= EffectiveMaxConcurrent
             \/ \A j \in DOMAIN waitingGroups :
                  ~WaitingForMessages(j) /\ ~WaitingForTask(j),
             cont' = NoCont, NoStart,
             UNCHANGED <<waitingGroups, pendingMessages, pendingTasks>>
      PROVE  WakeInv'
  <2>1. /\ UNCHANGED <<runs, phase, retryTimer>> /\ shuttingDown' = shuttingDown
        /\ \A h : InFlight(h) <=> InFlight(h)'
    BY <1>5 DEF DrainWaiting, NoStart, InFlight, shuttingDown
  <2>2. ASSUME NEW h \in Groups, HasWork(h), Contains(waitingGroups, h)
        PROVE  runs # {}
    <3>1. CASE activeCount >= EffectiveMaxConcurrent
      BY <3>1, TakenSlot
    <3>2. CASE \A j \in DOMAIN waitingGroups :
                 ~WaitingForMessages(j) /\ ~WaitingForTask(j)
      <4>1. PICK j \in DOMAIN waitingGroups : waitingGroups[j] = h
        BY <2>2, LenProperties DEF Contains, TypeOK
      <4>2. ~(activeTaskCount < MaxConcurrentTasks)
        BY <2>2, <3>2, <4>1 DEF HasWork, WaitingForMessages, WaitingForTask
      <4>3. activeTaskCount >= MaxConcurrentTasks
        BY <4>2, LimitsPositive DEF TypeOK
      <4> QED  BY <4>3, TakenSlot
    <3> QED  BY <1>5, <3>1, <3>2
  <2>3. ASSUME ~shuttingDown', NEW h \in Groups, HasWork(h)' PROVE Awake(h)'
    <3>1. HasWork(h) /\ Awake(h)
      BY <1>5, <2>1, <2>3 DEF HasWork, WakeInv
    <3> QED  BY <1>1, <1>5, <2>1, <2>2, <3>1 DEF Awake
  <2> QED  BY <2>1, <2>3 DEF WakeInv
<1> QED  BY <1>3, <1>4, <1>5 DEF DrainWaiting

LEMMA OtherWakes ==
  ASSUME TypeOK, WakeInv,
         \/ SetProcessMessagesFn \/ EnterRecoveryMode \/ EndRecoveryMode
         \/ BeginShutdown \/ ShutdownTerm \/ ShutdownKill
         \/ \E p \in Procs : ProcessExits(p) \/ StopKillTimer(p)
         \/ \E g \in Groups : PostCloseTerm(g) \/ PostCloseKill(g) \/ KillProcess(g)
         \/ \E g \in Groups : \E reason \in LoopCloseReasons : LoopCloses(g, reason)
         \/ \E x \in runs : \E p \in Procs : \E d \in IpcDirChoices :
              RegisterProcess(x, p, d)
         \/ \E x \in runs : \E reason \in TurnCloseReasons : TurnCloses(x, reason)
         \/ UNCHANGED vars
  PROVE  WakeInv'
<1>1. CASE SetProcessMessagesFn \/ EnterRecoveryMode \/ EndRecoveryMode
  <2>1. /\ UNCHANGED <<runs, phase, pendingMessages, pendingTasks, waitingGroups,
                       retryTimer, shutdown>>
        /\ \/ UNCHANGED <<handlerSet, cont>>
           \/ cont = NoCont /\ cont' = [step |-> "drainWaiting", group |-> None]
    BY <1>1 DEF SetProcessMessagesFn, EnterRecoveryMode, EndRecoveryMode, EventLoopFree
  <2> QED  BY <2>1, QuietStep DEF InFlight, shuttingDown
<1>2. CASE BeginShutdown
  <2>1. shuttingDown' /\ UNCHANGED runs
    BY <1>2 DEF BeginShutdown, shuttingDown
  <2>2. \A g \in Groups : phase'[g] # "idle" => phase[g] # "idle"
    BY <1>2 DEF BeginShutdown, Closing
  <2> QED  BY <2>1, <2>2 DEF WakeInv, InFlight
<1>3. CASE ShutdownTerm \/ ShutdownKill
  <2>1. shuttingDown' /\ UNCHANGED <<runs, phase>>
    BY <1>3 DEF ShutdownTerm, ShutdownKill, ShutdownWaitEnds, shuttingDown
  <2> QED  BY <2>1 DEF WakeInv, InFlight
<1>4. CASE \/ \E p \in Procs : ProcessExits(p) \/ StopKillTimer(p)
           \/ \E g \in Groups : PostCloseTerm(g) \/ PostCloseKill(g) \/ KillProcess(g)
           \/ UNCHANGED vars
  <2>1. UNCHANGED schedVars
    BY <1>4 DEF ProcessExits, StopKillTimer, PostCloseTerm, PostCloseKill,
                KillProcess, vars
  <2> QED  BY <2>1, QuietStep DEF schedVars, InFlight, shuttingDown
<1>5. ASSUME NEW x \in runs, NEW y, y.group = x.group,
             runs' = (runs \ {x}) \cup {y},
             \A h \in Groups : phase'[h] # "idle" => phase[h] # "idle",
             UNCHANGED <<pendingMessages, pendingTasks, waitingGroups, retryTimer,
                         shutdown, handlerSet, cont>>
      PROVE  WakeInv'
  <2>1. \A h : InFlight(h) => InFlight(h)'
    BY <1>5 DEF InFlight
  <2> QED  BY <1>5, <2>1, QuietStep DEF shuttingDown
<1>6. ASSUME NEW x \in runs,
             \E p \in Procs : \E d \in IpcDirChoices : RegisterProcess(x, p, d)
      PROVE  WakeInv'
  <2>1. [x EXCEPT !.spawns = @ + 1].group = x.group
    OBVIOUS
  <2> QED  BY <1>5, <1>6, <2>1 DEF RegisterProcess
<1>7. ASSUME NEW g, NEW run, NEW reason, CloseStdin(g, run, reason)
      PROVE  /\ \A h \in Groups : phase'[h] # "idle" => phase[h] # "idle"
             /\ UNCHANGED <<pendingMessages, pendingTasks, waitingGroups,
                            retryTimer, shutdown, handlerSet, cont>>
  BY <1>7 DEF CloseStdin, Closing
<1>8. ASSUME NEW x \in runs, NEW reason \in TurnCloseReasons, TurnCloses(x, reason)
      PROVE  WakeInv'
  <2>1. [x EXCEPT !.closeRequested = TRUE].group = x.group
    OBVIOUS
  <2> QED  BY <1>5, <1>7, <1>8, <2>1 DEF TurnCloses
<1>9. ASSUME NEW g \in Groups, NEW reason \in LoopCloseReasons, LoopCloses(g, reason)
      PROVE  WakeInv'
  BY <1>7, <1>9, QuietStep DEF LoopCloses, InFlight, shuttingDown
<1> QED  BY <1>1, <1>2, <1>3, <1>4, <1>6, <1>8, <1>9

LEMMA WakeStep ==
  TypeOK /\ RunsInv /\ WakeInv /\ [Next]_vars => WakeInv'
<1> SUFFICES ASSUME TypeOK, RunsInv, WakeInv, [Next]_vars PROVE WakeInv'
  OBVIOUS
<1> QED
  BY EnqueueWakes, RunEndWakes, DrainGroupWakes, DrainWaitingWakes, OtherWakes,
     Zenon DEF Next, Timers

LEMMA InitInvariants == Init => TypeOK /\ RunsInv /\ CapacityInv /\ WakeInv
<1> SUFFICES ASSUME Init PROVE RunsInv /\ CapacityInv /\ WakeInv
  BY InitTypes
<1>1. runs = {} /\ TaskRuns(runs) = {} /\ activeCount = 0 /\ activeTaskCount = 0
  BY DEF Init, TaskRuns
<1>2. RunsInv
  BY <1>1, FS_EmptySet DEF RunsInv, UniqueIds, CountersExact, TaskRuns
<1>3. CapacityInv
  BY <1>1, LimitsAssumption DEF Init, CapacityInv, Capacity, NoCont
<1>4. WakeInv
  BY DEF Init, WakeInv, HasWork
<1> QED  BY <1>2, <1>3, <1>4

\* Whatever happens to the group's own runs, to other groups, to the retry
\* timer and to the limits, pending work keeps a wake-up.
THEOREM WorkNeverStranded == Spec => []NoStrandedWork
<1>1. WakeInv => NoStrandedWork
  <2> SUFFICES ASSUME WakeInv, EventLoopFree, ~shuttingDown, handlerSet,
                      NEW g \in Groups, HasWork(g)
               PROVE  \/ InFlight(g)
                      \/ Contains(waitingGroups, g) /\ runs # {}
                      \/ pendingTasks[g] = << >> /\ retryTimer[g] # "off"
    BY DEF NoStrandedWork
  <2>1. Awake(g) /\ cont = NoCont
    BY DEF WakeInv, EventLoopFree
  <2> QED  BY <2>1 DEF Awake, NoCont
<1> QED
  BY <1>1, InitInvariants, StepTypes, RunsInductive, WakeStep, PTL DEF Spec

-----------------------------------------------------------------------------
(* Shutdown leaves no registered process without SIGKILL *)

StopInv ==
  /\ ~shuttingDown => shutdownProcs = {}
  /\ ShutdownStopsRegistered

\* A step that sends no signal starts no process and keeps the stage.
LEMMA StopQuiet ==
  ASSUME StopInv, UNCHANGED <<shutdown, shutdownProcs, sig>>,
         \A p \in shutdownProcs : live'[p] = live[p] \/ live'[p] = None
  PROVE  StopInv'
BY DEF StopInv, ShutdownStopsRegistered, shuttingDown

\* Between callbacks the program has not exited: what a signal or a new
\* process does then is not yet judged.
LEMMA StopEarly ==
  ASSUME StopInv, EventLoopFree, UNCHANGED <<shutdown, shutdownProcs>>
  PROVE  StopInv'
BY DEF StopInv, ShutdownStopsRegistered, shuttingDown, EventLoopFree

LEMMA StopStep == TypeOK /\ StopInv /\ [Next]_vars => StopInv'
<1> SUFFICES ASSUME TypeOK, StopInv, [Next]_vars PROVE StopInv'
  OBVIOUS
<1>1. CASE UNCHANGED <<shutdown, shutdownProcs, sig, live>>
  BY <1>1, StopQuiet
<1>2. ASSUME NEW g \in Groups,
             \/ \E d \in IpcDirChoices : EnqueueMessageCheck(g, d)
             \/ \E t \in Tasks : EnqueueTask(g, t)
             \/ BackoffElapses(g) \/ RetryTimerFires(g)
             \/ \E reason \in LoopCloseReasons : LoopCloses(g, reason)
      PROVE  UNCHANGED <<shutdown, shutdownProcs, sig, live>>
  BY <1>2 DEF EnqueueMessageCheck, EnqueueTask, BackoffElapses, RetryTimerFires,
              LoopCloses, CloseStdin, procVars
<1>3. ASSUME NEW x \in runs,
             RunEnds(x) \/ \E reason \in TurnCloseReasons : TurnCloses(x, reason)
      PROVE  UNCHANGED <<shutdown, shutdownProcs, sig, live>>
  BY <1>3 DEF RunEnds, MessageRunSucceeds, MessageRunFails, TaskRunEnds,
              FinishRun, TurnCloses, CloseStdin
<1>4. ASSUME \/ SetProcessMessagesFn \/ EnterRecoveryMode \/ EndRecoveryMode
             \/ DrainGroup \/ DrainWaiting \/ UNCHANGED vars
      PROVE  UNCHANGED <<shutdown, shutdownProcs, sig, live>>
  BY <1>4 DEF SetProcessMessagesFn, EnterRecoveryMode, EndRecoveryMode,
              DrainGroup, DrainWaiting, vars, schedVars, procVars
<1>5. ASSUME \/ \E g \in Groups : \/ PostCloseTerm(g) \/ PostCloseKill(g)
                                  \/ KillProcess(g)
             \/ \E p \in Procs : StopKillTimer(p)
             \/ \E x \in runs : \E p \in Procs : \E d \in IpcDirChoices :
                  RegisterProcess(x, p, d)
      PROVE  StopInv'
  <2>1. EventLoopFree /\ UNCHANGED <<shutdown, shutdownProcs>>
    BY <1>5 DEF PostCloseTerm, PostCloseKill, KillProcess, StopKillTimer,
                RegisterProcess, schedVars
  <2> QED  BY <2>1, StopEarly
<1>6. ASSUME NEW p \in Procs, ProcessExits(p) PROVE StopInv'
  <2>1. UNCHANGED <<shutdown, shutdownProcs, sig>>
    BY <1>6 DEF ProcessExits, schedVars
  <2>2. \A q \in shutdownProcs : live'[q] = live[q] \/ live'[q] = None
    BY <1>6 DEF ProcessExits, TypeOK
  <2> QED  BY <2>1, <2>2, StopQuiet
<1>7. CASE BeginShutdown
  <2>1. shutdown' # "no" /\ (shutdown' = "exited" => shutdownProcs' = {})
    BY <1>7 DEF BeginShutdown
  <2> QED  BY <2>1 DEF StopInv, ShutdownStopsRegistered, shuttingDown
<1>8. CASE ShutdownTerm
  <2>1. shutdown' # "no" /\ UNCHANGED <<shutdownProcs, live>>
    BY <1>8 DEF ShutdownTerm, ShutdownWaitEnds
  <2>2. shutdown' = "exited" => \A p \in shutdownProcs : ~Alive(p)
    BY <1>8 DEF ShutdownTerm, ShutdownWaitEnds
  <2>3. shutdown' = "exited" => \A p \in shutdownProcs : live[p] = None
    BY <2>2, NoneAssumption DEF Alive, TypeOK
  <2> QED  BY <2>1, <2>3 DEF StopInv, ShutdownStopsRegistered, shuttingDown
<1>9. CASE ShutdownKill
  <2>1. shutdown' # "no" /\ UNCHANGED <<shutdownProcs, live>>
    BY <1>9 DEF ShutdownKill, ShutdownWaitEnds
  <2>2. sig' = [p \in Procs |-> IF p \in shutdownProcs /\ live[p] # None /\ sig[p] # "KILL"
                                THEN "KILL" ELSE sig[p]]
    BY <1>9 DEF ShutdownKill, ShutdownWaitEnds, Signal
  <2>3. \A p \in shutdownProcs : live[p] = None \/ sig'[p] = "KILL"
    BY <2>2 DEF TypeOK
  <2> QED  BY <2>1, <2>3 DEF StopInv, ShutdownStopsRegistered, shuttingDown
<1> QED
  BY <1>1, <1>2, <1>3, <1>4, <1>5, <1>6, <1>7, <1>8, <1>9, Zenon DEF Next, Timers

\* When the program exits, every agent process that was registered when its
\* shutdown began is gone or has been sent SIGKILL, whatever other timers
\* signal, which processes exit and which new ones are registered meanwhile.
THEOREM ShutdownCorrect == Spec => []ShutdownStopsRegistered
<1>1. Init => TypeOK /\ StopInv
  <2>1. Init => StopInv
    BY DEF Init, StopInv, ShutdownStopsRegistered, shuttingDown
  <2> QED  BY <2>1, InitTypes
<1>2. StopInv => ShutdownStopsRegistered
  BY DEF StopInv
<1> QED  BY <1>1, <1>2, StepTypes, StopStep, PTL DEF Spec

-----------------------------------------------------------------------------
(* No slot is left idle while a message waits for one.                     *)
(*                                                                         *)
(* enterRecoveryMode drains nothing: a recovery limit above the normal one *)
(* would leave new slots idle until a run ends.  Hence the premise         *)
(* RecoveryConcurrentAgents <= MaxConcurrentAgents.                        *)

\* A message check of g is due and nothing but a slot is missing.
Wants(g) == pendingMessages[g] /\ ~InFlight(g) /\ ~retryScheduled[g]

InLine ==
  ~shuttingDown =>
    \A g \in Groups : Wants(g) => \/ Contains(waitingGroups, g)
                                  \/ cont = [step |-> "drainGroup", group |-> g]

\* drainGroup looks at its own group before it gives the free slot away.
SlotsFull ==
  ~shuttingDown /\ handlerSet =>
    /\ cont = NoCont =>
         \A g \in Groups : Wants(g) => activeCount >= EffectiveMaxConcurrent
    /\ cont.step = "drainGroup" =>
         \A g \in Groups \ {cont.group} :
           Wants(g) => activeCount + 1 >= EffectiveMaxConcurrent

SlotInv == InLine /\ SlotsFull

LEMMA SlotStart ==
  ASSUME TypeOK, SlotInv, NEW g \in Groups, NEW t,
         RunForGroup(g) \/ RunTask(g, t),
         \A h \in Groups \ {g} :
           Contains(waitingGroups, h) => Contains(waitingGroups, h)',
         \A h \in Groups \ {g} : retryScheduled'[h] = retryScheduled[h],
         \/ cont = NoCont /\ cont' = NoCont
         \/ cont.step = "drainWaiting" /\ cont' = cont
         \/ cont = [step |-> "drainGroup", group |-> g] /\ cont' = NoCont,
         UNCHANGED <<shutdown, handlerSet, recovery>>
  PROVE  SlotInv'
<1>1. InFlight(g)' /\ \A h : InFlight(h) => InFlight(h)'
  BY StartInFlight
<1>2. activeCount' = activeCount + 1
  BY DEF RunForGroup, RunTask
<1>3. /\ EffectiveMaxConcurrent' = EffectiveMaxConcurrent
      /\ shuttingDown' = shuttingDown /\ handlerSet' = handlerSet
  BY DEF EffectiveMaxConcurrent, shuttingDown
<1>4. ASSUME NEW h \in Groups, Wants(h)' PROVE Wants(h) /\ h # g
  <2>1. h # g
    BY <1>1, <1>4 DEF Wants
  <2>2. pendingMessages'[h] = pendingMessages[h]
    BY <2>1 DEF RunForGroup, RunTask, TypeOK
  <2> QED  BY <1>1, <1>4, <2>1, <2>2 DEF Wants
<1>5. InLine'
  <2> SUFFICES ASSUME ~shuttingDown, NEW h \in Groups, Wants(h)'
               PROVE  Contains(waitingGroups, h)'
    BY <1>3 DEF InLine
  <2>1. Wants(h) /\ h # g
    BY <1>4
  <2>2. cont # [step |-> "drainGroup", group |-> h]
    BY <2>1 DEF NoCont
  <2> QED  BY <2>1, <2>2 DEF SlotInv, InLine
<1>6. SlotsFull'
  <2>1. cont'.step # "drainGroup"
    BY DEF NoCont
  <2> SUFFICES ASSUME ~shuttingDown, handlerSet, cont' = NoCont,
                      NEW h \in Groups, Wants(h)'
               PROVE  activeCount + 1 >= EffectiveMaxConcurrent
    BY <1>2, <1>3, <2>1 DEF SlotsFull
  <2>2. Wants(h) /\ h # g
    BY <1>4
  <2>3. CASE cont = NoCont
    <3>1. activeCount >= EffectiveMaxConcurrent
      BY <2>2, <2>3 DEF SlotInv, SlotsFull
    <3> QED  BY <3>1, LimitsPositive DEF TypeOK
  <2>4. CASE cont = [step |-> "drainGroup", group |-> g]
    <3>1. cont.step = "drainGroup" /\ cont.group = g
      BY <2>4
    <3> QED  BY <2>2, <3>1 DEF SlotInv, SlotsFull
  <2> QED  BY <2>3, <2>4 DEF NoCont
<1> QED  BY <1>5, <1>6 DEF SlotInv

\* A step that starts and ends no run keeps SlotInv if no group begins to
\* want a slot, none leaves the line and the limit stays or is looked at.
LEMMA SlotQuiet ==
  ASSUME SlotInv,
         \A h \in Groups : Wants(h)' => Wants(h),
         UNCHANGED <<waitingGroups, activeCount>>,
         ~shuttingDown' => ~shuttingDown,
         \/ UNCHANGED <<handlerSet, cont, recovery>>
         \/ cont = NoCont /\ cont' = [step |-> "drainWaiting", group |-> None]
  PROVE  SlotInv'
<1>1. CASE UNCHANGED <<handlerSet, cont, recovery>>
  <2>1. EffectiveMaxConcurrent' = EffectiveMaxConcurrent
    BY <1>1 DEF EffectiveMaxConcurrent
  <2>2. InLine'
    BY <1>1 DEF SlotInv, InLine
  <2>3. SlotsFull'
    BY <1>1, <2>1 DEF SlotInv, SlotsFull
  <2> QED  BY <2>2, <2>3 DEF SlotInv
<1>2. CASE cont = NoCont /\ cont' = [step |-> "drainWaiting", group |-> None]
  <2>1. SlotsFull'
    BY <1>2 DEF SlotsFull, NoCont
  <2>2. InLine'
    BY <1>2 DEF SlotInv, InLine, NoCont
  <2> QED  BY <2>1, <2>2 DEF SlotInv
<1> QED  BY <1>1, <1>2

\* A message check that is refused a run finds the group busy, backing off
\* or all slots taken.
LEMMA MessageCheckSlots ==
  ASSUME TypeOK, WakeInv, SlotInv, NEW g \in Groups, NEW b \in BOOLEAN,
         MessageCheck(g, b), cont = NoCont, cont' = NoCont,
         b => retryScheduled'[g],
         \A h \in Groups \ {g} : retryScheduled'[h] = retryScheduled[h],
         UNCHANGED <<shutdown, handlerSet, recovery>>
  PROVE  SlotInv'
<1>1. CASE RunForGroup(g) /\ UNCHANGED waitingGroups
  BY <1>1, SlotStart
<1>2. CASE /\ NoStart
           /\ pendingMessages' = [pendingMessages EXCEPT ![g] = TRUE]
  <2>0. ~RunForGroup(g)
    <3>1. activeCount' = activeCount /\ (RunForGroup(g) => activeCount' = activeCount + 1)
      BY <1>2 DEF NoStart, RunForGroup
    <3> QED  BY <3>1 DEF TypeOK
  <2>1. /\ UNCHANGED <<runs, phase, activeCount>>
        /\ \A h : InFlight(h) <=> InFlight(h)'
        /\ EffectiveMaxConcurrent' = EffectiveMaxConcurrent
        /\ shuttingDown' = shuttingDown
    BY <1>2 DEF NoStart, InFlight, EffectiveMaxConcurrent, shuttingDown
  <2>2. \A h \in Groups \ {g} : Wants(h)' => Wants(h)
    BY <1>2, <2>1 DEF Wants, TypeOK
  <2>3. \A h \in Groups : Contains(waitingGroups, h) => Contains(waitingGroups, h)'
    <3>1. waitingGroups' = waitingGroups \/ waitingGroups' = WaitingWith(g)
      BY DEF MessageCheck
    <3>2. CASE waitingGroups' = waitingGroups
      BY <3>2
    <3>3. CASE waitingGroups' = WaitingWith(g)
      <4>1. \A h \in Groups : Contains(waitingGroups, h) => Contains(WaitingWith(g), h)
        BY WaitingWithFacts DEF TypeOK
      <4> QED  BY <3>3, <4>1
    <3> QED  BY <3>1, <3>2, <3>3
  <2>4. Wants(g)' => /\ Contains(waitingGroups, g)'
                     /\ handlerSet => activeCount >= EffectiveMaxConcurrent
    <3> SUFFICES ASSUME Wants(g)'
                 PROVE  /\ Contains(waitingGroups, g)'
                        /\ handlerSet => activeCount >= EffectiveMaxConcurrent
      OBVIOUS
    <3>1. phase[g] = "idle" /\ ~b
      BY <2>1 DEF Wants, WakeInv
    <3>2. /\ waitingGroups' = WaitingWith(g)
          /\ ~handlerSet \/ activeCount >= EffectiveMaxConcurrent
      BY <2>0, <3>1 DEF MessageCheck
    <3>3. Contains(WaitingWith(g), g)
      BY WaitingWithFacts DEF TypeOK
    <3> QED  BY <3>2, <3>3
  <2>5. InLine'
    <3> SUFFICES ASSUME ~shuttingDown, NEW h \in Groups, Wants(h)'
                 PROVE  Contains(waitingGroups, h)'
      BY <2>1 DEF InLine
    <3>1. CASE h = g
      BY <2>4, <3>1
    <3>2. CASE h # g
      BY <2>2, <2>3, <3>2 DEF SlotInv, InLine, NoCont
    <3> QED  BY <3>1, <3>2
  <2>6. SlotsFull'
    <3> SUFFICES ASSUME ~shuttingDown, handlerSet, NEW h \in Groups, Wants(h)'
                 PROVE  activeCount >= EffectiveMaxConcurrent
      BY <2>1 DEF SlotsFull, NoCont
    <3>1. CASE h = g
      BY <2>4, <3>1
    <3>2. CASE h # g
      BY <2>2, <3>2 DEF SlotInv, SlotsFull
    <3> QED  BY <3>1, <3>2
  <2> QED  BY <2>5, <2>6 DEF SlotInv
<1> QED  BY <1>1, <1>2 DEF MessageCheck

LEMMA EnqueueSlots ==
  ASSUME TypeOK, WakeInv, SlotInv, NEW g \in Groups,
         \/ \E d \in IpcDirChoices : EnqueueMessageCheck(g, d)
         \/ \E t \in Tasks : EnqueueTask(g, t)
         \/ BackoffElapses(g) \/ RetryTimerFires(g)
  PROVE  SlotInv'
<1>1. ASSUME NEW d \in IpcDirChoices, EnqueueMessageCheck(g, d) PROVE SlotInv'
  <2>1. BackoffActive(g) \in BOOLEAN /\ (BackoffActive(g) => retryScheduled[g])
    BY DEF BackoffActive, TypeOK
  <2> QED
    BY <1>1, <2>1, MessageCheckSlots DEF EnqueueMessageCheck, EventLoopFree
<1>2. ASSUME NEW t \in Tasks, EnqueueTask(g, t) PROVE SlotInv'
  <2>1. CASE RunTask(g, t) /\ UNCHANGED <<pendingTasks, waitingGroups>>
    BY <1>2, <2>1, SlotStart DEF EnqueueTask, EventLoopFree
  <2>2. CASE NoStart /\ UNCHANGED pendingMessages
    <3>1. /\ UNCHANGED <<runs, activeCount, cont, handlerSet, recovery,
                         retryScheduled, pendingMessages>>
          /\ EffectiveMaxConcurrent' = EffectiveMaxConcurrent
          /\ shuttingDown' = shuttingDown
      BY <1>2, <2>2 DEF NoStart, EnqueueTask, EffectiveMaxConcurrent, shuttingDown
    <3>2. \A h \in Groups : Wants(h)' <=> Wants(h)
      BY <3>1 DEF Wants, InFlight
    <3>3. \A h \in Groups : Contains(waitingGroups, h) => Contains(waitingGroups, h)'
      <4>1. waitingGroups' = waitingGroups \/ waitingGroups' = WaitingWith(g)
        BY <1>2 DEF EnqueueTask
      <4>2. CASE waitingGroups' = waitingGroups
        BY <4>2
      <4>3. CASE waitingGroups' = WaitingWith(g)
        <5>1. \A h \in Groups : Contains(waitingGroups, h) => Contains(WaitingWith(g), h)
          BY WaitingWithFacts DEF TypeOK
        <5> QED  BY <4>3, <5>1
      <4> QED  BY <4>1, <4>2, <4>3
    <3>4. InLine'
      BY <3>1, <3>2, <3>3 DEF SlotInv, InLine
    <3>5. SlotsFull'
      BY <3>1, <3>2 DEF SlotInv, SlotsFull
    <3> QED  BY <3>4, <3>5 DEF SlotInv
  <2> QED  BY <1>2, <2>1, <2>2 DEF EnqueueTask
<1>3. CASE BackoffElapses(g)
  BY <1>3, SlotQuiet DEF BackoffElapses, Wants, InFlight, shuttingDown
<1>4. CASE RetryTimerFires(g)
  <2>1. \A h \in Groups \ {g} : retryScheduled'[h] = retryScheduled[h]
    BY <1>4 DEF RetryTimerFires, TypeOK
  <2>2. CASE ~shuttingDown /\ MessageCheck(g, FALSE)
    BY <1>4, <2>1, <2>2, MessageCheckSlots DEF RetryTimerFires, EventLoopFree
  <2>3. CASE shuttingDown
    BY <1>4, <2>3 DEF RetryTimerFires, shuttingDown, SlotInv, InLine, SlotsFull
  <2> QED  BY <1>4, <2>2, <2>3 DEF RetryTimerFires
<1> QED  BY <1>1, <1>2, <1>3, <1>4

LEMMA RunEndSlots ==
  ASSUME TypeOK, SlotInv, NEW x \in runs, RunEnds(x)
  PROVE  SlotInv'
<1> DEFINE g == x.group
<1>1. g \in Groups /\ FinishRun(x) /\ cont = NoCont /\ handlerSet
  BY DEF TypeOK, Run, RunEnds, MessageRunSucceeds, MessageRunFails, TaskRunEnds,
         CanFinish, EventLoopFree
<1>2. \A h \in Groups \ {g} : retryScheduled'[h] = retryScheduled[h]
  BY <1>1 DEF TypeOK, RunEnds, MessageRunSucceeds, MessageRunFails,
              TaskRunEnds, ScheduleRetry
<1>3. /\ cont' = [step |-> "drainGroup", group |-> g]
      /\ activeCount' = activeCount - 1
      /\ UNCHANGED <<pendingMessages, waitingGroups, handlerSet, shutdown>>
      /\ EffectiveMaxConcurrent' = EffectiveMaxConcurrent
      /\ shuttingDown' = shuttingDown
  BY <1>1 DEF FinishRun, EffectiveMaxConcurrent, shuttingDown
<1>4. \A h : h # g /\ InFlight(h) => InFlight(h)'
  BY <1>1 DEF InFlight, FinishRun
<1>5. \A h \in Groups \ {g} : Wants(h)' => Wants(h)
  BY <1>2, <1>3, <1>4 DEF Wants
<1>6. InLine'
  BY <1>1, <1>3, <1>5 DEF SlotInv, InLine, NoCont
<1>7. SlotsFull'
  <2> SUFFICES ASSUME ~shuttingDown, NEW h \in Groups \ {g}, Wants(h)'
               PROVE  activeCount - 1 + 1 >= EffectiveMaxConcurrent
    BY <1>3 DEF SlotsFull, NoCont
  <2>1. activeCount >= EffectiveMaxConcurrent
    BY <1>1, <1>5 DEF SlotInv, SlotsFull
  <2> QED  BY <2>1, LimitsPositive DEF TypeOK
<1> QED  BY <1>6, <1>7 DEF SlotInv

LEMMA DrainGroupSlots ==
  ASSUME TypeOK, SlotInv, DrainGroup
  PROVE  SlotInv'
<1> DEFINE g == cont.group
<1>1. g \in Groups /\ cont = [step |-> "drainGroup", group |-> g]
  BY DEF DrainGroup, TypeOK, Conts
<1>2. CASE RunForGroup(g) /\ cont' = NoCont
  BY <1>1, <1>2, SlotStart DEF DrainGroup
<1>3. CASE RunTask(g, Head(pendingTasks[g])) /\ cont' = NoCont
  BY <1>1, <1>3, SlotStart DEF DrainGroup
<1>4. CASE shuttingDown
  BY <1>4 DEF DrainGroup, shuttingDown, SlotInv, InLine, SlotsFull
<1>5. CASE /\ ~pendingMessages[g] /\ NoStart
           /\ cont' = [step |-> "drainWaiting", group |-> None]
           /\ UNCHANGED <<pendingMessages, pendingTasks>>
  <2>1. /\ UNCHANGED <<runs, waitingGroups, retryScheduled>>
        /\ shuttingDown' = shuttingDown
    BY <1>5 DEF DrainGroup, NoStart, shuttingDown
  <2>2. \A h \in Groups : Wants(h)' => Wants(h) /\ h # g
    BY <1>5, <2>1 DEF Wants, InFlight
  <2>3. InLine'
    BY <1>1, <2>1, <2>2 DEF SlotInv, InLine
  <2>4. SlotsFull'
    BY <1>5 DEF SlotsFull, NoCont
  <2> QED  BY <2>3, <2>4 DEF SlotInv
<1> QED  BY <1>2, <1>3, <1>4, <1>5 DEF DrainGroup

LEMMA DrainWaitingSlots ==
  ASSUME TypeOK, SlotInv, DrainWaiting
  PROVE  SlotInv'
<1>1. ASSUME NEW i \in DOMAIN waitingGroups,
             waitingGroups' = RemoveAt(waitingGroups, i)
      PROVE  /\ waitingGroups[i] \in Groups
             /\ \A h \in Groups \ {waitingGroups[i]} :
                  Contains(waitingGroups, h) => Contains(waitingGroups, h)'
  <2>1. \A h \in Groups : Contains(waitingGroups, h) /\ h # waitingGroups[i]
                            => Contains(RemoveAt(waitingGroups, i), h)
    BY SpliceFacts DEF TypeOK
  <2> QED  BY <1>1, <2>1, ElementOfSeq, LenProperties DEF TypeOK
<1>2. ASSUME NEW i \in DOMAIN waitingGroups, NEW t,
             waitingGroups' = RemoveAt(waitingGroups, i),
             RunForGroup(waitingGroups[i]) \/ RunTask(waitingGroups[i], t),
             UNCHANGED cont
      PROVE  SlotInv'
  <2> DEFINE g == waitingGroups[i]
  <2>1. RunForGroup(g) \/ RunTask(g, t)
    BY <1>1, <1>2
  <2>2. \A h \in Groups \ {g} : Contains(waitingGroups, h) => Contains(waitingGroups, h)'
    BY <1>1, <1>2
  <2>3. g \in Groups
    BY <1>1, <1>2
  <2>4. /\ cont.step = "drainWaiting" /\ cont' = cont
        /\ \A h \in Groups \ {g} : retryScheduled'[h] = retryScheduled[h]
        /\ UNCHANGED <<shutdown, handlerSet, recovery>>
    BY <1>2 DEF DrainWaiting
  <2> HIDE DEF g
  <2> QED  BY <1>2, <2>1, <2>2, <2>3, <2>4, SlotStart
<1>3. ASSUME \/ activeCount >= EffectiveMaxConcurrent
             \/ \A j \in DOMAIN waitingGroups :
                  ~WaitingForMessages(j) /\ ~WaitingForTask(j),
             cont' = NoCont, NoStart,
             UNCHANGED <<waitingGroups, pendingMessages, pendingTasks>>
      PROVE  SlotInv'
  <2>1. /\ UNCHANGED <<runs, activeCount, retryScheduled, handlerSet>>
        /\ shuttingDown' = shuttingDown /\ cont.step = "drainWaiting"
        /\ EffectiveMaxConcurrent' = EffectiveMaxConcurrent
    BY <1>3 DEF DrainWaiting, NoStart, shuttingDown, EffectiveMaxConcurrent
  <2>2. \A h \in Groups : Wants(h)' <=> Wants(h)
    BY <1>3, <2>1 DEF Wants, InFlight
  <2>3. ASSUME ~shuttingDown, NEW h \in Groups, Wants(h)
        PROVE  Contains(waitingGroups, h) /\ activeCount >= EffectiveMaxConcurrent
    <3>1. cont # [step |-> "drainGroup", group |-> h]
      BY <2>1
    <3>2. Contains(waitingGroups, h)
      BY <2>3, <3>1 DEF SlotInv, InLine
    <3>3. PICK j \in DOMAIN waitingGroups : waitingGroups[j] = h
      BY <3>2, LenProperties DEF Contains, TypeOK
    <3>4. WaitingForMessages(j)
      BY <2>3, <3>3 DEF WaitingForMessages, Wants
    <3> QED  BY <1>3, <3>2, <3>4
  <2>4. InLine'
    BY <1>3, <2>1, <2>2, <2>3 DEF InLine
  <2>5. SlotsFull'
    BY <1>3, <2>1, <2>2, <2>3 DEF SlotsFull, NoCont
  <2> QED  BY <2>4, <2>5 DEF SlotInv
<1> QED  BY <1>2, <1>3 DEF DrainWaiting

LEMMA OtherSlots ==
  ASSUME TypeOK, SlotInv, RecoveryConcurrentAgents <= MaxConcurrentAgents,
         \/ SetProcessMessagesFn \/ EnterRecoveryMode \/ EndRecoveryMode
         \/ BeginShutdown \/ ShutdownTerm \/ ShutdownKill
         \/ \E p \in Procs : ProcessExits(p) \/ StopKillTimer(p)
         \/ \E g \in Groups : PostCloseTerm(g) \/ PostCloseKill(g) \/ KillProcess(g)
         \/ \E g \in Groups : \E reason \in LoopCloseReasons : LoopCloses(g, reason)
         \/ \E x \in runs : \E p \in Procs : \E d \in IpcDirChoices :
              RegisterProcess(x, p, d)
         \/ \E x \in runs : \E reason \in TurnCloseReasons : TurnCloses(x, reason)
         \/ UNCHANGED vars
  PROVE  SlotInv'
<1>1. CASE SetProcessMessagesFn \/ EndRecoveryMode
  BY <1>1, SlotQuiet DEF SetProcessMessagesFn, EndRecoveryMode, EventLoopFree,
                         Wants, InFlight, shuttingDown
<1>2. CASE EnterRecoveryMode
  <2>1. /\ UNCHANGED <<runs, pendingMessages, waitingGroups, retryScheduled,
                       activeCount, shutdown, handlerSet, cont>>
        /\ cont = NoCont /\ recovery = "before" /\ recovery' = "on"
    BY <1>2 DEF EnterRecoveryMode, EventLoopFree
  <2>2. /\ EffectiveMaxConcurrent' = RecoveryConcurrentAgents
        /\ EffectiveMaxConcurrent = MaxConcurrentAgents
    BY <2>1 DEF EffectiveMaxConcurrent
  <2>3. \A h \in Groups : Wants(h)' <=> Wants(h)
    BY <2>1 DEF Wants, InFlight
  <2>4. InLine'
    BY <2>1, <2>3 DEF SlotInv, InLine, shuttingDown
  <2>5. activeCount >= MaxConcurrentAgents => activeCount >= RecoveryConcurrentAgents
    BY LimitsAssumption DEF TypeOK
  <2>6. SlotsFull'
    BY <2>1, <2>2, <2>3, <2>5 DEF SlotInv, SlotsFull, shuttingDown, NoCont
  <2> QED  BY <2>4, <2>6 DEF SlotInv
<1>3. CASE BeginShutdown \/ ShutdownTerm \/ ShutdownKill
  <2>1. shuttingDown'
    BY <1>3 DEF BeginShutdown, ShutdownTerm, ShutdownKill, ShutdownWaitEnds,
                shuttingDown
  <2> QED  BY <2>1 DEF SlotInv, InLine, SlotsFull
<1>4. CASE \/ \E p \in Procs : ProcessExits(p) \/ StopKillTimer(p)
           \/ \E g \in Groups : PostCloseTerm(g) \/ PostCloseKill(g) \/ KillProcess(g)
           \/ UNCHANGED vars
  <2>1. UNCHANGED schedVars
    BY <1>4 DEF ProcessExits, StopKillTimer, PostCloseTerm, PostCloseKill,
                KillProcess, vars
  <2> QED  BY <2>1, SlotQuiet DEF schedVars, Wants, InFlight, shuttingDown
<1>5. ASSUME NEW x \in runs, NEW y, y.group = x.group,
             runs' = (runs \ {x}) \cup {y},
             UNCHANGED <<pendingMessages, waitingGroups, activeCount, retryScheduled,
                         shutdown, handlerSet, cont, recovery>>
      PROVE  SlotInv'
  <2>1. \A h : InFlight(h) => InFlight(h)'
    BY <1>5 DEF InFlight
  <2> QED  BY <1>5, <2>1, SlotQuiet DEF Wants, shuttingDown
<1>6. ASSUME NEW x \in runs,
             \E p \in Procs : \E d \in IpcDirChoices : RegisterProcess(x, p, d)
      PROVE  SlotInv'
  <2>1. [x EXCEPT !.spawns = @ + 1].group = x.group
    OBVIOUS
  <2> QED  BY <1>5, <1>6, <2>1 DEF RegisterProcess
<1>7. ASSUME NEW x \in runs, NEW reason \in TurnCloseReasons, TurnCloses(x, reason)
      PROVE  SlotInv'
  <2>1. [x EXCEPT !.closeRequested = TRUE].group = x.group
    OBVIOUS
  <2> QED  BY <1>5, <1>7, <2>1 DEF TurnCloses, CloseStdin
<1>8. ASSUME NEW g \in Groups, NEW reason \in LoopCloseReasons, LoopCloses(g, reason)
      PROVE  SlotInv'
  BY <1>8, SlotQuiet DEF LoopCloses, CloseStdin, Wants, InFlight, shuttingDown
<1> QED  BY <1>1, <1>2, <1>3, <1>4, <1>6, <1>7, <1>8

LEMMA SlotStep ==
  RecoveryConcurrentAgents <= MaxConcurrentAgents =>
    (TypeOK /\ WakeInv /\ SlotInv /\ [Next]_vars => SlotInv')
<1> SUFFICES ASSUME RecoveryConcurrentAgents <= MaxConcurrentAgents,
                    TypeOK, WakeInv, SlotInv, [Next]_vars
             PROVE  SlotInv'
  OBVIOUS
<1> QED
  BY EnqueueSlots, RunEndSlots, DrainGroupSlots, DrainWaitingSlots, OtherSlots,
     Zenon DEF Next, Timers

\* Between callbacks a message waits only while the limit is reached, for
\* every number of groups and tasks, provided that the limit of the recovery
\* mode is not the larger one.
THEOREM SlotsCorrect ==
  RecoveryConcurrentAgents <= MaxConcurrentAgents
    => (Spec => []MessagesWaitOnlyWhenFull)
<1> SUFFICES ASSUME RecoveryConcurrentAgents <= MaxConcurrentAgents
             PROVE  Spec => []MessagesWaitOnlyWhenFull
  OBVIOUS
<1>1. Init => SlotInv
  BY DEF Init, SlotInv, InLine, SlotsFull, Wants
<1>2. SlotInv => MessagesWaitOnlyWhenFull
  BY DEF SlotInv, SlotsFull, MessagesWaitOnlyWhenFull, EventLoopFree, Wants
<1>3. TypeOK /\ WakeInv /\ SlotInv /\ [Next]_vars => SlotInv'
  BY SlotStep
<1> QED
  BY <1>1, <1>2, <1>3, InitInvariants, StepTypes, RunsInductive, WakeStep, PTL DEF Spec

-----------------------------------------------------------------------------
(* Where there are no tasks, message runs of one group never overlap.  A   *)
(* second run of a group starts when the group still stands in             *)
(* waitingGroups although it has a run: tasks bring that about (see the    *)
(* run `overlap'), and so would a recovery limit above the normal one.     *)

MessagesOnly ==
  /\ Tasks = {}
  /\ RecoveryConcurrentAgents <= MaxConcurrentAgents

Distinct(s) == \A i, j \in 1 .. Len(s) : s[i] = s[j] => i = j

\* A group in the line waits for its messages and for nothing else.
Lined(g) ==
  pendingMessages[g] /\ ~InFlight(g) /\ cont # [step |-> "drainGroup", group |-> g]

LineFull ==
  handlerSet /\ ~shuttingDown /\ waitingGroups # << >> =>
    /\ cont = NoCont => activeCount >= EffectiveMaxConcurrent
    /\ cont.step = "drainGroup" => activeCount + 1 >= EffectiveMaxConcurrent

RunOf(g, r) == \E x \in runs : x.group = g /\ x.id = r

\* The fields of the group tell which run it has.
FieldsTell(g) ==
  /\ phase[g] # "running_task" /\ runningTaskId[g] = None
  /\ phase[g] = "idle" => currentRunId[g] = None /\ process[g] = None
  /\ phase[g] # "idle" => RunOf(g, currentRunId[g])
  /\ InFlight(g) => phase[g] # "idle"
  /\ cont = [step |-> "drainGroup", group |-> g] => ~InFlight(g)

SoloInv ==
  /\ OneRunPerGroup
  /\ Distinct(waitingGroups)
  /\ \A g \in Groups : Contains(waitingGroups, g) => Lined(g)
  /\ \A g \in Groups : FieldsTell(g)
  /\ ~handlerSet => runs = {}
  /\ LineFull

\* Splicing keeps a line without duplicates and takes its group out of it.
LEMMA SpliceDistinct ==
  ASSUME NEW S, NEW s \in Seq(S), Distinct(s), NEW i \in DOMAIN s
  PROVE  /\ Distinct(RemoveAt(s, i))
         /\ ~Contains(RemoveAt(s, i), s[i])
         /\ \A e : Contains(RemoveAt(s, i), e) => Contains(s, e)
<1>1. i \in 1 .. Len(s) /\ i \in Int /\ Len(s) \in Nat
  OBVIOUS
<1>2. /\ Len(RemoveAt(s, i)) = Len(s) - 1
      /\ \A j \in 1 .. Len(s) - 1 :
           RemoveAt(s, i)[j] = IF j < i THEN s[j] ELSE s[j + 1]
  BY SpliceElements
<1> DEFINE from(j) == IF j < i THEN j ELSE j + 1
<1>3. \A j \in 1 .. Len(s) - 1 : /\ from(j) \in 1 .. Len(s) /\ from(j) # i
                                 /\ RemoveAt(s, i)[j] = s[from(j)]
  BY <1>1, <1>2
<1>4. \A j, k \in 1 .. Len(s) - 1 : from(j) = from(k) => j = k
  BY <1>1
<1> HIDE DEF from
<1>5. Distinct(RemoveAt(s, i))
  BY <1>2, <1>3, <1>4 DEF Distinct
<1>6. \A e : Contains(RemoveAt(s, i), e) => Contains(s, e) /\ e # s[i]
  <2> SUFFICES ASSUME NEW e, Contains(RemoveAt(s, i), e)
               PROVE  Contains(s, e) /\ e # s[i]
    OBVIOUS
  <2>1. PICK j \in 1 .. Len(s) - 1 : RemoveAt(s, i)[j] = e
    BY <1>2 DEF Contains
  <2>2. e = s[from(j)] /\ from(j) \in 1 .. Len(s) /\ from(j) # i
    BY <1>3, <2>1
  <2> QED  BY <1>1, <2>2 DEF Contains, Distinct
<1> QED  BY <1>5, <1>6

\* waitingGroups.push after the includes test makes no duplicate.
LEMMA WaitingDistinct ==
  ASSUME waitingGroups \in Seq(Groups), Distinct(waitingGroups), NEW g \in Groups
  PROVE  /\ Distinct(WaitingWith(g))
         /\ \A h : Contains(WaitingWith(g), h) => h = g \/ Contains(waitingGroups, h)
<1>1. CASE Contains(waitingGroups, g)
  BY <1>1 DEF WaitingWith
<1>2. CASE ~Contains(waitingGroups, g)
  <2> DEFINE w == Append(waitingGroups, g)
             n == Len(waitingGroups)
  <2>1. WaitingWith(g) = w
    BY <1>2 DEF WaitingWith
  <2>2. /\ Len(w) = n + 1 /\ n \in Nat /\ w[n + 1] = g
        /\ \A j \in 1 .. n : w[j] = waitingGroups[j] /\ w[j] # g
    BY <1>2 DEF Contains
  <2> HIDE DEF w
  <2>3. \A j \in 1 .. Len(w) : j = n + 1 \/ j \in 1 .. n
    BY <2>2
  <2> HIDE DEF n
  <2>4. \A i, j \in 1 .. n : waitingGroups[i] = waitingGroups[j] => i = j
    BY DEF Distinct, n
  <2>5. Distinct(w)
    BY <2>2, <2>3, <2>4 DEF Distinct
  <2>6. \A h : Contains(w, h) => h = g \/ Contains(waitingGroups, h)
    BY <2>2, <2>3 DEF Contains, n
  <2> QED  BY <2>1, <2>5, <2>6
<1> QED  BY <1>1, <1>2

LEMMA NoTask == ASSUME MessagesOnly, TypeOK, NEW g \in Groups
                PROVE  pendingTasks[g] = << >>
BY QueueTypes DEF MessagesOnly

LEMMA SoloStart ==
  ASSUME TypeOK, SoloInv, NEW g \in Groups, RunForGroup(g),
         ~InFlight(g), Distinct(waitingGroups)', ~Contains(waitingGroups, g)',
         \A h : Contains(waitingGroups, h)' => Contains(waitingGroups, h),
         waitingGroups' # << >> => waitingGroups # << >>,
         \/ cont = NoCont /\ cont' = NoCont
         \/ cont.step = "drainWaiting" /\ cont' = cont
         \/ cont = [step |-> "drainGroup", group |-> g] /\ cont' = NoCont,
         handlerSet, UNCHANGED <<shutdown, handlerSet, recovery, process>>
  PROVE  SoloInv'
<1> PICK r \in FreshRunIds :
        /\ runs' = runs \cup {NewRun(r, g, "messages", None)}
        /\ currentRunId' = [currentRunId EXCEPT ![g] = r]
  BY DEF RunForGroup
<1> DEFINE n == NewRun(r, g, "messages", None)
<1>1. n.group = g /\ n.id = r
  BY DEF NewRun
<1> HIDE DEF n
<1>2. runs' = runs \cup {n} /\ \A x \in runs : x.group # g
  BY DEF n, InFlight
<1>3. \A h : InFlight(h)' <=> InFlight(h) \/ h = g
  BY <1>1, <1>2 DEF InFlight
<1>4. \A h : \A q : RunOf(h, q) => RunOf(h, q)'
  BY <1>2 DEF RunOf
<1>5. /\ RunOf(g, r)' /\ currentRunId'[g] = r /\ phase'[g] = "running_messages"
      /\ \A h \in Groups \ {g} : /\ phase'[h] = phase[h]
                                 /\ currentRunId'[h] = currentRunId[h]
                                 /\ pendingMessages'[h] = pendingMessages[h]
      /\ UNCHANGED runningTaskId /\ activeCount' = activeCount + 1
  BY <1>1, <1>2 DEF RunForGroup, TypeOK, RunOf
<1>6. \A h \in Groups \ {g} : cont' # [step |-> "drainGroup", group |-> h]
  BY DEF NoCont
<1>7. cont'.step # "drainGroup"
  BY DEF NoCont
<1>8. OneRunPerGroup'
  BY <1>1, <1>2 DEF SoloInv, OneRunPerGroup
<1>9. ASSUME NEW h \in Groups, Contains(waitingGroups, h)' PROVE Lined(h)'
  BY <1>3, <1>5, <1>6, <1>9 DEF SoloInv, Lined
<1>10. ASSUME NEW h \in Groups PROVE FieldsTell(h)'
  <2>1. CASE h = g
    BY <1>5, <1>7, <2>1 DEF SoloInv, FieldsTell
  <2>2. CASE h # g
    BY <1>3, <1>4, <1>5, <1>6, <2>2 DEF SoloInv, FieldsTell
  <2> QED  BY <2>1, <2>2
<1>11. LineFull'
  <2>1. /\ EffectiveMaxConcurrent' = EffectiveMaxConcurrent
        /\ shuttingDown' = shuttingDown
    BY DEF EffectiveMaxConcurrent, shuttingDown
  <2> SUFFICES ASSUME ~shuttingDown, waitingGroups # << >>, cont' = NoCont
               PROVE  activeCount + 1 >= EffectiveMaxConcurrent
    BY <1>5, <1>7, <2>1 DEF LineFull
  <2>2. CASE cont = NoCont
    <3>1. activeCount >= EffectiveMaxConcurrent
      BY <2>2 DEF SoloInv, LineFull
    <3> QED  BY <3>1, LimitsPositive DEF TypeOK
  <2>3. CASE cont = [step |-> "drainGroup", group |-> g]
    BY <2>3 DEF SoloInv, LineFull
  <2> QED  BY <2>2, <2>3 DEF NoCont
<1> QED  BY <1>8, <1>9, <1>10, <1>11 DEF SoloInv

\* A step that starts and ends no run keeps SoloInv: it may rewrite a run's
\* own notes, close a group that has a run or give it a process.
LEMMA SoloQuiet ==
  ASSUME SoloInv,
         OneRunPerGroup', runs = {} => runs' = {},
         \A g : InFlight(g)' <=> InFlight(g),
         \A g, r : RunOf(g, r) => RunOf(g, r)',
         UNCHANGED <<currentRunId, runningTaskId, pendingMessages, waitingGroups,
                     activeCount>>,
         \A g \in Groups : /\ phase'[g] = "idle" <=> phase[g] = "idle"
                           /\ phase'[g] = "running_task" => phase[g] = "running_task"
                           /\ process'[g] = process[g] \/ InFlight(g),
         ~shuttingDown' => ~shuttingDown,
         handlerSet => handlerSet',
         \/ UNCHANGED <<handlerSet, cont, recovery>>
         \/ cont = NoCont /\ cont' = [step |-> "drainWaiting", group |-> None]
  PROVE  SoloInv'
<1>1. /\ \A g \in Groups : cont' = [step |-> "drainGroup", group |-> g] => cont' = cont
      /\ Distinct(waitingGroups)'
      /\ ~handlerSet' => runs' = {}
  BY DEF SoloInv, Distinct
<1>2. ASSUME NEW g \in Groups, Contains(waitingGroups, g)' PROVE Lined(g)'
  BY <1>1, <1>2 DEF SoloInv, Lined
<1>3. ASSUME NEW g \in Groups PROVE FieldsTell(g)'
  <2>1. FieldsTell(g) /\ (cont' = [step |-> "drainGroup", group |-> g] => cont' = cont)
    BY <1>1 DEF SoloInv
  <2> QED  BY <2>1 DEF FieldsTell
<1>4. LineFull'
  <2>1. CASE UNCHANGED <<handlerSet, cont, recovery>>
    <3>1. EffectiveMaxConcurrent' = EffectiveMaxConcurrent
      BY <2>1 DEF EffectiveMaxConcurrent
    <3> QED  BY <2>1, <3>1 DEF SoloInv, LineFull
  <2>2. CASE cont' = [step |-> "drainWaiting", group |-> None]
    BY <2>2 DEF LineFull, NoCont
  <2> QED  BY <2>1, <2>2
<1> QED  BY <1>1, <1>2, <1>3, <1>4 DEF SoloInv

LEMMA MessageCheckSolo ==
  ASSUME TypeOK, SoloInv, NEW g \in Groups, NEW b \in BOOLEAN,
         MessageCheck(g, b), cont = NoCont, ~shuttingDown,
         UNCHANGED <<cont, shutdown, handlerSet, recovery, process>>
  PROVE  SoloInv'
<1>1. CASE /\ phase[g] = "idle" /\ handlerSet
           /\ activeCount < EffectiveMaxConcurrent
           /\ RunForGroup(g) /\ UNCHANGED waitingGroups
  <2>1. ~(activeCount >= EffectiveMaxConcurrent)
    BY <1>1, LimitsPositive DEF TypeOK
  <2>2. waitingGroups = << >>
    BY <1>1, <2>1 DEF SoloInv, LineFull
  <2>3. ~Contains(waitingGroups, g)
    BY <2>2 DEF Contains
  <2>4. ~InFlight(g) /\ Distinct(waitingGroups)
    BY <1>1 DEF SoloInv, FieldsTell
  <2>5. Distinct(waitingGroups)' /\ ~Contains(waitingGroups, g)'
    BY <1>1, <2>3, <2>4 DEF Distinct
  <2> QED  BY <1>1, <2>4, <2>5, SoloStart
<1>2. CASE /\ NoStart
           /\ pendingMessages' = [pendingMessages EXCEPT ![g] = TRUE]
           /\ \/ UNCHANGED waitingGroups
              \/ /\ phase[g] = "idle"
                 /\ handlerSet => activeCount >= EffectiveMaxConcurrent
                 /\ waitingGroups' = WaitingWith(g)
  <2>1. /\ UNCHANGED <<runs, phase, currentRunId, runningTaskId, activeCount>>
        /\ \A h : InFlight(h)' <=> InFlight(h)
        /\ \A h, r : RunOf(h, r) <=> RunOf(h, r)'
        /\ EffectiveMaxConcurrent' = EffectiveMaxConcurrent
        /\ shuttingDown' = shuttingDown
    BY <1>2 DEF NoStart, InFlight, RunOf, EffectiveMaxConcurrent, shuttingDown
  <2>2. \A h \in Groups : pendingMessages[h] \/ h = g => pendingMessages'[h]
    BY <1>2 DEF TypeOK
  <2>3. /\ Distinct(waitingGroups)'
        /\ \A h : Contains(waitingGroups, h)' =>
             Contains(waitingGroups, h) \/ (h = g /\ phase[g] = "idle")
    <3>1. CASE UNCHANGED waitingGroups
      BY <3>1 DEF SoloInv, Distinct
    <3>2. CASE phase[g] = "idle" /\ waitingGroups' = WaitingWith(g)
      <4>1. /\ Distinct(WaitingWith(g))
            /\ \A h : Contains(WaitingWith(g), h) => h = g \/ Contains(waitingGroups, h)
        BY WaitingDistinct DEF TypeOK, SoloInv
      <4> HIDE DEF WaitingWith
      <4>2. Distinct(waitingGroups')
        BY <3>2, <4>1
      <4> QED  BY <3>2, <4>1, <4>2 DEF Distinct
    <3> QED  BY <1>2, <3>1, <3>2
  <2>4. OneRunPerGroup' /\ (~handlerSet' => runs' = {})
    BY <2>1 DEF SoloInv, OneRunPerGroup
  <2>5. ASSUME NEW h \in Groups, Contains(waitingGroups, h)' PROVE Lined(h)'
    <3>1. CASE Contains(waitingGroups, h)
      BY <2>1, <2>2, <3>1 DEF SoloInv, Lined
    <3>2. CASE h = g /\ phase[g] = "idle"
      BY <2>1, <2>2, <3>2 DEF SoloInv, FieldsTell, Lined, NoCont
    <3> QED  BY <2>3, <2>5, <3>1, <3>2
  <2>6. ASSUME NEW h \in Groups PROVE FieldsTell(h)'
    <3>1. FieldsTell(h) /\ process' = process /\ cont' = cont
      BY DEF SoloInv
    <3> QED  BY <2>1, <3>1 DEF FieldsTell
  <2>7. LineFull'
    <3> SUFFICES ASSUME handlerSet, waitingGroups' # << >>
                 PROVE  activeCount >= EffectiveMaxConcurrent
      BY <2>1 DEF LineFull, NoCont
    <3> QED  BY <1>2 DEF SoloInv, LineFull
  <2> QED  BY <2>3, <2>4, <2>5, <2>6, <2>7 DEF SoloInv
<1> QED  BY <1>1, <1>2 DEF MessageCheck

LEMMA EnqueueSolo ==
  ASSUME MessagesOnly, TypeOK, SoloInv, NEW g \in Groups,
         \/ \E d \in IpcDirChoices : EnqueueMessageCheck(g, d)
         \/ \E t \in Tasks : EnqueueTask(g, t)
         \/ BackoffElapses(g) \/ RetryTimerFires(g)
  PROVE  SoloInv'
<1>1. ASSUME NEW d \in IpcDirChoices, EnqueueMessageCheck(g, d) PROVE SoloInv'
  <2>1. BackoffActive(g) \in BOOLEAN
    BY DEF BackoffActive, TypeOK
  <2> QED
    BY <1>1, <2>1, MessageCheckSolo DEF EnqueueMessageCheck, EventLoopFree
<1>2. ~\E t \in Tasks : EnqueueTask(g, t)
  BY DEF MessagesOnly
<1>3. ASSUME UNCHANGED <<runs, phase, currentRunId, runningTaskId, activeCount,
                         pendingMessages, waitingGroups, process, shutdown,
                         handlerSet, cont, recovery>>
      PROVE  SoloInv'
  BY <1>3, SoloQuiet DEF SoloInv, OneRunPerGroup, InFlight, RunOf, shuttingDown
<1>4. CASE BackoffElapses(g)
  BY <1>3, <1>4 DEF BackoffElapses, procVars
<1>5. CASE RetryTimerFires(g)
  <2>1. CASE ~shuttingDown /\ MessageCheck(g, FALSE)
    BY <1>5, <2>1, MessageCheckSolo DEF RetryTimerFires, EventLoopFree, procVars
  <2>2. CASE NoStart /\ UNCHANGED <<pendingMessages, waitingGroups>>
    BY <1>3, <1>5, <2>2 DEF RetryTimerFires, NoStart, procVars
  <2> QED  BY <1>5, <2>1, <2>2 DEF RetryTimerFires
<1> QED  BY <1>1, <1>2, <1>4, <1>5

\* Nothing is drained before setProcessMessagesFn.
ModeInv == cont # NoCont \/ recovery # "before" => handlerSet

LEMMA ModeStep == ModeInv /\ [Next]_vars => ModeInv'
<1> SUFFICES ASSUME ModeInv, [Next]_vars PROVE ModeInv'
  OBVIOUS
<1>1. CASE UNCHANGED <<cont, recovery, handlerSet>>
  BY <1>1 DEF ModeInv
<1>2. CASE cont # NoCont /\ UNCHANGED <<recovery, handlerSet>>
  BY <1>2 DEF ModeInv
<1>3. ASSUME NEW g \in Groups,
             \/ \E d \in IpcDirChoices : EnqueueMessageCheck(g, d)
             \/ \E t \in Tasks : EnqueueTask(g, t)
             \/ BackoffElapses(g) \/ RetryTimerFires(g)
             \/ PostCloseTerm(g) \/ PostCloseKill(g) \/ KillProcess(g)
             \/ \E reason \in LoopCloseReasons : LoopCloses(g, reason)
      PROVE  UNCHANGED <<cont, recovery, handlerSet>>
  BY <1>3 DEF EnqueueMessageCheck, EnqueueTask, BackoffElapses, RetryTimerFires,
              PostCloseTerm, PostCloseKill, KillProcess, LoopCloses, CloseStdin,
              schedVars
<1>4. ASSUME NEW x \in runs,
             \/ \E p \in Procs : \E d \in IpcDirChoices : RegisterProcess(x, p, d)
             \/ \E reason \in TurnCloseReasons : TurnCloses(x, reason)
      PROVE  UNCHANGED <<cont, recovery, handlerSet>>
  BY <1>4 DEF RegisterProcess, TurnCloses, CloseStdin
<1>5. ASSUME \/ BeginShutdown \/ ShutdownTerm \/ ShutdownKill
             \/ \E p \in Procs : ProcessExits(p) \/ StopKillTimer(p)
             \/ UNCHANGED vars
      PROVE  UNCHANGED <<cont, recovery, handlerSet>>
  BY <1>5 DEF BeginShutdown, ShutdownTerm, ShutdownKill, ShutdownWaitEnds,
              ProcessExits, StopKillTimer, schedVars, vars
<1>6. ASSUME NEW x \in runs, RunEnds(x) PROVE handlerSet /\ UNCHANGED handlerSet
  BY <1>6 DEF RunEnds, MessageRunSucceeds, MessageRunFails, TaskRunEnds,
              CanFinish, FinishRun
<1>7. ASSUME SetProcessMessagesFn \/ EnterRecoveryMode \/ EndRecoveryMode
      PROVE  ModeInv'
  <2>1. CASE SetProcessMessagesFn
    BY <2>1 DEF SetProcessMessagesFn, ModeInv
  <2>2. CASE EnterRecoveryMode
    <3>1. handlerSet /\ UNCHANGED handlerSet
      BY <2>2 DEF EnterRecoveryMode
    <3> QED  BY <3>1, Zenon DEF ModeInv
  <2>3. CASE EndRecoveryMode
    <3>1. recovery # "before" /\ UNCHANGED handlerSet
      BY <2>3 DEF EndRecoveryMode
    <3> QED  BY <3>1, Zenon DEF ModeInv
  <2> QED  BY <1>7, <2>1, <2>2, <2>3
<1>8. ASSUME DrainGroup \/ DrainWaiting
      PROVE  cont # NoCont /\ UNCHANGED <<recovery, handlerSet>>
  <2>1. cont.step # "none" /\ UNCHANGED <<recovery, handlerSet>>
    BY <1>8 DEF DrainGroup, DrainWaiting
  <2>2. NoCont.step = "none"
    BY DEF NoCont
  <2> QED  BY <2>1, <2>2
<1>9. CASE handlerSet /\ UNCHANGED handlerSet
  BY <1>9, Zenon DEF ModeInv
<1> QED
  BY <1>1, <1>2, <1>3, <1>4, <1>5, <1>6, <1>7, <1>8, <1>9, Zenon DEF Next, Timers

LEMMA RunEndSolo ==
  ASSUME TypeOK, SoloInv, NEW x \in runs, RunEnds(x)
  PROVE  SoloInv'
<1> DEFINE g == x.group
<1>1. g \in Groups /\ FinishRun(x) /\ cont = NoCont /\ handlerSet
  BY DEF TypeOK, Run, RunEnds, MessageRunSucceeds, MessageRunFails, TaskRunEnds,
         CanFinish, EventLoopFree
<1>2. /\ runs' = runs \ {x} /\ \A y \in runs' : y.group # g
      /\ cont' = [step |-> "drainGroup", group |-> g]
      /\ activeCount' = activeCount - 1
      /\ UNCHANGED <<pendingMessages, waitingGroups, handlerSet, shutdown>>
      /\ EffectiveMaxConcurrent' = EffectiveMaxConcurrent
      /\ shuttingDown' = shuttingDown
  BY <1>1 DEF FinishRun, SoloInv, OneRunPerGroup, EffectiveMaxConcurrent, shuttingDown
<1>3. /\ InFlight(g) /\ ~InFlight(g)'
      /\ \A h : InFlight(h)' => InFlight(h)
      /\ \A h, r : h # g /\ RunOf(h, r) => RunOf(h, r)'
  BY <1>2 DEF InFlight, RunOf
<1>4. /\ phase'[g] = "idle" /\ currentRunId'[g] = None
      /\ runningTaskId'[g] = None /\ process'[g] = None
      /\ \A h \in Groups \ {g} : /\ phase'[h] = phase[h]
                                 /\ currentRunId'[h] = currentRunId[h]
                                 /\ runningTaskId'[h] = runningTaskId[h]
                                 /\ process'[h] = process[h]
  BY <1>1 DEF FinishRun, TypeOK
<1>5. OneRunPerGroup' /\ Distinct(waitingGroups)'
  BY <1>2 DEF SoloInv, OneRunPerGroup, Distinct
<1>6. ASSUME NEW h \in Groups, Contains(waitingGroups, h)' PROVE Lined(h)'
  <2>1. Lined(h) /\ h # g
    BY <1>2, <1>3, <1>6 DEF SoloInv, Lined
  <2> QED  BY <1>2, <1>3, <2>1 DEF Lined
<1>7. ASSUME NEW h \in Groups PROVE FieldsTell(h)'
  <2>1. CASE h = g
    BY <1>3, <1>4, <2>1 DEF FieldsTell
  <2>2. CASE h # g
    BY <1>2, <1>3, <1>4, <2>2 DEF SoloInv, FieldsTell
  <2> QED  BY <2>1, <2>2
<1>8. LineFull'
  <2> SUFFICES ASSUME ~shuttingDown, waitingGroups # << >>
               PROVE  activeCount - 1 + 1 >= EffectiveMaxConcurrent
    BY <1>2 DEF LineFull, NoCont
  <2>1. activeCount >= EffectiveMaxConcurrent
    BY <1>1 DEF SoloInv, LineFull
  <2> QED  BY <2>1, LimitsPositive DEF TypeOK
<1> QED  BY <1>1, <1>2, <1>5, <1>6, <1>7, <1>8 DEF SoloInv

LEMMA DrainGroupSolo ==
  ASSUME MessagesOnly, TypeOK, SoloInv, ModeInv, DrainGroup
  PROVE  SoloInv'
<1> PICK g \in Groups : g = cont.group
  BY DEF DrainGroup, TypeOK, Conts
<1>1. cont = [step |-> "drainGroup", group |-> g]
  BY DEF DrainGroup, TypeOK, Conts
<1>2. /\ pendingTasks[g] = << >> /\ handlerSet
      /\ UNCHANGED <<waitingGroups, recovery, handlerSet, shutdown, process>>
  BY <1>1, NoTask DEF DrainGroup, procVars, ModeInv, NoCont
<1>3. ~InFlight(g) /\ ~Contains(waitingGroups, g) /\ Distinct(waitingGroups)
  BY <1>1 DEF SoloInv, FieldsTell, Lined
<1>4. ~Contains(waitingGroups, g)' /\ Distinct(waitingGroups)'
  BY <1>2, <1>3 DEF Distinct
<1>5. CASE RunForGroup(g) /\ cont' = NoCont
  BY <1>1, <1>2, <1>3, <1>4, <1>5, SoloStart
<1>6. ASSUME NoStart, UNCHANGED pendingMessages,
             \/ shuttingDown /\ cont' = NoCont
             \/ cont' = [step |-> "drainWaiting", group |-> None]
      PROVE  SoloInv'
  <2>1. /\ UNCHANGED <<runs, phase, currentRunId, runningTaskId>>
        /\ \A h : InFlight(h)' <=> InFlight(h)
        /\ \A h, r : RunOf(h, r) <=> RunOf(h, r)'
        /\ shuttingDown' = shuttingDown
        /\ \A h : cont' # [step |-> "drainGroup", group |-> h]
    BY <1>2, <1>6 DEF NoStart, InFlight, RunOf, NoCont, shuttingDown
  <2>2. OneRunPerGroup' /\ (~handlerSet' => runs' = {})
    BY <1>2, <2>1 DEF SoloInv, OneRunPerGroup
  <2>3. ASSUME NEW h \in Groups, Contains(waitingGroups, h)' PROVE Lined(h)'
    BY <1>2, <1>6, <2>1, <2>3 DEF SoloInv, Lined
  <2>4. ASSUME NEW h \in Groups PROVE FieldsTell(h)'
    <3>1. FieldsTell(h)
      BY DEF SoloInv
    <3> QED  BY <1>2, <2>1, <3>1 DEF FieldsTell
  <2>5. LineFull'
    BY <1>6, <2>1 DEF LineFull, NoCont
  <2> QED  BY <1>4, <2>2, <2>3, <2>4, <2>5 DEF SoloInv
<1> QED  BY <1>2, <1>5, <1>6 DEF DrainGroup

LEMMA DrainWaitingSolo ==
  ASSUME MessagesOnly, TypeOK, SoloInv, ModeInv, DrainWaiting
  PROVE  SoloInv'
<1>1. /\ cont.step = "drainWaiting" /\ handlerSet
      /\ UNCHANGED <<recovery, handlerSet, shutdown, process>>
  BY DEF DrainWaiting, procVars, ModeInv, NoCont
<1>2. ASSUME NEW i \in DOMAIN waitingGroups,
             waitingGroups' = RemoveAt(waitingGroups, i),
             RunForGroup(waitingGroups[i]), UNCHANGED cont
      PROVE  SoloInv'
  <2> PICK g \in Groups : g = waitingGroups[i]
    BY ElementOfSeq, LenProperties DEF TypeOK
  <2>1. Contains(waitingGroups, g) /\ waitingGroups # << >>
    BY LenProperties DEF TypeOK, Contains
  <2>2. ~InFlight(g)
    BY <2>1 DEF SoloInv, Lined
  <2>3. /\ Distinct(RemoveAt(waitingGroups, i))
        /\ ~Contains(RemoveAt(waitingGroups, i), g)
        /\ \A e : Contains(RemoveAt(waitingGroups, i), e) => Contains(waitingGroups, e)
    BY SpliceDistinct DEF TypeOK, SoloInv
  <2>4. /\ Distinct(waitingGroups)' /\ ~Contains(waitingGroups, g)'
        /\ \A e : Contains(waitingGroups, e)' => Contains(waitingGroups, e)
    BY <1>2, <2>3 DEF Distinct
  <2>5. RunForGroup(g)
    BY <1>2
  <2> QED  BY <1>1, <1>2, <2>1, <2>2, <2>4, <2>5, SoloStart
<1>3. ~\E i \in DOMAIN waitingGroups : FirstOf(WaitingForTask, i)
  <2> SUFFICES ASSUME NEW i \in DOMAIN waitingGroups PROVE ~WaitingForTask(i)
    BY DEF FirstOf
  <2>1. waitingGroups[i] \in Groups
    BY ElementOfSeq, LenProperties DEF TypeOK
  <2> QED  BY <2>1, NoTask DEF WaitingForTask
<1>4. ASSUME \/ activeCount >= EffectiveMaxConcurrent
             \/ \A j \in DOMAIN waitingGroups :
                  ~WaitingForMessages(j) /\ ~WaitingForTask(j),
             cont' = NoCont, NoStart,
             UNCHANGED <<waitingGroups, pendingMessages, pendingTasks>>
      PROVE  SoloInv'
  <2>1. /\ UNCHANGED <<runs, phase, currentRunId, runningTaskId, activeCount>>
        /\ \A h : InFlight(h)' <=> InFlight(h)
        /\ \A h, r : RunOf(h, r) <=> RunOf(h, r)'
        /\ EffectiveMaxConcurrent' = EffectiveMaxConcurrent
        /\ \A h : cont' # [step |-> "drainGroup", group |-> h]
    BY <1>1, <1>4 DEF NoStart, InFlight, RunOf, NoCont, EffectiveMaxConcurrent
  <2>2. /\ OneRunPerGroup' /\ (~handlerSet' => runs' = {})
        /\ Distinct(waitingGroups)'
    BY <1>1, <1>4, <2>1 DEF SoloInv, OneRunPerGroup, Distinct
  <2>3. ASSUME NEW h \in Groups, Contains(waitingGroups, h)' PROVE Lined(h)'
    BY <1>4, <2>1, <2>3 DEF SoloInv, Lined
  <2>4. ASSUME NEW h \in Groups PROVE FieldsTell(h)'
    <3>1. FieldsTell(h)
      BY DEF SoloInv
    <3> QED  BY <1>1, <2>1, <3>1 DEF FieldsTell
  <2>5. LineFull'
    <3> SUFFICES ASSUME waitingGroups # << >>
                 PROVE  activeCount >= EffectiveMaxConcurrent
      BY <1>4, <2>1 DEF LineFull, NoCont
    <3>0. Len(waitingGroups) \in Nat \ {0} /\ 1 \in DOMAIN waitingGroups
      BY EmptySeq, LenProperties DEF TypeOK
    <3>1. PICK j \in DOMAIN waitingGroups : TRUE
      BY <3>0
    <3>2. waitingGroups[j] \in Groups /\ Contains(waitingGroups, waitingGroups[j])
      BY <3>1, ElementOfSeq, LenProperties DEF TypeOK, Contains
    <3>3. WaitingForMessages(j)
      BY <3>2 DEF SoloInv, Lined, WaitingForMessages
    <3> QED  BY <1>4, <3>3
  <2> QED  BY <2>2, <2>3, <2>4, <2>5 DEF SoloInv
<1> QED  BY <1>2, <1>3, <1>4 DEF DrainWaiting

LEMMA OtherSolo ==
  ASSUME MessagesOnly, TypeOK, SoloInv,
         \/ SetProcessMessagesFn \/ EnterRecoveryMode \/ EndRecoveryMode
         \/ BeginShutdown \/ ShutdownTerm \/ ShutdownKill
         \/ \E p \in Procs : ProcessExits(p) \/ StopKillTimer(p)
         \/ \E g \in Groups : PostCloseTerm(g) \/ PostCloseKill(g) \/ KillProcess(g)
         \/ \E g \in Groups : \E reason \in LoopCloseReasons : LoopCloses(g, reason)
         \/ \E x \in runs : \E p \in Procs : \E d \in IpcDirChoices :
              RegisterProcess(x, p, d)
         \/ \E x \in runs : \E reason \in TurnCloseReasons : TurnCloses(x, reason)
         \/ UNCHANGED vars
  PROVE  SoloInv'
<1> DEFINE SameFields == UNCHANGED <<currentRunId, runningTaskId, pendingMessages,
                                     waitingGroups, activeCount>>
           SameMode == UNCHANGED <<handlerSet, cont, recovery>>
           Closes == \A g \in Groups :
                       /\ phase'[g] = "idle" <=> phase[g] = "idle"
                       /\ phase'[g] = "running_task" => phase[g] = "running_task"
<1>1. ASSUME UNCHANGED runs
      PROVE  /\ OneRunPerGroup' /\ (runs = {} => runs' = {})
             /\ \A g : InFlight(g)' <=> InFlight(g)
             /\ \A g, r : RunOf(g, r) => RunOf(g, r)'
  BY <1>1 DEF SoloInv, OneRunPerGroup, InFlight, RunOf
<1>2. ASSUME NEW x \in runs, NEW y, y.group = x.group, y.id = x.id,
             runs' = (runs \ {x}) \cup {y}
      PROVE  /\ OneRunPerGroup' /\ (runs = {} => runs' = {})
             /\ \A g : InFlight(g)' <=> InFlight(g)
             /\ \A g, r : RunOf(g, r) => RunOf(g, r)'
  BY <1>2 DEF SoloInv, OneRunPerGroup, InFlight, RunOf
<1>3. CASE SetProcessMessagesFn \/ EndRecoveryMode
  <2>1. /\ UNCHANGED runs /\ SameFields /\ UNCHANGED <<phase, process, shutdown>>
        /\ handlerSet => handlerSet'
        /\ cont = NoCont /\ cont' = [step |-> "drainWaiting", group |-> None]
    BY <1>3 DEF SetProcessMessagesFn, EndRecoveryMode, EventLoopFree, procVars
  <2> QED  BY <1>1, <2>1, SoloQuiet DEF shuttingDown
<1>4. CASE EnterRecoveryMode
  <2>1. /\ UNCHANGED runs /\ SameFields
        /\ UNCHANGED <<phase, process, shutdown, handlerSet, cont>>
        /\ cont = NoCont /\ recovery = "before" /\ recovery' = "on"
    BY <1>4 DEF EnterRecoveryMode, EventLoopFree, procVars
  <2>2. /\ EffectiveMaxConcurrent' = RecoveryConcurrentAgents
        /\ EffectiveMaxConcurrent = MaxConcurrentAgents
    BY <2>1 DEF EffectiveMaxConcurrent
  <2>3. activeCount >= MaxConcurrentAgents => activeCount >= RecoveryConcurrentAgents
    BY LimitsAssumption DEF TypeOK, MessagesOnly
  <2>4. LineFull'
    BY <2>1, <2>2, <2>3 DEF SoloInv, LineFull, shuttingDown, NoCont
  <2>5. \A g \in Groups : Contains(waitingGroups, g)' => Lined(g)'
    BY <1>1, <2>1 DEF SoloInv, Lined
  <2>6. ASSUME NEW g \in Groups PROVE FieldsTell(g)'
    <3>1. FieldsTell(g)
      BY DEF SoloInv
    <3> QED  BY <1>1, <2>1, <3>1 DEF FieldsTell
  <2>7. Distinct(waitingGroups)'
    BY <2>1 DEF SoloInv, Distinct
  <2> QED  BY <1>1, <2>1, <2>4, <2>5, <2>6, <2>7 DEF SoloInv
<1>5. CASE BeginShutdown
  <2>1. /\ UNCHANGED runs /\ SameFields /\ SameMode /\ UNCHANGED process
        /\ shuttingDown' /\ Closes
    BY <1>5 DEF BeginShutdown, Closing, shuttingDown
  <2> QED  BY <1>1, <2>1, SoloQuiet
<1>6. CASE ShutdownTerm \/ ShutdownKill
  <2>1. /\ UNCHANGED runs /\ SameFields /\ SameMode /\ UNCHANGED <<phase, process>>
        /\ shuttingDown'
    BY <1>6 DEF ShutdownTerm, ShutdownKill, ShutdownWaitEnds, shuttingDown
  <2> QED  BY <1>1, <2>1, SoloQuiet
<1>7. CASE \/ \E p \in Procs : ProcessExits(p) \/ StopKillTimer(p)
           \/ \E g \in Groups : PostCloseTerm(g) \/ PostCloseKill(g) \/ KillProcess(g)
           \/ UNCHANGED vars
  <2>1. UNCHANGED schedVars /\ UNCHANGED process
    BY <1>7 DEF ProcessExits, StopKillTimer, PostCloseTerm, PostCloseKill,
                KillProcess, vars, procVars
  <2> QED  BY <1>1, <2>1, SoloQuiet DEF schedVars, shuttingDown
<1>8. ASSUME NEW x \in runs,
             \E p \in Procs : \E d \in IpcDirChoices : RegisterProcess(x, p, d)
      PROVE  SoloInv'
  <2>1. PICK p \in Procs : \E d \in IpcDirChoices : RegisterProcess(x, p, d)
    BY <1>8
  <2>2. /\ SameFields /\ SameMode /\ UNCHANGED <<phase, shutdown>>
        /\ runs' = (runs \ {x}) \cup {[x EXCEPT !.spawns = @ + 1]}
        /\ process' = [process EXCEPT ![x.group] = p]
    BY <2>1 DEF RegisterProcess
  <2>3. /\ [x EXCEPT !.spawns = @ + 1].group = x.group
        /\ [x EXCEPT !.spawns = @ + 1].id = x.id
    OBVIOUS
  <2>4. InFlight(x.group)
    BY DEF InFlight
  <2>5. \A g \in Groups : process'[g] = process[g] \/ InFlight(g)
    BY <2>2, <2>4 DEF TypeOK
  <2> QED  BY <1>2, <2>2, <2>3, <2>5, SoloQuiet DEF shuttingDown
<1>9. ASSUME NEW g, NEW run, NEW reason, CloseStdin(g, run, reason)
      PROVE  SameFields /\ SameMode /\ Closes /\ UNCHANGED <<process, shutdown>>
  BY <1>9 DEF CloseStdin, Closing
<1>10. ASSUME NEW x \in runs, NEW reason \in TurnCloseReasons, TurnCloses(x, reason)
       PROVE  SoloInv'
  <2>1. /\ [x EXCEPT !.closeRequested = TRUE].group = x.group
        /\ [x EXCEPT !.closeRequested = TRUE].id = x.id
    OBVIOUS
  <2>2. /\ runs' = (runs \ {x}) \cup {[x EXCEPT !.closeRequested = TRUE]}
        /\ CloseStdin(x.group, x.id, reason)
    BY <1>10 DEF TurnCloses
  <2>3. SameFields /\ SameMode /\ Closes /\ UNCHANGED <<process, shutdown>>
    BY <1>9, <2>2
  <2> QED  BY <1>2, <2>1, <2>2, <2>3, SoloQuiet DEF shuttingDown
<1>11. ASSUME NEW g \in Groups, NEW reason \in LoopCloseReasons, LoopCloses(g, reason)
       PROVE  SoloInv'
  <2>1. CloseStdin(g, None, reason) /\ UNCHANGED runs
    BY <1>11 DEF LoopCloses
  <2>2. SameFields /\ SameMode /\ Closes /\ UNCHANGED <<process, shutdown>>
    BY <1>9, <2>1
  <2> QED  BY <1>1, <2>1, <2>2, SoloQuiet DEF shuttingDown
<1> QED  BY <1>3, <1>4, <1>5, <1>6, <1>7, <1>8, <1>10, <1>11

LEMMA SoloStep ==
  ASSUME MessagesOnly
  PROVE  TypeOK /\ ModeInv /\ SoloInv /\ [Next]_vars => SoloInv'
<1> SUFFICES ASSUME TypeOK, ModeInv, SoloInv, [Next]_vars PROVE SoloInv'
  OBVIOUS
<1> QED
  BY EnqueueSolo, RunEndSolo, DrainGroupSolo, DrainWaitingSolo, OtherSolo, Zenon
  DEF Next, Timers

LEMMA SoloInit == Init => ModeInv /\ SoloInv
<1> SUFFICES ASSUME Init PROVE ModeInv /\ SoloInv
  OBVIOUS
<1>1. runs = {} /\ waitingGroups = << >> /\ cont = NoCont /\ ~handlerSet
      /\ recovery = "before"
  BY DEF Init
<1>2. OneRunPerGroup /\ \A g : ~InFlight(g)
  BY <1>1 DEF OneRunPerGroup, InFlight
<1>3. Distinct(waitingGroups) /\ \A g : ~Contains(waitingGroups, g)
  BY <1>1 DEF Distinct, Contains
<1>4. \A g \in Groups : FieldsTell(g)
  BY <1>1, <1>2 DEF Init, FieldsTell, NoCont
<1> QED  BY <1>1, <1>2, <1>3, <1>4 DEF SoloInv, ModeInv, LineFull

\* Without tasks a group never has two message runs in flight, whatever
\* retries, limits, recovery mode and shutdown do to the order of starts.
THEOREM RunsExclusive == MessagesOnly => (Spec => []OneRunPerGroup)
<1> SUFFICES ASSUME MessagesOnly PROVE Spec => []OneRunPerGroup
  OBVIOUS
<1>1. SoloInv => OneRunPerGroup
  BY DEF SoloInv
<1>2. TypeOK /\ ModeInv /\ SoloInv /\ [Next]_vars => SoloInv'
  BY SoloStep
<1> QED  BY <1>1, <1>2, SoloInit, InitTypes, StepTypes, ModeStep, PTL DEF Spec

\* Without tasks the group's fields always tell the truth about its run:
\* what assertRunPhaseInvariants would log never happens.
THEOREM PhasesCorrect == MessagesOnly => (Spec => []PhaseInvariants)
<1> SUFFICES ASSUME MessagesOnly PROVE Spec => []PhaseInvariants
  OBVIOUS
<1>1. TypeOK /\ SoloInv => PhaseInvariants
  BY DEF SoloInv, FieldsTell, RunOf, PhaseInvariants
<1>2. TypeOK /\ ModeInv /\ SoloInv /\ [Next]_vars => SoloInv'
  BY SoloStep
<1> QED  BY <1>1, <1>2, SoloInit, InitTypes, StepTypes, ModeStep, PTL DEF Spec
=============================================================================
