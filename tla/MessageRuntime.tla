--------------------------- MODULE MessageRuntime ---------------------------
(***************************************************************************)
(* From a chat message to an answer, in rooms without a paired task: the   *)
(* poll loop (message-runtime-loop.ts, message-runtime-dispatch.ts) sees   *)
(* new messages and asks for a run, the run of a room                      *)
(* (message-runtime-group-processing.ts, message-runtime-queue.ts) first   *)
(* delivers an output left over, then handles a session command or hands   *)
(* the unread messages to the agent, delivers its final text and only then *)
(* moves the room's cursor.  Two cursors are persisted: polled, of the     *)
(* loop, and cursor[r], of the room's agent; everything else about         *)
(* messages is in memory and lost in a crash.                              *)
(*                                                                         *)
(* The limits and back-offs of GroupQueue, which starts the runs, are left *)
(* out: a run that is asked for starts some time later, and one that       *)
(* failed is asked for again.  What the agent says during a turn is        *)
(* TurnController's subject.                                               *)
(***************************************************************************)
EXTENDS WorkItems

CONSTANTS
  Kinds,        \* the kinds of messages of the instance
  Times,        \* timestamps of messages
  MaxMessages,  \* bound: messages sent to the rooms
  MaxSaid,      \* bound: messages the agent sends outside its final text
  MaxCrashes,
  None

\* human: somebody in the room.  peer: a trusted program, no bot.  bot: an
\* injected bot message, never processed.  The others are session commands,
\* "denied" one of a sender who may not give it.
AllKinds == {"human", "peer", "bot", "stop", "clear", "compact", "denied"}
ASSUME KindsAssumption == Kinds \subseteq AllKinds
ASSUME TimesAssumption == Times \subseteq Nat

VARIABLES
  msgs,     \* the table messages, by seq
  polled,   \* last_seq
  cursor,   \* last_agent_seq
  pending,  \* a run of the room is asked for
  run,      \* the room's run
  batch,    \* messages of the loop's tick not dispatched yet
  acking,   \* the room whose /stop the loop is acknowledging
  said, crashes,
  taken,    \* history: messages that an agent was given or a command consumed
  gone      \* history: messages behind the cursor that no run has claimed

memory == <<pending, run, batch, acking>>
vars == <<itemVars, msgs, polled, cursor, memory, said, crashes, taken, gone>>

Commands == {"stop", "clear", "compact", "denied"}
NoRun == [pc |-> "idle", upTo |-> 0, byTime |-> FALSE, snap |-> 0, input |-> {},
          then |-> "idle", ok |-> TRUE, recheck |-> FALSE]

Of(r, S) == {i \in S : msgs[i].room = r}
OfKind(K, S) == {i \in S : msgs[i].kind \in K}
Unread(r) == {i \in Of(r, DOMAIN msgs) : i > cursor[r]}
Processable(S) == S \ OfKind({"bot"}, S)
Humans(S) == OfKind(AllKinds \ {"bot", "peer"}, S)

TypeOK ==
  /\ WorkItemsTypeOK
  /\ msgs \in Seq([room : Rooms, kind : Kinds, at : Times])
  /\ polled \in 0..Len(msgs)
  /\ cursor \in [Rooms -> 0..Len(msgs)]
  /\ pending \in [Rooms -> BOOLEAN]
  /\ \A r \in Rooms :
       /\ run[r].pc \in {"idle", "deliver", "gather", "gate", "starting", "agent", "pre",
                         "compact", "final", "say", "advance", "end"}
       /\ run[r].pc \in {"deliver", "final", "say"} <=> ~Idle(r, "run")
       /\ run[r].upTo \in 0..Len(msgs) /\ run[r].input \subseteq DOMAIN msgs
  /\ batch \subseteq DOMAIN msgs
  /\ acking \in Rooms \cup {None}
  /\ taken \subseteq DOMAIN msgs /\ gone \subseteq DOMAIN msgs

Init ==
  /\ ItemsInit
  /\ msgs = <<>> /\ polled = 0
  /\ cursor = [r \in Rooms |-> 0]
  /\ pending = [r \in Rooms |-> FALSE]
  /\ run = [r \in Rooms |-> NoRun]
  /\ batch = {} /\ acking = None
  /\ said = 0 /\ crashes = 0 /\ taken = {} /\ gone = {}

\* The cursor never goes back: an older run may end after /stop consumed more.
AdvanceTo(r, seq) == cursor' = [cursor EXCEPT ![r] = Max({@, seq})]

\* A command but /stop is consumed by its timestamp: the cursor goes to the
\* newest message of the room that is not later, wherever it was stored.
LatestSeqAtOrBefore(r, i) == Max({j \in Of(r, DOMAIN msgs) : msgs[j].at <= msgs[i].at})

\* The messages that the run has claimed for its agent.
ClaimedBy(x) == IF x.pc \in {"gather", "gate"} THEN {} ELSE x.input
Remember(r) ==
  gone' = gone \cup {i \in Of(r, DOMAIN msgs) : i <= cursor'[r] /\ i \notin ClaimedBy(run'[r])}

Goto(r, pc) == run' = [run EXCEPT ![r].pc = pc]
EndRun(r, ok, more) ==
  /\ run' = [run EXCEPT ![r] = NoRun]
  /\ pending' = [pending EXCEPT ![r] = @ \/ ~ok \/ more]

----------------------------------------------------------------------------
(* The poll loop *)

\* A message is stored, some time after it was written.  An injected one asks
\* for a run by itself.
Receive(r, kind, at) ==
  /\ Len(msgs) < MaxMessages
  /\ msgs' = Append(msgs, [room |-> r, kind |-> kind, at |-> at])
  /\ pending' = [pending EXCEPT ![r] = @ \/ kind \in {"bot", "peer"}]
  /\ UNCHANGED <<itemVars, polled, cursor, run, batch, acking, said, crashes, taken, gone>>

\* The new messages of all rooms; the loop's cursor is saved before any is
\* dispatched.
Poll ==
  /\ batch = {} /\ acking = None
  /\ polled < Len(msgs)
  /\ batch' = polled + 1 .. Len(msgs)
  /\ polled' = Len(msgs)
  /\ UNCHANGED <<itemVars, msgs, cursor, pending, run, acking, said, crashes, taken, gone>>

Running(r) == run[r].pc # "idle"

\* The next room of the batch, its messages without a /stop consumed already.
DispatchedRoom == msgs[Min(batch)].room
Dispatched == {i \in Of(DispatchedRoom, batch) :
                 ~(msgs[i].kind = "stop" /\ i <= cursor[DispatchedRoom])}

\* Nothing to process: the agent's cursor skips what was ignored.
DispatchIgnored ==
  /\ batch # {} /\ acking = None
  /\ LET r == DispatchedRoom  S == Dispatched IN
     /\ Processable(S) = {}
     /\ IF S = {} THEN UNCHANGED cursor ELSE AdvanceTo(r, Max(S))
     /\ batch' = batch \ Of(r, batch)
     /\ UNCHANGED run /\ Remember(r)
  /\ UNCHANGED <<itemVars, msgs, polled, pending, acking, said, crashes, taken>>

\* Only programs talk, and nobody has written for the collaboration window (in
\* the model: nobody ever).
BotsOnly(r, S) == Humans(S) = {} /\ Humans(Of(r, DOMAIN msgs)) = {}

DispatchBotsOnly ==
  /\ batch # {} /\ acking = None
  /\ LET r == DispatchedRoom  S == Processable(Dispatched) IN
     /\ S # {} /\ BotsOnly(r, S)
     /\ AdvanceTo(r, Max(S))
     /\ batch' = batch \ Of(r, batch)
     /\ UNCHANGED run /\ Remember(r)
  /\ UNCHANGED <<itemVars, msgs, polled, pending, acking, said, crashes, taken>>

FirstCommand(S) == Min(OfKind(Commands, S))

\* /stop is executed at once: a running agent is killed (it ends like any
\* other, with whatever it delivers) but not one that is only being started,
\* the command and all before it are consumed, and what came with it behind it
\* asks for a run.
DispatchStop ==
  /\ batch # {} /\ acking = None
  /\ LET r == DispatchedRoom  S == Processable(Dispatched) IN
     /\ OfKind(Commands, S) # {} /\ msgs[FirstCommand(S)].kind = "stop"
     /\ AdvanceTo(r, FirstCommand(S))
     /\ taken' = taken \cup {i \in Of(r, DOMAIN msgs) : i <= FirstCommand(S)}
     /\ pending' = [pending EXCEPT ![r] = @ \/ \E i \in S : i > FirstCommand(S)]
     /\ acking' = r
     /\ batch' = batch \ Of(r, batch)
     /\ UNCHANGED run /\ Remember(r)
  /\ UNCHANGED <<itemVars, msgs, polled, said, crashes>>

\* The acknowledgement is sent.  If that fails the tick ends, and the rooms
\* behind it in the batch are not dispatched.
AckStop ==
  /\ acking # None
  /\ acking' = None
  /\ \/ NoFault /\ UNCHANGED batch
     \/ Fault /\ batch' = {}
  /\ UNCHANGED <<items, shown, del, msgs, polled, cursor, pending, run, said, crashes, taken, gone>>

\* What the active run has recorded as its input, which a turn does and a
\* command does not.
ActiveInput(r) == IF run[r].then = "agent" THEN run[r].input ELSE {}

\* Any other command, or a message of somebody that is not the active run's: a
\* run is asked for (and a running agent is told to finish).
DispatchToQueue ==
  /\ batch # {} /\ acking = None
  /\ LET r == DispatchedRoom  S == Processable(Dispatched) IN
     /\ S # {}
     /\ IF OfKind(Commands, S) # {} THEN msgs[FirstCommand(S)].kind # "stop"
                                    ELSE Humans(S) # {}
     /\ pending' = [pending EXCEPT ![r] = @ \/ OfKind(Commands, S) # {}
                                            \/ ~(Humans(S) \subseteq ActiveInput(r))]
     /\ batch' = batch \ Of(r, batch)
  /\ UNCHANGED <<itemVars, msgs, polled, cursor, run, acking, said, crashes, taken, gone>>

\* Messages of programs are piped to the active run together with everything
\* else unread, and count as read: they lie where its agent, or the room's next
\* one, looks for them.  Without a run, or if the queue refuses, one is asked for.
DispatchPeers ==
  /\ batch # {} /\ acking = None
  /\ LET r == DispatchedRoom  S == Processable(Dispatched)
         piped == IF Processable(Unread(r)) = {} THEN S ELSE Processable(Unread(r)) IN
     /\ S # {} /\ Humans(S) = {} /\ ~BotsOnly(r, S)
     /\ \/ /\ Running(r)
           /\ taken' = taken \cup piped
           /\ AdvanceTo(r, Max(piped))
           /\ UNCHANGED pending
        \/ /\ pending' = [pending EXCEPT ![r] = TRUE]
           /\ UNCHANGED <<cursor, taken>>
     /\ batch' = batch \ Of(r, batch)
     /\ UNCHANGED run /\ Remember(r)
  /\ UNCHANGED <<itemVars, msgs, polled, acking, said, crashes>>

Dispatch ==
  DispatchIgnored \/ DispatchBotsOnly \/ DispatchStop \/ DispatchToQueue \/ DispatchPeers

----------------------------------------------------------------------------
(* The run of a room *)

\* An output left over is delivered first, unless a /stop waits to be read.
StartRun(r) ==
  /\ pending[r] /\ ~Running(r)
  /\ pending' = [pending EXCEPT ![r] = FALSE]
  /\ IF OpenItem(r) # 0 /\ OfKind({"stop"}, Unread(r)) = {}
     THEN Goto(r, "deliver") /\ Deliver(r, "run", OpenItem(r), "send")
     ELSE Goto(r, "gather") /\ UNCHANGED del
  /\ UNCHANGED <<items, shown, faults, msgs, polled, cursor, batch, acking, said, crashes, taken, gone>>

\* Mutant of LeftOverDelivered: no run is asked for.
LeftOverDeliveredNoFollowUp(r) ==
  /\ run[r].pc = "deliver" /\ Delivered(r, "run")
  /\ EndRun(r, del[r]["run"].ok, FALSE)
  /\ Free(r, "run")
  /\ UNCHANGED <<items, shown, faults, msgs, polled, cursor, batch, acking, said, crashes, taken, gone>>

\* The run ends with that delivery; one that succeeded asks for the next run.
LeftOverDelivered(r) ==
  /\ run[r].pc = "deliver" /\ Delivered(r, "run")
  /\ EndRun(r, del[r]["run"].ok, TRUE)
  /\ Free(r, "run")
  /\ UNCHANGED <<items, shown, faults, msgs, polled, cursor, batch, acking, said, crashes, taken, gone>>

\* What the run will work on.
Gather(r) ==
  LET missed == Processable(Unread(r)) IN
  /\ run[r].pc = "gather"
  /\ IF missed = {} \/ BotsOnly(r, missed)
     THEN /\ IF Unread(r) = {} THEN UNCHANGED cursor
             ELSE AdvanceTo(r, Max(IF missed = {} THEN Unread(r) ELSE missed))
          /\ EndRun(r, TRUE, FALSE)
     ELSE /\ run' = [run EXCEPT ![r] = [NoRun EXCEPT !.pc = "gate", !.snap = cursor[r],
                                                     !.input = missed, !.upTo = Max(missed)]]
          /\ UNCHANGED <<pending, cursor>>
  /\ Remember(r)
  /\ UNCHANGED <<itemVars, msgs, polled, batch, acking, said, crashes, taken>>

\* Mutant of Stale.
StaleNever(r) == FALSE

\* The loop may have consumed the messages since: they are gathered again.
Stale(r) == cursor[r] # run[r].snap

GatherAgain(r) ==
  /\ run[r].pc = "gate" /\ Stale(r)
  /\ Goto(r, "gather")
  /\ UNCHANGED <<itemVars, msgs, polled, cursor, pending, batch, acking, said, crashes, taken, gone>>

Gated(r) == run[r].pc = "gate" /\ ~Stale(r)
CommandOf(r) == FirstCommand(run[r].input)
HasCommand(r, kinds) ==
  OfKind(Commands, run[r].input) # {} /\ msgs[CommandOf(r)].kind \in kinds
ConsumeUpTo(r, seq) == taken' = taken \cup {i \in Of(r, DOMAIN msgs) : i <= seq}

\* A run that starts an agent; then is what the agent does.
Starting(x, then) == [x EXCEPT !.pc = "starting", !.then = then]

\* The run claims the messages for a turn, ...
Prompt(r) ==
  /\ Gated(r) /\ OfKind(Commands, run[r].input) = {}
  /\ run' = [run EXCEPT ![r] = Starting(@, "agent")]
  /\ UNCHANGED <<itemVars, msgs, polled, cursor, pending, batch, acking, said, crashes, taken, gone>>

\* ... and its agent is given them when the turn, its target and the lock of
\* the directory are ready: what the loop has done since makes no difference.
StartAgent(r) ==
  /\ run[r].pc = "starting"
  /\ Goto(r, run[r].then)
  /\ taken' = taken \cup run[r].input
  /\ UNCHANGED <<itemVars, msgs, polled, cursor, pending, batch, acking, said, crashes, gone>>

\* The run sends a text of its own (a row like any other) and goes on.
Say(r, next) ==
  /\ Produce(r, "run", "say", 0, "send")
  /\ run' = [run EXCEPT ![r] = next]

\* /stop and /clear consume the command and what came before it, then
\* acknowledge; only after /stop does a rest of the messages ask for a run.
RunStopOrClear(r) ==
  /\ Gated(r) /\ HasCommand(r, {"stop", "clear"})
  /\ AdvanceTo(r, IF msgs[CommandOf(r)].kind = "stop" THEN CommandOf(r)
                  ELSE LatestSeqAtOrBefore(r, CommandOf(r)))
  /\ ConsumeUpTo(r, CommandOf(r))
  /\ Say(r, [NoRun EXCEPT !.pc = "say", !.then = "end",
                          !.recheck = msgs[CommandOf(r)].kind = "stop"])
  /\ Remember(r)
  /\ UNCHANGED <<msgs, polled, pending, batch, acking, said, crashes>>

\* The refusal is sent before the command is consumed.
RunDenied(r) ==
  /\ Gated(r) /\ HasCommand(r, {"denied"})
  /\ ConsumeUpTo(r, CommandOf(r))
  /\ Say(r, [NoRun EXCEPT !.pc = "say", !.then = "advance", !.upTo = CommandOf(r),
                          !.byTime = TRUE])
  /\ UNCHANGED <<msgs, polled, cursor, pending, batch, acking, said, crashes, gone>>

\* /compact: the agent first gets the messages before the command.
RunCompact(r) ==
  LET before == {i \in run[r].input : i < CommandOf(r)}
      new == [NoRun EXCEPT !.upTo = CommandOf(r), !.input = before] IN
  /\ Gated(r) /\ HasCommand(r, {"compact"})
  /\ run' = [run EXCEPT ![r] = Starting(new, IF before = {} THEN "compact" ELSE "pre")]
  /\ UNCHANGED <<itemVars, msgs, polled, cursor, pending, batch, acking, said, crashes, taken, gone>>

CompactSays(r) ==
  /\ run[r].pc \in {"pre", "compact"} /\ said < MaxSaid
  /\ said' = said + 1
  /\ Say(r, [run[r] EXCEPT !.pc = "say", !.then = run[r].pc])
  /\ UNCHANGED <<msgs, polled, cursor, pending, batch, acking, crashes, taken, gone>>

PreEnds(r) ==
  /\ run[r].pc = "pre"
  /\ run' = [run EXCEPT ![r] = Starting(@, "compact")]
  /\ UNCHANGED <<itemVars, msgs, polled, cursor, pending, batch, acking, said, crashes, taken, gone>>

\* The agent failed, and the run says so.
FailAndSay(r, next) ==
  /\ faults < MaxFaults
  /\ faults' = faults + 1
  /\ items' = Append(Superseded(r), [room |-> r, by |-> "say", status |-> "produced",
                                     upTo |-> 0, uncertain |-> FALSE])
  /\ shown' = Append(shown, [sent |-> [p \in 1..Parts |-> 0], edited |-> FALSE])
  /\ Deliver(r, "run", Len(items) + 1, "send")
  /\ run' = [run EXCEPT ![r] = next]

\* The command stays unread, and so do the messages, unless the agent had said
\* something already.
PreFails(r) ==
  /\ run[r].pc = "pre"
  /\ \/ /\ said > 0
        /\ FailAndSay(r, [NoRun EXCEPT !.pc = "say", !.then = "advance",
                                       !.upTo = Max(run[r].input), !.byTime = TRUE])
     \/ FailAndSay(r, [NoRun EXCEPT !.pc = "say", !.then = "end", !.ok = FALSE])
  /\ UNCHANGED cursor /\ Remember(r)
  /\ UNCHANGED <<msgs, polled, pending, batch, acking, said, crashes, taken>>

CompactAdvances(r) ==
  /\ run[r].pc = "compact"
  /\ AdvanceTo(r, LatestSeqAtOrBefore(r, run[r].upTo)) /\ ConsumeUpTo(r, run[r].upTo)

CompactEnds(r) ==
  /\ CompactAdvances(r)
  /\ EndRun(r, TRUE, FALSE)
  /\ Remember(r)
  /\ UNCHANGED <<itemVars, msgs, polled, batch, acking, said, crashes>>

\* The command is consumed all the same.
CompactFails(r) ==
  /\ CompactAdvances(r)
  /\ FailAndSay(r, [NoRun EXCEPT !.pc = "say", !.then = "end"])
  /\ Remember(r)
  /\ UNCHANGED <<msgs, polled, pending, batch, acking, said, crashes>>

SaidIt(r) ==
  /\ run[r].pc = "say" /\ Delivered(r, "run")
  /\ Free(r, "run")
  /\ Goto(r, run[r].then)
  /\ UNCHANGED <<items, shown, faults, msgs, polled, cursor, pending, batch, acking, said, crashes, taken, gone>>

\* The agent ends with a final text, which may replace its progress message ...
AgentAnswers(r) ==
  /\ run[r].pc = "agent"
  /\ \E stage \in {"edit", "send"} : Produce(r, "run", "final", run[r].upTo, stage)
  /\ Goto(r, "final")
  /\ UNCHANGED <<msgs, polled, cursor, pending, batch, acking, said, crashes, taken, gone>>

\* ... or with none: the messages count as read all the same ...
AgentIsSilent(r) ==
  /\ run[r].pc = "agent"
  /\ Goto(r, "advance")
  /\ UNCHANGED <<itemVars, msgs, polled, cursor, pending, batch, acking, said, crashes, taken, gone>>

\* ... or its start or the turn throws, and nothing is consumed.
AgentThrows(r) ==
  /\ run[r].pc \in {"starting", "agent", "pre", "compact"} /\ Fault
  /\ EndRun(r, FALSE, FALSE) /\ UNCHANGED cursor
  /\ Remember(r)
  /\ UNCHANGED <<items, shown, del, msgs, polled, batch, acking, said, crashes, taken>>

FinalDelivered(r) ==
  /\ run[r].pc = "final" /\ Delivered(r, "run")
  /\ Free(r, "run")
  /\ run' = [run EXCEPT ![r].pc = "advance", ![r].ok = del[r]["run"].ok]
  /\ UNCHANGED <<items, shown, faults, msgs, polled, cursor, pending, batch, acking, said, crashes, taken, gone>>

\* Mutant of Advance: what arrived during the turn counts as read.
AdvanceToNewest(r) ==
  /\ run[r].pc = "advance"
  /\ AdvanceTo(r, Max(Of(r, DOMAIN msgs)))
  /\ EndRun(r, run[r].ok, FALSE)
  /\ Remember(r)
  /\ UNCHANGED <<itemVars, msgs, polled, batch, acking, said, crashes, taken>>

\* The cursor covers what the agent was given, not what arrived meanwhile; an
\* answer that was not delivered makes the run fail, to be delivered later.
Advance(r) ==
  /\ run[r].pc = "advance"
  /\ AdvanceTo(r, IF run[r].byTime THEN LatestSeqAtOrBefore(r, run[r].upTo) ELSE run[r].upTo)
  /\ EndRun(r, run[r].ok, FALSE)
  /\ Remember(r)
  /\ UNCHANGED <<itemVars, msgs, polled, batch, acking, said, crashes, taken>>

End(r) ==
  /\ run[r].pc = "end"
  /\ EndRun(r, run[r].ok, run[r].recheck /\ Processable(Unread(r)) # {})
  /\ UNCHANGED <<itemVars, msgs, polled, cursor, batch, acking, said, crashes, taken, gone>>

RunStep(r) ==
  \/ LeftOverDelivered(r) \/ Gather(r) \/ GatherAgain(r) \/ Prompt(r) \/ StartAgent(r)
  \/ RunStopOrClear(r) \/ RunDenied(r) \/ RunCompact(r) \/ PreEnds(r) \/ CompactEnds(r)
  \/ SaidIt(r) \/ FinalDelivered(r) \/ Advance(r) \/ End(r)
  \/ AgentAnswers(r) \/ AgentIsSilent(r)

----------------------------------------------------------------------------
(* The IPC relay and restarts *)

\* A message the agent sends with its tool during the run: a row of the room,
\* delivered while the run goes on.  Nothing retries it before the next run.
Relay(r) ==
  /\ run[r].pc = "agent" /\ Idle(r, "ipc") /\ said < MaxSaid
  /\ said' = said + 1
  /\ Produce(r, "ipc", "ipc", 0, "send")
  /\ UNCHANGED <<msgs, polled, cursor, memory, crashes, taken, gone>>

Relayed(r) ==
  /\ Delivered(r, "ipc")
  /\ Free(r, "ipc")
  /\ UNCHANGED <<items, shown, faults, msgs, polled, cursor, memory, said, crashes, taken, gone>>

\* Mutant of Recovered: open rows do not ask for a run.
RecoveredMessagesOnly(r) == Processable(Unread(r)) # {}

\* recoverPendingMessages: an open row or an unread message asks for a run.
Recovered(r) == OpenItem(r) # 0 \/ Processable(Unread(r)) # {}

Restart ==
  /\ crashes < MaxCrashes /\ crashes' = crashes + 1
  /\ run' = [r \in Rooms |-> NoRun]
  /\ del' = [r \in Rooms |-> [w \in Deliverers |-> NoDelivery]]
  /\ batch' = {} /\ acking' = None
  /\ pending' = [r \in Rooms |-> Recovered(r)]
  /\ cursor' = [r \in Rooms |-> IF Recovered(r) \/ Unread(r) = {} THEN cursor[r] ELSE Max(Unread(r))]
  /\ gone' = gone \cup {i \in DOMAIN msgs : i <= cursor'[msgs[i].room]}
  /\ UNCHANGED <<items, shown, faults, msgs, polled, said, taken>>

----------------------------------------------------------------------------
Deliveries(r) == \E w \in Deliverers :
  DeliveryStep(r, w) /\ UNCHANGED <<msgs, polled, cursor, memory, said, crashes, taken, gone>>

Next ==
  \/ \E r \in Rooms, kind \in Kinds, at \in Times : Receive(r, kind, at)
  \/ Poll \/ Dispatch \/ AckStop
  \/ \E r \in Rooms : StartRun(r) \/ RunStep(r) \/ AgentThrows(r) \/ PreFails(r)
                      \/ CompactFails(r) \/ CompactSays(r) \/ Relay(r) \/ Relayed(r) \/ Deliveries(r)
  \/ Restart

Spec == Init /\ [][Next]_vars

\* The loop polls for ever, the queue starts every run it was asked for
\* (GroupQueue, MessagesServed), an agent ends, a call of the channel answers.
Fairness ==
  /\ WF_vars(Poll) /\ WF_vars(Dispatch) /\ WF_vars(AckStop)
  /\ \A r \in Rooms :
       /\ WF_vars(StartRun(r)) /\ WF_vars(RunStep(r)) /\ WF_vars(Relayed(r))
       /\ \A w \in Deliverers : WF_vars(DeliveryStep(r, w) /\ UNCHANGED
            <<msgs, polled, cursor, memory, said, crashes, taken, gone>>)

FairSpec == Spec /\ Fairness

----------------------------------------------------------------------------
(* Properties *)

\* Whatever is retried after a crash, a lost answer or a failed edit, and
\* whoever delivers the same row at the same time, Discord shows each part of
\* an output once, apart from an edited progress message.
SentAtMostOnce ==
  \A i \in DOMAIN items : \A p \in 1..Parts : shown[i].sent[p] <= 1

\* A command but /stop that is consumed by its timestamp, or the messages in
\* front of a /compact, take with them what was stored later and is not later.
Overtaken(i) ==
  \E c, j \in Of(msgs[i].room, DOMAIN msgs) :
    /\ c < i /\ i <= j /\ msgs[j].at <= msgs[c].at /\ j <= cursor[msgs[i].room]
    /\ \/ msgs[c].kind \in Commands \ {"stop"}
       \/ \E k \in Of(msgs[i].room, DOMAIN msgs) : c < k /\ msgs[k].kind = "compact"

\* The agent's cursor passes a message only when an agent was given it or a
\* command consumed it; the exceptions are an ignored bot message behind it and
\* a command consumed by its timestamp (README, Disagreements).
NothingSkipped ==
  \A r \in Rooms : \A i \in OfKind({"human"}, Of(r, DOMAIN msgs)) :
    i <= cursor[r] =>
      \/ i \in taken
      \/ \E b \in OfKind({"bot"}, Of(r, DOMAIN msgs)) : i < b /\ b <= cursor[r]
      \/ Overtaken(i)

\* What /stop, a piped dispatch or an earlier run has consumed is not claimed by
\* a run afterwards, though the run had gathered it before: an agent is only
\* started with messages that nothing had consumed when its run claimed them.
\* (That /stop comes between the claim and the start is possible: README,
\* Disagreements.)
ConsumedStaysConsumed == \A r \in Rooms : ClaimedBy(run[r]) \cap gone = {}

\* Every human message ends up with an agent or consumed by a command, through
\* interrupted runs, failed deliveries and restarts.  Not claimed for one behind
\* a /clear, /compact or denied command, or before a bot message.
Taken(i) == msgs[i].kind = "human" => i \in taken
Excused(i) ==
  \E j \in Of(msgs[i].room, DOMAIN msgs) :
    \/ j < i /\ msgs[j].kind \in {"clear", "compact", "denied"}
    \/ j > i /\ msgs[j].kind = "bot"
MessagesTaken == <>[](\A i \in DOMAIN msgs : Taken(i) \/ Excused(i))

\* A final text that was written down ends up delivered or superseded, across
\* failed sends and restarts, unless the room was stopped after it.
StoppedAfter(i) == \E j \in OfKind({"stop"}, DOMAIN msgs) : j > items[i].upTo
FinalsSettle ==
  <>[](\A i \in DOMAIN items : items[i].by = "final" /\ IsOpen(i) => StoppedAfter(i))
=============================================================================
