----------------------------- MODULE AgentTurn -----------------------------
(***************************************************************************)
(* One turn of an agent, from the first process that runs it to the end of *)
(* what the room sees: the agent's process and the outputs it writes       *)
(* (agent-runner-process.ts), their evaluation (streamed-output-evaluator  *)
(* .ts, message-agent-executor-attempt-runner.ts), the decision to run the *)
(* turn again, on a fresh session, on the same account or on another one   *)
(* (message-agent-executor-lifecycle.ts, agent-attempt-retry.ts,           *)
(* provider-retry.ts, token-rotation.ts), or to hand it to Codex, and the  *)
(* controller of the turn, which shows the outputs (TurnController).       *)
(*                                                                         *)
(* The agent is arbitrary: it writes what it likes and ends when and how   *)
(* it likes, or only when it is killed.  Its 'exit' may be handled while   *)
(* output is left in the pipe; that output is read later, except that what *)
(* an attempt which is run again had left is dropped.  Every account is in *)
(* cooldown long enough to outlast the turn.                               *)
(***************************************************************************)
EXTENDS TurnController, FiniteSets

CONSTANTS
  Tokens,        \* number of accounts
  MaxTransient,  \* retries on one account of a provider that fails: 2 in the code
  MaxShown,      \* bounds: progress and finals of one attempt
  MaxFinals
ASSUME AgentTurnAssumption ==
  /\ Tokens \in Nat \ {0, 1} /\ MaxTransient \in Nat
  /\ MaxShown \in Nat /\ MaxFinals \in Nat

\* Errors for which a turn is run again: a rate or usage limit, a failing
\* provider, an expired login.  "session": the session is unusable.
Reasons == {"limit", "overloaded", "auth"}
Outputs == Shown \cup FinalOutputs \cup Reasons \cup {"session"}
Finals == Outputs \ Shown

VARIABLES
  provider,
  run,        \* the attempt in progress
  stage,      \* primary, fresh (session dropped) or rotate
  first,      \* the attempt that led to the rotation
  transient,  \* retries on the same account
  refreshed,  \* tokens refreshed by force
  token, cooling,
  outcome,    \* of runAgentForGroup
  answered,   \* history: a final with a text went to the controller in time
  late        \* history: an output was read after its process's end

retryVars == <<stage, first, transient, refreshed, token, cooling>>
ghosts == <<answered, late>>
vars == <<turnVars, provider, run, retryVars, outcome, ghosts>>

\* How a process ends: by itself, by a signal, or killed after a timeout.
Exits == {"ok", "fail", "signal", "activity", "hard"}
NothingWritten == [shown |-> 0, final |-> 0]
NewRun == [alive |-> TRUE, unread |-> FALSE, written |-> NothingWritten, chain |-> <<>>,
           busy |-> "none", streamed |-> FALSE, flushed |-> FALSE, ahead |-> 0,
           verdict |-> "none", saw |-> FALSE, vis |-> FALSE, nullOnly |-> FALSE,
           trigger |-> "none", session |-> FALSE]
NoFirst == [vis |-> FALSE, reason |-> "none"]

Closed == run.verdict # "none"

TypeOK ==
  /\ ControllerTypeOK
  /\ provider \in {"claude", "codex"}
  /\ run.alive = ~Closed
  /\ run.unread \in BOOLEAN /\ run.chain \in Seq(Outputs)
  /\ run.busy \in Outputs \cup {"none"}
  /\ run.verdict \in {"none", "success", "error", "failed", "over"}
  /\ run.ahead <= Len(run.chain) + 1
  /\ run.trigger \in Reasons \cup {"none"}
  /\ stage \in {"primary", "fresh", "rotate"}
  /\ (first.reason # "none" => stage = "rotate") /\ first.reason \in Reasons \cup {"none"}
  /\ transient \in 0..MaxTransient /\ refreshed \subseteq 1..Tokens
  /\ token \in 1..Tokens /\ cooling \subseteq 1..Tokens
  /\ outcome \in {"none", "success", "error"}

Init ==
  /\ ControllerInit
  /\ provider \in {"claude", "codex"}
  /\ run = NewRun
  /\ stage = "primary" /\ first = NoFirst
  /\ transient = 0 /\ refreshed = {} /\ token = 1 /\ cooling = {}
  /\ outcome = "none"
  /\ answered = FALSE /\ late = FALSE

Stays == UNCHANGED <<provider, retryVars, outcome>>

-----------------------------------------------------------------------------
(* The evaluation of an output.                                            *)

Triggers(o) == o \in Reasons /\ ~run.saw /\ run.trigger = "none"
Suppressed(o) == (~run.saw /\ o = "session") \/ Triggers(o)

\* What the controller makes of an output: an error is an error.
Shape(o) == IF o \in Shown \cup FinalOutputs THEN o ELSE "fault"

Says(o) == o \in Shown \cup {"final", "hidden"}
Evaluated(o, r) ==
  [r EXCEPT !.session = @ \/ (o = "session" /\ ~r.saw),
            !.trigger = IF Triggers(o) THEN o ELSE @,
            !.saw = @ \/ o \in {"final", "hidden"},
            !.vis = @ \/ Says(o),
            !.nullOnly = @ \/ (provider = "claude" /\ ~r.saw /\ o \in Shown \cup {"null"}),
            !.busy = o]

\* The final of a run that lost the attempt may be refused by the store.
Forwarded(o) == IF Suppressed(o) THEN {FALSE}
                ELSE IF CanDeliver \/ o \notin {"final", "hidden"} THEN {TRUE} ELSE BOOLEAN

\* A final that was handled arms the post-terminal cleanup.
Done(r) ==
  [r EXCEPT !.busy = "none", !.ahead = IF @ > 0 THEN @ - 1 ELSE 0,
            !.flushed = @ \/ (r.busy \in Finals /\ ~Closed)]


Handle(o, r) ==
  /\ \E forward \in Forwarded(o) :
       IF forward
       THEN /\ HandleOutput(Shape(o))
            /\ answered' = (answered \/ (o = "final" /\ ~late'))
       ELSE UNCHANGED <<turnVars, answered>>
  /\ run' = IF at'["handler"] = "idle" THEN Done(Evaluated(o, r)) ELSE Evaluated(o, r)

\* Outputs are handled one after the other.
Read(o, r) ==
  IF at["handler"] = "idle" /\ r.chain = <<>> THEN Handle(o, r)
  ELSE run' = [r EXCEPT !.chain = Append(@, o)] /\ UNCHANGED <<turnVars, answered>>

Take ==
  /\ run.chain # <<>> /\ at["handler"] = "idle"
  /\ UNCHANGED late
  /\ Handle(Head(run.chain), [run EXCEPT !.chain = Tail(@)])
  /\ Stays

-----------------------------------------------------------------------------
(* The agent's process.                                                    *)

Class(o) == IF o \in Shown THEN "shown" ELSE "final"
Writable == {o \in Outputs : run.written[Class(o)] < IF o \in Shown THEN MaxShown ELSE MaxFinals}
Write(o) ==
  /\ run.alive /\ o \in Writable
  /\ UNCHANGED late
  /\ Read(o, [run EXCEPT !.written[Class(o)] = @ + 1, !.streamed = TRUE])
  /\ Stays

\* "failed": with an error text that may name a reason.
Verdict(how) ==
  CASE how = "ok"                   -> "success"
    [] how = "fail"                 -> "failed"
    [] how = "hard"                 -> "error"
    [] how \in {"signal", "activity"} -> IF run.streamed THEN "success" ELSE "error"

\* The verdict waits for the outputs that were read before.
FinishProcess(how, unread) ==
  /\ run' = [run EXCEPT !.alive = FALSE, !.verdict = Verdict(how), !.unread = unread,
                        !.written = IF unread THEN @ ELSE NothingWritten, !.flushed = FALSE,
                        !.ahead = Len(run.chain) + (IF run.busy = "none" THEN 0 ELSE 1)]
  /\ UNCHANGED <<turnVars, ghosts>> /\ Stays

\* Once something was streamed 'exit' counts, and may find an output unread;
\* before that 'close' does, which comes when the pipe is read.
ProcessEnds(how) ==
  /\ run.alive
  /\ \E unread \in {FALSE, run.streamed /\ Writable # {}} : FinishProcess(how, unread)

\* No exit event after the SIGTERM and the SIGKILL of the cleanup that
\* follows a final: the process is given up.
ForceResolve == run.alive /\ run.flushed /\ FinishProcess("signal", FALSE)

\* What was left is known when it is read.
ReadLate(o) ==
  /\ run.unread /\ outcome # "none" /\ o \in Writable
  /\ late' = TRUE
  /\ Read(o, [run EXCEPT !.unread = FALSE, !.written = NothingWritten])
  /\ Stays

-----------------------------------------------------------------------------
(* Accounts.                                                               *)

NextTokens == {t \in 1..Tokens : t # token /\ t \notin cooling}
Nearest(t) == (t + Tokens - token) % Tokens

\* Mutant of RotateToken: the account that failed may be taken again.
RotateTokenWarm ==
  /\ token' \in NextTokens
  /\ \A t \in NextTokens : Nearest(token') <= Nearest(t)
  /\ UNCHANGED cooling

\* The current account rests, the next one in order takes over.
RotateToken ==
  /\ cooling' = cooling \cup {token}
  /\ token' \in NextTokens
  /\ \A t \in NextTokens : Nearest(token') <= Nearest(t)
MarkHealthy == cooling' = cooling \ {token} /\ UNCHANGED token

-----------------------------------------------------------------------------
(* What follows an attempt.                                                *)

Resolved == Closed /\ run.ahead = 0 /\ outcome = "none"

Again(st) ==
  /\ run' = NewRun /\ stage' = st
  /\ UNCHANGED <<turnVars, provider, outcome, ghosts>>

\* The locals of the attempts go with them.
Ends(o) ==
  /\ outcome' = o
  /\ stage' = "primary" /\ first' = NoFirst /\ transient' = 0 /\ refreshed' = {}
  /\ run' = [run EXCEPT !.verdict = "over", !.vis = FALSE, !.nullOnly = FALSE, !.flushed = FALSE]
  /\ UNCHANGED <<turnVars, provider, ghosts>>

\* Rooms with a reviewer may hand some failures to Codex: a success here.
HandsOff(why, vis) ==
  provider = "claude" /\ paired /\ ~vis /\ why \in {"limit", "auth", "session"}
Fails(why, vis) ==
  /\ UNCHANGED token
  /\ Ends("error") \/ (HandsOff(why, vis) /\ Ends("success"))

Succeeds(heal) ==
  /\ IF heal THEN MarkHealthy ELSE UNCHANGED <<token, cooling>>
  /\ Ends("success")

\* The rotation loops: the same account twice, a refreshed token once each,
\* then the accounts that are not in cooldown.
RetryTransient(why) ==
  /\ provider = "claude" /\ why = "overloaded" /\ transient < MaxTransient
  /\ transient' = transient + 1
  /\ Again("rotate") /\ UNCHANGED <<refreshed, token, cooling>>

MayRefresh(why) == provider = "claude" /\ why = "auth" /\ token \notin refreshed
RetryRefreshed(why) ==
  /\ MayRefresh(why)
  /\ refreshed' = refreshed \cup {token}
  /\ Again("rotate") /\ UNCHANGED <<transient, token, cooling>>

Rotates(why) == provider = "codex" \/ why # "overloaded"
RetryRotated(why) ==
  /\ Rotates(why)
  /\ refreshed' = IF MayRefresh(why) THEN refreshed \cup {token} ELSE refreshed
  /\ RotateToken
  /\ Again("rotate") /\ UNCHANGED transient

Exhausted(why) ==
  IF Rotates(why) THEN NextTokens = {} /\ cooling' = cooling \cup {token}
                  ELSE transient = MaxTransient /\ UNCHANGED cooling

Rotate(why, was) ==
  \/ /\ first' = was
     /\ RetryTransient(why) \/ RetryRefreshed(why) \/ RetryRotated(why)
  \/ Exhausted(why) /\ Fails(was.reason, was.vis)

\* A session that is unusable before anything was answered is dropped, once.
SessionFailed == ~run.saw /\ run.session
DropSession ==
  /\ Resolved /\ stage = "primary" /\ SessionFailed
  /\ Again("fresh") /\ UNCHANGED <<first, transient, refreshed, token, cooling>>
SessionStillFails ==
  /\ Resolved /\ stage = "fresh" /\ SessionFailed
  /\ Fails("session", run.vis) /\ UNCHANGED cooling

\* The text of a failed exit may name a reason; a timeout's does not.
ErrorTexts == IF run.verdict = "failed" THEN Reasons \cup {"none"} ELSE {"none"}
Why(err) == IF run.trigger # "none" THEN run.trigger ELSE err

\* Mutant of MayRetry: an answer does not matter.
MayRetryAlways == TRUE

\* Claude is run again only if nothing was answered, Codex whatever it
\* answered.
MayRetry == provider = "codex" \/ ~run.saw
OnlyNull == run.nullOnly /\ ~run.saw

AfterFirst(err) ==
  /\ Resolved /\ stage # "rotate" /\ ~SessionFailed
  /\ IF MayRetry /\ Why(err) # "none"
     THEN Rotate(Why(err), [vis |-> run.vis, reason |-> Why(err)])
     ELSE IF run.verdict = "success" /\ run.trigger = "none" /\ ~OnlyNull
     THEN Succeeds(FALSE)
     ELSE /\ UNCHANGED cooling
          /\ Fails(IF run.verdict = "success" THEN run.trigger ELSE "none", run.vis)

RetryRotation(err) ==
  /\ Why(err) # "none"
  /\ \/ ~run.saw /\ (run.verdict = "success" \/ ~run.nullOnly)
     \/ provider = "codex" /\ run.verdict # "success"
AfterRotated(err) ==
  /\ Resolved /\ stage = "rotate"
  /\ IF RetryRotation(err) THEN Rotate(Why(err), first)
     ELSE IF run.verdict = "success" /\ ~OnlyNull THEN Succeeds(TRUE)
     ELSE Fails(first.reason, first.vis) /\ UNCHANGED cooling

AfterAttempt ==
  DropSession \/ SessionStillFails \/ \E err \in ErrorTexts : AfterFirst(err) \/ AfterRotated(err)

-----------------------------------------------------------------------------
Finish ==
  /\ outcome # "none"
  /\ BeginFinish \/ \E interrupted \in BOOLEAN : FinishTurn(outcome, interrupted)
  /\ UNCHANGED <<provider, run, retryVars, outcome, ghosts>>

\* The handling of an output ends with the controller's part of it.
Controller(A) ==
  /\ A
  /\ run' = IF run.busy # "none" /\ at'["handler"] = "idle" THEN Done(run) ELSE run
  /\ UNCHANGED <<provider, retryVars, outcome, ghosts>>

Agent == (\E o \in Outputs : Write(o)) \/ \E how \in Exits : ProcessEnds(how)
Runs ==
  \/ \E o \in Outputs : ReadLate(o)
  \/ Take \/ AfterAttempt \/ Finish
Shows == Controller(ControllerStep)
Next ==
  \/ Agent \/ Runs \/ Shows \/ ForceResolve
  \/ Controller(Tick) \/ Controller(LoseOwnership)

Spec == Init /\ [][Next]_vars

(* The event loop runs what is ready, the channel answers every call, and  *)
(* the timeout of a process ends it (a process that is sent SIGKILL ends). *)
(* The agent need not do anything.                                         *)
FairSpec == Spec /\ WF_vars(Runs) /\ WF_vars(Shows) /\ WF_vars(ProcessEnds("hard"))

-----------------------------------------------------------------------------
(* Properties.                                                             *)

\* The answer of the agent that reached the turn in time is the one final
\* the room is given, whatever failed around it, if the run still owns the
\* turn (message-turn-controller.ts, publishTerminalText, finish).
AnswerReachesRoom ==
  (Over /\ answered /\ owns /\ ~late) => finals = <<"answer">>

\* A turn that failed in a room without reviewer ends with a final text, given
\* or just being given (publishFailureFinalWhenSilent): nobody waits for a
\* turn that is over.
FailureIsTold ==
  (at["finish"] = "done" /\ outcome = "error" /\ ~paired) =>
    finals # <<>> \/ at["handler"] = "deliver"

\* Once a post shows the final text no edit of the progress, in flight,
\* requested or of the ticker, puts the progress back
\* (coalescing-async-task.ts, waitForIdle).
FinalIsLastWord ==
  [][\A i \in DOMAIN posts : posts[i] = "final" => posts'[i] = "final"]_vars

\* Claude is not run a second time in a turn once it has answered
\* (agent-attempt-retry.ts, provider-retry.ts).
NoRerunAfterAnswer ==
  [][provider = "claude" /\ Closed /\ ~Closed' => ~run.saw]_vars

\* A turn ends, whatever the agent, its accounts and the channel do: kills
\* end the process, cooldowns end the rotation, failed sends end nothing.
\* Progress that is read late may restart the ticker under finish(), which
\* then waits as long as edits take longer than the ticker's interval.
TurnEnds == <>(Over \/ late)
=============================================================================
