--------------------------- MODULE TurnController ---------------------------
(***************************************************************************)
(* What a room sees of one turn (message-turn-controller.ts): a post that  *)
(* shows progress and is edited by a ticker (coalescing-async-task.ts),    *)
(* and the final text, which replaces that post or is posted on its own.   *)
(* Every await on the channel is a step, so that edits, the handler of the *)
(* agent's outputs and the end of the turn interleave as they do in the    *)
(* code.                                                                   *)
(*                                                                         *)
(* Texts are told apart by what they are: progress, the agent's answer,    *)
(* progress replayed as an answer, the notice of a failure.  Left out:     *)
(* typing indicators, headings of subagents, the request that the agent    *)
(* close (it may end at any moment in AgentTurn), and pendingProgressText, *)
(* which is empty whenever a final is flushed, for outputs are handled one *)
(* at a time.                                                              *)
(***************************************************************************)
EXTENDS Naturals, Sequences

\* Outputs the agent may write: progress of the agent, activity of its
\* tools, final outputs with a text, with a text that is empty once
\* formatted, with no text, and with an error.
Shown == {"text", "tool"}
FinalOutputs == {"final", "hidden", "null", "fault"}

\* The two activities that may publish a final text.
Publishers == {"handler", "finish"}

VARIABLES
  paired,    \* the room has a reviewer
  owns,      \* the run still owns the turn's attempt: canDeliverFinalText
  visible,   \* visiblePhase
  posts,     \* what the tracked posts of the turn show
  tracked,   \* progressMessageId, 0 when null
  forFinal,  \* latestProgressTextForFinal is set
  hadError,
  sending,   \* pendingProgressSend is set
  ticking, requested,  \* progressEdits: the ticker, a requested edit
  editing,   \* progressEdits: the post an edit in flight is for, 0 for none
  at,        \* where the handler of an output and finish() wait
  says,      \* what they are saying
  replaces,  \* the post their final is to replace
  finals     \* history: finals handed to delivery

turnVars == <<paired, owns, visible, posts, tracked, forFinal, hadError, sending, ticking,
              requested, editing, at, says, replaces, finals>>
editVars == <<ticking, requested, editing>>

CanDeliver == ~paired \/ owns
Over == at["finish"] \in {"done", "threw"}

ControllerTypeOK ==
  /\ paired \in BOOLEAN /\ owns \in BOOLEAN
  /\ visible \in {"silent", "progress", "final"}
  /\ posts \in Seq({"progress", "final"})
  /\ tracked \in 0..Len(posts) /\ editing \in 0..Len(posts)
  /\ forFinal \in BOOLEAN /\ hadError \in BOOLEAN
  /\ ticking \in BOOLEAN /\ requested \in BOOLEAN
  /\ requested => editing # 0
  /\ at["handler"] \in {"idle", "track", "plain", "finalize", "publish", "announce", "deliver"}
  /\ at["finish"] \in {"idle", "wait", "finalize", "publish", "announce", "deliver",
                       "done", "threw"}
  /\ sending = (at["handler"] \in {"track", "plain"})
  /\ says["handler"] \in Shown \cup {"none", "answer"}
  /\ says["finish"] \in {"none", "replay", "failure"}
  /\ replaces \in [Publishers -> 0..Len(posts)]
  /\ finals \in Seq({"answer", "replay", "failure"})

ControllerInit ==
  /\ paired \in BOOLEAN /\ owns = TRUE
  /\ visible = "silent" /\ posts = <<>> /\ tracked = 0
  /\ forFinal = FALSE /\ hadError = FALSE /\ sending = FALSE
  /\ ticking = FALSE /\ requested = FALSE /\ editing = 0
  /\ at = [p \in Publishers |-> "idle"]
  /\ says = [p \in Publishers |-> "none"]
  /\ replaces = [p \in Publishers |-> 0]
  /\ finals = <<>>

-----------------------------------------------------------------------------
(* Edits of the tracked post: one in flight, later requests coalesced.     *)

Editable == IF CanDeliver THEN tracked ELSE 0

RequestEdit ==
  IF editing = 0 THEN editing' = Editable /\ requested' = FALSE
                 ELSE requested' = TRUE /\ UNCHANGED editing

Tick ==
  /\ ticking
  /\ RequestEdit
  /\ UNCHANGED <<paired, owns, visible, posts, tracked, forFinal, hadError, sending, ticking,
                 at, says, replaces, finals>>

\* An edit may fail after the channel has applied it.  The third failure in
\* a row stops the ticker: here any failure may.
EditEnds(ok) ==
  /\ editing # 0
  /\ \E applied \in IF ok THEN {TRUE} ELSE BOOLEAN :
       posts' = IF applied THEN [posts EXCEPT ![editing] = "progress"] ELSE posts
  /\ ticking' \in IF ok \/ tracked # editing THEN {ticking} ELSE {ticking, FALSE}
  /\ editing' = IF requested THEN Editable ELSE 0
  /\ requested' = FALSE
  /\ UNCHANGED <<paired, owns, visible, tracked, forFinal, hadError, sending, at, says,
                 replaces, finals>>

\* Another run has taken the turn's attempt over.
LoseOwnership ==
  /\ paired /\ owns
  /\ owns' = FALSE
  /\ UNCHANGED <<paired, visible, posts, tracked, forFinal, hadError, sending, editVars, at,
                 says, replaces, finals>>

-----------------------------------------------------------------------------
(* Progress.                                                               *)

HandlerAt(pc, what) ==
  at' = [at EXCEPT !["handler"] = pc] /\ says' = [says EXCEPT !["handler"] = what]

\* A first post.  The ticker of a tool's activity starts whatever became of it.
SendProgress(o) ==
  IF CanDeliver
  THEN /\ HandlerAt("track", o) /\ sending' = TRUE
       /\ forFinal' = (forFinal \/ o = "text")
       /\ UNCHANGED <<visible, posts, tracked, hadError, editVars, replaces, finals>>
  ELSE /\ ticking' = (ticking \/ o = "tool")
       /\ UNCHANGED <<visible, posts, tracked, forFinal, hadError, sending, requested, editing,
                      at, says, replaces, finals>>

HandleText ==
  IF tracked = 0 THEN SendProgress("text")
  ELSE /\ forFinal' = TRUE
       /\ RequestEdit
       /\ UNCHANGED <<visible, posts, tracked, hadError, sending, ticking, at, says, replaces,
                      finals>>

HandleTool ==
  IF tracked = 0 THEN SendProgress("tool")
  ELSE /\ ticking' = TRUE
       /\ UNCHANGED <<visible, posts, tracked, forFinal, hadError, sending, requested, editing,
                      at, says, replaces, finals>>

Tracked ==
  /\ at["handler"] = "track"
  /\ posts' = Append(posts, "progress") /\ tracked' = Len(posts) + 1
  /\ ticking' = TRUE /\ visible' = "progress"
  /\ sending' = FALSE /\ HandlerAt("idle", "none")
  /\ UNCHANGED <<paired, owns, forFinal, hadError, requested, editing, replaces, finals>>

NotTracked ==
  /\ at["handler"] = "track"
  /\ HandlerAt("plain", says["handler"])
  /\ UNCHANGED <<paired, owns, visible, posts, tracked, forFinal, hadError, sending, editVars,
                 replaces, finals>>

PlainSent ==
  /\ at["handler"] = "plain"
  /\ visible' = "progress"
  /\ ticking' = (ticking \/ says["handler"] = "tool")
  /\ sending' = FALSE /\ HandlerAt("idle", "none")
  /\ UNCHANGED <<paired, owns, posts, tracked, forFinal, hadError, requested, editing, replaces,
                 finals>>

\* Mutant of PlainFails: the failed send stays pending.
PlainFailsPending ==
  /\ at["handler"] = "plain"
  /\ at' = [at EXCEPT !["handler"] = "idle"]
  /\ says' = [says EXCEPT !["handler"] = "none"]
  /\ UNCHANGED <<paired, owns, visible, posts, tracked, forFinal, hadError, sending, editVars,
                 replaces, finals>>

\* The error ends the handling of this output, and a finish() that waits
\* for the same send.
PlainFails ==
  /\ at["handler"] = "plain"
  /\ sending' = FALSE
  /\ at' = [at EXCEPT !["handler"] = "idle",
                      !["finish"] = IF @ = "wait" THEN "threw" ELSE @]
  /\ says' = [says EXCEPT !["handler"] = "none"]
  /\ UNCHANGED <<paired, owns, visible, posts, tracked, forFinal, hadError, editVars, replaces,
                 finals>>

-----------------------------------------------------------------------------
(* Final texts, of the handler and of finish().                            *)

ResetProgress == ticking' = FALSE /\ requested' = FALSE /\ tracked' = 0

BeginPublish(p, what) ==
  /\ at' = [at EXCEPT ![p] = "publish"] /\ says' = [says EXCEPT ![p] = what]
  /\ ticking' = FALSE /\ requested' = FALSE
  /\ UNCHANGED <<visible, posts, tracked, forFinal, sending, editing, replaces, finals>>

BeginFinalize(p) ==
  /\ at' = [at EXCEPT ![p] = "finalize"]
  /\ ticking' = FALSE /\ RequestEdit
  /\ UNCHANGED <<visible, posts, tracked, forFinal, sending, says, replaces, finals>>

\* Mutant of EditsAreIdle: the final does not wait for the edit in flight.
EditsAreIgnored == TRUE

\* A final with attachments does not replace the post.
EditsAreIdle == editing = 0
Consume(p) ==
  /\ at[p] = "publish" /\ EditsAreIdle
  /\ \E post \in IF says[p] = "answer" THEN {tracked, 0} ELSE {tracked} :
       replaces' = [replaces EXCEPT ![p] = post]
  /\ ResetProgress
  /\ at' = [at EXCEPT ![p] = "announce"]
  /\ UNCHANGED <<paired, owns, visible, posts, forFinal, hadError, sending, editing, says,
                 finals>>

Left(p) == IF p = "handler" THEN "idle" ELSE "done"
Leave(p) ==
  /\ at' = [at EXCEPT ![p] = Left(p)] /\ says' = [says EXCEPT ![p] = "none"]
  /\ replaces' = [replaces EXCEPT ![p] = 0]

Announce(p) ==
  /\ at[p] = "announce"
  /\ visible' = "final"
  /\ IF CanDeliver
     THEN at' = [at EXCEPT ![p] = "deliver"] /\ UNCHANGED <<forFinal, ticking, says, replaces>>
     ELSE forFinal' = FALSE /\ Leave(p) /\ ticking' = (ticking /\ p = "handler")
  /\ UNCHANGED <<paired, owns, posts, tracked, hadError, sending, requested, editing, finals>>

\* The text is stored and, unless that fails, replaces the post.
Delivered(p) ==
  /\ at[p] = "deliver"
  /\ finals' = Append(finals, says[p])
  /\ posts' \in {posts} \cup
       {[posts EXCEPT ![i] = "final"] : i \in {replaces[p]} \ {0}}
  /\ forFinal' = FALSE
  /\ Leave(p) /\ ticking' = (ticking /\ p = "handler")
  /\ UNCHANGED <<paired, owns, visible, tracked, hadError, sending, requested, editing>>

Finalized(p) ==
  /\ at[p] = "finalize" /\ editing = 0
  /\ ResetProgress /\ forFinal' = FALSE
  /\ Leave(p)
  /\ UNCHANGED <<paired, owns, visible, posts, hadError, sending, editing, finals>>

-----------------------------------------------------------------------------
(* The handler of an output, and the end of the turn.                      *)

NothingShown ==
  UNCHANGED <<visible, posts, tracked, forFinal, sending, editVars, at, says, replaces, finals>>

HandleOutput(o) ==
  /\ at["handler"] = "idle"
  /\ IF visible = "final" THEN NothingShown /\ UNCHANGED hadError
     ELSE CASE o = "text"   -> HandleText
            [] o = "tool"   -> HandleTool
            [] o = "final"  -> BeginPublish("handler", "answer") /\ UNCHANGED hadError
            [] o = "hidden" -> BeginFinalize("handler") /\ UNCHANGED hadError
            [] o = "null"   -> NothingShown /\ UNCHANGED hadError
            [] o = "fault"  -> NothingShown /\ hadError' = TRUE
  /\ UNCHANGED <<paired, owns>>

BeginFinish ==
  /\ at["finish"] = "idle"
  /\ at' = [at EXCEPT !["finish"] = "wait"]
  /\ UNCHANGED <<paired, owns, visible, posts, tracked, forFinal, hadError, sending, editVars,
                 says, replaces, finals>>

FinishQuietly ==
  /\ at' = [at EXCEPT !["finish"] = "done"] /\ ticking' = FALSE
  /\ UNCHANGED <<visible, posts, tracked, forFinal, sending, requested, editing, says, replaces,
                 finals>>

\* A message of a human interrupted the turn: its progress stays as it is.
FinishInterrupted ==
  /\ at' = [at EXCEPT !["finish"] = "done"] /\ ResetProgress
  /\ UNCHANGED <<visible, posts, forFinal, sending, editing, says, replaces, finals>>

\* Mutants of TellsFailure: silent turns are left silent; a final does not
\* stop the notice.
TellsFailureOfProgress == visible = "progress"
TellsFailureAlways == visible = "progress" \/ ~paired

TellsFailure == visible # "final" /\ (visible = "progress" \/ ~paired)

FinishTurn(outcome, interrupted) ==
  /\ at["finish"] = "wait" /\ ~sending
  /\ hadError' = (hadError \/ outcome = "error")
  /\ IF outcome = "success" /\ visible = "progress" /\ ~hadError' /\ forFinal
     THEN CASE interrupted           -> FinishInterrupted
            [] ~interrupted /\ ~paired -> BeginPublish("finish", "replay")
            [] ~interrupted /\ paired  -> BeginFinalize("finish")
     ELSE IF hadError' /\ TellsFailure THEN BeginPublish("finish", "failure")
     ELSE FinishQuietly
  /\ UNCHANGED <<paired, owns>>

ControllerStep ==
  \/ Tracked \/ NotTracked \/ PlainSent \/ PlainFails
  \/ \E ok \in BOOLEAN : EditEnds(ok)
  \/ \E p \in Publishers : Consume(p) \/ Announce(p) \/ Delivered(p) \/ Finalized(p)
=============================================================================
