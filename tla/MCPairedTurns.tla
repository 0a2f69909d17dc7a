---------------------------- MODULE MCPairedTurns ----------------------------
(* Small instances of PairedTurns for TLC. *)
EXTENDS PairedTurns

\* Every turn is approved or leaves a review that is retried later; an approved
\* goal is closed by a message.  The owner's turns follow from the start, from
\* /stop, from messages that interrupt a review and from the finalization.
ApproveOrRetryReview ==
  {[status |-> "merge_ready", super |-> "runnable"],
   [status |-> "review_ready", super |-> "waiting_retry"]}

HandoffIsOpen == handoff # None /\ handoff.state \notin {"completed", "failed"}

\* What a state can still do, and every property, depends on a turn only while
\* its revision is current, somebody executes it or it is handed over: states
\* that differ in the history of other turns are one state to TLC.
Matters(t) ==
  \/ t.rev = row.rev
  \/ \E x \in runs : x.turn = t
  \/ HandoffIsOpen /\ handoff.turn = t
  \/ attempt[t].state \in {"running", "delegated"}

\* (The two comparisons make TLC tabulate the functions it prints in a trace.)
WithoutHistory ==
  <<row, lease, IF HandoffIsOpen THEN <<handoff>> ELSE <<handoff = None>>,
    runs, check, human, events, crossed, reservation = reservation, attempt = attempt,
    {<<t, reservation[t], attempt[t]>> : t \in {u \in Turn : Matters(u)}}>>
==============================================================================
