---------------------------- MODULE GoalLifecycle ----------------------------
(***************************************************************************)
(* What the paired room promises about its goals: work is reviewed before  *)
(* it is approved, an approved goal is finalized by the owner, and only a  *)
(* finalized goal that the reviewer confirms is done.  PairedTask          *)
(* implements this when no arbiter is configured.                          *)
(***************************************************************************)
EXTENDS Naturals

VARIABLES stage,  \* where the current goal is
          goals   \* goals started so far

OpenStages == {"implementing", "reviewing", "approved", "verifying"}
Stages == {"none", "done", "given_up"} \cup OpenStages

TypeOK == stage \in Stages /\ goals \in Nat

Init == stage = "none" /\ goals = 0

Move(from, to) == stage \in from /\ stage' = to /\ UNCHANGED goals

\* A human message opens a goal; an approved goal gives way to it.
Start ==
  /\ stage \in {"none", "done", "given_up", "approved"}
  /\ stage' = "implementing"
  /\ goals' = goals + 1

Submit   == Move({"implementing"}, "reviewing")
SendBack == Move({"reviewing", "verifying", "approved"}, "implementing")
Approve  == Move({"reviewing"}, "approved")
Rework   == Move({"approved"}, "reviewing")
Finalize == Move({"approved"}, "verifying")
Confirm  == Move({"verifying"}, "done")
GiveUp   == Move(OpenStages, "given_up")

Next ==
  \/ Start \/ Submit \/ SendBack \/ Approve \/ Rework
  \/ Finalize \/ Confirm \/ GiveUp

Spec == Init /\ [][Next]_<<stage, goals>>
===============================================================================
