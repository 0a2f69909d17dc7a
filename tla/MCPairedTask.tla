---------------------------- MODULE MCPairedTask ----------------------------
(* Small instances of PairedTask for TLC. *)
EXTENDS PairedTask

\* The verdicts whose handling differs, and all of the arbiter's.
SomeOwnerVerdicts == {"step_done", "task_done", "done_with_concerns", "blocked"}
SomeReviewerVerdicts == {"step_done", "task_done", "blocked"}
AllArbiterVerdicts == {"proceed", "revise", "escalate"}

=============================================================================
