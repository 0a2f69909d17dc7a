---------------------------- MODULE MCGroupQueue ----------------------------
(* Small instances of GroupQueue for TLC. *)
EXTENDS GroupQueue, TLC

\* Run ids and process ids are interchangeable identities.
IdSymmetry == Permutations(RunIds) \cup Permutations(Procs)

\* The queue as the program uses it: main() (src/src/index.ts:663-669) starts
\* the scheduler and the IPC watcher and sets the handler without an await
\* between them.  Only the scheduler's first tick may enqueue before that, and
\* here it finds nothing due.
StartedNext ==
  /\ ~handlerSet => SetProcessMessagesFn
  /\ Next

StartedSpec == Init /\ [][StartedNext]_vars
=============================================================================
