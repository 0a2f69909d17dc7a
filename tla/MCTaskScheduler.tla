-------------------------- MODULE MCTaskScheduler --------------------------
(* Two tasks, two CI runs: a watcher can be asked for again after another  *)
(* one has seen the end of its run.                                        *)
EXTENDS TaskScheduler
CONSTANTS t1, t2, r1, r2
MCTasks == {t1, t2}
MCRefs == {r1, r2}
=============================================================================
