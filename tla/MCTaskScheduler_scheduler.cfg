SPECIFICATION FairSpec
CONSTANTS
  t1 = t1
  t2 = t2
  r1 = r1
  r2 = r2
  None = None
  Tasks <- MCTasks
  Refs <- MCRefs
  MaxErrors = 2
  MaxFailures = 1
  MaxCrashes = 1
INVARIANTS
  EventOnce
PROPERTIES
  StoppedStaysStopped
  WaitEnds
CHECK_DEADLOCK FALSE
