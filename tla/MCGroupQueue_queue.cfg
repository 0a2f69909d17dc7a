SPECIFICATION FairSpec
CONSTANTS
  Groups = {g1, g2, g3}
  Tasks = {t1, t2}
  RunIds = {r1, r2, r3}
  Procs = {}
  TurnCloseReasons = {}
  LoopCloseReasons = {}
  IpcDirChoices = {TRUE}
  MaxConcurrentAgents = 2
  RecoveryConcurrentAgents = 1
  MaxRetries = 1
  MaxArrivals = 3
  MaxSpawns = 0
  None = None
CHECK_DEADLOCK FALSE
INVARIANTS CountersExact CapacityRespected NoStrandedWork MessagesWaitOnlyWhenFull
PROPERTIES MessagesServed TasksServed
