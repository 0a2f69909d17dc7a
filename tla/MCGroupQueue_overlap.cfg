SPECIFICATION StartedSpec
CONSTANTS
  Groups = {g1, g2}
  Tasks = {t1, t2}
  RunIds = {r1, r2, r3}
  Procs = {}
  TurnCloseReasons = {}
  LoopCloseReasons = {}
  IpcDirChoices = {FALSE}
  MaxConcurrentAgents = 2
  RecoveryConcurrentAgents = 1
  MaxRetries = 1
  MaxArrivals = 4
  MaxSpawns = 0
  None = None
SYMMETRY IdSymmetry
CHECK_DEADLOCK FALSE
INVARIANTS OneRunPerGroup
