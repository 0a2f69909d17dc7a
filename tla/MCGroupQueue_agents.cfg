SPECIFICATION FairSpec
CONSTANTS
  Groups = {g1, g2}
  Tasks = {}
  RunIds = {r1, r2, r3}
  Procs = {p1}
  TurnCloseReasons = {"output-delivered-close"}
  LoopCloseReasons = {"human-message-detected"}
  IpcDirChoices = {TRUE}
  MaxConcurrentAgents = 2
  RecoveryConcurrentAgents = 1
  MaxRetries = 0
  MaxArrivals = 2
  MaxSpawns = 1
  None = None
CHECK_DEADLOCK FALSE
INVARIANTS OneRunPerGroup PhaseInvariants ShutdownStopsRegistered
PROPERTIES DeliveredRunEnds ShutdownCompletes
