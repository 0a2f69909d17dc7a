SPECIFICATION FairSpec
CONSTANTS
  Rooms = {a}
  Parts = 1
  Idempotent = TRUE
  MaxFaults = 1
  Kinds = {"human", "peer", "bot", "stop", "clear", "compact", "denied"}
  Times = {1, 2}
  MaxMessages = 2
  MaxSaid = 1
  MaxCrashes = 1
  None = None
VIEW View
CHECK_DEADLOCK FALSE
INVARIANTS SentAtMostOnce NothingSkipped ConsumedStaysConsumed
PROPERTIES MessagesTaken FinalsSettle
