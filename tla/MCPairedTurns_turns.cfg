SPECIFICATION FairSpec
CONSTANTS
  RunIds = {r1, r2}
  Outcomes <- ApproveOrRetryReview
  Fallback = TRUE
  MaxRevision = 3
  MaxEvents = 2
  None = None
VIEW WithoutHistory
CHECK_DEADLOCK FALSE
INVARIANTS LeaseIsHeld
PROPERTIES WriterHoldsLease NoLateDelivery GoalMovesOn
