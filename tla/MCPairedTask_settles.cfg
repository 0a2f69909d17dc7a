SPECIFICATION FairSpec
CHECK_DEADLOCK FALSE
INVARIANTS GoalKeepsMoving
PROPERTIES LoopSettles
CONSTANTS
  None = None
  ArbiterEnabled = TRUE
  DeadlockThreshold = 2
  MaxEpisodeRoundTrips = 5
  MaxArbitrations = 1
  StagnationThreshold = 1
  OwnerVerdicts = {"task_done", "done_with_concerns", "blocked"}
  ReviewerVerdicts <- SomeReviewerVerdicts
  ArbiterVerdicts = {"escalate"}
  d1 = d1
  Directives = {d1}
  DirectiveErrors = {}
  SameProgress = {FALSE}
  Evidence = {"accepted"}
  Failures = {}
  Interference = {"stop", "clear"}
  Watchers = {}
  PlanLengths = {0, 2}
  MaxTurns = 30
  MaxMessages = 2
  MaxGoals = 2
