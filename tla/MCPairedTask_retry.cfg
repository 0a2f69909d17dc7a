SPECIFICATION Spec
CHECK_DEADLOCK FALSE
INVARIANTS RetryResumesWork
CONSTANTS
  None = None
  ArbiterEnabled = TRUE
  DeadlockThreshold = 2
  MaxEpisodeRoundTrips = 2
  MaxArbitrations = 1
  StagnationThreshold = 1
  OwnerVerdicts <- SomeOwnerVerdicts
  ReviewerVerdicts <- SomeReviewerVerdicts
  ArbiterVerdicts <- AllArbiterVerdicts
  d1 = d1
  Directives = {d1}
  DirectiveErrors = {}
  SameProgress = {TRUE, FALSE}
  Evidence = {"accepted"}
  Failures = {"retryable"}
  Interference = {}
  Watchers = {}
  PlanLengths = {}
  MaxTurns = 5
  MaxMessages = 2
  MaxGoals = 1
