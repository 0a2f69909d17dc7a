SPECIFICATION Spec
CHECK_DEADLOCK FALSE
INVARIANTS DoneOnlyAfterFinalize
PROPERTIES FollowsLifecycle
CONSTANTS
  None = None
  ArbiterEnabled = FALSE
  DeadlockThreshold = 2
  MaxEpisodeRoundTrips = 2
  MaxArbitrations = 1
  StagnationThreshold = 1
  OwnerVerdicts <- SomeOwnerVerdicts
  ReviewerVerdicts <- SomeReviewerVerdicts
  ArbiterVerdicts = {}
  d1 = d1
  Directives = {}
  DirectiveErrors = {}
  SameProgress = {TRUE, FALSE}
  Evidence = {"accepted", "rejected"}
  Failures = {"retryable", "account", "other", "crash"}
  Interference = {"stop", "delivery"}
  Watchers = {}
  PlanLengths = {0, 2}
  MaxTurns = 7
  MaxMessages = 2
  MaxGoals = 1
