SPECIFICATION Spec
CHECK_DEADLOCK FALSE
INVARIANTS NothingRefused ExternalWaitIsWatched
PROPERTIES StopHolds CompletedIsFinal
CONSTANTS
  None = None
  ArbiterEnabled = TRUE
  DeadlockThreshold = 2
  MaxEpisodeRoundTrips = 2
  MaxArbitrations = 1
  StagnationThreshold = 1
  OwnerVerdicts <- SomeOwnerVerdicts
  ReviewerVerdicts <- SomeReviewerVerdicts
  ArbiterVerdicts <- AllArbiterVerdicts
  d1 = d1
  Directives = {d1}
  DirectiveErrors = {"missing", "mismatch"}
  SameProgress = {TRUE, FALSE}
  Evidence = {"accepted", "rejected"}
  Failures = {"retryable", "account", "other", "crash"}
  Interference = {"stop", "clear", "delivery", "pause"}
  w1 = w1
  Watchers = {w1}
  PlanLengths = {0, 2}
  MaxTurns = 5
  MaxMessages = 2
  MaxGoals = 1
