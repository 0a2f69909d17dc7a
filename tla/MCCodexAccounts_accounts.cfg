SPECIFICATION FairSpec
CONSTANTS
  owner = owner
  reviewer = reviewer
  None = None
  Runs <- MCRuns
  ReadonlyRuns <- MCReadonlyRuns
  NumAccounts = 2
  MaxTurns = 4
  MaxEvents = 3
INVARIANTS
  WorkersExclusive
PROPERTIES
  RefusedOnlyWhenTaken
  TurnsEnd
CHECK_DEADLOCK FALSE
