SPECIFICATION FairSpec
CONSTANTS
  Tokens = 2
  MaxTransient = 1
  MaxShown = 1
  MaxFinals = 1
CHECK_DEADLOCK FALSE
INVARIANTS TypeOK AnswerReachesRoom FailureIsTold
PROPERTIES FinalIsLastWord NoRerunAfterAnswer TurnEnds
