SPECIFICATION FairSpec
CONSTANTS
  Tools <- MCTools
  MaxIterations = 2
  MaxTokens = 1
  VerifyMaxAttempts = 3
  VerifySettings = {TRUE, FALSE}
  ConfidenceGate = TRUE
  MaxCost = 1
  MaxTurns = 2
  MaxAborts = 1
  AskWhilePaused = TRUE
  EvidenceBound = 2
CHECK_DEADLOCK FALSE
INVARIANT TypeOK OvershootBounded ReportAnswersThisTurn NoRecursionError LearnedOnce HistoryAnswered ExecutionsBounded
PROPERTY WritesFollowApproval WritesWereShown WritesAreGranted
PROPERTY TurnCompletes
