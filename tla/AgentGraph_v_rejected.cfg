SPECIFICATION Spec
CONSTANTS
  Tools <- MCHighRisk
  MaxIterations = 3
  MaxTokens = 0
  VerifyMaxAttempts = 1
  VerifySettings = {TRUE}
  ConfidenceGate = TRUE
  MaxCost = 0
  MaxTurns = 1
  MaxAborts = 1
  AskWhilePaused = FALSE
  EvidenceBound = 4
CHECK_DEADLOCK FALSE
PROPERTY RejectionStopsWrites
