SPECIFICATION FairSpec
CONSTANTS
  t1 = t1
  t2 = t2
  Threads <- MCThreads
  Attempts = 3
  Threshold = 3
  HasFallback = TRUE
  MaxCalls = 4
CHECK_DEADLOCK FALSE
INVARIANT TypeOK AttemptsBounded OpenIsEarned FailoverWhenUnavailable
PROPERTY CallsEnd
