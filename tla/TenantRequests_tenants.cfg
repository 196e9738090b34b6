SPECIFICATION Spec
CONSTANTS
  Workloads <- MCWorkloads
  Headers <- MCHeaders
  TokenCap = 2
  MaxTokens = 2
CHECK_DEADLOCK FALSE
INVARIANT TypeOK LimitsOvershootByOverlap SecretsReadable ErasureLeavesNothing BillingMatchesLedger
