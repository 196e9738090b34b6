SPECIFICATION Spec
CONSTANTS
  Workloads <- MCSignups
  Headers <- MCHeaders
  TokenCap = 0
  MaxTokens = 1
CHECK_DEADLOCK FALSE
INVARIANT OneOrgPerEmail
