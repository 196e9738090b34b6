SPECIFICATION Spec
CONSTANTS
  a = a
  b = b
  r1 = r1
  r2 = r2
  r3 = r3
  r4 = r4
  c = c
  p1 = p1
  p2 = p2
  k = k
  unset = unset
  host = host
  Unset = unset
  Host = host
  Providers <- MCProviders
  Env <- MCEnv
  DefaultModel <- MCDefaultModel
  Reachable <- MCReachable
  TurnTasks <- MCTasks
  WriterTasks <- MCWriters
  Threads <- MCThreads
  ThreadOf <- MCThreadOf
  TenantOf <- MCMultiTenant
  Kind <- MCPlainKind
  Changes <- MCSources
  Cap = 1
CHECK_DEADLOCK FALSE
INVARIANT OneTurnPerThread
