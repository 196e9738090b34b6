SPECIFICATION FairSpec
CONSTANTS
  Rates = {0, 20, 70, 150}
  MaxPoints = 2
  i1 = i1
  s1 = s1
  r1 = r1
  r2 = r2
  j1 = j1
  j2 = j2
  Incidents <- MCIncidents
  Services <- MCServices
  Replicas <- MCReplicas
  Jobs <- MCJobs
  MaxAttempts = 2
  MaxMishaps = 1
  MaxExpiries = 1
CHECK_DEADLOCK FALSE
INVARIANT JobsPerSourceBounded
PROPERTY FatesKept JobsSettle
