CONSTANTS
  k1 = k1
  k2 = k2
  r1 = r1
  r2 = r2
  Keywords = {k1, k2}
  AgentKeywords = {k2}
  Requests = {r1, r2}
  MaxJobs = 3
  MaxScheduled = 2
  MaxAttempts = 2
  MaxTroubles = 2
  None = None
SPECIFICATION FairSpec
INVARIANTS CountMatches RecrawlsShareJobs
PROPERTY RequestsEnd
CHECK_DEADLOCK FALSE
