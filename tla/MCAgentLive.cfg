CONSTANTS
  j1 = j1
  j2 = j2
  p1 = p1
  p2 = p2
  AgentJobs = {j1}
  LegacyJobs = {}
  Processors = {p1, p2}
  NoJob = NoJob
  Nobody = Nobody
  MaxAttempts = 2
  Modes = {"off", "primary"}
  MaxClaims = 2
  MayFail = TRUE
SPECIFICATION FairSpec
PROPERTY ResultsSettle
