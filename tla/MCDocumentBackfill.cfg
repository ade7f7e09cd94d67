CONSTANTS
  p1 = p1
  p2 = p2
  Projects = {p1, p2}
  NoProject = NoProject
  Limit = 1
  Prefetch = 1
  MaxFailures = 2
  BaseBackoff = 1
  MaxBackoff = 2
  EnqueuedStale = 1
  NoDocumentsRetry = 1
  NoDocumentsMaxAge = 2
  JobRuns = 1
  MaxLosses = 1
SPECIFICATION FairBackfill
INVARIANT FailuresBounded
PROPERTIES RetriesEnd DueIsTried
CHECK_DEADLOCK FALSE
