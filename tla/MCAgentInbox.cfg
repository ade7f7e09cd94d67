CONSTANTS
  j1 = j1
  j2 = j2
  p1 = p1
  p2 = p2
  AgentJobs = {j1}
  LegacyJobs = {j2}
  Processors = {p1, p2}
  NoJob = NoJob
  Nobody = Nobody
  MaxAttempts = 2
  Modes = {"shadow", "primary"}
  MaxClaims = 2
  MayFail = TRUE
SPECIFICATION Spec
SYMMETRY MCSymmetry
INVARIANTS OneResultPerJob InFlightHasResult AgentJobsJustified
PROPERTY SettledStays
CHECK_DEADLOCK FALSE
