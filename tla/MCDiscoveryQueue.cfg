CONSTANTS
  e1 = e1
  e2 = e2
  j1 = j1
  j2 = j2
  Executors = {e1, e2}
  Jobs = {j1}
  NoJob = NoJob
  Nobody = Nobody
  LeaseTicks = 1
  MaxAttempts = 2
  MaxClaims = 2
SPECIFICATION FairSpec
INVARIANTS ExclusiveBelief OneActiveRun DispatchedMeansCompleted
PROPERTIES KeepsPromise StaleClaimOnlyCompletes LiveClaimKeepsRun NeverStranded
