CONSTANTS
  w1 = w1
  w3 = w3
  w2 = w2
  Workers = {w1, w2, w3}
  Period = 2
  Burst = 2
  Threshold = 2
  Reset = 3
  SiteThreshold = 2
  SiteBase = 2
  SiteMax = 4
  MaxDeaths = 2
SPECIFICATION FairSpec
PROPERTIES KeepsBudget SomeoneFetches
CHECK_DEADLOCK FALSE
