CONSTANTS
  n1 = n1
  f1 = f1
  f2 = f2
  p1 = p1
  p2 = p2
  w1 = w1
  w2 = w2
  Tenders = {n1}
  Prints = {f1, f2}
  PrintsOf <- MCPrintsOf
  Projects = {p1, p2}
  NoProject = NoProject
  NoTender = NoTender
  Workers = {w1, w2}
  Course = {"priced", "won", "signed"}
  MaxDeaths = 1
SPECIFICATION FairSpec
INVARIANTS AliasesDistinct NewIsAnnounced
PROPERTY ClosedInTheEnd
CHECK_DEADLOCK FALSE
