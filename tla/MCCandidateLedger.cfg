CONSTANTS
  r1 = r1
  r2 = r2
  r3 = r3
  Rows = {r1, r2, r3}
  LastPage = 2
  PageOf <- MCPageOf
  KeyOf <- MCKeyOf
  RowKey <- MCRowKey
  ProjectOf <- MCProjectOf
  NoRow = NoRow
  NoProject = NoProject
  Closers = {c1}
  Troubles = {"site", "browser", "database"}
SPECIFICATION FairSpec
INVARIANTS PublishedIsClosed SucceededAccounts
PROPERTIES VerdictStays OpenRowsClose
CHECK_DEADLOCK FALSE
