CONSTANTS
  f1 = f1
  f2 = f2
  f3 = f3
  n1 = n1
  n2 = n2
  hearing = hearing
  final = final
  s1 = s1
  s2 = s2
  Artifacts <- MCArtifacts
  NoArtifact = NoArtifact
  Sibling <- MCSibling
  NoClass = NoClass
  Storers = {s1, s2}
  MaxStores = 3
  MaxFailures = 1
SPECIFICATION FairSpec
INVARIANTS OnlyNewerReplace VersionsChain ArtifactKept
PROPERTY StoresEnd
CHECK_DEADLOCK FALSE
