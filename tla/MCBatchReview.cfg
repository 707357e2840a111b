SPECIFICATION Spec
CONSTANTS
  f1 = f1
  f2 = f2
  f3 = f3
  f4 = f4
  id1 = id1
  id2 = id2
  id3 = id3
  None = None
  Papers = {f1, f2, f3, f4}
  Format <- MCFormat
  Backends = {"auto", "local", "other"}
  MaxPolls = 1
  Manifests <- MCManifests
  Configs <- MCConfigs
  Decisions = {"ACCEPT", "MAJOR_REVISION"}
  MaxCrashes = 1
INVARIANTS
  SummaryAccountsForAll
  AcceptedPapersWereRead
PROPERTY BatchEnds
