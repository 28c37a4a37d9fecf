SPECIFICATION FairSpec
CONSTANTS
  MaxRuns = 2
  MaxActive = 2
  NArtifacts = 2
  Contents = {"a", "b"}
  Values = {"x", "y"}
  Facts = {"case", "charge", "person"}
  NVersions = 2
  Derived <- MCDerived
  Foreign = {"case"}
  Forcing = {FALSE}
  Refusing = TRUE
  WholeCorpus = FALSE
  Rolling = TRUE
  FirstExport <- MCFirstExport
  MaxChanges = 1
  MaxCrashes = 1
  MaxRetires = 1
INVARIANT Traceable
PROPERTY RunsEnd
CHECK_DEADLOCK FALSE
