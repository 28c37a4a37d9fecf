SPECIFICATION Spec
CONSTANTS
  MaxRuns = 3
  MaxActive = 2
  NArtifacts = 2
  Contents = {"a", "b"}
  Values = {"x", "y"}
  Facts = {"case", "charge", "person"}
  NVersions = 2
  Derived <- MCDerived
  Foreign = {}
  Forcing = {TRUE, FALSE}
  Refusing = TRUE
  WholeCorpus = TRUE
  Rolling = FALSE
  FirstExport <- MCFirstExport
  MaxChanges = 2
  MaxCrashes = 1
  MaxRetires = 1
INVARIANTS RecordsStand RecordedMeansPublished
CHECK_DEADLOCK FALSE
