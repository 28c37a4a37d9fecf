SPECIFICATION FairSpec
CONSTANTS
  MaxCommands = 2
  MaxActive = 2
  NSubjects = 2
  Slots = {"rate", "ratio"}
  Adjusted = {"ratio"}
  Cells = {1, 2}
  Levels = {0, 1}
  NRegistries = 2
  Values <- MCValues
  Definition <- MCDefinition
  Drafts <- MCDrafts
  Impacted <- MCImpacted
  Ids = {1, 2}
  FirstData <- MCFirstData
  MaxCrashes = 1
INVARIANTS RowsVerify SnapshotsOpen
PROPERTIES AdjustedKept PublishersEnd
CHECK_DEADLOCK FALSE
