SPECIFICATION Spec
CONSTANTS
  MaxCommands = 4
  MaxActive = 1
  NSubjects = 2
  Slots = {"rate", "ratio"}
  Adjusted = {"ratio"}
  Cells = {1, 2}
  Levels = {0, 1}
  NRegistries = 2
  Values <- MCValues
  Definition <- MCDefinition
  Drafts <- MCDrafts
  Impacted <- MCImpacted
  Ids = {1, 2}
  FirstData <- MCFirstData
  MaxCrashes = 1
PROPERTY FiguresFresh
CHECK_DEADLOCK FALSE
