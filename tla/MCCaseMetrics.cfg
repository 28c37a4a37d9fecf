SPECIFICATION Spec
CONSTANTS
  None = None
  Persons = {1, 2}
  Sources = {"syn", "other"}
  Profile <- MCProfile
  YearDays = 10
  Synthetic = "syn"
  Tenures <- MCTenures
  Described <- MCDescribed
  RegistryFile <- MCRegistryFile
  WindowsDays <- MCWindowsDays
  Batches <- MCBatches
  Jurisdiction <- MCJurisdiction
  Specification <- MCSpecification
  Vocabularies <- MCVocabularies
  Unrecorded = Unrecorded
  UnclassifiedSeverity = 3
  JudgeName <- MCJudgeName
  Service <- MCService
  Collation <- MCCollation
  Queries <- MCQueries
INVARIANTS
  SourceTellsTruth
  FiguresCohere
  DesignsSound
  FramesSound
  ListsTellNothing
  PagesPartition
PROPERTIES
  ImpactedButForJudges
  ChainsLast
