SPECIFICATION Spec
CONSTANTS
  Vocabulary <- MCVocabulary
  NormalName <- MCNormalName
  NormalLabel <- MCNormalLabel
  Alphabet <- MCAlphabet
  NormalId <- MCNormalId
  EarliestDay = 1
  CoverageEnd = 9
  Releases <- MCReleases
  Editions <- MCEditions
  Retries = 1
  Forcing = {FALSE, TRUE}
INVARIANTS CurrentRowsPublished NothingLost RowsClaimNoMore
PROPERTY ReorderWritesNothing
