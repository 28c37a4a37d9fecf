SPECIFICATION FairSpec
CONSTANTS
  MaxCommands = 2
  MaxActive = 2
  MaxIngests = 1
  MaxCrashes = 1
  Data = {1, 2}
  Sources = {1, 2}
  Targets = {"a"}
  Subjects = {1, 2, 3}
  SourceOf <- MCSourceOf
  Drafted <- MCDrafted
  NReleases = 3
  Specification <- MCSpecification
  Registry <- MCRegistry
  Unavailable <- MCUnavailable
  Rate <- MCRate
  Place <- MCPlace
  Scopes <- MCScopes
INVARIANTS CatalogueWhole RatiosCiteTheirModel UnavailableStated VerifyHonest
PROPERTY AllFinish
CHECK_DEADLOCK FALSE
