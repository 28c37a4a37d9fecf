SPECIFICATION Spec
CONSTANT None = None
INVARIANTS
  HeadServesProgram
  MigrationsRun
  AppReadsPublicOnly
