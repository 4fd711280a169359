CONSTANTS
  NumberValue <- TreeNumbers
  StringValue <- Strings
  MAX_PARAMETERS = 9
  Clock <- SomeTime
  MaxEnvironments = 100
  Sessions <- TreeSessions
  Programs <- SmallPrograms
SPECIFICATION Paced
INVARIANTS
  ScannedByPatterns
  ProgramsResolved
  ResolvedNamesFound
  EnvironmentRestored
  ReturnsCaught
  TreeTestsPass
PROPERTY
  SessionEnds
