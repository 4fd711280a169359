CONSTANTS
  NumberValue <- TreeNumbers
  StringValue <- Strings
  MAX_PARAMETERS = 9
  Clock <- SomeTime
  MaxEnvironments = 100
  Sessions <- ReplSessions
  Programs = {}
SPECIFICATION Paced
INVARIANT
  ReplStatePreserved
