CONSTANTS
  UINT8_MAX = 255
  NumberValue <- Numbers
  StringValue <- Strings
  Sessions <- AgreementSessions
  MaxCode = 500
  MAX_CALLSTACK_DEPTH = 128
  ClockValues = {7}
  MaxStack = 500
  MaxOutput = 40
  MAX_PARAMETERS = 9
  MaxEnvironments = 100
SPECIFICATION Paced
INVARIANTS
  TestsPass
  NeverUndefined
  InterpretersAgree
PROPERTY
  RunEnds
  CapturedVariables
