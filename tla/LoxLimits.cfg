CONSTANTS
  UINT8_MAX = 7
  NumberValue <- Numbers
  StringValue <- Strings
  Sessions <- TestSessions
  MaxCode = 500
  MAX_CALLSTACK_DEPTH = 128
  ClockValues = {7}
  MaxStack = 500
  MaxOutput = 40
SPECIFICATION Spec
INVARIANTS
  LimitsOnlyReject
CHECK_DEADLOCK FALSE
