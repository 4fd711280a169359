CONSTANTS
  UINT8_MAX = 3
  NumberValue <- Numbers
  StringValue <- Strings
  Sessions <- FourUpvalues
  MaxCode = 500
  MAX_CALLSTACK_DEPTH = 128
  ClockValues = {7}
  MaxStack = 500
  MaxOutput = 40
SPECIFICATION Spec
INVARIANTS
  AllowedUpvaluesWork
CHECK_DEADLOCK FALSE
