CONSTANTS
  UINT8_MAX = 255
  NumberValue <- Numbers
  StringValue <- Strings
  Sessions <- TestFiles
  MaxCode = 500
  MAX_CALLSTACK_DEPTH = 128
  ClockValues = {7}
  MaxStack = 500
  MaxOutput = 40
SPECIFICATION Spec
INVARIANTS
  ReachesEverythingAlive
CHECK_DEADLOCK FALSE
