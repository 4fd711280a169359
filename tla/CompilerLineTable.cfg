CONSTANTS
  UINT8_MAX = 255
  NumberValue <- Numbers
  StringValue <- Strings
  Sources <- ForLoop
  MaxCode = 60
SPECIFICATION Paced
INVARIANT
  LineTableComplete
