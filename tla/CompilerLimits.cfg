CONSTANTS
  UINT8_MAX = 3
  NumberValue <- Numbers
  StringValue <- Strings
  Sources <- LimitSources
  MaxCode = 60
SPECIFICATION Paced
INVARIANTS
  TypeOK
  IndicesFit
  VerifiedCode
