CONSTANTS
  UINT8_MAX = 255
  NumberValue <- Numbers
  StringValue <- Strings
  Sources <- Unimplemented
  MaxCode = 60
SPECIFICATION Paced
PROPERTY
  DeclarationConsumes
