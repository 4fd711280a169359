CONSTANTS
  UINT8_MAX = 255
  NumberValue <- Numbers
  StringValue <- Strings
  Sources <- AllSources
  MaxCode = 150
SPECIFICATION Paced
INVARIANTS
  UpvaluesResolve
  LocalsMirrorStack
  VerifiedCode
  ReadsInBounds
  ScopesBalanced
  ListingsAreTrue
PROPERTY
  TerminatesOrStalls
