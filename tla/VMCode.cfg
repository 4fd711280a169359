CONSTANTS
  UINT8_MAX = 255
  MAX_CALLSTACK_DEPTH = 2
  ClockValues = {7}
  MaxStack = 10
  MaxOutput = 20
  Programs <- ShortScripts
SPECIFICATION Spec
INVARIANTS
  TypeOK
  OpenUpvaluesOrdered
  WellFormedCodeIsSafe
  FramesHoldTheirClosures
  ValuesSurvive
PROPERTY
  UpvaluesAreVariables
CHECK_DEADLOCK FALSE
