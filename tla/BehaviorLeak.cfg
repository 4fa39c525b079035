CONSTANTS
  Tool = tool
  None = none
  Animations = {}
  OwnStreams = {own1, own2}
  SdkStreams = {}
SPECIFICATION Spec
INVARIANT NothingLeftOpen
CHECK_DEADLOCK FALSE
