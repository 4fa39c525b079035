CONSTANTS
  Tool = tool
  None = none
  Animations = {anim}
  OwnStreams = {own1, own2}
  SdkStreams = {}
SPECIFICATION Spec
INVARIANT HeldForDuration
CHECK_DEADLOCK FALSE
