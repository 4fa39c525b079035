CONSTANTS
  Tool = tool
  None = none
  Animations = {}
  OwnStreams = {own}
  SdkStreams = {sdk}
SPECIFICATION FairSpec
INVARIANTS TypeOK GrantIsReal ReleaseFollows
PROPERTIES ClosedIsReleased StartReturns LossIsTold
CHECK_DEADLOCK FALSE
