CONSTANTS
  Calls = {c1, c2}
  ListCapacity = 2
  ListLength = 2
  Users = {u1, u2}
  Images = 2
  Chunks = 3
  FeedCapacity = 1
  Maps = 2
  Parts = 2
  DataCapacity = 2
  Streams = {s1, s2}
  Ids = {"a", "b"}
  StartRequests = {r1, r2}
  Size = 2
SPECIFICATION GatewaySpec
INVARIANTS GatewayTypeOK AnswersAreWhole ExactlyTheWholeImages SourceFollowsUsers MapsAreWhole
PROPERTIES AnsweredReturns LeaverReturns StatusEndsWithConnection ReportsMakeSense
CHECK_DEADLOCK FALSE
