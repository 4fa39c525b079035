CONSTANTS
  MaxStreams = 2
  MaxChunks = 3
  AudioCapacity = 1
  Clients = {c1, c2}
  Listeners = {l1, l2}
  Owners = {"ann", "bob"}
  MaxAsks = 2
  MaxBoots = 1
  MaxAttempts = 2
  MaxConnects = 5
  MaxStarts = 3
  Peers = {p1, p2}
  Leavers = {p1}
  MaxMessages = 2
  MaxRestarts = 1
  BufferSize = 139
  Base = 2
  FaceSize = 3
  Definitions = 1
SPECIFICATION MCSpec
INVARIANTS ServicesTypeOK AnsweredOnce UserSticks ArrivesInOrder
PROPERTIES StreamAnswered StoppedMeansEnded NoneIsMistaken
CHECK_DEADLOCK FALSE
