CONSTANTS
  MaxStreams = 2
  MaxChunks = 3
  AudioCapacity = 1
  Clients = {c1, c2}
  Listeners = {l1, l2}
  Owners = {"ann", "bob"}
  MaxAsks = 2
  MaxBoots = 1
  MaxAttempts = 2
  MaxConnects = 5
  MaxStarts = 3
  Peers = {p1, p2}
  Leavers = {p1}
  MaxMessages = 2
  MaxRestarts = 1
SPECIFICATION VoiceSpec
INVARIANTS CanAlwaysAdd
CHECK_DEADLOCK FALSE
