CONSTANTS
  j1 = j1
  j2 = j2
  j3 = j3
  j4 = j4
  j5 = j5
  None = None
  Jobs = {j1, j2, j3, j4, j5}
  SeqOf <- MCSeqOf
  Capacity = 2
  Modulus = 4
SPECIFICATION FairSpec
INVARIANTS TypeOK NothingLost
PROPERTIES SpeaksInOrder NeverJams GaplessIsPlayed
CHECK_DEADLOCK FALSE
