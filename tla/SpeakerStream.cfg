CONSTANTS
  Sentences = 3
  Chunks <- MCChunks
  MaxResponses = 3
  MaxFailures = 1
SPECIFICATION FairSpec
INVARIANTS TypeOK OneAtATime HeardInFull
PROPERTIES PlayerReturns StreamFreed
CHECK_DEADLOCK FALSE
