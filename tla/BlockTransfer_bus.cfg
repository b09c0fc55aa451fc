SPECIFICATION FairSpec
CONSTANTS
  long = long
  short = short
  Jobs <- MCJobs
  Requests = {r1, r2}
  Frames <- MCFrames
  Payload = 3
  Flagged = 2
  Capacity = 2
  MaxQueued = 2
  NoRequest = NoRequest
INVARIANTS ChunksOnce NothingLost OneChunkHeldBack
PROPERTIES TransfersSettle
CHECK_DEADLOCK FALSE
