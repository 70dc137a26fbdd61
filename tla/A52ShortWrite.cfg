SPECIFICATION FairSpec
CONSTANTS
  FrameSize = 3
  BufferSize = 6
  SlaveSizes = {6, 8}
  Thresholds = {1, 6, 20}
  Envs <- NonBlocking
  MaxUnits = 9
  MaxPrepares = 1
INVARIANT WritesPending
CHECK_DEADLOCK FALSE
