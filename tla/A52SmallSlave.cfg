SPECIFICATION FairSpec
CONSTANTS
  FrameSize = 3
  BufferSize = 6
  SlaveSizes = {4}
  Thresholds = {1, 6, 20}
  Envs <- Blocking
  MaxUnits = 9
  MaxPrepares = 1
INVARIANT DrainSendsAll
CHECK_DEADLOCK FALSE
