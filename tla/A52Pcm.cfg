SPECIFICATION FairSpec
CONSTANTS
  FrameSize = 3
  BufferSize = 6
  SlaveSizes = {4, 6, 8}
  Thresholds = {1, 6, 20}
  Envs <- MCEnvs
  MaxUnits = 9
  MaxPrepares = 2
INVARIANTS
  SentInOrder
  RoomReal
  DrainedAll
PROPERTY CallsReturn
\* The application may stop calling at any time.
CHECK_DEADLOCK FALSE
