SPECIFICATION FairSpec
CONSTANTS
  BufSize = 3
  Chunk = 2
  SizeMod = 8
  MaxThreads = 1
  Envs <- OneThrees
PROPERTY FramesReturn
CHECK_DEADLOCK FALSE
