SPECIFICATION FairSpec
CONSTANTS
  BufSize = 3
  Chunk = 2
  SizeMod = 8
  MaxThreads = 1
  Envs <- OneStream
PROPERTY ChunkDrained
CHECK_DEADLOCK FALSE
