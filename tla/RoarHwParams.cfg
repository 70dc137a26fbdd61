SPECIFICATION Spec
CONSTANTS
  BufSize = 3
  Chunk = 2
  SizeMod = 8
  MaxThreads = 1
  Envs <- OneRehw
INVARIANT BufferAlwaysBounded
CHECK_DEADLOCK FALSE
