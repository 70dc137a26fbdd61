SPECIFICATION FairSpec
CONSTANTS
  BufSize = 3
  Chunk = 2
  SizeMod = 8
  MaxThreads = 2
  Envs <- MCEnvs
INVARIANTS
  TypeOK
  BufferBounded
  NoThreadAtReset
  ActiveHasThread
  ReportedIsQueued
PROPERTIES
  DelayOffByAChunk
  WriteReturns
  ImplementsPipe
\* The application may stop calling at any time.
CHECK_DEADLOCK FALSE
