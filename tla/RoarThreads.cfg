SPECIFICATION Spec
CONSTANTS
  BufSize = 1
  Chunk = 1
  SizeMod = 4
  MaxThreads = 3
  Envs <- ThreeStreams
CONSTRAINT EachResetting
INVARIANTS
  ActiveAlwaysHasThread
\* The application may stop calling at any time.
CHECK_DEADLOCK FALSE
