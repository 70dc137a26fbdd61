SPECIFICATION FairSpec
CONSTANTS
  BufferSize = 4
  NFrames = 3
  Channels = 2
  SockCap = 2
  MaxUnits = 7
  MaxHw = 8
  MaxPrepares = 2
  Envs <- MCEnvs
INVARIANTS
  PointerReal
  StoppedIsInactive
PROPERTIES
  ImplementsPipe
  PollWakes
\* The application may stop calling at any time.
CHECK_DEADLOCK FALSE
