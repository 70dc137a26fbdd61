SPECIFICATION FairSpec
CONSTANTS
  TLength = 3
  MinReq = 2
  MaxUnits = 5
  MaxStreams = 2
  MaxHw = 4
  Envs <- MCEnvs
INVARIANTS
  PollReady
  FirstAvailReal
  ReadInOrder
  PreparedHasStream
PROPERTY CallsReturn
\* The application may stop calling at any time.
CHECK_DEADLOCK FALSE
