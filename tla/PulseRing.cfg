SPECIFICATION Spec
CONSTANTS
  TLength = 3
  MinReq = 2
  MaxUnits = 5
  MaxStreams = 2
  MaxHw = 4
  Envs <- Again
INVARIANT AvailIsReal
\* The application may stop calling at any time.
CHECK_DEADLOCK FALSE
