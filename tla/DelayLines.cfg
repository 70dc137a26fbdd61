SPECIFICATION LineSpec
CONSTANTS
  MaxFrames = 9
  Plugins <- MCPlugins
PROPERTY ImplementsDelayLine
\* The stream may end at any time.
CHECK_DEADLOCK FALSE
