SPECIFICATION Spec
CONSTANTS
    Pcm = {play, capture}
    Playback = {play}
    Config = {1, 2}
    Frames = 2
    Modulus = 4
    MaxRun = 3
PROPERTY PointerRealAnySize
CHECK_DEADLOCK FALSE
