SPECIFICATION Spec
CONSTANTS
    Pcm = {play, capture}
    Playback = {play}
    Config = {1, 2}
    Frames = 2
    Modulus = 4
    MaxRun = 3
INVARIANT MappedWhenUsed
PROPERTY PointerReal
CHECK_DEADLOCK FALSE
