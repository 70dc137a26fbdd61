SPECIFICATION CtlSpec
CONSTANTS
    Handle = {h1, h2}
    Settings <- MCSettings
    Readable = {"volume"}
    Writable = {"volume", "mute"}
    Adjustable = {"volume", "stereo_effect"}
    MaxWrites = 2
    MaxPanel = 1
PROPERTIES SharedSettles LastWriteWins UnmuteAtLastVolume Noticed
CHECK_DEADLOCK FALSE
