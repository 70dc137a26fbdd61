SPECIFICATION Spec
CONSTANTS
    h1 = h1
    h2 = h2
    h3 = h3
    Handle = {h1, h2}
    None = None
    MaxOpens = 3
    MaxFaults = 2
    MaxEvents = 1
    Ids <- MCIds
INVARIANT StoppedOnRequest
PROPERTIES PostWhileWaited SomeMaster CallsReturn
CHECK_DEADLOCK FALSE
