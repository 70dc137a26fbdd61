SPECIFICATION Spec
CONSTANTS
    Pcm = {p1, p2}
    Mixer = {m1}
    Nodes = 1
    Existing = {TRUE}
    MaxClients = 2
    MaxLoose = 0
    MaxFaults = 1
    MaxMessages = 3
INVARIANT StateAgreesAlways
CHECK_DEADLOCK FALSE
