SPECIFICATION Spec
CONSTANTS
    Pcm = {p1, p2}
    Mixer = {m1}
    Nodes = 2
    Existing = {TRUE}
    MaxClients = 2
    MaxLoose = 1
    MaxFaults = 0
    MaxMessages = 3
INVARIANT Exclusive
CHECK_DEADLOCK FALSE
