SPECIFICATION Spec
CONSTANTS
    Pcm = {p1, p2}
    Mixer = {m1}
    Nodes = 2
    Existing = {TRUE, FALSE}
    MaxClients = 2
    MaxLoose = 0
    MaxFaults = 1
    MaxMessages = 3
INVARIANTS OneOwner Waits
PROPERTIES OwnReply
CHECK_DEADLOCK FALSE
