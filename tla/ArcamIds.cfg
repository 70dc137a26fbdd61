SPECIFICATION Spec
CONSTANTS
    h1 = h1
    h2 = h2
    h3 = h3
    Handle = {h1, h2, h3}
    None = None
    MaxOpens = 3
    MaxFaults = 2
    MaxEvents = 1
    \* Or SameIds: each of the two is enough.
    Ids <- NulIds
INVARIANT StoppedOnRequestAlways
CHECK_DEADLOCK FALSE
