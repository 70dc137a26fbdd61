SPECIFICATION Spec
CONSTANTS
    MaxVolume = 2
    Touched <- MCTouched
    MaxChanges = 1
    MaxWrites = 1
    MaxFailures = 2
INVARIANTS Noticed Waits
PROPERTIES ReadFresh
\* The plugin may be closed.
CHECK_DEADLOCK FALSE
