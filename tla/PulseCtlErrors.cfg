\* Run by hand: an error in answer to a read is returned as success.
SPECIFICATION Spec
CONSTANTS
    MaxVolume = 2
    Touched <- MCTouched
    MaxChanges = 1
    MaxWrites = 0
    MaxFailures = 1
PROPERTIES ReadFreshAlways
CHECK_DEADLOCK FALSE
