\* open() reaches its end or fails.
SPECIFICATION Spec
CONSTANTS
    IndexEnd = 40
    Files <- MCFiles
INVARIANT TensorsInSequence
CHECK_DEADLOCK FALSE
