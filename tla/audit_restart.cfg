SPECIFICATION Spec
CONSTANTS
    Process = {daemon, command}
    Environments <- MCQuiet
    MaxLines = 3
    MaxRotations = 1
    MaxStarts = 2
INVARIANTS EverySegmentIsLinked
CHECK_DEADLOCK FALSE
