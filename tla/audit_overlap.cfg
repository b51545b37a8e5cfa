SPECIFICATION Spec
CONSTANTS
    Process = {daemon, command}
    Environments <- MCOverlap
    MaxLines = 3
    MaxRotations = 0
    MaxStarts = 2
INVARIANTS ChainVerifies
CHECK_DEADLOCK FALSE
