SPECIFICATION Spec
CONSTANTS
    Process = {daemon, command}
    Environments <- MCInTurn
    MaxLines = 5
    MaxRotations = 2
    MaxStarts = 3
INVARIANTS TypeOK ChainVerifies GenesisLinksSegments
CHECK_DEADLOCK FALSE
