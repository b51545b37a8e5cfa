SPECIFICATION Spec
CONSTANTS
    d1 = d1
    d2 = d2
    p1 = p1
    p2 = p2
    k1 = k1
    k2 = k2
    k3 = k3
    k4 = k4
    NoKey = NoKey
    Dept <- MCDept
    Process <- MCProcess
    Key <- MCKey
    MaxReboots = 2
SYMMETRY MCSymmetry
INVARIANTS TypeOK RunningDatabaseHasItsKey KeyFilesAreTransient ShutdownIsFinal
