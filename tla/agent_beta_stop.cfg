SPECIFICATION Spec
CONSTANTS
    NoIP = NoIP
    a = a
    b = b
    c = c
    Address <- MCAddress
    Talkers <- MCTalkers
    LowDays = 0
    HighDays = 1
    Hosts <- MCHosts
    Capacity <- MCCapacity
    SocketRoom = 1
    MaxViolations = 1
    MaxDrops = 0
    MaxRestarts = 0
PROPERTIES StopCompletes
CHECK_DEADLOCK FALSE
