SPECIFICATION Spec
CONSTANTS
    NoIP = NoIP
    a = a
    b = b
    c = c
    Address <- MCAddress
    Talkers <- MCTalkers
    LowDays = 0
    HighDays = 1
    Hosts <- MCHosts
    Capacity <- MCCapacity
    SocketRoom = 1
    MaxViolations = 3
    MaxDrops = 2
    MaxRestarts = 1
INVARIANTS TypeOK LruMatchesProfiles OneLossPerRestart DropsNeverOvercounted
PROPERTIES HighValueRetained OnlyQuietFeedsHoldAStop ImplementsAlertFeed
CHECK_DEADLOCK FALSE
