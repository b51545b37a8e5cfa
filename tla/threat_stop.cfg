SPECIFICATION Spec
CONSTANTS
    Handler = {h1, h2}
    Width = 2
    MaxEntries = 4
    MaxAge = 60
    MaxSkew = 10
    Seeds <- MCSeeds
    Alerts <- MCAlerts
    Threshold = 80
    Unblockable <- MCUnblockable
    MaxAlerts = 1
    MaxInFlight = 1
    MaxUnblocks = 0
PROPERTIES ShutdownCompletes
CHECK_DEADLOCK FALSE
