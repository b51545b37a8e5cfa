SPECIFICATION SpecWithHangups
CONSTANTS
    Handler = {h1, h2}
    Width = 2
    MaxEntries = 4
    MaxAge = 60
    MaxSkew = 10
    Seeds <- MCSeeds
    Alerts <- MCAlerts
    Threshold = 80
    Unblockable <- MCUnblockable
    MaxAlerts = 3
    MaxInFlight = 1
    MaxUnblocks = 1
INVARIANTS TypeOK BlockedIsDenied OnlyAccusedAreDenied
PROPERTIES L4EndsInSilence ShutdownCompletes
CHECK_DEADLOCK FALSE
