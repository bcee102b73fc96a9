SPECIFICATION LiveSpec
CONSTANTS
    Ports = {port}
    Addresses = {}
    Requests <- CloseAndOpen
    MaxPerSync = 1
    MaxTurns = 2
    MaxFails = 1
INVARIANTS TypeOK PendingWaits
PROPERTIES AppliedOnce Converges
CHECK_DEADLOCK FALSE
