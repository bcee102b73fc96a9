SPECIFICATION Spec
CONSTANTS
    Ports = {port}
    Addresses = {address}
    Requests <- CloseAndBlock
    MaxPerSync = 1
    MaxTurns = 2
    MaxFails = 1
PROPERTIES RestartKeepsClosed
CHECK_DEADLOCK FALSE
