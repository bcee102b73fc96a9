SPECIFICATION ReportsLive
CONSTANTS
    MaxEvents = 3
    BatchMax = 2
    QueueMax = 2
    DropChunk = 1
    PoisonTries = 2
    Bad = {2}
    MaxFaults = 2
    MaxCrashes = 1
    MaxDiskFails = 1
    i1 = i1 i2 = i2 w1 = w1 w2 = w2 NoIP = NoIP
    IP = {i1, i2}
    Watchers = {w1, w2}
    Sizes <- AllSizes
    PanelIPs = {i1}
    Requests = {r1, r2}
    OutboxMax = 2
    MaxPanelCalls = 2
    MaxDashboardEdits = 1
    MaxPanelFaults = 1
    MaxPanelRestarts = 1
    MaxWeeks = 1
INVARIANTS ReportsHold
PROPERTIES DeliveryKept NotedBansSpared NothingWaits
CHECK_DEADLOCK FALSE
