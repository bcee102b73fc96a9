SPECIFICATION LiveSpec
CONSTANTS
    NoID = NoID
    ID = {r1, r2}
    Arg = {x, y}
    Args <- SameArgs
    MaxFails = 1
    MaxFaults = 1
    MaxRestarts = 1
INVARIANTS TypeOK ChainMatchesTable
PROPERTIES SyncKeepsLiveRules Converges
CHECK_DEADLOCK FALSE
