SPECIFICATION Spec
CONSTANTS
    NoID = NoID
    ID = {r1, r3}
    Arg = {x, y}
    Args <- OwnArgs
    MaxFails = 0
    MaxFaults = 0
    MaxRestarts = 0
INVARIANTS DeletedStaysDeleted
CHECK_DEADLOCK FALSE
