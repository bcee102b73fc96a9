SPECIFICATION GuardSpec
CONSTANTS
    Quick = 2
    Full = 5
    FollowUp = 1
    BackToBack = 4
    BackoffMin = 2
    BackoffMax = 3
    CalmFor = 5
    CSFWait = 3
    EventEvery = 4
    Conflict = 6
    SlowQuick = 3
    MaxRewrites = 1
    MaxCSF = 2
    MaxGuardFaults = 1
PROPERTIES NoRepairDuringCSF
CHECK_DEADLOCK FALSE
