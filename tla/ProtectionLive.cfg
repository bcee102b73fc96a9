SPECIFICATION LiveSpec
CONSTANTS
    Gap = 1
    Limit = 2
    MaxVersion = 2
    MaxTurns = 2
INVARIANTS TypeOK BeliefsHold NoMissedChange
PROPERTIES AcceptedMeansOn FollowsDashboard
CHECK_DEADLOCK FALSE
