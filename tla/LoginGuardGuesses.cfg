SPECIFICATION LoginSpec
CONSTANTS
    Clients = {a1}
    Days = 2
    Threshold = 1
    MaxChanges = 1
INVARIANTS GuessesStayBannable
CHECK_DEADLOCK FALSE
