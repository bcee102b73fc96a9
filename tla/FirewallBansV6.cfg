SPECIFICATION Spec
CONSTANTS
    NoIP = NoIP
    Addr = {a1, a6}
    V6 = {a6}
    Cap = 2
    MaxTime = 2
    LocalFor = 1
    Detectors = {}
    Pushers = {p1}
    Syncs = {}
    Timers = {t1}
    Guards = {}
    Switches = {}
    MonitorModes = {FALSE}
    KeepSets = {{}}
    MaxOps = 2
    MaxFlushes = 0
    MaxRestarts = 0
PROPERTIES ExpiredAllGone
CHECK_DEADLOCK FALSE
