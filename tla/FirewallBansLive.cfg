SPECIFICATION LiveSpec
CONSTANTS
    NoIP = NoIP
    Addr = {a1, a2}
    V6 = {}
    Cap = 1
    MaxTime = 1
    LocalFor = 1
    Detectors = {d1}
    Pushers = {p1}
    Syncs = {s1}
    Timers = {t1}
    Guards = {g1}
    Switches = {}
    MonitorModes = {FALSE, TRUE}
    KeepSets = {{}}
    MaxOps = 2
    MaxFlushes = 1
    MaxRestarts = 0
PROPERTIES Converges
CHECK_DEADLOCK FALSE
