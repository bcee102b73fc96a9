SPECIFICATION Spec
CONSTANTS
    NoIP = NoIP
    Addr = {a1, a2, a6}
    V6 = {a6}
    Cap = 2
    MaxTime = 2
    LocalFor = 1
    Detectors = {d1}
    Pushers = {p1}
    Syncs = {}
    Timers = {t1}
    Guards = {g1}
    Switches = {w1}
    MonitorModes = {FALSE}
    KeepSets = {{}}
    MaxOps = 3
    MaxFlushes = 0
    MaxRestarts = 1
INVARIANTS TypeOK WithinCapacity
PROPERTIES PermanentSpared DropSparesRebanned OffMeansOff ExpiredLeaveKernel
SYMMETRY AddrSymmetry
CHECK_DEADLOCK FALSE
