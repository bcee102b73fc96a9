SPECIFICATION VaultSpec
CONSTANTS
    Newest = 3
    MaxCrashes = 3
    MaxKills = 3
    MaxFaults = 1
    Paths = {"a", "b"}
    SafeNames = {"n"}
    SafeName <- OneName
    MaxSec = 2
    MaxBirths = 2
    MaxQCrashes = 1
    MaxQFaults = 1
    Fixes = {"f1", "p1"}
    Patches = {"v1"}
    Perms = {"m1"}
    ServiceOf <- Svc
    MaxAsked = 2
    MaxMishaps = 1
    p1 = p1 k1 = k1 k2 = k2
    Pids = {p1}
    Owner <- OwnerFn
    MaxLogins = 2
    MaxLines = 4
    MaxToggles = 1
    MaxRotations = 1
    Keys = {k1, k2}
    Window = 3
    MinLogins = 3
    MinAge = 3
    Burst = 1
    MinGap = 1
    Tolerance = 0
    Share = 3
    MaxKeys = 1
    MaxTimes = 3
    SaveEvery = 2
    Horizon = 6
    MaxReboots = 1
    Ids = {1, 2}
    MaxDetections = 1
    MaxUnbans = 1
    MaxOthers = 1
    MaxSaveFaults = 1
    MaxRestartsP = 1
    Peers = {"a"}
    SSHDPorts = {22, 2222}
    DBPort = 3306
    MaxMoves = 1
    Callers = {1, 2, 3}
    DBClient = 2
    DaysKept = 3
    RegularDays = 2
    PerPortDay = 1
    PerPort = 2
    MaxSamples = 1
    Conntrack = "tool"
    ReportMax = 2
    ReportsADay = 1
    MaxBreaks = 1
    Domains = {"d"}
    LastSite = 2
    Homes <- HomesOf
    MaxTokens = 2
    MaxTrustEvents = 2
    MaxTrustCrashes = 1
    MaxTrustFaults = 1
INVARIANT EveryVersionKept
CHECK_DEADLOCK FALSE
