SPECIFICATION WatchLiveSpec
CONSTANTS
    c1 = c1 c2 = c2 v1 = v1 v2 = v2 l1 = l1 l2 = l2
    Quick = 2
    Full = 5
    FollowUp = 1
    BackToBack = 4
    BackoffMin = 2
    BackoffMax = 3
    CalmFor = 5
    CSFWait = 3
    EventEvery = 3
    Conflict = 5
    SlowQuick = 3
    MaxRewrites = 1
    MaxCSF = 2
    MaxGuardFaults = 1
    Visitors = {v1, v2}
    Crawlers = {v2}
    Logs = {l1, l2}
    Types = {"scan", "login", "spoofed"}
    Points <- MCPoints
    BlockAt = 16
    BlacklistAt = 20
    Decay = 5
    OldAge = 6
    DetectOnly = {}
    MaxScored = 1
    Changeable = {"bot", "addresses"}
    LoginTries = 2
    MaxLookups = 1
    MaxRequests = 3
    MaxSettings = 1
    Addrs = {c1, c2}
    Users = {"ops", "deploy"}
    Keep = 2
    ServiceNets = 1
    MaxEntries = 1
    MaxListed = 1
    MaxLoads = 1
    Clients = {c1}
    Days = 1
    Threshold = 1
    MaxChanges = 1
    MaxBackoff = 2
    MaxEdits = 2
    MaxMoves = 1
    MaxBreaks = 2
    LongestWait = 4
    MaxGate = 2
    MaxRefusals = 4
    Vhosts = {"s1", "s2"}
    Hidden = {"s2"}
    Bots = {"b1", "b2"}
    BadBots = {"b2"}
    NoList = {"none"}
    MaxBotEvents = 5
    BanAddrs = {"a", "b"}
    NoRules = {"none"}
    MaxRuleEvents = 4
    LastRoot = 2
    BigRoots = {2}
    DynSigs = {1, 2}
    Files = {0}
    MaxKept = 1
    Interval = 2
    MaxScanEvents = 2
    UploadDirs = {"u1"}
    Loops = {"l1", "l2"}
    LastSecond = 2
    MaxUploadEvents = 4
    SystemFiles = {"f1"}
    Versions = {"old", "new"}
    NotThere = "not there"
    TooBig = "too big"
    Peers = {"p1"}
    MinRise = 1
    FewZombies = 1
    MoreZombies = 2
    MostTraffic = 2
    MaxHostMoves = 4
    MaxUnread = 1
    MaxAlarmRestarts = 1
INVARIANTS TypesOK WebSafe NoChangeMissed
PROPERTIES LoginsKept RetriesSpaced WatchSettles
CHECK_DEADLOCK FALSE
