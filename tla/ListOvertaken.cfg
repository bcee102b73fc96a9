SPECIFICATION ListsRun
CONSTANTS
    Countries = {"K"}
    Admins = {"a"}
    FeedLength <- MCFeeds
    MaxDatabases = 2
    MaxTurns = 2
    RefreshEvery = 3
    Editions = 2
    LegacyVersion = 1
    MaxTroubles = 2
    Bits = 3
    Limit = 4
    MinPrefix = 1
    LineLengths <- MCLines
    MailRead = 2
    MailLine = 2
    MaxShifts = 2
    Origins = {"p", "q"}
    Persistent = "p"
    FailureWindow = 1
    Tries = 2
    MaxTracked = 1
    MaxOthers = 1
    MaxPolicies = 2
    Servers = {"s"}
    MaxSources = 1
    MaxMoves = 2
    Requesters = {"c", "d"}
    None = "none"
    Prober = "x"
    FTPClient = "f"
    Control = 1
    Service = 2
    Ports = {1, 2, 3, 5}
    MinPassive = 5
    Dynamic = {5}
    ProbeThreshold = 2
    ProbeWindow = 2
    ProbeCooldown = 1
    NetworkPorts = 2
    NetworkAddrs = 2
    NetworkCooldown = 1
    SnapshotAge = 2
    Memory = 3
    MaxPending = 4
    Sweeps <- MCSweeps
    MayFail = TRUE
    MaxRuns = 3
    Reports = {"a"}
    MaxMinutes = 2
    WindowDays = 3
    MinDays = 2
    MinConns = 2
    FlagDays = 4
    MaxConns = 1
    MaxStarts = 2
    Apps = {"a"}
    DnsPorts = {1, 2}
    Listed = {"bad"}
    Configured = {"c"}
    Others = {"o"}
    DnsNames = {"x"}
    Unique = 1
    MaxNames = 2
    HalfWindows = 1
    Cooldown = 2
    HopThreshold = 2
    MaxScans = 1
    MaxDnsEvents = 2
    FeedSources = {"drop", "et"}
    CrawlerLists <- MCCrawlers
    AIBots <- MCAIBots
    Covers <- MCCovers
    SlugOf <- MCSlugOf
    OldSlugs <- MCOldSlugs
    BotPolicies <- MCPolicies
    DashboardLists <- MCLists
    RefreshHours = 2
    MaxListEvents = 1
    MaxListFaults = 1
    MaxListRestarts = 1
INVARIANT NeverOvertaken
CHECK_DEADLOCK FALSE
