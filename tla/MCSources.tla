----------------------------- MODULE MCSources -----------------------------
(* Where the addresses to keep out come from, on small instances: the       *)
(* country blocks and the threat set, the country database, the arithmetic  *)
(* of their networks, the readers of the logs, the watchers of the mail,    *)
(* database and FTP logs, the access logs of containers; and what is seen   *)
(* of the network: probes, the captures of packets, the destinations the    *)
(* server depends on, its DNS traffic; and the lists that are downloaded.   *)
(* One component, which, runs in a behaviour (see MCHost).                  *)
EXTENDS SourceBlocks, AddressRanges, LogWatchers, WebSources, PacketWatch,
        EgressWatch, PublicLists

VARIABLE which

MCFeeds == <<1, 2>>
MCLines == <<1, 3, 2>>
Bot(p, c, a) == [pattern |-> p, category |-> c, action |-> a]
MCCrawlers == {{Bot("claude", "ai", "log")},
               {Bot("claude", "ai", "log"), Bot("goog", "search", "allow")}}
MCAIBots   == {Bot("claude", "ai", "log"), Bot("gpt", "ai", "log")}
MCCovers   == {<<"claude", "claude">>}
MCSlugOf   == [p \in {"claude", "goog", "gpt"} |-> p]
MCOldSlugs == [MCSlugOf EXCEPT !["claude"] = "cc"]
MCPolicies == {NoPolicy, [bots |-> [claude |-> "block"], categories |-> [ai |-> "allow"]]}
MCLists    == {{}, {[pattern |-> "gpt", category |-> "ai", action |-> "block", slug |-> "gpt"]}}
MCSweeps == {<<1, 2, 3, 5>>, <<3, 5, 2>>}

\* A component that does not run begins in one state.
Still ==
    /\ which = "networks" \/ (which # "networks" /\ input = [ranges |-> {}, ex |-> {}, feed |-> {}, keep |-> {}]
                                /\ networks = [ok |-> FALSE, list |-> <<>>])
    /\ which = "tails" \/ (which # "tails" /\ tailReader = "web")
    /\ which = "services" \/ (which # "services" /\ logKind = "ftp" /\ machine = {"auth log"})
    /\ which = "web" \/ (which # "web" /\ webProxy \in {p \in Proxies : p.flavour = "caddy"})
    /\ webServer \in [Servers -> {[published |-> TRUE, proxied |-> TRUE, log |-> "file"]}]
    /\ which = "database" \/ (which # "database" /\ country = FALSE /\ offered = 0
                                /\ file = [version |-> 0, age |-> 0])
    /\ which = "blocks" \/ (which # "blocks" /\ asked = {} /\ database = 0)
    /\ which = "probes" \/ (which # "probes" /\ ftp = [on |-> FALSE, range |-> {}]
                                /\ probed = <<1, 2, 3, 5>>)
    /\ which = "dns" \/ (which # "dns" /\ inspected = FALSE)
    /\ crawlers = {Bot("claude", "ai", "log")}
    /\ which = "captures" \/ (which # "captures" /\ refused = FALSE)
    /\ which = "destinations" \/ (which # "destinations" /\ onLists = FALSE)
NetworksStart == IF which = "networks" THEN NetworksInit ELSE loaded = {} /\ keptFeed = {}

SourcesStart ==
    /\ which \in {"blocks", "database", "networks", "tails", "services", "web",
                 "probes", "captures", "destinations", "dns", "lists"}
    /\ Still
    /\ SourceInit /\ DatabaseInit /\ NetworksStart /\ TailsInit /\ ServiceInit /\ SourcesInit
    /\ ProbesInit /\ CapturesInit /\ DestinationsInit /\ DnsInit /\ ListsInit
    /\ which # "tails" => logFile.there
    /\ which # "lists" => cache["bots"].items = {}

logVars == <<tailVars, serviceVars, webSourceVars>>
setVars == <<sourceVars, databaseVars, networkVars>>
seenVars == <<probeVars, captureVars, destVars, dnsVars, listVars>>

SourcesStep ==
    /\ UNCHANGED which
    /\ \/ /\ which = "blocks" /\ SourceNext
          /\ UNCHANGED <<databaseVars, networkVars, logVars, seenVars>>
       \/ /\ which = "database" /\ DatabaseNext
          /\ UNCHANGED <<sourceVars, networkVars, logVars, seenVars>>
       \/ /\ which = "networks" /\ NetworksNext
          /\ UNCHANGED <<sourceVars, databaseVars, logVars, seenVars>>
       \/ /\ which = "tails" /\ TailsNext
          /\ UNCHANGED <<setVars, serviceVars, webSourceVars, seenVars>>
       \/ /\ which = "services" /\ ServiceNext
          /\ UNCHANGED <<setVars, tailVars, webSourceVars, seenVars>>
       \/ /\ which = "web" /\ SourcesNext
          /\ UNCHANGED <<setVars, tailVars, serviceVars, seenVars>>
       \/ /\ which = "probes" /\ ProbesNext
          /\ UNCHANGED <<setVars, logVars, captureVars, destVars, dnsVars, listVars>>
       \/ /\ which = "captures" /\ CapturesNext
          /\ UNCHANGED <<setVars, logVars, probeVars, destVars, dnsVars, listVars>>
       \/ /\ which = "destinations" /\ DestinationsNext
          /\ UNCHANGED <<setVars, logVars, probeVars, captureVars, dnsVars, listVars>>
       \/ /\ which = "dns" /\ DnsNext
          /\ UNCHANGED <<setVars, logVars, probeVars, captureVars, destVars, listVars>>
       \/ /\ which = "lists" /\ ListsNext
          /\ UNCHANGED <<setVars, logVars, probeVars, captureVars, destVars, dnsVars>>

SourcesRun == SourcesStart /\ [][SourcesStep]_<<which, setVars, logVars, seenVars>>

\* The fairness of the component that runs, a few conditions for all of them: a
\* thread goes on with what it is at, and what ends by itself is done.
Runs(n) ==
    CASE which = "blocks" ->
           \/ n = 1 /\ (BlockerStep \/ RemoveSets)
           \/ n = 2 /\ ThreatStep
           \/ n = 3 /\ GuardStep
           \/ n = 4 /\ (FetchSettings \/ SyncCountries)
           \/ n = 5 /\ RebuildStep
      [] which = "database" ->
           \/ n = 1 /\ Want
           \/ n = 2 /\ (LookUp(TRUE) \/ CheckStep)
           \/ n = 3 /\ LookUp(FALSE)
           \/ n = 4 /\ Hour
      [] which = "tails" -> (n = 1 /\ TailStep) \/ (n = 2 /\ HotReload) \/ (n = 3 /\ CreateLog)
      [] which = "services" ->
           \/ n = 1 /\ (GoesOn \/ ReadsLine \/ Cleanup)
           \/ n = 2 /\ BanCalls
      [] which = "web" -> (n = 1 /\ DetectSources) \/ (n = 2 /\ DaemonStarts)
      [] which = "probes" -> n = 1 /\ (Due \/ ProbeTurn)
      [] which = "captures" -> (n = 1 /\ GoroutineStep) \/ (n = 2 /\ Round) \/ (n = 3 /\ Packets)
      [] which = "dns" ->
           \/ n = 1 /\ (HandleQuery \/ HandleAnswer)
           \/ n = 2 /\ Scan
           \/ n = 5 /\ HalfWindow
      [] which = "lists" ->
           \/ n = 1 /\ UpdaterStep
           \/ n = 2 /\ SyncStep
           \/ n = 3 /\ SyncBots
           \/ n = 4 /\ HourPasses
      [] OTHER -> FALSE
runVars ==
    CASE which = "blocks" -> sourceVars [] which = "database" -> databaseVars
      [] which = "tails" -> tailVars [] which = "services" -> serviceVars
      [] which = "web" -> webSourceVars [] which = "probes" -> probeVars
      [] which = "dns" -> dnsVars [] which = "lists" -> listVars
      [] OTHER -> captureVars
SourcesFairness ==
    /\ \A n \in 1..4 : WF_runVars(UNCHANGED which /\ Runs(n))
    /\ SF_runVars(UNCHANGED which /\ Runs(5))

SourcesLiveSpec == SourcesRun /\ SourcesFairness

\* The lists alone.
ListsRun ==
    /\ SourcesStart /\ which = "lists"
    /\ [][SourcesStep]_<<which, setVars, logVars, seenVars>>

----------------------------------------------------------------------------

\* Every variable of every component keeps its type.
TypesOK ==
    /\ SourceTypeOK /\ DatabaseTypeOK /\ NetworksTypeOK
    /\ TailsTypeOK /\ ServiceTypeOK /\ SourcesTypeOK
    /\ ProbesTypeOK /\ CapturesTypeOK /\ DestinationsTypeOK /\ DnsTypeOK /\ ListsTypeOK

\* SourceBlocks, AddressRanges: what the sets of the kernel hold; PublicLists: what the
\* web watcher and the web server know of the bots, and how often that is asked for.
SetsAreRight ==
    /\ BlockedIsKept /\ OffHoldsNothing /\ SetsAreExact /\ FeedsSpareKept
    /\ PolicyHolds /\ ListInUse /\ PublishersSpared

\* LogWatchers, WebSources: a line of a log is read whole, counted once
\* and for who it is about; PacketWatch, EgressWatch: a client of the server is
\* not taken for a scanner, nor a listed address for a destination the server
\* depends on, and a question is not laid to a process that did not ask it.
NobodyMisjudged ==
    /\ LinesStayWhole /\ NoLineTwice /\ OnceCounted /\ NobodyElseBlamed
    /\ ClientsSpared /\ ListedIsNotRegular /\ AsksTraced

\* The countries, feeds and databases asked for come to be those in use, in
\* their time; the logs that are written are read, an address that goes on is
\* banned, who goes on probing is seen, and an attack on the network too, whether
\* packets are captured or not; a listed server that is asked on is reported.
Settled ==
    CASE which = "blocks" -> AsAsked /\ SetsUpToDate
      [] which = "database" -> DatabaseUpToDate
      [] which = "tails" -> AllRead
      [] which = "web" -> AllCounted
      [] which = "lists" -> ListsUpToDate
      [] which = "captures" -> ~wish => Capturing = {}
      [] OTHER -> TRUE
Noticed ==
    CASE which = "services" -> BanDue => Persistent \in banCalls
      [] which = "probes" -> ScanSeen
      [] which = "captures" -> AttackSeen
      [] which = "dns" -> ListedReported
      [] OTHER -> TRUE
SourcesSettle ==
    /\ NeverLapses /\ NeverOlder /\ AskedInTime
    /\ <>[]Settled
    /\ []<>Noticed
=============================================================================
