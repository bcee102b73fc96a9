---------------------------- MODULE EgressWatch -----------------------------
(* What leaves the server: first its destinations, then its DNS traffic.    *)
(* The two parts share no state.                                            *)
(*                                                                          *)
(* Which threat-listed addresses the server depends on:                     *)
(* internal/monitor/destinations.go (DestinationLog), egress.go             *)
(* (EgressDetector) and threatfeed.go.  One address.                        *)
(*                                                                         *)
(* A scan, once a minute, counts the connections there are on this day, and *)
(* judges an address when it first finds one of them established while the  *)
(* address is listed: by the days before.  The verdict is kept for some     *)
(* days, in a file that is written now and then.                            *)
EXTENDS Integers, FiniteSets

CONSTANTS
    WindowDays,     \* days a connection counts (destWindowDays)
    MinDays,        \* days of a regular destination (destMinDays)
    MinConns,       \* its connections (destMinConns)
    FlagDays,       \* days a verdict is kept (destFlagDays)
    MaxStarts,      \* bound: restarts of the agent
    MaxConns        \* bound: connections counted on a day

ASSUME DestinationAssumption ==
    /\ {WindowDays, MinDays, MinConns, FlagDays, MaxConns, MaxStarts} \subseteq Nat \ {0}
    /\ MinDays > 1 /\ MinDays <= WindowDays /\ WindowDays < FlagDays

DestDays == 0..(WindowDays - 1)    \* days ago: today is 0
NoFlag == [age |-> FlagDays, regular |-> FALSE]

VARIABLES
    link,           \* the connection there is now: none, open, closing
    linkSeen,       \* it was counted today
    onLists,        \* whether the threat lists have the address
    days,           \* age -> connections counted on that day
    flag,           \* the verdict and its age
    destFile,       \* what is on disk of both
    first,          \* it was listed when the server first reached it, and has been since
    hidden,         \* it was counted while listed and not judged
    expired,        \* a verdict grew old
    starts          \* how often the agent began again

destVars == <<link, linkSeen, onLists, days, flag, destFile, first, hidden, expired, starts>>

DestinationsTypeOK ==
    /\ link \in {"none", "open", "closing"} /\ linkSeen \in BOOLEAN /\ onLists \in BOOLEAN
    /\ days \in [DestDays -> 0..MaxConns]
    /\ flag \in [age : 0..FlagDays, regular : BOOLEAN]
    /\ destFile \in [days : [DestDays -> 0..MaxConns], flag : [age : 0..FlagDays, regular : BOOLEAN]]
    /\ first \in {"never", "unlisted", "listed"} /\ hidden \in BOOLEAN /\ expired \in BOOLEAN
    /\ starts \in 0..MaxStarts
    /\ linkSeen => link # "none" /\ days[0] > 0

DestinationsInit ==
    /\ link = "none" /\ linkSeen = FALSE /\ onLists \in BOOLEAN
    /\ days = [a \in DestDays |-> 0] /\ flag = NoFlag /\ destFile = [days |-> days, flag |-> flag]
    /\ first = "never" /\ hidden = FALSE /\ expired = FALSE /\ starts = 0

----------------------------------------------------------------------------
\* The server (or a container of it) connects to the address, and hangs up.
Reach ==
    /\ link = "none" /\ link' = "open" /\ linkSeen' = FALSE
    /\ first' = IF first # "never" THEN first ELSE IF onLists THEN "listed" ELSE "unlisted"
    /\ UNCHANGED <<onLists, days, flag, destFile, hidden, expired, starts>>
Leave ==
    /\ link \in {"open", "closing"}
    /\ link' = IF link = "open" THEN "closing" ELSE "none"
    /\ linkSeen' = (linkSeen /\ link = "open")
    /\ UNCHANGED <<onLists, days, flag, destFile, first, hidden, expired, starts>>

\* ThreatFeedIndex.Update, with a list that names the address or no longer does.
UpdateFeed ==
    /\ onLists' = ~onLists /\ first' = IF first = "listed" THEN "unlisted" ELSE first
    /\ UNCHANGED <<link, linkSeen, days, flag, destFile, hidden, expired, starts>>

----------------------------------------------------------------------------
\* countLocked: the days of the window up to a day.
DaysCounted(log, from) == {a \in DestDays : a >= from /\ a < from + WindowDays /\ log[a] > 0}
Sum(log, ages) ==
    LET upTo[k \in 0..WindowDays] ==
            IF k = 0 THEN 0 ELSE upTo[k - 1] + (IF (k - 1) \in ages THEN log[k - 1] ELSE 0)
    IN  upTo[WindowDays]
IsRegular(log, from) ==
    LET on == DaysCounted(log, from) IN Cardinality(on) >= MinDays /\ Sum(log, on) >= MinConns

Flagged == flag.age < FlagDays

\* Flag: the verdict of a first match, from the days before today.
Verdict(log) == [age |-> 0, regular |-> IsRegular(log, 1)]

\* EgressDetector.Scan: DestinationLog.Observe of what there is, established or
\* just closed, then Flag of an established connection to a listed address.
\* The log is saved when that is due, before the address is judged.
EgressScan(save) ==
    LET counts == link # "none" /\ ~linkSeen
        log == IF counts /\ days[0] < MaxConns THEN [days EXCEPT ![0] = @ + 1] ELSE days
        matches == link = "open" /\ onLists
    IN  /\ days' = log
        /\ linkSeen' = (link # "none")
        /\ destFile' = IF save THEN [days |-> log, flag |-> flag] ELSE destFile
        /\ flag' = IF matches /\ ~Flagged THEN Verdict(log) ELSE flag
        /\ hidden' = (hidden \/ (counts /\ onLists /\ ~matches /\ ~Flagged))
        /\ UNCHANGED <<link, onLists, first, expired, starts>>

\* Midnight: pruneLocked drops the oldest day, and a verdict that is old.
Midnight ==
    /\ days' = [a \in DestDays |-> IF a = 0 THEN 0 ELSE days[a - 1]]
    /\ flag' = IF flag.age + 1 < FlagDays THEN [flag EXCEPT !.age = @ + 1] ELSE NoFlag
    /\ destFile' = [days |-> [a \in DestDays |-> IF a = 0 THEN 0 ELSE destFile.days[a - 1]],
                    flag |-> IF destFile.flag.age + 1 < FlagDays
                             THEN [destFile.flag EXCEPT !.age = @ + 1] ELSE NoFlag]
    /\ expired' = (expired \/ (Flagged /\ flag.age + 1 >= FlagDays))
    /\ linkSeen' = FALSE
    /\ UNCHANGED <<link, onLists, first, hidden, starts>>

\* The agent begins again with what is on disk (load): nothing saves the log as
\* it ends.
DestRestart ==
    /\ starts < MaxStarts /\ starts' = starts + 1
    /\ days' = destFile.days /\ flag' = destFile.flag /\ linkSeen' = FALSE
    /\ UNCHANGED <<link, onLists, destFile, first, hidden, expired>>

DestinationsNext ==
    \/ Reach \/ Leave \/ UpdateFeed \/ Midnight \/ DestRestart
    \/ \E save \in BOOLEAN : EgressScan(save)

DestinationsSpec == DestinationsInit /\ [][DestinationsNext]_destVars

----------------------------------------------------------------------------

JudgedRegular == Flagged /\ flag.regular

\* A verdict is taken from the time before the address was listed: one the server
\* first reached while it was listed, and was seen to, is not regular, however
\* often it is contacted, for as long as verdicts are kept, and over restarts that
\* lose the verdict, but for as many as the days of a regular destination.
ListedIsNotRegular ==
    first = "listed" /\ ~hidden /\ ~expired /\ starts < MinDays => ~JudgedRegular

----------------------------------------------------------------------------

(* What is made of the server's own DNS traffic: packet by packet           *)
(* (internal/dnswatch/analyzer.go), each traced to its process              *)
(* (dnswatch/owner.go), or, while packets are not inspected, from the table *)
(* of the UDP sockets (internal/monitor/dns.go).  PacketWatch has the switch*)
(* between the two.                                                         *)
(*                                                                          *)
(* A socket is its port, the process that holds it and the server it asks:  *)
(* the stub of this machine, which its resolver answers, or one outside; a  *)
(* port that a process opens again counts as the same socket.               *)
(* Every name is a long one under one domain of its own kind (a tunnel), or *)
(* one made up (a DGA).  Time has three steps: the 200 ms of the table, the *)
(* 5 seconds of a query to the stub, and half of the window of 5 minutes.   *)

CONSTANTS
    Apps,           \* the processes that are not the resolver
    DnsPorts,
    Listed, Configured, Others, \* servers outside: threats, configured, the rest
    DnsNames,
    Unique,         \* tunnelUnique, dgaDistinct: names that are too many (60, 20)
    MaxNames,       \* maxTracked: names of one kind that are kept (5000)
    HalfWindows,    \* of the window: 2
    Cooldown,       \* half windows until the same is reported again (12)
    HopThreshold,   \* servers of resolver hopping (5)
    MaxScans,       \* maxScansPerSecond (10)
    MaxDnsEvents    \* bound on the sockets opened, the answers and the switches

ASSUME DnsAssumption ==
    /\ IsFiniteSet(Apps) /\ IsFiniteSet(DnsPorts) /\ IsFiniteSet(DnsNames)
    /\ {Unique, MaxNames, HalfWindows, Cooldown, HopThreshold, MaxScans} \subseteq Nat \ {0}
    /\ MaxDnsEvents \in Nat

VARIABLES
    socks,        \* port -> [proc, dst]
    flight,         \* the packet that was captured and not handled yet
    inspected,      \* packets are inspected
    finder,         \* ownerFinder: its table, whether that is old, byInode, scans left
    loopQuery,      \* name -> port that asked the stub for it, 0: none
    subs, nx,       \* name -> half windows it is kept for, 0: not kept
    warned,         \* what was reported -> half windows until it is again
    seenResolvers,  \* the detector's: server -> half windows
    held, askers,   \* history: who held each port, which ports asked the stub lately
    wrong,          \* history: what went wrong
    dnsEventsN

analyzer == <<loopQuery, subs, nx>>
dnsVars  == <<socks, flight, inspected, finder, analyzer, warned, seenResolvers, held, askers,
              wrong, dnsEventsN>>

Resolver == "resolver"
Procs    == Apps \cup {Resolver}
NoProc   == "?"
Closed   == [proc |-> NoProc, dst |-> NoProc, name |-> NoProc]
NoPacket == [kind |-> "none"]
Outside  == Listed \cup Configured \cup Others
Keys ==
    ({"resolver"} \X Listed \X {NoProc}) \cup ({"unlisted"} \X Others \X (Procs \cup {NoProc}))
    \cup ({"answer"} \X DnsNames \X {NoProc})
    \cup ({"tunnel", "dga", "hopping"} \X {""} \X {NoProc})

NoInodes ==
    [table |-> [p \in DnsPorts |-> NoProc], old |-> TRUE, byInode |-> {}, scans |-> MaxScans]
Zero(S)    == [x \in S |-> 0]
HeldNow(s) == [p \in DnsPorts |-> {s[p].proc} \ {NoProc}]

DnsInit ==
    /\ socks = [p \in DnsPorts |-> Closed] /\ flight = NoPacket
    /\ inspected \in BOOLEAN /\ dnsEventsN = 0
    /\ finder = NoInodes /\ loopQuery = Zero(DnsNames) /\ subs = Zero(DnsNames)
    /\ nx = Zero(DnsNames) /\ warned = Zero(Keys) /\ seenResolvers = Zero(Outside)
    /\ held = [p \in DnsPorts |-> {}] /\ askers = [n \in DnsNames |-> {}] /\ wrong = {}

----------------------------------------------------------------------------
(* The processes, and time.                                                 *)

DnsEvent == dnsEventsN < MaxDnsEvents /\ dnsEventsN' = dnsEventsN + 1
DnsFrame == UNCHANGED <<inspected, finder, analyzer, warned, seenResolvers, askers, wrong>>

\* A socket asks for a name; what is captured of it is handled later.
Packet(kind, p) ==
    flight' = IF ~inspected THEN NoPacket
              ELSE [kind |-> kind, port |-> p, dst |-> socks'[p].dst, name |-> socks'[p].name]
OpenSocket(p, proc, dst, n) ==
    /\ flight = NoPacket /\ socks[p] = Closed /\ (dst = "stub" => proc # Resolver)
    /\ socks' = [socks EXCEPT ![p] = [proc |-> proc, dst |-> dst, name |-> n]]
    /\ held' = [held EXCEPT ![p] = @ \cup {proc}]
    /\ Packet("query", p) /\ DnsEvent /\ DnsFrame
\* It asks again.
AskAgain(p) ==
    /\ flight = NoPacket /\ inspected /\ socks[p] # Closed
    /\ UNCHANGED <<socks, held, dnsEventsN>> /\ Packet("query", p) /\ DnsFrame
\* The answer: an address that is listed, or that there is no such name.
Answered(p, what) ==
    /\ flight = NoPacket /\ inspected /\ socks[p] # Closed
    /\ what = "nx" => socks[p].dst # "stub"
    /\ UNCHANGED <<socks, held>> /\ Packet(what, p) /\ DnsEvent /\ DnsFrame
Close(p) ==
    /\ socks[p] # Closed /\ socks' = [socks EXCEPT ![p] = Closed]
    /\ UNCHANGED <<flight, held, dnsEventsN>> /\ DnsFrame

\* prune: what is too old when the next packet is handled.
Less(f) == [x \in DOMAIN f |-> IF f[x] > 0 THEN f[x] - 1 ELSE 0]
Moment ==
    /\ ~finder.old /\ finder' = [finder EXCEPT !.old = TRUE]
    /\ UNCHANGED <<socks, flight, inspected, analyzer, warned, seenResolvers, held, askers, wrong,
                   dnsEventsN>>
SecondsOver ==
    /\ flight = NoPacket /\ finder' = [finder EXCEPT !.old = TRUE, !.scans = MaxScans]
    /\ loopQuery' = Zero(DnsNames) /\ UNCHANGED dnsEventsN
    /\ held' = HeldNow(socks) /\ askers' = [n \in DnsNames |-> {}]
FewSeconds ==
    /\ SecondsOver /\ UNCHANGED <<socks, flight, inspected, subs, nx, warned, seenResolvers, wrong>>
HalfWindow ==
    /\ SecondsOver /\ subs' = Less(subs) /\ nx' = Less(nx) /\ warned' = Less(warned)
    /\ seenResolvers' = Less(seenResolvers)
    /\ UNCHANGED <<socks, flight, inspected, wrong>>

\* The inspection is switched: a new analyzer, or the detector with what it has.
Switch ==
    /\ flight = NoPacket /\ DnsEvent /\ inspected' = ~inspected /\ finder' = NoInodes
    /\ loopQuery' = Zero(DnsNames) /\ subs' = Zero(DnsNames) /\ nx' = Zero(DnsNames)
    /\ warned' = Zero(Keys)
    /\ UNCHANGED <<socks, flight, seenResolvers, held, askers, wrong>>

----------------------------------------------------------------------------
(* The process of a packet.                                                 *)

\* Lookup: from the table of the last 200 ms, the inodes known, the list of the
\* resolvers, or the open sockets of all processes while that is not too much.
Refreshed(f) ==
    IF f.old THEN [f EXCEPT !.old = FALSE, !.table = [p \in DnsPorts |-> socks[p].proc]] ELSE f
Lookup(f, p) ==
    LET g == Refreshed(f)
        q == g.table[p]
    IN  IF q = NoProc THEN [proc |-> NoProc, f |-> g]
        ELSE IF <<q, p>> \in g.byInode \/ q = Resolver THEN [proc |-> q, f |-> g]
        ELSE IF g.scans = 0 THEN [proc |-> NoProc, f |-> g]
        ELSE IF socks[p].proc # q THEN [proc |-> NoProc, f |-> [g EXCEPT !.scans = @ - 1]]
        ELSE [proc |-> q, f |-> [g EXCEPT !.scans = @ - 1, !.byInode = @ \cup {<<q, p>>}]]

\* owner: who asked the stub for this name, else who holds the port.
Owner(f, p, n) ==
    LET asker == IF loopQuery[n] = 0 THEN [proc |-> NoProc, f |-> f] ELSE Lookup(f, loopQuery[n])
    IN  IF asker.proc # NoProc THEN asker ELSE Lookup(asker.f, p)

----------------------------------------------------------------------------
(* Handle.                                                                  *)

Tracked(s)    == {n \in DnsNames : s[n] > 0}
KeepName(s, n) == IF Cardinality(Tracked(s)) < MaxNames THEN [s EXCEPT ![n] = HalfWindows] ELSE s
\* due, for each of the keys.
Report(keys) == warned' = [k \in Keys |-> IF k \in keys /\ warned[k] = 0 THEN Cooldown
                                            ELSE warned[k]]
Possible(p, n) == held[p] \cup UNION {held[q] : q \in askers[n]}
\* The process an event names held a port that asked for the name lately; too many
\* names were reported.
Judge(events, proc, p, n, s, kind) ==
    wrong' = wrong
        \cup (IF (\E k \in events : warned[k] = 0) /\ proc \notin {NoProc} \cup Possible(p, n)
              THEN {"misnamed"} ELSE {})
        \cup (IF /\ Cardinality(Tracked(s)) \in Unique..MaxNames - 1
                 /\ warned'[<<kind, "", NoProc>>] = 0
              THEN {"missed"} ELSE {})

Done == flight' = NoPacket /\ UNCHANGED <<socks, inspected, seenResolvers, held, dnsEventsN>>
Tunnel == <<"tunnel", "", NoProc>>
Dga    == <<"dga", "", NoProc>>

HandleQuery ==
    /\ flight.kind = "query" /\ Done /\ UNCHANGED nx
    /\ LET p == flight.port
           n == flight.name
           d == flight.dst
           o == Owner(finder, p, n)
           r == IF d \in Listed THEN {<<"resolver", d, NoProc>>}
                ELSE IF d \in Others /\ Configured # {} /\ o.proc # Resolver
                     THEN {<<"unlisted", d, o.proc>>} ELSE {}
           t == IF Cardinality(Tracked(subs)) < MaxNames /\ Cardinality(Tracked(subs')) >= Unique
                THEN {Tunnel} ELSE {}
           looks == d \in Outside \/ (t # {} /\ warned[Tunnel] = 0)
           room  == Cardinality({x \in DnsNames : loopQuery[x] # 0}) < MaxNames
       IN  /\ loopQuery' = IF d = "stub" /\ room THEN [loopQuery EXCEPT ![n] = p] ELSE loopQuery
           /\ askers' = IF d = "stub" THEN [askers EXCEPT ![n] = @ \cup {p}] ELSE askers
           /\ subs' = KeepName(subs, n)
           /\ Report(r \cup t)
           /\ finder' = IF looks THEN o.f ELSE finder
           /\ Judge(r \cup t, o.proc, p, n, subs', "tunnel")

HandleAnswer ==
    /\ flight.kind \in {"listed", "nx"} /\ Done /\ UNCHANGED <<loopQuery, subs, askers>>
    /\ LET p == flight.port
           n == flight.name
           o == Owner(finder, p, n)
           e == IF flight.kind = "listed" THEN {<<"answer", n, NoProc>>}
                ELSE IF Cardinality(Tracked(nx')) >= Unique THEN {Dga} ELSE {}
       IN  /\ nx' = IF flight.kind = "nx" THEN KeepName(nx, n) ELSE nx
           /\ Report(e)
           /\ finder' = IF \E k \in e : warned[k] = 0 THEN o.f ELSE finder
           /\ Judge(e, o.proc, p, n, IF flight.kind = "nx" THEN nx' ELSE Zero(DnsNames), "dga")

----------------------------------------------------------------------------
(* DNSDetector.Scan: every minute, of the sockets there are.                *)

Flows == {p \in DnsPorts : socks[p].dst \in Outside}
Scan ==
    /\ ~inspected /\ flight = NoPacket
    /\ LET strange == {p \in Flows : socks[p].dst \notin Listed /\ socks[p].proc # Resolver}
           seen    == {socks[p].dst : p \in strange}
       IN  /\ seenResolvers' =
                 [d \in Outside |-> IF d \in seen THEN HalfWindows ELSE seenResolvers[d]]
           /\ Report({<<"resolver", d, NoProc>> : d \in {socks[p].dst : p \in Flows} \cap Listed}
                     \cup {<<"unlisted", d, NoProc>> :
                             d \in {x \in seen \cap Others : Configured # {}}}
                     \cup (IF Cardinality({d \in Outside : seenResolvers'[d] > 0}) >= HopThreshold
                          THEN {<<"hopping", "", NoProc>>} ELSE {}))
    /\ UNCHANGED <<socks, flight, inspected, finder, analyzer, held, askers, wrong, dnsEventsN>>

DnsNext ==
    \/ \E p \in DnsPorts :
          \/ \E n \in DnsNames, proc \in Procs, dst \in Outside \cup {"stub"} :
                OpenSocket(p, proc, dst, n)
          \/ AskAgain(p) \/ Close(p) \/ Answered(p, "listed") \/ Answered(p, "nx")
    \/ Moment \/ FewSeconds \/ HalfWindow \/ Switch \/ HandleQuery \/ HandleAnswer \/ Scan

----------------------------------------------------------------------------

DnsTypeOK ==
    /\ \A p \in DnsPorts :
          \/ socks[p] = Closed
          \/ socks[p] \in [proc : Procs, dst : Outside \cup {"stub"}, name : DnsNames]
    /\ flight.kind \in {"none", "query", "listed", "nx"}
    /\ finder.table \in [DnsPorts -> Procs \cup {NoProc}] /\ finder.scans \in 0..MaxScans
    /\ loopQuery \in [DnsNames -> {0} \cup DnsPorts]
    /\ {subs, nx} \subseteq [DnsNames -> 0..HalfWindows] /\ warned \in [Keys -> 0..Cooldown]
    /\ seenResolvers \in [Outside -> 0..HalfWindows] /\ wrong \subseteq {"misnamed", "missed"}
    /\ dnsEventsN \in 0..MaxDnsEvents

\* An event names no process but one that held, within the last seconds, the port
\* of the packet or one that asked the stub for the same name; and a packet that
\* makes the names of a domain, or the made-up ones, too many finds that reported
\* since a cooldown, as long as the tables are not full.
AsksTraced == wrong = {}

\* A listed server that a socket stays connected to is reported again and again,
\* every cooldown: the time until it is reported again is running.
ListedReported ==
    \A d \in Listed :
        ~inspected /\ (\E p \in DnsPorts : socks[p].dst = d)
            => warned[<<"resolver", d, NoProc>>] = Cooldown - 1
=============================================================================
