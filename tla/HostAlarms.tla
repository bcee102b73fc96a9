----------------------------- MODULE HostAlarms -----------------------------
(***************************************************************************)
(* The alarms about the host itself (runSecurityMonitors, runZombieMonitor *)
(* in main.go; integrity.go, flood.go, zombies.go in internal/monitor):    *)
(* system files that change, floods of connections, zombie processes.      *)
(* Each detector keeps what it saw last and what it has told lately, so    *)
(* that one event is told once.  The ticks of the two loops may come in    *)
(* any order with the changes of the host.                                 *)
(*                                                                         *)
(* An event told is in the queue (EventQueue).  The summaries of the runs, *)
(* which tell the dashboard that the monitors work, are left out.          *)
(***************************************************************************)
EXTENDS Integers, FiniteSets

CONSTANTS
    SystemFiles, Versions, \* the monitored files, what one may hold
    NotThere, TooBig,       \* a file that is not there; one over maxFileSize
    Peers,                 \* public addresses with connections to the host
    MinRise,               \* synCookiesDeltaMin, listenDropsDeltaMin
    FewZombies, MoreZombies, \* threshold; the growth that is told again
    MostTraffic, MaxHostMoves, MaxUnread, MaxAlarmRestarts \* bounds

\* The key of the SYN flood in reported.
SynFlood == "synflood"

ASSUME HostAlarmsConstants ==
    /\ NotThere \notin Versions /\ TooBig \notin Versions /\ NotThere # TooBig
    /\ SynFlood \notin SystemFiles \cup Peers
    /\ {MinRise, FewZombies, MoreZombies} \subseteq Nat
    /\ {MostTraffic, MaxHostMoves, MaxUnread, MaxAlarmRestarts} \subseteq Nat

VARIABLES
    content,   \* the host: the files
    crowds,    \* the host: the peers with floodConnThreshold connections
    tcpExt,    \* the host: its counters of SYN cookies and of dropped requests
    zombies,   \* the host: how many
    baselines, \* integrity: the content it knows of each file
    cooling,   \* integrity, flood: what was told within the cooldown (reported)
    prevTCPExt, \* flood: the counters of the last scan; NoCounters
    lastReported, \* zombies: how many were told
    lastTold,  \* ghost: the content of each file the dashboard may take it to have
    hushed,    \* ghost: files that changed within the cooldown, or were away
    rise,      \* ghost: how far the counters rose since the last scan
    groundless, \* ghost: a flood was told that was not one of a minute
    alarmN     \* moves, failed reads, restarts so far

detectors == <<baselines, cooling, prevTCPExt, lastReported>>
hostState == <<content, crowds, tcpExt, zombies>>
alarmVars == <<hostState, detectors, lastTold, hushed, rise, groundless, alarmN>>

NoCounters == [cookies |-> -1, drops |-> -1]
Flat == [cookies |-> 0, drops |-> 0]

\* The scan that sets the baseline at the start.
Baseline(held) == [f \in SystemFiles |-> IF held[f] = TooBig THEN NotThere ELSE held[f]]

AlarmsInit ==
    /\ content \in [SystemFiles -> Versions \cup {NotThere, TooBig}]
    /\ crowds = {} /\ tcpExt = Flat /\ zombies = 0
    /\ baselines = Baseline(content) /\ lastTold = Baseline(content)
    /\ cooling = {} /\ prevTCPExt = NoCounters /\ lastReported = 0
    /\ hushed = {} /\ rise = Flat /\ groundless = FALSE
    /\ alarmN = [moves |-> 0, unread |-> 0, restarts |-> 0]

AlarmCount(k, max) == alarmN[k] < max /\ alarmN' = [alarmN EXCEPT ![k] = @ + 1]
HostMove   == AlarmCount("moves", MaxHostMoves)
Unread == AlarmCount("unread", MaxUnread)

----------------------------------------------------------------------------
(* The host, and the clock.                                                *)

FileChanges(f) ==
    /\ HostMove /\ \E c \in (Versions \cup {NotThere, TooBig}) \ {content[f]} :
                content' = [content EXCEPT ![f] = c]
    /\ UNCHANGED <<crowds, tcpExt, zombies, detectors, lastTold, hushed, rise, groundless>>

CrowdChanges(p) ==
    /\ HostMove /\ crowds' = IF p \in crowds THEN crowds \ {p} ELSE crowds \cup {p}
    /\ UNCHANGED <<content, tcpExt, zombies, detectors, lastTold, hushed, rise, groundless>>

Traffic ==
    /\ HostMove /\ \E k \in {"cookies", "drops"} :
         /\ tcpExt[k] < MostTraffic
         /\ tcpExt' = [tcpExt EXCEPT ![k] = @ + 1] /\ rise' = [rise EXCEPT ![k] = @ + 1]
    /\ UNCHANGED <<content, crowds, zombies, detectors, lastTold, hushed, groundless>>

ZombiesChange ==
    /\ HostMove /\ zombies' \in {zombies - 1, zombies + 1} \cap Nat
    /\ UNCHANGED <<content, crowds, tcpExt, detectors, lastTold, hushed, rise, groundless>>

\* The cooldown of what was told is over (integrityCooldown, floodCooldown).
CoolingEnds(k) ==
    /\ k \in cooling /\ HostMove /\ cooling' = cooling \ {k}
    /\ UNCHANGED <<hostState, baselines, prevTCPExt, lastReported, lastTold, hushed, rise, groundless>>

----------------------------------------------------------------------------
(* A check of one file (IntegrityDetector.Scan).                           *)

\* What is known of it then: a file that is gone is forgotten.
NowKnown(f) == IF content[f] = TooBig THEN baselines[f] ELSE content[f]

CheckSystemFile(f) ==
    /\ NowKnown(f) # baselines[f]
    /\ baselines' = [baselines EXCEPT ![f] = NowKnown(f)]
    /\ LET new    == baselines[f] = NotThere
           gone   == NowKnown(f) = NotThere
           alarm  == ~new /\ ~gone /\ f \notin cooling
           silent == gone \/ (~new /\ ~alarm)
       IN  /\ cooling'  = IF alarm THEN cooling \cup {f} ELSE cooling
           /\ lastTold' = IF alarm \/ lastTold[f] = NotThere THEN [lastTold EXCEPT ![f] = NowKnown(f)]
                          ELSE lastTold
           /\ hushed'   = IF silent /\ content[f] # TooBig THEN hushed \cup {f}
                          ELSE IF alarm THEN hushed \ {f} ELSE hushed
    /\ UNCHANGED <<hostState, prevTCPExt, lastReported, rise, groundless, alarmN>>

----------------------------------------------------------------------------
(* The floods (FloodDetector.Scan), once a minute; either table may not be *)
(* read.                                                                   *)

SafeDelta(k) == IF tcpExt[k] >= prevTCPExt[k] THEN tcpExt[k] - prevTCPExt[k] ELSE 0
IsFlood == prevTCPExt # NoCounters /\ SafeDelta("cookies") > MinRise /\ SafeDelta("drops") > MinRise

CountersAfter(read) == IF read THEN tcpExt ELSE NoCounters

FloodScan(peersRead, countersRead) ==
    LET told == (IF peersRead THEN crowds \ cooling ELSE {})
                \cup (IF countersRead /\ IsFlood THEN {SynFlood} \ cooling ELSE {})
    IN  /\ cooling' = cooling \cup told
        /\ groundless' = (groundless \/ (SynFlood \in told /\ \E k \in DOMAIN rise : rise[k] <= MinRise))
        /\ prevTCPExt' = CountersAfter(countersRead) /\ rise' = Flat
        /\ IF peersRead /\ countersRead THEN UNCHANGED alarmN ELSE Unread
        /\ UNCHANGED <<hostState, baselines, lastReported, lastTold, hushed>>

----------------------------------------------------------------------------
(* The zombies (runZombieMonitor), once a minute: told when they are many, *)
(* and again when they are many more.  Without /proc none are seen.        *)

ScanZombies(read) == IF read THEN zombies ELSE 0

ZombieTick(read) ==
    LET seen == ScanZombies(read)
    IN  /\ lastReported' = CASE seen <= FewZombies -> 0
                             [] lastReported > 0 /\ seen - lastReported < MoreZombies -> lastReported
                             [] OTHER -> seen
        /\ IF read THEN UNCHANGED alarmN ELSE Unread
        /\ UNCHANGED <<hostState, baselines, cooling, prevTCPExt, lastTold, hushed, rise, groundless>>

\* The agent starts again, and knows only what it finds then.
AlarmsRestart ==
    /\ AlarmCount("restarts", MaxAlarmRestarts)
    /\ baselines' = Baseline(content) /\ lastTold' = Baseline(content)
    /\ cooling' = {} /\ prevTCPExt' = NoCounters /\ lastReported' = 0
    /\ hushed' = {} /\ rise' = Flat
    /\ UNCHANGED <<hostState, groundless>>

MonitorsTick == (\E f \in SystemFiles : CheckSystemFile(f)) \/ FloodScan(TRUE, TRUE)

AlarmsNext ==
    \/ \E f \in SystemFiles : FileChanges(f) \/ CheckSystemFile(f)
    \/ \E p \in Peers : CrowdChanges(p)
    \/ Traffic \/ ZombiesChange \/ AlarmsRestart
    \/ \E k \in SystemFiles \cup Peers \cup {SynFlood} : CoolingEnds(k)
    \/ \E a \in BOOLEAN : ZombieTick(a) \/ \E b \in BOOLEAN : FloodScan(a, b)

----------------------------------------------------------------------------

\* The type of each variable.
AlarmsTypeOK ==
    /\ content \in [SystemFiles -> Versions \cup {NotThere, TooBig}]
    /\ {baselines, lastTold} \subseteq [SystemFiles -> Versions \cup {NotThere}]
    /\ crowds \subseteq Peers /\ hushed \subseteq SystemFiles
    /\ cooling \subseteq SystemFiles \cup Peers \cup {SynFlood}
    /\ {tcpExt, rise} \subseteq [{"cookies", "drops"} -> Nat]
    /\ prevTCPExt \in {NoCounters} \cup [{"cookies", "drops"} -> Nat]
    /\ {zombies, lastReported} \subseteq Nat /\ groundless \in BOOLEAN

\* A monitored file never becomes the new normal unseen: the content the agent
\* knows is the one the dashboard was told last, or the file changed within its
\* cooldown or was away at a check; one too big to read is compared later with
\* what it was.  And a SYN flood is told for the rise of one minute, not for that
\* of the minutes a read failed.
AlarmsTrue ==
    /\ \A f \in SystemFiles \ hushed : baselines[f] = lastTold[f]
    /\ ~groundless

\* In the end what the host is like is known: its files, its crowds, its zombies.
HostKnown ==
    /\ \A f \in SystemFiles : content[f] # TooBig => baselines[f] = content[f]
    /\ crowds \subseteq cooling
    /\ zombies > FewZombies => lastReported > 0 /\ zombies - lastReported < MoreZombies
=============================================================================
