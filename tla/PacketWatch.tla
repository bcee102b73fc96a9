---------------------------- MODULE PacketWatch -----------------------------
(* Packets: first the probes seen in them, then the switch of a capture.    *)
(* The two parts share no state.                                            *)
(*                                                                          *)
(* Which connection attempts count as probes and who is reported for them:  *)
(* internal/scanwatch/local.go, ftp.go, sockets.go and analyzer.go.         *)
(*                                                                         *)
(* An attempt is seen before the kernel answers it.  It waits until the     *)
(* table of the sockets can tell whether anything answered, and the table   *)
(* is read seldom, may fail to be read, and has forgotten what is over: a   *)
(* client of the FTP server opens many ports and closes them at once.  The  *)
(* model has one prober, which tries its ports at every turn, and one       *)
(* client, which only uses what the server offers.  A turn is the time      *)
(* between two reads of the table (minSnapshotInterval); the goroutine that *)
(* reads it runs several times in a turn.                                   *)
EXTENDS Naturals, Sequences, FiniteSets, SequencesExt

CONSTANTS
    Prober, FTPClient,     \* two addresses of one network
    Control,            \* the control port of the FTP server
    Service,            \* the port of another service, which may stop
    Ports,              \* all ports, numbered; Control and Service are two of them
    Sweeps,             \* what a prober tries at a turn, in its order
    MinPassive,         \* no data port is below it
    Dynamic,            \* the ports an FTP server takes when nothing is configured
    ProbeThreshold, ProbeWindow, ProbeCooldown,
    NetworkPorts, NetworkAddrs, NetworkCooldown,
    SnapshotAge,        \* turns the listening ports of a read are trusted for
    Memory,             \* turns an address is known as a client of the FTP server
    MaxPending,
    MayFail             \* whether reads of the table fail

ASSUME ScanAssumption ==
    /\ Prober # FTPClient /\ Ports \in SUBSET Nat /\ IsFiniteSet(Ports)
    /\ Control \in Ports /\ Service \in Ports /\ Control # Service
    /\ Sweeps \subseteq Seq(Ports) /\ MayFail \in BOOLEAN
    /\ Dynamic \subseteq {p \in Ports : p >= MinPassive}
    /\ {ProbeThreshold, ProbeWindow, ProbeCooldown, NetworkPorts, NetworkAddrs, NetworkCooldown,
        SnapshotAge, Memory, MaxPending} \subseteq Nat \ {0}
    \* A client is known for longer than the table goes unread (nextRead).
    /\ Memory > 2

Hosts == {Prober, FTPClient}

VARIABLES
    ftp,            \* the FTP server: there or not, the range it is configured with
    probed,         \* the ports the prober tries at every turn
    listening,      \* the ports with a listening socket
    sockets,        \* connections in the table: <<address, port>>
    served,         \* the client has used the server in this turn
    pending,        \* attempts that wait: [src, port, ripe]
    snap,           \* the listening ports of the last read, the turns they are trusted
    ftpSYN,         \* who tried the control port since they were collected
    ftpClients,     \* who is known as a client of the FTP server, for how long
    nextRead,       \* turns until the table is read again
    ports,          \* address -> port -> turns until the attempt leaves the window
    reported,       \* address -> turns until it can be reported again
    netPorts, netAddrs, netReported,    \* the same of their network
    misread,        \* turns in which what a failed read lost is still missing
    blamed          \* the client has been counted for a port the server offered it

localVars == <<pending, snap, ftpSYN, ftpClients, nextRead>>
analyzerVars == <<ports, reported, netPorts, netAddrs, netReported>>
scanHostVars == <<ftp, probed, listening, sockets, served>>
probeVars == <<scanHostVars, localVars, analyzerVars, misread, blamed>>

ProbesTypeOK ==
    /\ ftp \in [on : BOOLEAN, range : SUBSET Ports] /\ probed \in Sweeps
    /\ listening \subseteq Ports /\ sockets \subseteq Hosts \X Ports /\ served \in BOOLEAN
    /\ Len(pending) <= MaxPending
    /\ Range(pending) \subseteq [src : Hosts, port : Ports, ripe : BOOLEAN]
    /\ snap \in [listening : SUBSET Ports, left : 0..SnapshotAge]
    /\ ftpSYN \subseteq Hosts /\ ftpClients \in [Hosts -> 0..Memory] /\ nextRead \in 0..2
    /\ ports \in [Hosts -> [Ports -> 0..ProbeWindow]]
    /\ reported \in [Hosts -> 0..ProbeCooldown]
    /\ netPorts \in [Ports -> 0..ProbeWindow] /\ netAddrs \in [Hosts -> 0..ProbeWindow]
    /\ netReported \in 0..NetworkCooldown
    /\ misread \in 0..Memory /\ blamed \in BOOLEAN

\* LoadFTPConfig, clampRange: what is configured, never below MinPassive.
Passive == {p \in ftp.range : p >= MinPassive}
\* passiveRanges: the configured ports, else the dynamic ones while it listens.
PassiveRanges(ftpListens) ==
    IF Passive # {} THEN Passive ELSE IF ftpListens THEN Dynamic ELSE {}

ProbesInit ==
    /\ ftp \in [on : BOOLEAN, range : {{}, {p \in Ports : p >= Service}}]
    /\ probed \in Sweeps
    /\ ~ftp.on => ftp.range = {} /\ Range(probed) = Ports
    /\ listening = (IF ftp.on THEN {Control} ELSE {}) \cup {Service}
    /\ sockets = {} /\ served = FALSE
    /\ pending = <<>> /\ snap = [listening |-> {}, left |-> 0]
    /\ ftpSYN = {} /\ ftpClients = [h \in Hosts |-> 0] /\ nextRead = 0
    /\ ports = [h \in Hosts |-> [p \in Ports |-> 0]] /\ reported = [h \in Hosts |-> 0]
    /\ netPorts = [p \in Ports |-> 0] /\ netAddrs = [h \in Hosts |-> 0] /\ netReported = 0
    /\ misread = 0 /\ blamed = FALSE

----------------------------------------------------------------------------
\* The k-th of a set of positions, and what a list has at them, in its order.
Nth(S, k) == CHOOSE i \in S : Cardinality({j \in S : j < i}) = k - 1
Picked(list, S) == [k \in 1..Cardinality(S) |-> list[Nth(S, k)]]

\* Local.Add.  The control port is noted first, whatever becomes of the attempt.
Adds(list, attempts, trusted) ==
    LET all == list \o Picked(attempts, {i \in DOMAIN attempts : attempts[i].port \notin trusted})
    IN  SubSeq(all, 1, IF Len(all) < MaxPending THEN Len(all) ELSE MaxPending)
TriedControl(attempts) == {a.src : a \in {b \in Range(attempts) : b.port = Control}}
Add(list, attempts, trusted) ==
    /\ pending' = Adds(list, attempts, trusted)
    /\ ftpSYN' = ftpSYN \cup TriedControl(attempts)

Attempt(h, p) == [src |-> h, port |-> p, ripe |-> FALSE]
Trusted == IF snap.left > 0 THEN snap.listening ELSE {}

\* The client connects to a service that listens; the connection stays.
Connect(p) ==
    /\ ~served /\ p \in listening
    /\ sockets' = sockets \cup {<<FTPClient, p>>}
    /\ Add(pending, <<Attempt(FTPClient, p)>>, Trusted)
    /\ served' = TRUE
    /\ UNCHANGED <<ftp, probed, listening, snap, ftpClients, nextRead, analyzerVars, misread, blamed>>

\* An upload: the control connection, a data connection to a port the FTP
\* server opens for it, and both are over before anybody looks.
Upload(p) ==
    /\ ~served /\ ftp.on /\ p \in PassiveRanges(TRUE)
    /\ Add(pending, <<Attempt(FTPClient, Control), Attempt(FTPClient, p)>>, Trusted)
    /\ served' = TRUE
    /\ UNCHANGED <<ftp, probed, listening, sockets, snap, ftpClients, nextRead, analyzerVars, misread,
                   blamed>>

\* A data connection of a session that is open.
Transfer(p) ==
    /\ ~served /\ <<FTPClient, Control>> \in sockets /\ p \in PassiveRanges(TRUE)
    /\ Add(pending, <<Attempt(FTPClient, p)>>, Trusted)
    /\ served' = TRUE
    /\ UNCHANGED <<ftp, probed, listening, sockets, snap, ftpClients, nextRead, analyzerVars, misread,
                   blamed>>

\* The client hangs up: the table forgets the connection.  Of a session that was
\* used a moment ago, and of a service that is gone, the kernel keeps it (the
\* server closed it first) for longer than the table goes unread.
HangUp(p) ==
    /\ <<FTPClient, p>> \in sockets
    /\ \/ p = Service /\ p \in listening
       \/ ~\E a \in Range(pending) : a.src = FTPClient
    /\ sockets' = sockets \ {<<FTPClient, p>>}
    /\ UNCHANGED <<ftp, probed, listening, served, localVars, analyzerVars, misread, blamed>>

StopService ==
    /\ Service \in listening
    /\ ~\E a \in Range(pending) : a.src = FTPClient /\ a.port = Service /\ <<FTPClient, Service>> \notin sockets
    /\ listening' = listening \ {Service}
    /\ UNCHANGED <<ftp, probed, sockets, served, localVars, analyzerVars, misread, blamed>>

----------------------------------------------------------------------------
\* Analyzer.Observe for the attempts of one look: what is tried within the
\* window (InWindow).  Nothing is counted while a report is fresh, so what is
\* left of the attempts that crossed a threshold is not counted either.
InWindow(seen) == {x \in DOMAIN seen : seen[x] > 0}
SeenNow(seen, now) == [x \in DOMAIN seen |-> IF x \in now THEN ProbeWindow ELSE seen[x]]
Nothing(seen) == [x \in DOMAIN seen |-> 0]

\* observeAddress: enough distinct ports of one address.
IsScan(h, now) ==
    reported[h] = 0 /\ Cardinality(InWindow(SeenNow(ports[h], now))) >= ProbeThreshold
ObserveAddress(h, now) ==
    IF IsScan(h, now) THEN Nothing(ports[h])
    ELSE IF reported[h] > 0 THEN ports[h] ELSE SeenNow(ports[h], now)
\* observeNetwork: enough ports and enough addresses of the network.
IsNetworkScan(from, now) ==
    /\ netReported = 0
    /\ Cardinality(InWindow(SeenNow(netPorts, now))) >= NetworkPorts
    /\ Cardinality(InWindow(SeenNow(netAddrs, from))) >= NetworkAddrs
ObserveNetwork(seen, now, scan) ==
    IF scan THEN Nothing(seen) ELSE IF netReported > 0 THEN seen ELSE SeenNow(seen, now)

TriedBy(attempts, h) == {a.port : a \in {b \in attempts : b.src = h}}
Analyzed(attempts) ==
    LET from == {a.src : a \in attempts}
        now == {a.port : a \in attempts}
        netScan == IsNetworkScan(from, now)
    IN  /\ ports' = [h \in Hosts |-> ObserveAddress(h, TriedBy(attempts, h))]
        /\ reported' = [h \in Hosts |->
                          IF IsScan(h, TriedBy(attempts, h)) THEN ProbeCooldown ELSE reported[h]]
        /\ netPorts' = ObserveNetwork(netPorts, now, netScan)
        /\ netAddrs' = ObserveNetwork(netAddrs, from, netScan)
        /\ netReported' = IF netScan THEN NetworkCooldown ELSE netReported

\* cut: those in front that have waited long enough.
IsCut(n) == (\A i \in 1..n : pending[i].ripe) /\ (n < Len(pending) => ~pending[n + 1].ripe)
IsDue == nextRead = 0 /\ pending # <<>> /\ pending[1].ripe

\* readSockets: which of those who wait talk to the FTP server.
FTPControl(ready) == {h \in {a.src : a \in ready} : <<h, Control>> \in sockets}

\* Local.Due: who is a client of the FTP server, now that the table is read.
Known(ready) ==
    [h \in Hosts |-> IF h \in FTPControl(ready) \/ (Control \in listening /\ h \in ftpSYN)
                    THEN Memory ELSE ftpClients[h]]
\* The attempts nothing answered.
IsProbe(a, known) ==
    /\ a.port \notin listening /\ <<a.src, a.port>> \notin sockets
    /\ ~(known[a.src] > 0 /\ a.port \in PassiveRanges(Control \in listening))

\* One look at what waits: the table is read, or cannot be, and then every
\* attempt counts and who tried the control port is forgotten.
TableRead(ready) ==
    /\ snap' = [listening |-> listening, left |-> SnapshotAge]
    /\ ftpClients' = Known(ready)
    /\ LET probes == {a \in ready : IsProbe(a, ftpClients')}
       IN  /\ Analyzed(probes)
           /\ blamed' = (blamed \/ (misread = 0 /\ \E a \in probes : a.src = FTPClient))
    /\ UNCHANGED misread
TableUnread(ready) ==
    /\ misread = 0 /\ MayFail
    /\ snap' = [listening |-> {}, left |-> 0]
    /\ Analyzed(ready)
    /\ misread' = Memory
    /\ UNCHANGED <<ftpClients, blamed>>
Due ==
    /\ IsDue
    /\ \E cut \in 1..Len(pending) :
          /\ IsCut(cut)
          /\ pending' = SubSeq(pending, cut + 1, Len(pending))
          /\ LET ready == {pending[i] : i \in 1..cut} IN TableRead(ready) \/ TableUnread(ready)
    /\ ftpSYN' = {}
    /\ nextRead' \in 1..2
    /\ UNCHANGED scanHostVars

\* Less one turn.
Sooner(n) == IF n > 0 THEN n - 1 ELSE 0
AllSooner(f) == [x \in DOMAIN f |-> Sooner(f[x])]

\* A turn ends: the prober tries its ports again.  Analyzer.Prune only forgets
\* what has left the window.
ProbeTurn ==
    /\ ~IsDue
    /\ LET left == Sooner(snap.left)
           trusted == IF left > 0 THEN snap.listening ELSE {}
           old == [i \in 1..Len(pending) |-> [pending[i] EXCEPT !.ripe = TRUE]]
       IN  /\ snap' = [listening |-> trusted, left |-> left]
           /\ Add(old, [i \in 1..Len(probed) |-> Attempt(Prober, probed[i])], trusted)
    /\ nextRead' = Sooner(nextRead)
    /\ ftpClients' = AllSooner(ftpClients)
    /\ ports' = [h \in Hosts |-> AllSooner(ports[h])] /\ reported' = AllSooner(reported)
    /\ netPorts' = AllSooner(netPorts) /\ netAddrs' = AllSooner(netAddrs)
    /\ netReported' = Sooner(netReported)
    /\ misread' = Sooner(misread)
    /\ served' = FALSE
    /\ UNCHANGED <<ftp, probed, listening, sockets, blamed>>

ProbesNext ==
    \/ Due \/ ProbeTurn \/ StopService
    \/ \E p \in Ports : Connect(p) \/ Upload(p) \/ Transfer(p) \/ HangUp(p)

ProbesSpec == ProbesInit /\ [][ProbesNext]_probeVars
ProbesFairness == WF_probeVars(Due \/ ProbeTurn)
ProbesLive == ProbesSpec /\ ProbesFairness

----------------------------------------------------------------------------

\* A client that only uses what the server offers - a service that stops right
\* after, uploads over before the table is read - is never counted as probing,
\* unless the table could not be read.
ClientsSpared == ~blamed

\* Enough ports that nothing answers, none of them a data port it hides behind.
Scans == Cardinality(Range(probed) \ (listening \cup Passive \cup Dynamic)) >= ProbeThreshold

\* Whoever goes on probing is reported again and again, whatever the client
\* does, however full the queue and also while the table cannot be read.
ScanSeen == Scans => reported[Prober] > 0
ScansReported == []<>ScanSeen

----------------------------------------------------------------------------

(* The switch of a packet watcher and what stands in for it: the port scan  *)
(* watcher (internal/scanwatch/watcher.go) and the DNS inspector            *)
(* (internal/dnswatch/inspector.go), which are switched alike, and the      *)
(* monitors of the tables under /proc that run while Running says that no   *)
(* packets are watched (runSecurityMonitors).                               *)
(*                                                                         *)
(* Each time it is switched on a goroutine begins that captures until its   *)
(* context is cancelled, which it notices within a second.  What it says of *)
(* itself (running) is one flag, shared with the goroutines before it.      *)

CONSTANTS
    MaxRuns,        \* bound: how often the watcher is switched on
    Reports,        \* the attacks that can be seen
    MaxMinutes      \* minutes between two reports of the same attack (Cooldown)

ASSUME CaptureAssumption == {MaxRuns, MaxMinutes} \subseteq Nat \ {0}

VARIABLES
    wish,           \* what the dashboard asked for
    current,        \* the run that can be cancelled (cancel), 0: none
    begun,          \* runs begun so far
    phase,          \* run -> begins, captures, ends or is over
    running,        \* what Running answers
    refused,        \* whether the host lets the agent capture
    going,          \* attacks going on
    silent,         \* attack -> minutes until the monitor reports it again
    seenBy          \* how each attack was seen lately

captureVars == <<wish, current, begun, phase, running, refused, going, silent, seenBy>>
runsVars == <<current, begun, phase, running>>
monitorVars == <<going, silent, seenBy>>

Phases == {"none", "begins", "captures", "ends", "over"}
Capturing == {r \in 1..MaxRuns : phase[r] = "captures"}

CapturesTypeOK ==
    /\ wish \in BOOLEAN /\ refused \in BOOLEAN /\ running \in BOOLEAN
    /\ current \in 0..MaxRuns /\ begun \in 0..MaxRuns /\ phase \in [1..MaxRuns -> Phases]
    /\ going \subseteq Reports /\ silent \in [Reports -> 0..MaxMinutes]
    /\ seenBy \in [Reports -> {"nothing", "capture", "tables"}]
    \* One goroutine at most is not cancelled.
    /\ \A r \in 1..MaxRuns : phase[r] \in {"begins", "captures"} => r <= begun
    /\ current > 0 => current = begun

CapturesInit ==
    /\ wish = FALSE /\ current = 0 /\ begun = 0 /\ running = FALSE
    /\ phase = [r \in 1..MaxRuns |-> "none"]
    /\ refused \in BOOLEAN
    /\ going = {} /\ silent = [a \in Reports |-> 0] /\ seenBy = [a \in Reports |-> "nothing"]

----------------------------------------------------------------------------
\* SetEnabled, from applyHostSettings of every sync.  A watcher that could not
\* capture stays switched on, and is not tried again until it is switched off.
AskCapture(on) ==
    /\ wish' = on /\ on # wish
    /\ IF on = (current > 0) THEN UNCHANGED runsVars
       ELSE IF on THEN /\ begun < MaxRuns
                       /\ begun' = begun + 1 /\ current' = begun + 1
                       /\ phase' = [phase EXCEPT ![begun + 1] = "begins"]
                       /\ UNCHANGED running
       ELSE current' = 0 /\ running' = FALSE /\ UNCHANGED <<begun, phase>>
    /\ UNCHANGED <<refused, monitorVars>>

\* capture: the socket is open (ready), whoever was cancelled meanwhile, or it
\* cannot be opened.
CaptureOpens(r) ==
    /\ phase[r] = "begins"
    /\ IF refused THEN phase' = [phase EXCEPT ![r] = "ends"] /\ UNCHANGED running
       ELSE phase' = [phase EXCEPT ![r] = "captures"] /\ running' = TRUE
    /\ UNCHANGED <<wish, current, begun, refused, monitorVars>>

\* The capture of a cancelled run notices it; one that is not fails.
CaptureStops(r) ==
    /\ phase[r] = "captures" /\ (r # current \/ refused)
    /\ phase' = [phase EXCEPT ![r] = "ends"]
    /\ UNCHANGED <<wish, current, begun, running, refused, monitorVars>>

\* setRunning(false) after capture: of whichever run.
RunEnds(r) ==
    /\ phase[r] = "ends"
    /\ running' = FALSE
    /\ phase' = [phase EXCEPT ![r] = "over"]
    /\ UNCHANGED <<wish, current, begun, refused, monitorVars>>

\* The host does not allow it (any more): another program, a container without
\* the capability.
Refuse ==
    /\ ~refused /\ refused' = TRUE
    /\ UNCHANGED <<wish, runsVars, monitorVars>>

----------------------------------------------------------------------------
Attack(a) ==
    /\ a \notin going /\ going' = going \cup {a}
    /\ UNCHANGED <<wish, runsVars, refused, silent, seenBy>>

\* A packet of the attack: whoever captures sees it.
PacketSeen(a) ==
    /\ a \in going /\ Capturing # {}
    /\ seenBy' = [seenBy EXCEPT ![a] = "capture"]
    /\ UNCHANGED <<wish, runsVars, refused, going, silent>>

\* The minute's round of the monitors: the table is looked at only while no
\* packets are watched.  What a capture saw before the round is old.
StandsIn == ~running
Round ==
    /\ LET due == IF StandsIn THEN {a \in going : silent[a] = 0} ELSE {}
       IN  /\ seenBy' = [a \in Reports |-> IF a \in due THEN "tables"
                                           ELSE IF silent[a] > 0 /\ StandsIn THEN seenBy[a] ELSE "nothing"]
           /\ silent' = [a \in Reports |-> IF a \in due THEN MaxMinutes
                                           ELSE IF silent[a] > 0 THEN silent[a] - 1 ELSE 0]
    /\ UNCHANGED <<wish, runsVars, refused, going>>

CapturesNext ==
    \/ \E on \in BOOLEAN : AskCapture(on)
    \/ \E r \in 1..MaxRuns : CaptureOpens(r) \/ CaptureStops(r) \/ RunEnds(r)
    \/ Refuse \/ Round
    \/ \E a \in Reports : Attack(a) \/ PacketSeen(a)

CapturesSpec == CapturesInit /\ [][CapturesNext]_captureVars
GoroutineStep == \E r \in 1..MaxRuns : CaptureOpens(r) \/ CaptureStops(r) \/ RunEnds(r)
Packets == \E a \in Reports : PacketSeen(a)
CapturesFairness ==
    /\ WF_captureVars(GoroutineStep) /\ WF_captureVars(Round) /\ WF_captureVars(Packets)
CapturesLive == CapturesSpec /\ CapturesFairness

----------------------------------------------------------------------------

\* However fast it is switched, and also where the host does not allow a
\* capture, attacks that go on are seen again and again: by a capture, or by the monitors,
\* which may do it needlessly (an old run says that nothing runs any more) but
\* never both leave it alone.
AttackSeen == \A a \in going : seenBy[a] # "nothing"
AttacksSeen == []<>AttackSeen

\* Switched off for good, nothing captures.
CapturesStop == <>[](~wish => Capturing = {})
=============================================================================
