---------------------------- MODULE CutOffChecks ----------------------------
(* Who must not be cut off: SSH sessions, then a database's clients.        *)
(* The two parts share no state.                                            *)
(*                                                                          *)
(* What the agent refuses to cut off: newFwChecks, portRefusal and          *)
(* egressRefusal of fwactions.go, which ask internal/netstate who is        *)
(* connected now and who is logged in over SSH.                             *)
(*                                                                         *)
(* A check reads /proc several times, the processes one after the other,    *)
(* while connections come and go, sshd is moved to another port, and the    *)
(* ports of sshd it knows are up to a minute old.  Each public address has  *)
(* one connection at most.                                                  *)
EXTENDS Naturals, FiniteSets

CONSTANTS
    Peers,      \* public addresses
    SSHDPorts,  \* ports sshd may be moved to
    DBPort,     \* a port the agent may close (closablePorts)
    MaxMoves    \* bound: how often sshd is moved

ASSUME RefusalsAssumption ==
    /\ MaxMoves \in Nat
    /\ SSHDPorts # {} /\ DBPort \notin SSHDPorts

Ports == SSHDPorts \cup {DBPort}
\* What a connection is: one that authenticates (auth), one with a name so long
\* that the title of its process is cut (long), a session with a shell, or
\* without one (ssh -N), a client of the database, or one this server opened.
Stages == {"none", "auth", "long", "shell", "tunnel", "client", "outbound"}
InSession == {"shell", "tunnel"}
ToSSH == {"auth", "long"} \cup InSession

VARIABLES
    sshServer,  \* openssh, or other: no OpenSSH process is visible
    sshdPort,   \* the port sshd listens on
    moves,
    link,       \* of each peer: what its connection is, the local port
    leftover,   \* <<peer, port>> in the environment of a process of a session that ended
    loggedIn,   \* peers who logged in (sshlogins: 30 days)
    inHistory,  \* those of them the login history has read
    portsKnown, \* sshPorts: cached for a minute; {} when it is older
    check,      \* the check: where it is, whom it is about, what it has read
    held,       \* history: the peers in a session since the check began
    verdict     \* of the last check

worldVars == <<sshServer, sshdPort, moves, link, leftover, loggedIn, inHistory>>
refusalVars == <<worldVars, portsKnown, check, held, verdict>>

NoVerdict == [reason |-> "none", peer |-> "none", live |-> FALSE]
IdleCheck == [at |-> "idle", peer |-> "none", live |-> FALSE, ssh |-> {}, environ |-> {},
              sockets |-> {}, sessions |-> {}, seen |-> TRUE]

RefusalsTypeOK ==
    /\ sshServer \in {"openssh", "other"} /\ sshdPort \in SSHDPorts /\ moves \in 0..MaxMoves
    /\ link \in [Peers -> [stage : Stages, port : Ports]]
    /\ leftover \subseteq Peers \X SSHDPorts /\ loggedIn \subseteq Peers /\ inHistory \subseteq loggedIn
    /\ portsKnown \subseteq SSHDPorts
    /\ check.at \in {"idle", "environ", "inbound", "sockets", "titles", "decide", "port"}
    /\ check.ssh \subseteq SSHDPorts /\ check.environ \subseteq Peers \X SSHDPorts
    /\ check.sessions \subseteq Peers /\ held \subseteq Peers
    /\ verdict.reason \in {"none", "block", "close", "ssh_client", "ssh_login", "established_connection"}

RefusalsInit ==
    /\ sshServer \in {"openssh", "other"} /\ sshdPort \in SSHDPorts /\ moves = 0
    /\ link = [p \in Peers |-> [stage |-> "none", port |-> sshdPort]]
    /\ leftover = {} /\ loggedIn = {} /\ inHistory = {}
    /\ portsKnown = {} /\ check = IdleCheck /\ held = {} /\ verdict = NoVerdict

----------------------------------------------------------------------------
(* The host.                                                                *)

Connect(p, stage) ==
    /\ link[p].stage = "none"
    /\ link' = [link EXCEPT ![p] = [stage |-> stage, port |-> IF stage = "client" THEN DBPort ELSE sshdPort]]
    /\ UNCHANGED <<sshServer, sshdPort, moves, leftover, loggedIn, inHistory, portsKnown, check, held, verdict>>
Login(p, stage) ==
    /\ link[p].stage \in {"auth", "long"}
    /\ link' = [link EXCEPT ![p].stage = stage]
    /\ loggedIn' = loggedIn \cup {p}
    /\ UNCHANGED <<sshServer, sshdPort, moves, leftover, inHistory, portsKnown, check, held, verdict>>
\* A process may survive the session (nohup, tmux), with its environment.
Disconnect(p, survives) ==
    /\ link[p].stage # "none" /\ (survives => link[p].stage = "shell")
    /\ link' = [link EXCEPT ![p].stage = "none"]
    /\ leftover' = IF survives THEN leftover \cup {<<p, link[p].port>>} ELSE leftover
    /\ held' = held \ {p}
    /\ UNCHANGED <<sshServer, sshdPort, moves, loggedIn, inHistory, portsKnown, check, verdict>>
LogRead ==
    /\ inHistory # loggedIn /\ inHistory' = loggedIn
    /\ UNCHANGED <<sshServer, sshdPort, moves, link, leftover, loggedIn, portsKnown, check, held, verdict>>
\* sshd is moved; the sessions there are stay.
MoveSSHD ==
    /\ moves < MaxMoves /\ moves' = moves + 1
    /\ \E port \in SSHDPorts \ {sshdPort} : sshdPort' = port
    /\ UNCHANGED <<sshServer, link, leftover, loggedIn, inHistory, portsKnown, check, held, verdict>>
\* The ports known are a minute old.
PortsAge ==
    /\ portsKnown # {} /\ portsKnown' = {}
    /\ UNCHANGED <<worldVars, check, held, verdict>>

----------------------------------------------------------------------------
(* internal/netstate.                                                       *)

Listens(port) == port = sshdPort \/ port = DBPort
Established == {p \in Peers : link[p].stage # "none"}

\* SSHPorts: what sshd is configured with and listens on, and the ports of the
\* sessions open now (sessionPorts: the sockets of sshd's processes, those that
\* authenticate too, and the environments).
SSHPortsNow ==
    {sshdPort} \cup {e[2] : e \in leftover} \cup {link[p].port : p \in {q \in Peers : link[q].stage = "shell"}}
           \cup (IF sshServer = "openssh" THEN {link[p].port : p \in {q \in Peers : link[q].stage \in ToSSH}}
                 ELSE {})
SSHPorts == IF portsKnown # {} THEN portsKnown ELSE SSHPortsNow

\* PublicInbound.
PublicInbound(port) ==
    IF Listens(port) THEN {p \in Established : link[p].stage # "outbound" /\ link[p].port = port} ELSE {}

\* sshConnection: the environments of the processes of sessions.
Environs == leftover \cup {<<p, link[p].port>> : p \in {q \in Peers : link[q].stage = "shell"}}

\* loggedInTitle: a process that authenticates has a title in brackets; the title
\* of one with a long name may be cut, and is then not that of a user.
LoggedInTitle(p) == link[p].stage \in InSession

----------------------------------------------------------------------------
(* A check for a peer whose egress is to be blocked, or for a port.         *)

\* newFwChecks.
BeginCheck(p, live) ==
    /\ check.at = "idle"
    /\ check' = [IdleCheck EXCEPT !.at = "environ", !.peer = p, !.live = live, !.ssh = SSHPorts]
    /\ portsKnown' = SSHPorts
    /\ held' = {q \in Peers : link[q].stage \in InSession}
    /\ verdict' = NoVerdict
    /\ UNCHANGED worldVars
BeginPort(live) ==
    /\ check.at = "idle"
    /\ check' = [IdleCheck EXCEPT !.at = "port", !.live = live, !.ssh = SSHPorts]
    /\ portsKnown' = SSHPorts /\ held' = {p \in Peers : link[p].stage = "client"} /\ verdict' = NoVerdict
    /\ UNCHANGED worldVars

\* SSHSessions: sessionAddrs reads the environments, then the sockets.
ReadEnviron ==
    /\ check.at = "environ"
    /\ check' = [check EXCEPT !.at = "inbound", !.environ = Environs]
    /\ UNCHANGED <<worldVars, portsKnown, held, verdict>>
ReadInbound ==
    /\ check.at = "inbound"
    /\ check' = [check EXCEPT !.at = "sockets",
                     !.sessions = {p \in Peers : \E e \in check.environ : e[1] = p /\ p \in PublicInbound(e[2])}]
    /\ UNCHANGED <<worldVars, portsKnown, held, verdict>>

\* loggedInSockAddrs: the sockets, the ports, then the processes.
ReadSockets ==
    /\ check.at = "sockets"
    /\ check' = [check EXCEPT !.at = "titles",
                     !.sockets = {<<p, link[p].port>> : p \in {q \in Peers : link[q].stage \in ToSSH}}]
    /\ UNCHANGED <<worldVars, portsKnown, held, verdict>>
ReadTitles ==
    /\ check.at = "titles"
    /\ LET logged == {p \in Peers : LoggedInTitle(p) /\ \E s \in check.sockets : s[1] = p /\ s[2] \in SSHPorts}
           seen == sshServer = "openssh"
       IN  check' = [check EXCEPT !.at = "decide", !.seen = seen, !.environ = {}, !.sockets = {},
                         !.sessions = @ \cup (IF seen THEN logged ELSE {})]
    /\ portsKnown' = SSHPorts
    /\ UNCHANGED <<worldVars, held, verdict>>

\* The refusals of an egress block, in their order, with the sockets of now.
EgressRefusal(p) ==
    LET on == IF p \in Established THEN {link[p].port} ELSE {}
        inbound == link[p].stage # "outbound"
    IN  CASE p \in check.sessions -> "ssh_client"
          [] ~check.seen /\ inbound /\ on \cap check.ssh # {} -> "ssh_client"
          [] p \in inHistory -> "ssh_login"
          [] check.live /\ inbound /\ \E port \in on : port \notin check.ssh /\ Listens(port) ->
                "established_connection"
          [] OTHER -> "block"
Decide ==
    /\ check.at = "decide"
    /\ verdict' = [reason |-> EgressRefusal(check.peer), peer |-> check.peer, live |-> check.live]
    /\ check' = IdleCheck
    /\ UNCHANGED <<worldVars, portsKnown, held>>

\* portRefusal of the database port.
PortRefusal == IF check.live /\ PublicInbound(DBPort) # {} THEN "established_connection" ELSE "close"
DecidePort ==
    /\ check.at = "port"
    /\ verdict' = [reason |-> PortRefusal, peer |-> "none", live |-> check.live]
    /\ check' = IdleCheck
    /\ UNCHANGED <<worldVars, portsKnown, held>>

RefusalsNext ==
    \/ \E p \in Peers : \/ \E stage \in {"auth", "long", "client", "outbound"} : Connect(p, stage)
                        \/ \E stage \in InSession : Login(p, stage)
                        \/ \E survives \in BOOLEAN : Disconnect(p, survives)
                        \/ \E live \in BOOLEAN : BeginCheck(p, live)
    \/ \E live \in BOOLEAN : BeginPort(live)
    \/ LogRead \/ MoveSSHD \/ PortsAge
    \/ ReadEnviron \/ ReadInbound \/ ReadSockets \/ ReadTitles \/ Decide \/ DecidePort

RefusalsSpec == RefusalsInit /\ [][RefusalsNext]_refusalVars

----------------------------------------------------------------------------

\* Whoever is in an SSH session for the whole of the check is not blocked, with
\* a shell or without: after sshd was moved to another port too, where OpenSSH is to
\* be seen and it was moved once while the ports were known; nor is a port closed
\* to a client connected to it.  A block there is already may be kept while the ports known
\* are old.
SessionsSpared ==
    /\ verdict.reason = "block" /\ verdict.live /\ moves <= (IF sshServer = "openssh" THEN 1 ELSE 0) =>
          verdict.peer \notin held
    /\ verdict.reason = "close" /\ verdict.live => held = {}

\* A connection that only authenticates shields nobody: who is spared as a client
\* of SSH has logged in.  (Without OpenSSH nobody can tell.)
GuessersNotShielded ==
    verdict.reason \in {"ssh_client", "ssh_login"} /\ sshServer = "openssh" => verdict.peer \in loggedIn

----------------------------------------------------------------------------

(* The regular clients of a database port: internal/dbclients (Log, the     *)
(* access hosts of WHM), netstate InboundClients, and dbclients.go of the   *)
(* agent, which refuses to close a port while a client is not allowed.      *)
(*                                                                          *)
(* One port.  A sample, once a minute, counts the addresses connected to    *)
(* it; what is kept is bounded per day and per port, and saved now and      *)
(* then.  A report, every 15 minutes, sends the dashboard what it does not  *)
(* have.  Sampling and reporting take turns in one goroutine; the access    *)
(* hosts are read, and ports closed, in others.                             *)

CONSTANTS
    Callers,        \* the public addresses, in order: 1..n
    DBClient,       \* the one the history is of
    DaysKept,       \* WindowDays
    RegularDays,    \* MinDays
    PerPortDay,     \* maxPerPortDay
    PerPort,        \* maxPerPort
    Conntrack,      \* how the table of connections is read: file, tool, none
    MaxSamples,     \* bound: samples told apart on a day
    ReportMax,      \* dbReportMax: entries of a report
    ReportsADay,    \* the reports of a day, at least
    MaxBreaks      \* bound: restarts and reports that fail, together

ASSUME DatabaseClientsAssumption ==
    /\ IsFiniteSet(Callers) /\ Callers = 1..Cardinality(Callers) /\ DBClient \in Callers
    /\ {DaysKept, RegularDays, PerPortDay, PerPort, MaxSamples, ReportMax} \subseteq Nat \ {0}
    /\ {ReportsADay, MaxBreaks} \subseteq Nat
    /\ RegularDays <= DaysKept /\ Conntrack \in {"file", "tool", "none"}
\* maxPerPort is 1000, dbReportMax is 2000, and a report goes out every 15 minutes.
ASSUME ReportsSuffice == PerPort <= ReportsADay * ReportMax

DayAges == 0..(DaysKept - 1)
NoSamples == [c \in Callers |-> [a \in DayAges |-> 0]]

VARIABLES
    samples,        \* address -> day's age -> samples it was seen in
    saved,          \* of it, what is on disk
    owed,           \* the entries whose samples the dashboard does not have
    reportsToday,        \* reports of today
    answers,        \* the last good answer for the name is remembered
    declared,       \* dbDeclared: not read yet, or whether it holds the client
    firm,           \* history: the days of the client that must be kept
    bound,          \* history: the client is declared, and a read resolved its name since
    cutOff,         \* history: the port was closed to a regular or declared client
    breaks

countVars == <<samples, saved, owed, reportsToday>>
declareVars == <<answers, declared>>
clientVars == <<countVars, declareVars, firm, bound, cutOff, breaks>>

DaysOf(log, c) == {a \in DayAges : log[c][a] > 0}
HeldAddrs(log) == {c \in Callers : DaysOf(log, c) # {}}

ClientsTypeOK ==
    /\ samples \in [Callers -> [DayAges -> 0..MaxSamples]]
    /\ saved \in [Callers -> [DayAges -> 0..MaxSamples]]
    /\ owed \subseteq Callers \X DayAges
    /\ reportsToday \in 0..ReportsADay
    /\ declareVars \in BOOLEAN \X {"unread", "yes", "no"}
    /\ {bound, cutOff} \subseteq BOOLEAN
    /\ firm \subseteq DayAges /\ breaks \in 0..MaxBreaks
    /\ Cardinality(HeldAddrs(samples)) <= PerPort

ClientsInit ==
    /\ samples = NoSamples /\ saved = NoSamples /\ owed = {} /\ reportsToday = 0
    /\ answers = FALSE /\ declared = "unread"
    /\ firm = {} /\ bound = FALSE /\ cutOff = FALSE /\ breaks = 0

----------------------------------------------------------------------------
(* A sample.                                                                *)

\* InboundClients: of those connected to the port, the ones a sample shows.  A
\* published port of a container has no listener: only conntrack shows them.
Shown(present, published, withTool) ==
    IF ~published \/ Conntrack = "file" \/ (Conntrack = "tool" /\ withTool)
    THEN present ELSE {}

\* countDayLocked, evictLocked.
CountDay(log) == Cardinality({c \in Callers : log[c][0] > 0})
OneDay(log) == {c \in Callers : Cardinality(DaysOf(log, c)) = 1 /\ log[c][0] = 0}
LeastSeen(log) ==
    LET of(c) == CHOOSE n \in 1..MaxSamples : \E a \in DayAges : log[c][a] = n
    IN  CHOOSE c \in OneDay(log) :
            \A d \in OneDay(log) : of(c) < of(d) \/ (of(c) = of(d) /\ c <= d)
Evicted(log) ==
    IF Cardinality(HeldAddrs(log)) >= PerPort THEN [log EXCEPT ![LeastSeen(log)] = NoSamples[DBClient]] ELSE log

\* A new address is refused on a full day, and on a full port with nobody to evict.
Refused(log, c) ==
    /\ c \notin HeldAddrs(log)
    /\ \/ CountDay(log) >= PerPortDay
       \/ Cardinality(HeldAddrs(log)) >= PerPort /\ OneDay(log) = {}

More(n) == IF n < MaxSamples THEN n + 1 ELSE n
CountOne(log, c) ==
    IF Refused(log, c) THEN log
    ELSE LET room == IF c \in HeldAddrs(log) THEN log ELSE Evicted(log)
         IN  [room EXCEPT ![c][0] = More(@)]
CountAll(log, seen) ==
    LET upTo[c \in 0..Cardinality(Callers)] ==
            IF c = 0 THEN log ELSE IF c \in seen THEN CountOne(upTo[c - 1], c) ELSE upTo[c - 1]
    IN  upTo[Cardinality(Callers)]

\* What a client that is held may rely on: with two days it is not evicted, and it
\* is counted when it is seen, with one day as long as the port has room.
Relied(log, seen) ==
    LET on == DaysOf(log, DBClient)
        safe == Cardinality(on) > 1 \/ 0 \in on \/ Cardinality(HeldAddrs(log) \cup seen) <= PerPort
    IN  (IF Cardinality(on) > 1 THEN on ELSE {})
          \cup (IF DBClient \in seen /\ on # {} /\ safe THEN {0} ELSE {})

Lasting(log, days) ==
    DaysOf(log, DBClient) \cap (IF Cardinality(DaysOf(log, DBClient)) > 1 THEN days ELSE days \cap {0})

Observe(seen) ==
    LET log == CountAll(samples, seen)
    IN  /\ samples' = log
        /\ owed' = {e \in owed : log[e[1]][e[2]] > 0}
                     \cup {<<c, 0>> : c \in {d \in seen : log[d][0] > 0}}
        /\ firm' = firm \cup Relied(samples, seen)
        /\ UNCHANGED <<reportsToday, declareVars, bound, cutOff, breaks>>
        /\ saved' \in {saved, log}

\* A day ends, in which there were reports; pruneLocked drops the oldest.
OneDayOn(log) == [c \in Callers |-> [a \in DayAges |-> IF a = 0 THEN 0 ELSE log[c][a - 1]]]
Shift(ages) == {a \in DayAges : a > 0 /\ (a - 1) \in ages}
DayEnds ==
    /\ reportsToday = ReportsADay /\ reportsToday' = 0
    /\ samples' = OneDayOn(samples) /\ saved' = OneDayOn(saved)
    /\ owed' = {e \in Callers \X DayAges : e[2] > 0 /\ <<e[1], e[2] - 1>> \in owed}
    /\ firm' = Lasting(OneDayOn(samples), Shift(firm))
    /\ UNCHANGED <<declareVars, bound, cutOff, breaks>>

----------------------------------------------------------------------------
(* Reports.                                                                 *)

\* Pending: the oldest day first, at most so many.
Before(e, f) == e[2] > f[2] \/ (e[2] = f[2] /\ e[1] < f[1])
Pending == {e \in owed : Cardinality({f \in owed : Before(f, e)}) < ReportMax}

\* The dashboard takes the report (MarkSent), or it does not, or its answer is lost.
ReportClients(answered) ==
    /\ answered \/ breaks < MaxBreaks
    /\ breaks' = IF answered THEN breaks ELSE breaks + 1
    /\ owed' = IF answered THEN owed \ Pending ELSE owed
    /\ reportsToday' = IF reportsToday < ReportsADay THEN reportsToday + 1 ELSE reportsToday
    /\ UNCHANGED <<samples, saved, declareVars, firm, bound, cutOff>>

----------------------------------------------------------------------------
(* Declared clients.                                                        *)

\* ParseAccessHosts: a failed lookup keeps the last good answer.
ReadDeclared(named, lookups) ==
    LET resolves == named /\ (lookups \/ answers)
    IN  /\ declared' = IF resolves THEN "yes" ELSE "no"
        /\ answers' = (answers \/ (named /\ lookups))
        /\ bound' = (named /\ (bound \/ lookups))
        /\ UNCHANGED <<countVars, firm, cutOff, breaks>>

----------------------------------------------------------------------------
(* Closing the port.                                                        *)

\* Regular; regularClientsNotAllowed.
IsRegularClient(c) == Cardinality(DaysOf(samples, c)) >= RegularDays
NotAllowed(allowed) ==
    {c \in Callers : IsRegularClient(c) /\ ~(c = DBClient /\ allowed)}
        \cup (IF declared = "yes" /\ ~allowed THEN {DBClient} ELSE {})

\* The port is asked to be closed, with the client on the allow list or not.
ClosePort(allowed) ==
    /\ NotAllowed(allowed) = {}
    /\ cutOff' = (cutOff \/ (~allowed /\ (bound \/ Cardinality(firm) >= RegularDays)))
    /\ UNCHANGED <<countVars, declareVars, firm, bound, breaks>>

\* The agent begins again: what was not saved is lost, all is sent once more, the
\* access hosts are not read yet.
ClientsRestart ==
    /\ breaks < MaxBreaks /\ breaks' = breaks + 1
    /\ samples' = saved /\ owed' = {e \in Callers \X DayAges : saved[e[1]][e[2]] > 0}
    /\ answers' = FALSE /\ declared' = "unread"
    /\ firm' = Lasting(saved, firm) /\ bound' = FALSE
    /\ UNCHANGED <<saved, reportsToday, cutOff>>

ClientsNext ==
    \/ \E seen \in {Shown(present, published, withTool) :
                      present \in SUBSET Callers, published \in BOOLEAN, withTool \in BOOLEAN} :
           Observe(seen)
    \/ DayEnds \/ \E answered \in BOOLEAN : ReportClients(answered)
    \/ \E named, lookups \in BOOLEAN : ReadDeclared(named, lookups)
    \/ \E allowed \in BOOLEAN : ClosePort(allowed)
    \/ ClientsRestart

ClientsSpec == ClientsInit /\ [][ClientsNext]_clientVars

----------------------------------------------------------------------------

\* A client with two days keeps them for as long as the window is, and is counted
\* on every day it is seen, however many new addresses come; one with a single
\* day, as long as the port has room.
HeldIsCounted == firm \subseteq DaysOf(samples, DBClient)

\* The port is not closed to a regular client, nor to a declared one whose name
\* was ever resolved, unless they are allowed: neither when new addresses fill
\* the log, nor while names do not resolve.
NobodyCutOff == ~cutOff

\* As long as reports are answered, the dashboard has the counts of a day before
\* the next one ends, the busiest day included.
ToldInTime == breaks = 0 => \A e \in owed : e[2] <= 1
=============================================================================
