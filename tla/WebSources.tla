----------------------------- MODULE WebSources -----------------------------
(* Which access logs are read where web servers run in containers, and who  *)
(* a request in them is from (internal/watcher weblog_sources.go, DetectWeb-*)
(* LogInfo and hotReloadLoop of weblog.go): a reverse proxy and the servers *)
(* behind it may log the same request, each with another peer address.      *)
(*                                                                          *)
(* The detection lists the containers, inspects them one after the other    *)
(* while they are recreated, and falls back on what it found last.  A       *)
(* request is judged as the logs read at the moment hold it (Counted); it   *)
(* is no step.                                                              *)
EXTENDS Integers, Sequences, FiniteSets

CONSTANTS
    Servers,      \* containers with a web server
    MaxSources,   \* maxContainerSources
    MaxMoves,     \* bound: containers recreated, daemon restarts
    Requesters,   \* clients, by address
    None

ASSUME WebSourcesAssumption ==
    /\ MaxSources \in Nat \ {0}
    /\ None \notin Requesters /\ Requesters \cap {"first", "second", "edge"} = {}

VARIABLES
    webProxy,     \* the container of the proxy: flavour, addr, its configuration
    webServer,    \* of each server's container, how it is reached and where it logs
    daemon,    \* the Docker API answers
    detecting,      \* the detection in progress: where it is, what it has found
    lastFound, \* lastDockerSources
    reading,   \* activePaths, with their sources
    hinted,    \* webLogHints: the reason of the proxy's hint
    moves

webSourceVars == <<webProxy, webServer, daemon, detecting, lastFound, reading, hinted, moves>>

ProxyAddrs == {"first", "second"}   \* private, on the containers' network
Edge == "edge"                      \* an address of Cloudflare

----------------------------------------------------------------------------
(* Traefik's configuration.                                                 *)

\* file: its static configuration as the mounts show it, with the section or
\* without; args, env: the options of accessLog in order ("on", "off", or "sub",
\* one below it); path: where it writes.
ConfigOf(file, args, env, path) == [file |-> file, args |-> args, env |-> env, path |-> path]
Configs ==
    {ConfigOf("none", <<>>, <<>>, "output"), ConfigOf("plain", <<>>, <<"on">>, "output"),
     ConfigOf("on", <<>>, <<>>, "mounted"), ConfigOf("none", <<"sub">>, <<>>, "absent"),
     ConfigOf("none", <<"sub", "off">>, <<"on">>, "output"), ConfigOf("none", <<>>, <<"sub">>, "unmounted"),
     ConfigOf("none", <<"on", "sub">>, <<>>, "output")}

LastSwitch(opts) ==
    LET s == {i \in DOMAIN opts : opts[i] # "sub"}
    IN  IF s = {} THEN "sub" ELSE opts[CHOOSE i \in s : \A j \in s : j <= i]

\* An option of the section turns it on unless it is off explicitly.
EnabledBy(opts) ==
    CASE LastSwitch(opts) = "on" -> TRUE
      [] LastSwitch(opts) = "off" -> FALSE
      [] OTHER -> opts # <<>>

\* The file when there is one, else the command line, else the environment.
AccessLogOf(c) ==
    IF c.file # "none" THEN c.file = "on"
    ELSE IF c.args # <<>> THEN EnabledBy(c.args)
    ELSE EnabledBy(c.env)

\* What Traefik does: it takes the first of the three that says something, and
\* no section is on that was turned off.
Logs(c) ==
    /\ c.file # "plain"
    /\ c.file = "on" \/ (c.args # <<>> /\ c.args # <<"sub", "off">>)
         \/ (c.args = <<>> /\ c.env # <<>> /\ c.env # <<"sub", "off">>)

----------------------------------------------------------------------------
(* The containers.                                                          *)

Proxies ==
    [flavour : {"traefik"}, addr : {"first"}, config : Configs]
      \cup [flavour : {"caddy"}, addr : {"first"},
            config : {ConfigOf("none", <<>>, <<>>, "output")}]
ServerKinds == [published : BOOLEAN, proxied : BOOLEAN, log : {"output", "file"}]

NotLooking == [at |-> "idle", was |-> {}, out |-> {}, read |-> FALSE, hint |-> None]

SourcesInit ==
    /\ webProxy \in Proxies /\ webServer \in [Servers -> ServerKinds] /\ daemon = TRUE
    /\ detecting = NotLooking /\ lastFound = {} /\ reading = {} /\ hinted = None /\ moves = 0

\* A container is recreated, with another configuration or at another address.
Recreate ==
    /\ moves < MaxMoves /\ moves' = moves + 1
    /\ \/ /\ \E p \in Proxies : webProxy' = [p EXCEPT !.addr = CHOOSE a \in ProxyAddrs : a # webProxy.addr]
          /\ UNCHANGED webServer
       \/ /\ \E s \in Servers, k \in ServerKinds : webServer[s] # k /\ webServer' = [webServer EXCEPT ![s] = k]
          /\ UNCHANGED webProxy
    /\ UNCHANGED <<daemon, detecting, lastFound, reading, hinted>>

DaemonStops ==
    /\ daemon /\ moves < MaxMoves
    /\ daemon' = FALSE /\ moves' = moves + 1
    /\ UNCHANGED <<webProxy, webServer, detecting, lastFound, reading, hinted>>
DaemonStarts ==
    /\ ~daemon /\ daemon' = TRUE
    /\ UNCHANGED <<webProxy, webServer, detecting, lastFound, reading, hinted, moves>>

----------------------------------------------------------------------------
(* detectDockerLogInfo and detectDockerSources.                             *)

\* A log that is read: its path ("file" for one on the host), its container and
\* the proxies in front of it.
LogInfo(c, path, proxies) == [of |-> c, path |-> path, proxies |-> proxies]
FileLogs(kinds) == {LogInfo(s, "file", {}) : s \in {t \in Servers : kinds[t].log = "file"}}

\* hotReloadLoop reads what was found, and stops reading the rest.
ReadThese(infos) == reading' = infos

\* The API fails before the list: the last state of the containers' outputs
\* stays; the files are not found without the list.
ListFails ==
    /\ detecting.at = "idle" /\ ~daemon
    /\ ReadThese(lastFound)
    /\ UNCHANGED <<webProxy, webServer, daemon, detecting, lastFound, hinted, moves>>

ListContainers ==
    /\ detecting.at = "idle" /\ daemon
    /\ detecting' = [NotLooking EXCEPT !.at = "proxy", !.was = {[proxy |-> webProxy, server |-> webServer]}]
    /\ UNCHANGED <<webProxy, webServer, daemon, lastFound, reading, hinted, moves>>

\* The containers as the list has them.
AsListed == CHOOSE l \in detecting.was : TRUE

\* traefikSource: the log's source, or the hint why it cannot be read.
TraefikHint(c) ==
    CASE ~AccessLogOf(c) -> "access_log_off"
      [] AccessLogOf(c) /\ c.path = "unmounted" -> "log_not_on_host"
      [] AccessLogOf(c) /\ c.path = "absent" -> "log_file_missing"
      [] OTHER -> None
ProxySource(p) == LogInfo("proxy", IF p.config.path = "mounted" THEN "file" ELSE "output", {})

\* A container that was recreated since the list cannot be inspected: the last
\* source found for it stays.
Previous(c) == {i \in lastFound : i.of = c}

LookAtProxy ==
    /\ detecting.at = "proxy"
    /\ LET found == IF ~daemon \/ webProxy # AsListed.proxy THEN Previous("proxy")
                    ELSE IF webProxy.flavour = "traefik" /\ TraefikHint(webProxy.config) # None THEN {}
                    ELSE {ProxySource(webProxy)}
           hint == IF daemon /\ webProxy = AsListed.proxy /\ webProxy.flavour = "traefik"
                   THEN TraefikHint(webProxy.config) ELSE None
       IN  detecting' = [detecting EXCEPT !.at = "servers", !.out = found, !.read = found # {}, !.hint = hint]
    /\ UNCHANGED <<webProxy, webServer, daemon, lastFound, reading, hinted, moves>>

\* A server's output is read where its requests are in no proxy's log; those
\* beyond the limit are not.
Wanted(k, read) == k.log = "output" /\ (k.published \/ (k.proxied /\ ~read))

LookAtServers ==
    /\ detecting.at = "servers"
    /\ LET wanted == {s \in Servers : Wanted(AsListed.server[s], detecting.read)}
           ok(s) == daemon /\ webServer[s] = AsListed.server[s]
           of(s) == IF ok(s) THEN {LogInfo(s, "output", {AsListed.proxy.addr})} ELSE Previous(s)
       IN  \E taken \in SUBSET wanted :
             /\ Cardinality(taken) = (IF Cardinality(wanted) > MaxSources THEN MaxSources
                                      ELSE Cardinality(wanted))
             /\ LET out == detecting.out \cup UNION {of(s) : s \in taken}
                IN  /\ lastFound' = out
                    /\ ReadThese(out \cup FileLogs(AsListed.server))
    /\ hinted' = detecting.hint /\ detecting' = NotLooking
    /\ UNCHANGED <<webProxy, webServer, daemon, moves>>

DetectSources == ListFails \/ ListContainers \/ LookAtProxy \/ LookAtServers
SourcesNext == Recreate \/ DaemonStops \/ DaemonStarts \/ DetectSources

SourcesSpec == SourcesInit /\ [][SourcesNext]_webSourceVars
SourcesLive == SourcesSpec /\ WF_webSourceVars(DetectSources) /\ WF_webSourceVars(DaemonStarts)

----------------------------------------------------------------------------
(* A request and what the logs hold of it.                                  *)

\* To a server, from a client, through Cloudflare or not, straight or through
\* the proxy; a client may have put another address in X-Forwarded-For and,
\* without Cloudflare, in CF-Connecting-IP.
Requests ==
    {r \in [client : Requesters, forged : Requesters \cup {None}, edge : BOOLEAN,
            straight : BOOLEAN, to : Servers] :
        IF r.straight THEN webServer[r.to].published ELSE webServer[r.to].proxied}

Peer(r) == IF r.edge THEN Edge ELSE r.client
Cf(r) == IF r.edge THEN r.client ELSE r.forged
Named(r) == IF r.forged = None THEN <<>> ELSE <<r.forged>>

\* The entry in the proxy's log and in the server's.
AtProxy(r) == [ip |-> Peer(r), forwardedFor |-> Named(r), cf |-> Cf(r)]
AtServer(r) ==
    IF r.straight THEN [ip |-> Peer(r), forwardedFor |-> Named(r), cf |-> Cf(r)]
    ELSE [ip |-> webProxy.addr, forwardedFor |-> Append(Named(r), Peer(r)), cf |-> Cf(r)]

\* Where the containers log.
LoggedAt(i) ==
    IF i.of = "proxy"
    THEN /\ webProxy.flavour = "traefik" => Logs(webProxy.config)
         /\ webProxy.config.path = IF i.path = "file" THEN "mounted" ELSE "output"
    ELSE webServer[i.of].log = i.path

Held(r, i) ==
    /\ LoggedAt(i)
    /\ (i.of = "proxy" /\ ~r.straight) \/ i.of = r.to
EntryIn(r, i) == IF i.of = "proxy" THEN AtProxy(r) ELSE AtServer(r)

\* clientIP: the rightmost address of X-Forwarded-For for a request from the
\* proxy, CF-Connecting-IP for one from Cloudflare; a file's address is as is.
Forwarded(e) == e.forwardedFor[Len(e.forwardedFor)]

ClientIP(e, i) ==
    LET ip == IF e.ip \in i.proxies /\ e.forwardedFor # <<>> THEN Forwarded(e) ELSE e.ip
    IN  IF i.of # "proxy" /\ i.path = "file" THEN e.ip
        ELSE IF ip = Edge THEN e.cf ELSE ip

\* processLine counts no request of a private address, and the edge's as it is
\* in a host's own file (the real address is the web server's to restore).
Counted(r) ==
    {<<i, ClientIP(EntryIn(r, i), i)>> : i \in {j \in reading :
        Held(r, j) /\ ClientIP(EntryIn(r, j), j) \notin ProxyAddrs \cup {None}}}

----------------------------------------------------------------------------

\* The variables keep their types.
SourcesTypeOK ==
    /\ webProxy.addr \in ProxyAddrs /\ webProxy.config \in Configs /\ daemon \in BOOLEAN
    /\ webServer \in [Servers -> ServerKinds] /\ detecting.at \in {"idle", "proxy", "servers"}
    /\ \A i \in reading \cup lastFound : i.of \in Servers \cup {"proxy"} /\ i.path \in {"output", "file"}
    /\ hinted \in {None, "access_log_off", "log_not_on_host", "log_file_missing"}

\* A request is never laid to anybody but its client: not to the proxy, nor to
\* an edge, nor to an address the client names, whatever was recreated since
\* the logs were found (a host's own file may hold the edge's address).
NobodyElseBlamed ==
    \A r \in Requests : \A c \in Counted(r) :
        c[2] = r.client \/ (c[2] = Edge /\ c[1].path = "file" /\ c[1].of # "proxy")

\* The containers at rest, a request that a log on the host or an output holds
\* is counted, and once, unless its server is reached in both ways; where the
\* proxy's log cannot be read the reason is given.
Readable == (webProxy.flavour = "traefik" => Logs(webProxy.config)) /\ webProxy.config.path \in {"output", "mounted"}
AllCounted ==
    /\ \A r \in Requests :
         /\ Cardinality(Counted(r)) <= IF webServer[r.to].published /\ webServer[r.to].proxied THEN 2 ELSE 1
         /\ Cardinality(Counted(r)) = 0 =>
              \/ ~r.straight /\ ~Readable /\ webServer[r.to].log = "file"
              \/ Cardinality(Servers) > MaxSources
    /\ (hinted = None) = Readable
RequestsCountedOnce == <>[]AllCounted
=============================================================================
