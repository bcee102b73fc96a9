------------------------------ MODULE MCWatch ------------------------------
(* What decides on bans, and what keeps the firewall and the link to the    *)
(* dashboard, on small instances: the guard of the firewall, the watcher of *)
(* the web logs, the history of the SSH logins and what it guards, the push *)
(* channel, what the web server refuses itself, the malware scans, the      *)
(* watcher of the upload directories and the alarms about the host.  One    *)
(* component, which, runs in a behaviour (see MCHost).                      *)
EXTENDS FirewallGuard, WebWatch, LoginHistory, LoginGuard, PushSignals, WebServerEdits,
        MalwareScans, HostAlarms

CONSTANTS c1, c2, v1, v2, l1, l2

VARIABLE which

MCPoints == [t \in Types |-> CASE t = "scan" -> 10 [] t = "login" -> 6 [] OTHER -> 8]

WatchInit ==
    /\ which \in {"guard", "web", "history", "logins", "signals", "connection", "bots", "rules",
                 "scans", "uploads", "alarms"}
    /\ GuardInit /\ WebInit /\ HistoryInit /\ LoginInit /\ SignalsInit /\ ConnectionInit
    /\ BotsInit /\ RulesInit /\ ScansInit /\ UploadsInit /\ AlarmsInit
    /\ which # "bots" => server = "nginx"
    /\ which # "rules" => clash = FALSE
    /\ which # "alarms" => \A f \in SystemFiles : content[f] \in {TooBig}

banVars    == <<guardVars, webVars, historyVars, loginVars>>
linkVars   == <<signalVars, connectionVars>>
serverVars == <<botVars, rulesVars>>
fileVars   == <<scanVars, uploadVars, alarmVars>>

WatchNext ==
    /\ UNCHANGED which
    /\ \/ /\ which = "guard" /\ GuardNext
          /\ UNCHANGED <<webVars, historyVars, loginVars, linkVars, serverVars, fileVars>>
       \/ /\ which = "web" /\ WebNext
          /\ UNCHANGED <<guardVars, historyVars, loginVars, linkVars, serverVars, fileVars>>
       \/ /\ which = "history" /\ HistoryNext
          /\ UNCHANGED <<guardVars, webVars, loginVars, linkVars, serverVars, fileVars>>
       \/ /\ which = "logins" /\ LoginNext
          /\ UNCHANGED <<guardVars, webVars, historyVars, linkVars, serverVars, fileVars>>
       \/ /\ which = "signals" /\ SignalsNext
          /\ UNCHANGED <<banVars, connectionVars, serverVars, fileVars>>
       \/ /\ which = "connection" /\ ConnectionNext
          /\ UNCHANGED <<banVars, signalVars, serverVars, fileVars>>
       \/ /\ which = "bots" /\ BotsNext
          /\ UNCHANGED <<banVars, linkVars, rulesVars, fileVars>>
       \/ /\ which = "rules" /\ RulesNext
          /\ UNCHANGED <<banVars, linkVars, botVars, fileVars>>
       \/ /\ which = "scans" /\ ScansNext
          /\ UNCHANGED <<banVars, linkVars, serverVars, uploadVars, alarmVars>>
       \/ /\ which = "uploads" /\ UploadsNext
          /\ UNCHANGED <<banVars, linkVars, serverVars, scanVars, alarmVars>>
       \/ /\ which = "alarms" /\ AlarmsNext
          /\ UNCHANGED <<banVars, linkVars, serverVars, scanVars, uploadVars>>

WatchSpec ==
    /\ WatchInit
    /\ [][WatchNext]_<<which, banVars, linkVars, serverVars, fileVars>>

\* The fairness of the component that runs, a few conditions for all of them.
Runs(n) ==
    CASE which = "guard" -> n = 1 /\ (GuardTick \/ Ensuring)
      [] which = "logins" ->
           CASE n = 1 -> \E a \in Clients : AskGuard(a) \/ Ban(a)
             [] n = 2 -> \E a \in Clients : BanPushed(a)
             [] n = 3 -> Lift
             [] n = 4 -> Scan
             [] n = 5 -> Day
             [] n = 6 -> Apply
             [] OTHER -> Sync(service, monitorMode)
      [] which = "signals" ->
           CASE n = 1 -> Join
             [] n = 2 -> ApplyPush
             [] n = 3 -> ChannelTick
             [] n = 4 -> Dial
             [] n = 5 -> TimedOut
             [] n = 6 -> Read
             [] OTHER -> Wake \/ SyncStart \/ SyncEnd \/ SyncFails
      [] which = "bots" ->
           CASE n = 1 -> EditorStep
             [] n = 2 -> ApplyWebserverChanges
             [] OTHER -> FALSE
      [] which = "rules" ->
           CASE n = 1 -> EngineStep
             [] n = 2 -> SyncRules
             [] n = 3 -> SetupBegins
             [] n = 4 -> ReloadAllowed
             [] n = 5 -> ADay
             [] n = 6 -> PendingReload
             [] OTHER -> FALSE
      [] which = "scans" ->
           CASE n = 1 -> ScanStep
             [] n = 2 -> WatchStep
             [] n = 3 -> TimeLimit
             [] n = 4 -> ScansSync
             [] n = 5 -> LoadSignature
             [] n = 6 -> Hour
             [] OTHER -> FALSE
      [] which = "uploads" ->
           CASE n = 1 -> SyncScans
             [] n = 2 -> RootsDetected
             [] n = 3 -> LoopStep("l1")
             [] n = 4 -> LoopStep("l2")
             [] OTHER -> FALSE
      [] which = "alarms" ->
           CASE n = 1 -> MonitorsTick
             [] n = 2 -> ZombieTick(TRUE)
             [] OTHER -> FALSE
      [] OTHER -> FALSE
runVars ==
    CASE which = "guard" -> guardVars
      [] which = "logins" -> loginVars
      [] which = "signals" -> signalVars
      [] which = "bots" -> botVars
      [] which = "rules" -> rulesVars
      [] which = "scans" -> scanVars
      [] which = "alarms" -> alarmVars
      [] OTHER -> uploadVars
\* A loop that waits on a channel which is closed and on a tick takes the channel
\* in the end.
Hears == which = "uploads" /\ \E l \in Loops : LoopEnds(l)
WatchFairness ==
    /\ \A n \in 1..7 : WF_runVars(UNCHANGED which /\ Runs(n))
    /\ SF_runVars(UNCHANGED which /\ Hears)

WatchLiveSpec == WatchSpec /\ WatchFairness

----------------------------------------------------------------------------

\* Every variable of every component keeps its type.
TypesOK ==
    /\ GuardTypeOK /\ WebTypeOK /\ HistoryTypeOK
    /\ LoginTypeOK /\ SignalsTypeOK /\ ConnectionTypeOK /\ BotsTypeOK /\ RulesTypeOK
    /\ ScansTypeOK /\ UploadsTypeOK /\ AlarmsTypeOK

\* WebWatch: who is banned, and for what.  WebServerEdits: the web server goes on,
\* and what was taken out of it refuses nobody.  MalwareScans: what is said of the
\* files of the web sites.  HostAlarms: nothing of the host changes unseen, and no
\* flood is told that was none.
WebSafe ==
    /\ CrawlersSpared /\ AsksOnlyEscalate /\ LookedAtAgain
    /\ ConfigKept /\ NothingLeft
    /\ ApacheStarts /\ OutRefusesNobody
    /\ ScoreIsWhole /\ CancelHeard /\ EndIsLast /\ WatchedScan
    /\ AlertedOnce /\ LoopsListen /\ AlarmsTrue

\* LoginHistory: whom the history guards.
LoginsKept == []PolicyIsCurrent /\ PersonsStay

\* FirewallGuard and PushSignals: when something is tried again.
RetriesSpaced == []RepairedInTime /\ CSFSpared /\ RefusalsSpaced /\ WorkedStartsOver

\* The rules come to be in force, an address with a login to be lifted, the last
\* edition of the settings to be fetched by a sync, the bots and the bans of the dashboard to
\* be refused by the web server; a scan ends, what is uploaded is looked at, and
\* what the host has come to is known.
Settled ==
    CASE which = "guard" -> Whole
      [] which = "signals" -> SignalsSuffice
      [] which = "bots" -> BotsRefused
      [] which = "rules" -> BansEnforced
      [] which = "scans" -> SigsInForce
      [] which = "uploads" -> DueReported /\ WatchFollows
      [] which = "alarms" -> HostKnown
      [] OTHER -> TRUE
WatchSettles ==
    /\ LoginsAreNotBanned
    /\ <>[]Settled
    /\ []<>(which = "scans" => ScanEnded)
    /\ []<>(which = "scans" => ScheduleRuns)
=============================================================================
