----------------------------- MODULE LoginGuard -----------------------------
(***************************************************************************)
(* The login guard (cmd/infrafence-agent/sshlogins.go) between the watcher *)
(* of the SSH log (internal/watcher/authlog.go), which bans an address     *)
(* that fails too often, the bans of the dashboard (syncs, ban.created),   *)
(* and the history of logins, which protects its addresses.                *)
(*                                                                         *)
(* A login is in the log, in the history and, by the session tracker, in   *)
(* sshLogins; each has its age in days.  An address whose logins are all   *)
(* service users' is in service.  Failures pass in windows, between days.  *)
(***************************************************************************)
EXTENDS Integers

CONSTANTS
    Clients, Days, Threshold, \* Days: 30 days
    MaxChanges  \* bound: changes of the dashboard's settings

ASSUME GuardedAssumption == {Days, Threshold} \subseteq Nat \ {0} /\ MaxChanges \in Nat

VARIABLES
    logged, sessionLogin, age,  \* address -> age of its last login in each
    trusted,    \* addresses that logged in without having guessed
    service, wanted, monitorMode,
    attempts, done, \* the watcher: attempts, banned
    asking,     \* banAndReport of an address: "idle", "asked", "clear"
    banned,     \* here: "none", "local", "dashboard"
    applying,   \* the bans of the sync that runs, after guardBans
    pushed,     \* ban.created past its guard
    lifting, scanDue, changesN

loginVars == <<logged, sessionLogin, age, trusted, service, wanted, monitorMode, attempts,
               done, asking, banned, applying, pushed, lifting, scanDue, changesN>>
logs      == <<logged, sessionLogin, age, trusted>>
dashboard == <<service, wanted, monitorMode, changesN>>
watch     == <<attempts, done, asking>>
syncs     == <<applying, pushed>>

NoLogin == Days + 1    \* not there; Days: there, and out of the window
NoSync == [run |-> FALSE, what |-> {}]

LoginInit ==
    /\ logged = [a \in Clients |-> NoLogin] /\ sessionLogin = logged /\ age = logged /\ trusted = {}
    /\ service = {} /\ wanted = {} /\ monitorMode = FALSE
    /\ attempts = [a \in Clients |-> 0] /\ done = {} /\ asking = [a \in Clients |-> "idle"]
    /\ banned = [a \in Clients |-> "none"] /\ applying = NoSync /\ pushed = {}
    /\ lifting = FALSE /\ scanDue = FALSE /\ changesN = 0

\* Protected and ProtectedIPs; sshLoginGuard.
GuardedBut(a, svc) == IF age[a] < Days THEN a \notin svc ELSE sessionLogin[a] < Days
Guarded(a)   == GuardedBut(a, service)
InHistory(a) == age[a] < Days /\ a \notin service

----------------------------------------------------------------------------
(* The watcher.                                                            *)

\* recordAttempt: an address of a blocked country at once, another at the
\* threshold.
Fail(a, abroad) ==
    /\ a \notin done
    /\ attempts' = [attempts EXCEPT ![a] = IF abroad THEN @ ELSE @ + 1]
    /\ IF abroad \/ attempts[a] + 1 >= Threshold
       THEN /\ done' = done \cup {a}
            /\ asking' = [asking EXCEPT ![a] =
                            IF monitorMode \/ Guarded(a) \/ @ # "idle" THEN @ ELSE "asked"]
       ELSE UNCHANGED <<done, asking>>
    /\ UNCHANGED <<logs, dashboard, banned, syncs, lifting, scanDue>>

\* pruneStale, a window after the attempts; without any, nothing is forgotten.
Forget(a) ==
    /\ attempts[a] > 0 /\ attempts' = [attempts EXCEPT ![a] = 0] /\ done' = done \ {a}
    /\ UNCHANGED <<logs, dashboard, asking, banned, syncs, lifting, scanDue>>

\* banAndReport asks the guard again, then the firewall.
AskGuard(a) ==
    /\ asking[a] = "asked"
    /\ asking' = [asking EXCEPT ![a] = IF Guarded(a) THEN "idle" ELSE "clear"]
    /\ UNCHANGED <<logs, dashboard, attempts, done, banned, syncs, lifting, scanDue>>

Ban(a) ==
    /\ asking[a] = "clear" /\ asking' = [asking EXCEPT ![a] = "idle"]
    /\ banned' = [banned EXCEPT ![a] = IF @ = "none" THEN "local" ELSE @]
    /\ UNCHANGED <<logs, dashboard, attempts, done, syncs, lifting, scanDue>>

\* A ban expires, or a person lifts it.
Lifted(a) ==
    /\ banned[a] # "none" /\ banned' = [banned EXCEPT ![a] = "none"]
    /\ UNCHANGED <<logs, dashboard, watch, syncs, lifting, scanDue>>

----------------------------------------------------------------------------
(* A login: its line in the log, its event of the session tracker.         *)

\* noteLiveLogin: not after so many failures (GuessedLogin), and a new
\* address only within the limit of new ones.
NoteLive(a) ==
    LET new == age[a] >= Days
    IN \E within \in BOOLEAN :
         IF attempts[a] >= Threshold \/ (new /\ ~within) THEN UNCHANGED <<age, lifting>>
         ELSE /\ age' = [age EXCEPT ![a] = 0]
              /\ lifting' = (lifting \/ age[a] = NoLogin)

Login(a) ==
    /\ logged' = [logged EXCEPT ![a] = 0]
    /\ trusted' = IF attempts[a] >= Threshold THEN trusted ELSE trusted \cup {a}
    /\ NoteLive(a)
    /\ UNCHANGED <<sessionLogin, dashboard, watch, banned, syncs, scanDue>>

\* noteEgressEvent
Session(a) ==
    /\ logged[a] = 0 /\ sessionLogin[a] # 0 /\ sessionLogin' = [sessionLogin EXCEPT ![a] = 0]
    /\ NoteLive(a)
    /\ UNCHANGED <<logged, trusted, dashboard, watch, banned, syncs, scanDue>>

\* liftGuardedBans
Unbanned == [a \in Clients |-> IF InHistory(a) THEN "none" ELSE banned[a]]

Lift ==
    /\ lifting /\ lifting' = FALSE /\ banned' = Unbanned
    /\ UNCHANGED <<logs, dashboard, watch, syncs, scanDue>>

----------------------------------------------------------------------------
(* scanSSHLogins, once a day: what the logs show is added, what is out of  *)
(* the window goes, and the bans of the addresses are lifted (loginsAdded, *)
(* liftGuardedBans).                                                       *)

Scanned(a) == IF logged[a] < Days /\ logged[a] < age[a] THEN logged[a]
              ELSE IF age[a] >= Days THEN NoLogin ELSE age[a]

Scan ==
    /\ scanDue /\ scanDue' = FALSE /\ lifting' = TRUE
    /\ age' = [a \in Clients |-> Scanned(a)]
    /\ UNCHANGED <<logged, sessionLogin, trusted, dashboard, watch, banned, syncs>>

Aged(ages) == [a \in Clients |-> IF ages[a] < Days THEN ages[a] + 1 ELSE ages[a]]

\* A day; its scan ends within it.
Day ==
    /\ ~scanDue /\ scanDue' = TRUE
    /\ logged' = Aged(logged) /\ sessionLogin' = Aged(sessionLogin) /\ age' = Aged(age)
    /\ trusted' = {a \in trusted : Aged(logged)[a] < Days}
    /\ UNCHANGED <<dashboard, watch, banned, syncs, lifting>>

----------------------------------------------------------------------------
(* The dashboard.                                                          *)

\* It bans an address, or lifts its ban.
Want(a) ==
    /\ wanted' = IF a \in wanted THEN wanted \ {a} ELSE wanted \cup {a}
    /\ UNCHANGED <<logs, service, monitorMode, changesN, watch, banned, syncs, lifting, scanDue>>

\* syncAndApply up to guardBans: what the dashboard says, the users it lists
\* (applySSHServiceUsers lifts).
Sync(svc, mon) ==
    /\ ~applying.run /\ service' = svc /\ monitorMode' = mon
    /\ changesN' = changesN + (IF <<svc, mon>> = <<service, monitorMode>> THEN 0 ELSE 1)
    /\ changesN' <= MaxChanges
    /\ lifting' = (lifting \/ svc # service)
    /\ applying' = [run |-> TRUE,
                    what |-> {a \in wanted : ~GuardedBut(a, svc)}]
    /\ UNCHANGED <<logs, wanted, watch, banned, pushed, scanDue>>

\* ApplyBans, CleanupStaleBans (localBansToKeep: a local ban stays).
Apply ==
    /\ applying.run /\ applying' = NoSync
    /\ banned' = [a \in Clients |->
                    IF banned[a] = "local" THEN "local"
                    ELSE IF a \notin applying.what THEN "none"
                    ELSE IF monitorMode THEN banned[a] ELSE "dashboard"]
    /\ UNCHANGED <<logs, dashboard, watch, pushed, lifting, scanDue>>

\* OnBanCreated
Push(a) ==
    /\ a \in wanted /\ a \notin pushed /\ ~Guarded(a) /\ pushed' = pushed \cup {a}
    /\ UNCHANGED <<logs, dashboard, watch, banned, applying, lifting, scanDue>>

BanPushed(a) ==
    /\ a \in pushed /\ pushed' = pushed \ {a}
    /\ banned' = [banned EXCEPT ![a] = IF @ = "none" THEN "dashboard" ELSE @]
    /\ UNCHANGED <<logs, dashboard, watch, applying, lifting, scanDue>>

LoginNext ==
    \/ \E a \in Clients : \/ \E abroad \in BOOLEAN : Fail(a, abroad)
                          \/ Forget(a) \/ AskGuard(a) \/ Ban(a) \/ Lifted(a)
                          \/ Login(a) \/ Session(a) \/ Want(a) \/ Push(a) \/ BanPushed(a)
    \/ \E svc \in SUBSET Clients, mon \in BOOLEAN : Sync(svc, mon)
    \/ Lift \/ Scan \/ Day \/ Apply

LoginSpec == LoginInit /\ [][LoginNext]_loginVars

\* Nobody need fail, log in, lift a ban or let it expire; goroutines run,
\* days and syncs follow one another.
LoginFairness ==
    /\ \A a \in Clients : WF_loginVars(AskGuard(a) \/ Ban(a)) /\ WF_loginVars(BanPushed(a))
    /\ WF_loginVars(Lift) /\ WF_loginVars(Scan) /\ WF_loginVars(Day) /\ WF_loginVars(Apply)
    /\ WF_loginVars(Sync(service, monitorMode))

----------------------------------------------------------------------------

LoginTypeOK ==
    /\ \A f \in {logged, sessionLogin, age} : f \in [Clients -> 0..NoLogin]
    /\ trusted \cup service \cup wanted \cup done \cup pushed \subseteq Clients
    /\ attempts \in [Clients -> 0..Threshold] /\ asking \in [Clients -> {"idle", "asked", "clear"}]
    /\ banned \in [Clients -> {"none", "local", "dashboard"}]
    /\ applying \in [run : BOOLEAN, what : SUBSET Clients]
    /\ {monitorMode, lifting, scanDue} \subseteq BOOLEAN
    /\ \A a \in Clients : attempts[a] >= Threshold => a \in done

\* sshlogins.go: an address with a login that protects it does not stay
\* banned, although a detector, a sync or a pushed ban that had asked the
\* guard before the login bans it after the bans were lifted.
LoginsAreNotBanned == \A a \in Clients : []<>~(InHistory(a) /\ banned[a] # "none")

\* noteLiveLogin, CHANGELOG: an address whose logins all came right after it
\* had reached the threshold of failures stays bannable.  The code does not
\* keep this: the session tracker's event is noted in any case, and the scan
\* adds what the log shows.
GuessesStayBannable == \A a \in Clients : Guarded(a) => a \in trusted
=============================================================================
