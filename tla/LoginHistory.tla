---------------------------- MODULE LoginHistory ----------------------------
(***************************************************************************)
(* The history of successful SSH logins (internal/loginhistory/store.go,   *)
(* cmd/infrafence-agent/sshlogins.go): the logins of the last 30 days by   *)
(* address, which keep the address from being banned unless only service   *)
(* users logged in from it.  A service user logs in from many networks or  *)
(* is listed in the dashboard; which addresses that leaves unguarded is    *)
(* computed when it is asked for and kept until something changes.         *)
(*                                                                         *)
(* A day is the unit of time, an age of Keep is out of the window; an      *)
(* address is its own network.  The logs keep what authLog has.            *)
(*                                                                         *)
(* A definition whose name begins with Mut is the one after it with a      *)
(* mistake planted, to see a property fail.                                *)
(***************************************************************************)
EXTENDS Integers, FiniteSets, FiniteSetsExt

CONSTANTS
    Addrs, Users,
    Keep, ServiceNets, MaxEntries, \* 30 days and limits
    MaxListed, MaxLoads \* bounds

ASSUME HistoryAssumption ==
    /\ IsFiniteSet(Addrs) /\ IsFiniteSet(Users)
    /\ {Keep, ServiceNets, MaxEntries} \subseteq Nat \ {0}
ASSUME HistoryBounds == {MaxListed, MaxLoads} \subseteq Nat

VARIABLES
    authLog,    \* user -> address -> age of the last login in the logs
    store,      \* address -> its users, the age of the last login, whether kept
    savedStore,      \* ssh-logins.json
    listed,     \* the dashboard's service users
    policy,     \* unguarded, as last computed
    outdated,      \* gen has moved on since, or policyMaxAge has passed
    rescanDue, listedN, loadsN

historyVars == <<authLog, store, savedStore, listed, policy, outdated, rescanDue, listedN, loadsN>>

Ages    == 0..Keep
Missing == [users |-> {}, age |-> Keep, kept |-> FALSE]
Older(days) == IF days < Keep THEN days + 1 ELSE Keep
AgedStore(st)   == [a \in Addrs |-> [st[a] EXCEPT !.age = Older(@)]]

HistoryInit ==
    /\ authLog = [u \in Users |-> [a \in Addrs |-> Keep]]
    /\ store = [a \in Addrs |-> Missing] /\ savedStore = store
    /\ listed = {} /\ policy = {} /\ outdated = TRUE
    /\ rescanDue = TRUE /\ listedN = 0 /\ loadsN = 0

----------------------------------------------------------------------------

Known(st) == {a \in Addrs : st[a].kept /\ st[a].age < Keep}

\* userNetsLocked, policyLocked
Unguarded(st) ==
    LET known == Known(st)
        service == {u \in Users : \/ u \in listed
                                  \/ Cardinality({a \in known : u \in st[a].users}) > ServiceNets}
    IN {a \in known : st[a].users # {} /\ st[a].users \subseteq service}

\* gen moves on: what was computed no longer counts.
Changed == outdated' = TRUE /\ policy' = {}

\* pruneLocked: what is out of the window goes, and past MaxEntries the
\* addresses of service users first, then the oldest.
MutKeptOver(st, known) ==
    {k \in kSubset(MaxEntries, known) : \A a \in k, b \in known \ k : st[a].age <= st[b].age}

KeptOver(st, known) ==
    LET bad == Unguarded(st)
    IN {k \in kSubset(MaxEntries, known) :
          \A a \in k, b \in known \ k :
            /\ a \in bad => b \in bad
            /\ (a \in bad <=> b \in bad) => st[a].age <= st[b].age}

Pruned(st) ==
    LET known == Known(st)
    IN {[a \in Addrs |-> IF a \in k THEN st[a] ELSE Missing] :
          k \in IF Cardinality(known) <= MaxEntries THEN {known} ELSE KeptOver(st, known)}

----------------------------------------------------------------------------

\* Protected, ProtectedIPs, ServiceUsers: the guard asks.
AskPolicy ==
    /\ outdated /\ outdated' = FALSE /\ policy' = Unguarded(store)
    /\ UNCHANGED <<authLog, store, savedStore, listed, rescanDue, listedN, loadsN>>

\* noteLiveLogin and Note: a login as it happens; an address that is new is
\* saved.  A guessed login is in the logs only.
WithLogin(u, a) == [store EXCEPT ![a] = [users |-> @.users \cup {u}, age |-> 0, kept |-> TRUE]]

Note(u, a) ==
    /\ authLog' = [authLog EXCEPT ![u][a] = 0] /\ store' \in Pruned(WithLogin(u, a))
    /\ savedStore' = IF store[a].kept THEN savedStore ELSE store'
    /\ IF \/ ~store[a].kept \/ u \notin store[a].users
          \/ \E b \in Addrs \ {a} : store[b].kept /\ ~store'[b].kept
       THEN Changed ELSE UNCHANGED <<policy, outdated>>
    /\ UNCHANGED <<listed, rescanDue, listedN, loadsN>>

Guessed(u, a) ==
    /\ authLog' = [authLog EXCEPT ![u][a] = 0]
    /\ UNCHANGED <<store, savedStore, listed, policy, outdated, rescanDue, listedN, loadsN>>

\* scanSSHLogins and Apply: what the logs show is added, what they no longer
\* show stays.
Found(a) == {u \in Users : authLog[u][a] < Keep}

ScanLogs ==
    /\ rescanDue /\ rescanDue' = FALSE
    /\ store' \in Pruned([a \in Addrs |->
         IF Found(a) = {} THEN store[a]
         ELSE [users |-> store[a].users \cup Found(a), kept |-> TRUE,
               age |-> Min({authLog[u][a] : u \in Found(a)} \cup {store[a].age})]])
    /\ savedStore' = store' /\ Changed
    /\ UNCHANGED <<authLog, listed, listedN, loadsN>>

\* A day later, after its scan.
HistoryDay ==
    /\ ~rescanDue /\ rescanDue' = TRUE /\ Changed
    /\ authLog' = [u \in Users |-> [a \in Addrs |-> Older(authLog[u][a])]]
    /\ store' = AgedStore(store) /\ savedStore' = AgedStore(savedStore)
    /\ UNCHANGED <<listed, listedN, loadsN>>

\* applySSHServiceUsers and SetServiceUsers: another list.
SetServiceUsers(users) ==
    /\ listedN < MaxListed /\ listedN' = listedN + 1
    /\ users # listed /\ listed' = users /\ Changed
    /\ UNCHANGED <<authLog, store, savedStore, rescanDue, loadsN>>

\* Load, by another process: the list comes with its first sync.
Load ==
    /\ loadsN < MaxLoads /\ loadsN' = loadsN + 1
    /\ store' \in Pruned(savedStore) /\ listed' = {} /\ Changed
    /\ UNCHANGED <<authLog, savedStore, rescanDue, listedN>>

HistoryNext ==
    \/ \E u \in Users, a \in Addrs : Note(u, a) \/ Guessed(u, a)
    \/ \E users \in SUBSET Users : SetServiceUsers(users)
    \/ AskPolicy \/ ScanLogs \/ HistoryDay \/ Load

HistorySpec == HistoryInit /\ [][HistoryNext]_historyVars

----------------------------------------------------------------------------

HistoryTypeOK ==
    /\ authLog \in [Users -> [Addrs -> Ages]]
    /\ {store, savedStore} \subseteq [Addrs -> [users : SUBSET Users, age : Ages, kept : BOOLEAN]]
    /\ listed \subseteq Users /\ policy \subseteq Addrs /\ outdated \in BOOLEAN
    /\ rescanDue \in BOOLEAN /\ listedN \in 0..MaxListed /\ loadsN \in 0..MaxLoads
    /\ Cardinality({a \in Addrs : store[a].kept}) <= MaxEntries

\* The cached list of unguarded addresses is what the history says: a login
\* that adds an address or a user, a scan, a pruned entry and a new list all
\* count as a change.  (An address that logs in again after 30 days and
\* before the scan that would have dropped it does not, for policyMaxAge.)
PolicyIsCurrent == outdated \/ rescanDue \/ policy = Unguarded(store)

\* The users the history and the logs show on more networks than a person's.
OnManyNets ==
    {u \in Users : Cardinality({x \in Addrs : u \in store[x].users \/ u \in Found(x)'}) > ServiceNets}

\* A person's address is never pushed out of a full history while one that
\* only service users logged in from stays in it.  ("A busy deploy account
\* cannot push the administrators out", store.go:474-475; who becomes one by the
\* very login or scan counts as one.)
PersonsStay ==
    [][loadsN' = loadsN =>
         \A a \in Known(store) \ Unguarded(store), b \in Unguarded(store)' :
            ~store'[a].kept => store[a].users \subseteq listed \cup OnManyNets]_historyVars
=============================================================================
