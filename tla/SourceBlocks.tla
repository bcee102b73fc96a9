---------------------------- MODULE SourceBlocks ----------------------------
(* The sources blocked as a whole (internal/firewall/geoblock.go,           *)
(* threatset.go): one kernel set for each country the dashboard blocks and  *)
(* one for the threat feeds, dropped from the chain of the agent.  A sync   *)
(* applies the countries; a login over SSH makes the sets be loaded again   *)
(* without its address; the guard of the firewall repairs the sets another  *)
(* tool removed; protection can be switched off at any moment.  The country *)
(* blocker has a lock of its own (GeoBlocker.mu), the memory the chain is   *)
(* built from another (fw), and loading a set takes neither of the two.     *)
EXTENDS Integers, FiniteSets

CONSTANTS
    Countries,     \* the countries that may be blocked
    Admins,        \* the addresses that may log in over SSH
    FeedLength,    \* of each version of the threat feeds, how many entries
    MaxDatabases,  \* bound: country databases
    MaxTurns       \* bound: changes of settings, feeds and databases, logins,
                   \* switches, failures, rebuilds by other tools, together

VARIABLES
    asked,      \* the countries the dashboard blocks
    quiet,      \* the dashboard's monitor mode
    database,   \* the country database in use (0: none)
    feed,       \* the version of the threat feeds (downloaded and dashboard's)
    seenLogins, \* the addresses that logged in
    blocking,     \* GeoBlocker.activeCountries
    reload,     \* GeoBlocker.reload
    job,        \* the ApplyCountryBlocks that runs, the holder of GeoBlocker.mu
    settings,   \* the settings a sync fetched and has not applied yet
    rebuild,    \* the goroutine of a login: its step and the countries it read
    shut,        \* fw.disabled
    removing,   \* Disable has still to remove the chains and sets
    kept,       \* fw.geo and fw.threat: what each set of the chain must hold
    sets, tmp,  \* the kernel's sets and the temporary ones they are loaded in
    chain,      \* the sets the chain refers to
    repairing,  \* the set the guard's Ensure, holding fw, is loading
    intel,      \* intelState: inputs and appliedKey; the run holding its lock
    left        \* the turns the bound leaves; calm: no failure, switch or
                \* rebuild by another tool yet; stuck: the sets the chain still
                \* referred to after the last switch-off

world == <<asked, quiet, database, feed, seenLogins>>
blocker == <<blocking, reload, job>>
kernelSets == <<sets, tmp, chain>>
sourceVars == <<world, blocker, settings, rebuild, shut, removing, kept, kernelSets,
                repairing, intel, left>>

Threat == "threat"
SetNames == Countries \cup {Threat}
\* What a set holds: the networks of a database or feed without some addresses.
Absent == [of |-> 0, without |-> {}]
Emptied == [of |-> -1, without |-> {}]
Contents == [of : -1..(MaxDatabases + Cardinality(DOMAIN FeedLength)),
             without : SUBSET Admins]

IdleJob == [at |-> "idle", who |-> "sync", drop |-> {}, add |-> {}, read |-> FALSE,
         exempt |-> {}, set |-> Threat, load |-> Absent]
NotFetched == [got |-> FALSE, list |-> {}, quiet |-> FALSE]
IntelIdle == [at |-> "idle", load |-> Absent]

SourceInit ==
    /\ asked \in SUBSET Countries /\ quiet = FALSE /\ database \in {0, 1} /\ feed = 1 /\ seenLogins = {}
    /\ blocking = {} /\ reload = FALSE /\ job = IdleJob
    /\ settings = NotFetched /\ rebuild = [at |-> "idle", list |-> {}]
    /\ shut = FALSE /\ removing = FALSE
    /\ kept = [n \in SetNames |-> Absent]
    /\ sets = kept /\ tmp = kept /\ chain = {} /\ repairing = "none"
    /\ intel = [asked |-> FALSE, quiet |-> TRUE, key |-> <<0, TRUE, 0>>, run |-> IntelIdle]
    /\ left = [turns |-> MaxTurns, calm |-> TRUE, stuck |-> {}]

FwFree == repairing = "none"
Turn == left.turns > 0 /\ left' = [left EXCEPT !.turns = @ - 1]
SetFault == left.turns > 0 /\ left' = [left EXCEPT !.turns = @ - 1, !.calm = FALSE]

----------------------------------------------------------------------------
(* The chain: Ensure, with the memory k.                                    *)

Desired(k) == {n \in SetNames : k[n] # Absent}
\* ensureSets loads a set that is missing or was emptied, and no other.
Repaired(k, s) ==
    [n \in SetNames |-> IF k[n] # Absent /\ s[n] \in {Absent, Emptied} THEN k[n] ELSE s[n]]

\* Ensure with memory k and sets s: it works, or iptables fails, or protection
\* is off and nothing is done.  ok says which the caller sees.
Ensured(k, s, ok) ==
    \/ /\ shut /\ ok
       /\ sets' = s /\ UNCHANGED <<chain, left>>
    \/ /\ ~shut /\ ok
       /\ sets' = Repaired(k, s) /\ chain' = Desired(k) /\ UNCHANGED left
    \/ /\ ~shut /\ ~ok /\ SetFault
       /\ sets' = Repaired(k, s) /\ UNCHANGED chain

\* A set the chain refers to cannot be destroyed, only flushed.
Destroyed(n, s) == [s EXCEPT ![n] = IF n \in chain THEN s[n] ELSE Absent]

\* replaceNetSet in two steps: the temporary set is filled, then swapped in.
Filled(n, c) == tmp' = [tmp EXCEPT ![n] = c]
Swapped(n) ==
    /\ tmp[n] # Absent
    /\ sets' = [sets EXCEPT ![n] = tmp[n]]
    /\ tmp' = [tmp EXCEPT ![n] = Absent]

----------------------------------------------------------------------------
(* ApplyCountryBlocks: the country blocker, under its lock.                 *)

\* The countries taken off are those not in the list; a country is loaded when
\* it is new, and every one of them after a new database or a login.
Begin(who, list) ==
    job' = [IdleJob EXCEPT !.at = "work", !.who = who, !.drop = blocking \ list,
                        !.add = {c \in list : c \notin blocking \/ reload}]

RemoveCountry(c) ==
    /\ job.at = "work" /\ c \in job.drop /\ FwFree
    /\ kept' = [kept EXCEPT ![c] = Absent]
    /\ \E ok \in BOOLEAN :
         IF shut
         THEN ok /\ sets' = [sets EXCEPT ![c] = IF c \in chain THEN Emptied ELSE Absent]
                 /\ UNCHANGED <<chain, left>>
         ELSE \/ /\ ok /\ chain' = Desired(kept')
                 /\ sets' = [Repaired(kept', sets) EXCEPT ![c] = Absent]
                 /\ UNCHANGED left
              \/ /\ ~ok /\ SetFault
                 /\ sets' = [Repaired(kept', sets) EXCEPT ![c] = IF c \in chain THEN Emptied ELSE Absent]
                 /\ UNCHANGED chain
    /\ blocking' = blocking \ {c}
    /\ job' = [job EXCEPT !.drop = @ \ {c}]
    /\ UNCHANGED <<world, reload, settings, rebuild, shut, removing, tmp, repairing, intel>>

\* The networks of a country, without the logins known when the first set of
\* this call is loaded; without a database there are none.
FillCountry(c) ==
    /\ job.at = "work" /\ job.drop = {} /\ c \in job.add
    /\ LET exempt == IF job.read THEN job.exempt ELSE seenLogins
           new == [of |-> database, without |-> exempt] IN
       IF database = 0
       THEN /\ job' = [job EXCEPT !.add = @ \ {c}, !.read = TRUE, !.exempt = exempt]
            /\ UNCHANGED tmp
       ELSE /\ job' = [job EXCEPT !.at = "swap", !.read = TRUE, !.exempt = exempt,
                                  !.set = c, !.load = new]
            /\ Filled(c, new)
    /\ UNCHANGED <<world, blocking, reload, settings, rebuild, shut, removing, kept, sets, chain,
                   repairing, intel, left>>

\* A load that fails: the set of a country not blocked yet is destroyed.
LoadFailed(c) ==
    /\ sets' = IF c \in blocking THEN sets ELSE Destroyed(c, sets)
    /\ tmp' = [tmp EXCEPT ![c] = Absent]
    /\ job' = [job EXCEPT !.at = "work", !.add = @ \ {c}, !.set = Threat, !.load = Absent]

SwapCountry ==
    /\ job.at = "swap"
    /\ \/ Swapped(job.set) /\ job' = [job EXCEPT !.at = "record"] /\ UNCHANGED left
       \/ tmp[job.set] = Absent /\ LoadFailed(job.set) /\ UNCHANGED left
       \/ LoadFailed(job.set) /\ SetFault
    /\ UNCHANGED <<world, blocking, reload, settings, rebuild, shut, removing, kept, chain,
                   repairing, intel>>

\* The chain is to hold the set, and does when Ensure works.
RecordCountry ==
    /\ job.at = "record" /\ FwFree
    /\ LET c == job.set
           k == [kept EXCEPT ![c] = job.load] IN
       \/ /\ Ensured(k, sets, TRUE)
          /\ kept' = k /\ blocking' = blocking \cup {c}
       \/ /\ ~shut /\ SetFault
          /\ kept' = IF c \in blocking THEN k ELSE [kept EXCEPT ![c] = Absent]
          /\ sets' = IF c \in blocking THEN Repaired(k, sets) ELSE Destroyed(c, Repaired(k, sets))
          /\ UNCHANGED <<blocking, chain>>
    /\ job' = [job EXCEPT !.at = "work", !.add = @ \ {job.set}, !.set = Threat, !.load = Absent]
    /\ UNCHANGED <<world, reload, settings, rebuild, shut, removing, tmp, repairing, intel>>

\* Also when a set could not be loaded, reload is over.
Applied(who) ==
    /\ job.at = "work" /\ job.who = who /\ job.drop = {} /\ job.add = {}
    /\ job' = IdleJob /\ reload' = FALSE

----------------------------------------------------------------------------
(* The callers: a sync, and the goroutine a login starts (rebuild).         *)

FetchSettings ==
    /\ ~settings.got
    /\ settings' = [got |-> TRUE, list |-> asked, quiet |-> quiet]
    /\ UNCHANGED <<world, blocker, rebuild, shut, removing, kept, kernelSets, repairing, intel, left>>

\* What follows the countries in a sync: the inputs of the threat set.
SyncEnds ==
    /\ settings' = NotFetched
    /\ intel' = [intel EXCEPT !.quiet = settings.quiet, !.asked = TRUE]

SyncCountries ==
    /\ settings.got
    /\ \/ /\ settings.quiet \/ shut
          /\ intel.run.at = "idle" /\ SyncEnds /\ UNCHANGED blocker
       \/ /\ ~settings.quiet /\ ~shut /\ job.at = "idle"
          /\ Begin("sync", settings.list) /\ UNCHANGED <<blocking, reload, settings, intel>>
       \/ /\ Applied("sync") /\ intel.run.at = "idle" /\ SyncEnds /\ UNCHANGED blocking
    /\ ~(job.at # "idle" /\ job.who = "sync") \/ job'.at = "idle"
    /\ UNCHANGED <<world, rebuild, shut, removing, kept, kernelSets, repairing, left>>

LoginSeen(a) ==
    /\ a \notin seenLogins /\ rebuild.at = "idle" /\ Turn
    /\ seenLogins' = seenLogins \cup {a}
    /\ rebuild' = [rebuild EXCEPT !.at = "read"]
    /\ UNCHANGED <<asked, quiet, database, feed, blocker, settings, shut, removing, kept,
                   kernelSets, repairing, intel>>

\* The goroutine reads the countries, sets reload, applies what it read, and
\* then asks for the threat set.
RebuildStep ==
    /\ \/ /\ rebuild.at = "read" /\ job.at = "idle" /\ blocking # {}
          /\ rebuild' = [at |-> "reload", list |-> blocking] /\ UNCHANGED <<blocker, intel>>
       \/ /\ rebuild.at = "reload" /\ job.at = "idle"
          /\ rebuild' = [rebuild EXCEPT !.at = "apply"]
          /\ reload' = TRUE /\ UNCHANGED <<blocking, job, intel>>
       \/ /\ rebuild.at = "apply" /\ job.at = "idle" /\ ~shut
          /\ Begin("rebuild", rebuild.list)
          /\ rebuild' = [rebuild EXCEPT !.at = "applying"] /\ UNCHANGED <<blocking, reload, intel>>
       \/ /\ \/ rebuild.at = "read" /\ job.at = "idle" /\ blocking = {} /\ UNCHANGED blocker
             \/ rebuild.at = "apply" /\ shut /\ UNCHANGED blocker
             \/ rebuild.at = "applying" /\ Applied("rebuild") /\ UNCHANGED blocking
          /\ rebuild' = [at |-> "idle", list |-> {}]
          /\ intel' = [intel EXCEPT !.asked = TRUE]
    /\ UNCHANGED <<world, settings, shut, removing, kept, kernelSets, repairing, left>>

----------------------------------------------------------------------------
(* applyThreatIntel, under the lock of intelState.                          *)

Key == <<FeedLength[feed], intel.quiet, Cardinality(seenLogins)>>

ThreatAsked ==
    /\ intel.asked /\ intel.run.at = "idle"
    /\ IF Key = intel.key
       THEN /\ intel' = [intel EXCEPT !.asked = FALSE]
            /\ UNCHANGED <<kept, kernelSets, left>>
       ELSE IF intel.quiet
       THEN /\ FwFree
            /\ kept' = [kept EXCEPT ![Threat] = Absent]
            /\ IF kept[Threat] = Absent
               THEN UNCHANGED <<sets, chain, left>>
               ELSE LET flushed == IF sets[Threat] = Absent THEN Absent ELSE Emptied
                    IN  \E ok \in BOOLEAN : Ensured(kept', [sets EXCEPT ![Threat] = flushed], ok)
            /\ intel' = [intel EXCEPT !.asked = FALSE, !.key = Key]
            /\ UNCHANGED tmp
       ELSE IF shut
       THEN /\ intel' = [intel EXCEPT !.asked = FALSE, !.key = Key]
            /\ UNCHANGED <<kept, kernelSets, left>>
       ELSE LET new == [of |-> feed, without |-> seenLogins] IN
            /\ Filled(Threat, new)
            /\ intel' = [intel EXCEPT !.asked = FALSE, !.key = Key,
                                      !.run = [at |-> "swap", load |-> new]]
            /\ UNCHANGED <<kept, sets, chain, left>>
    /\ UNCHANGED <<world, blocker, settings, rebuild, shut, removing, repairing>>

ThreatSwap ==
    /\ intel.run.at = "swap"
    /\ \/ /\ Swapped(Threat) /\ intel' = [intel EXCEPT !.run.at = "record"] /\ UNCHANGED left
       \/ /\ \/ tmp[Threat] = Absent /\ UNCHANGED left
             \/ SetFault
          /\ tmp' = [tmp EXCEPT ![Threat] = Absent]
          /\ intel' = [intel EXCEPT !.run = IntelIdle] /\ UNCHANGED sets
    /\ UNCHANGED <<world, blocker, settings, rebuild, shut, removing, kept, chain, repairing>>

ThreatRecord ==
    /\ intel.run.at = "record" /\ FwFree
    /\ kept' = [kept EXCEPT ![Threat] = intel.run.load]
    /\ \E ok \in BOOLEAN : Ensured(kept', sets, ok)
    /\ intel' = [intel EXCEPT !.run = IntelIdle]
    /\ UNCHANGED <<world, blocker, settings, rebuild, shut, removing, tmp, repairing>>

----------------------------------------------------------------------------
(* The switch, the guard, and the world around.                             *)

DisableSets ==
    /\ ~shut /\ ~removing /\ FwFree /\ SetFault
    /\ shut' = TRUE /\ removing' = TRUE
    /\ UNCHANGED <<world, blocker, settings, rebuild, kept, kernelSets, repairing, intel>>

\* The chains, the jumps and every set whose name begins with infrafence-.  A
\* command that fails is passed over: the chain may keep its rules, and a set
\* stays when a rule refers to it or destroying it fails.
Only(s, stay) == [n \in SetNames |-> IF n \in stay THEN s[n] ELSE Absent]
RemoveSets ==
    /\ removing /\ removing' = FALSE
    /\ \/ /\ chain' = {} /\ sets' = Only(sets, {}) /\ tmp' = Only(tmp, {})
          /\ left' = [left EXCEPT !.stuck = {}]
       \/ /\ left.turns > 0
          /\ \E stay \in SUBSET SetNames :
               /\ chain' \in {{}, chain} /\ chain' \subseteq stay
               /\ sets' = Only(sets, stay) /\ tmp' \in {tmp, Only(tmp, {})}
          /\ left' = [turns |-> left.turns - 1, calm |-> FALSE, stuck |-> chain']
    /\ UNCHANGED <<world, blocker, settings, rebuild, shut, kept, repairing, intel>>

\* Enable rebuilds the chain from the memory.
EnableSets ==
    /\ shut /\ ~removing /\ FwFree
    /\ shut' = FALSE
    /\ sets' = Repaired(kept, sets) /\ chain' = Desired(kept)
    /\ UNCHANGED <<world, blocker, settings, rebuild, removing, kept, tmp, repairing, intel, left>>

\* The guard finds a set missing or empty and loads what it read of the memory.
GuardFinds(n) ==
    /\ ~shut /\ FwFree
    /\ kept[n] # Absent /\ sets[n] \in {Absent, Emptied}
    /\ repairing' = n /\ Filled(n, kept[n])
    /\ UNCHANGED <<world, blocker, settings, rebuild, shut, removing, kept, sets, chain, intel, left>>

GuardLoads ==
    /\ ~FwFree /\ repairing' = "none"
    /\ IF tmp[repairing] = Absent
       THEN UNCHANGED <<sets, tmp>>
       ELSE Swapped(repairing)
    /\ chain' = IF \E n \in Desired(kept) : sets'[n] = Absent THEN chain ELSE Desired(kept)
    /\ UNCHANGED <<world, blocker, settings, rebuild, shut, removing, kept, intel, left>>

\* Nothing is missing and the chain alone differs.
GuardChain ==
    /\ ~shut /\ FwFree /\ chain # Desired(kept)
    /\ \A n \in Desired(kept) : sets[n] \notin {Absent, Emptied}
    /\ chain' = Desired(kept)
    /\ UNCHANGED <<world, blocker, settings, rebuild, shut, removing, kept, sets, tmp, repairing,
                   intel, left>>

\* Another tool rebuilds the firewall: the chains go, the sets go or are emptied.
Rebuilt ==
    /\ SetFault
    /\ chain' = {}
    /\ sets' \in {[n \in SetNames |-> Absent],
                  [n \in SetNames |-> IF sets[n] = Absent THEN Absent ELSE Emptied]}
    /\ UNCHANGED <<world, blocker, settings, rebuild, shut, removing, kept, tmp, repairing, intel>>

AskSources ==
    /\ Turn
    /\ \/ asked' \in SUBSET Countries \ {asked} /\ UNCHANGED quiet
       \/ quiet' = ~quiet /\ UNCHANGED asked
    /\ UNCHANGED <<database, feed, seenLogins, blocker, settings, rebuild, shut, removing, kept,
                   kernelSets, repairing, intel>>

\* The updater replaces the database and sets reload; a sync follows.
NewDatabase ==
    /\ database < MaxDatabases /\ job.at = "idle" /\ Turn
    /\ database' = database + 1 /\ reload' = TRUE
    /\ UNCHANGED <<asked, quiet, feed, seenLogins, blocking, job, settings, rebuild, shut, removing,
                   kept, kernelSets, repairing, intel>>

NewFeed ==
    /\ feed + 1 \in DOMAIN FeedLength /\ intel.run.at = "idle" /\ Turn
    /\ feed' = feed + 1 /\ intel' = [intel EXCEPT !.asked = TRUE]
    /\ UNCHANGED <<asked, quiet, database, seenLogins, blocker, settings, rebuild, shut, removing,
                   kept, kernelSets, repairing>>

BlockerStep ==
    \/ \E c \in Countries : RemoveCountry(c) \/ FillCountry(c)
    \/ SwapCountry \/ RecordCountry
ThreatStep == ThreatAsked \/ ThreatSwap \/ ThreatRecord
GuardStep == (\E n \in SetNames : GuardFinds(n)) \/ GuardLoads \/ GuardChain

SourceNext ==
    \/ BlockerStep \/ ThreatStep \/ GuardStep
    \/ FetchSettings \/ SyncCountries \/ RebuildStep
    \/ \E a \in Admins : LoginSeen(a)
    \/ DisableSets \/ RemoveSets \/ EnableSets \/ Rebuilt \/ AskSources \/ NewDatabase \/ NewFeed

SourceSpec == SourceInit /\ [][SourceNext]_sourceVars
SourceFairness ==
    /\ WF_sourceVars(BlockerStep) /\ WF_sourceVars(ThreatStep) /\ WF_sourceVars(GuardStep)
    /\ WF_sourceVars(FetchSettings) /\ WF_sourceVars(SyncCountries) /\ SF_sourceVars(RebuildStep)
    /\ WF_sourceVars(RemoveSets)
SourceLive == SourceSpec /\ SourceFairness

----------------------------------------------------------------------------

\* The variables keep their types.
SourceTypeOK ==
    /\ asked \subseteq Countries /\ quiet \in BOOLEAN /\ seenLogins \subseteq Admins
    /\ database \in 0..MaxDatabases /\ feed \in DOMAIN FeedLength
    /\ blocking \subseteq Countries /\ reload \in BOOLEAN
    /\ job.at \in {"idle", "work", "swap", "record"}
    /\ shut \in BOOLEAN /\ removing \in BOOLEAN /\ left.stuck \subseteq SetNames
    /\ kept \in [SetNames -> Contents] /\ sets \in [SetNames -> Contents]
    /\ tmp \in [SetNames -> Contents] /\ chain \subseteq SetNames
    /\ repairing \in SetNames \cup {"none"}

\* What the blocker believes it blocks is what the chain is built from, when no
\* call is under way.
BlockedIsKept ==
    job.at = "idle" => \A c \in Countries : c \in blocking <=> kept[c] # Absent

\* While protection is off the chain holds nothing but what a failing command
\* left of it, whoever was applying blocks when it was switched off.
OffHoldsNothing == shut /\ ~removing => chain \subseteq left.stuck

\* Every set of the chain is there: the countries that are blocked stay blocked
\* while their sets are loaded again.
NeverLapses ==
    [][\A c \in blocking \cap blocking' : c \in chain /\ c \notin chain'
          => removing \/ left' # left]_sourceVars

\* What the dashboard asks for comes to be in force.
AsAsked == shut \/ quiet \/ database = 0 \/ (Countries \cap chain) = asked
CountriesInForce == <>[]AsAsked

\* While loads work, protection stays on and no other tool rebuilds the
\* firewall, an address that logged in comes to be out of every set, and the
\* threat set comes to hold the last feeds, whatever login, sync or change of
\* the settings falls into a load.  Each of the three lets a set stay behind:
\* what is not applied is not tried again (appliedKey, reload), and the guard
\* may swap the networks it read before into the set being loaded.
SetsUpToDate ==
    left.calm => \/ quiet
                 \/ /\ \A n \in chain : seenLogins \subseteq sets[n].without
                    /\ sets[Threat].of = feed
SetsFollow == <>[]SetsUpToDate
=============================================================================
