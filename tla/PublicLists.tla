---------------------------- MODULE PublicLists -----------------------------
(***************************************************************************)
(* The lists the agent downloads from their publishers once a day: the     *)
(* threat feeds and the bot fingerprints (internal/intel, runIntelUpdater  *)
(* in cmd/infrafence-agent/main.go), and the actions the dashboard chooses *)
(* for the bots (botpolicy.go).  Two goroutines change the list the web    *)
(* watcher uses: the one that downloads, and the one that syncs.  Both     *)
(* compute it under the lock of botState, and hand it over after.          *)
(*                                                                         *)
(* What the feeds are used for is in SourceBlocks, what is done to a bot   *)
(* in WebWatch and WebServerEdits.  The watcher writes every list it is given *)
(* to a file that it loads when the agent starts: botsInUse survives a         *)
(* restart.  A list is a set, its order and the entries with a pattern     *)
(* that does not compile are left out.                                     *)
(***************************************************************************)
EXTENDS Integers, FiniteSets

CONSTANTS
    FeedSources,   \* the publishers of the threat feeds
    CrawlerLists,  \* what the list of crawlers may be: sets of bots
    AIBots,        \* the list of AI crawlers
    Covers,        \* <<p, q>>: the crawler pattern p matches the name q
    SlugOf,        \* pattern -> slug, by the rule of this version
    OldSlugs,      \* the same, by the rule of an older agent that wrote the cache
    BotPolicies,   \* [bots : slug -> action, categories : category -> action]
    DashboardLists, \* the lists an older dashboard may send ({}: none)
    RefreshHours,  \* a list is downloaded again when it is this old
    MaxListEvents, MaxListFaults, MaxListRestarts \* bounds

NoPolicy == [bots |-> <<>>, categories |-> <<>>]
ASSUME ListConstants ==
    /\ NoPolicy \in BotPolicies /\ {} \in DashboardLists
    /\ RefreshHours \in Nat \ {0, 1}
    /\ {MaxListEvents, MaxListFaults, MaxListRestarts} \subseteq Nat

Kinds   == {"feeds", "bots"}
Actions == {"allow", "log", "block"}

VARIABLES
    crawlers,   \* published
    botsWanted,     \* the dashboard: the policy, and the list of an older one
    botState,   \* downloaded, policy, known (policyKey), effective
    dashboardBots, \* the last sync had a list
    botsInUse,      \* what the web watcher matches requests with, and its file
    synced,     \* what the last sync that got this far brought
    feedsIn,    \* the sources the threat entries come from
    since,      \* kind -> hours since it was downloaded, as the updater has it
    cache,      \* kind -> [items, age], its file
    updater, syncer, \* the two goroutines
    requested,      \* ghost: kind -> [age, kept], the last download, whether it is in the file
    hurried,    \* ghost: a publisher was asked again too soon
    behind,      \* ghost: why the watcher may not have the list that is due
    listEventsN, listFaultsN, listRestartsN

listWorld == <<crawlers, botsWanted, listEventsN>>
listVars  == <<listWorld, botState, dashboardBots, botsInUse, synced, feedsIn, since, cache, updater, syncer,
               requested, hurried, behind, listFaultsN, listRestartsN>>

Slugged(S, slugs) == {[pattern |-> b.pattern, category |-> b.category, action |-> b.action,
                       slug |-> slugs[b.pattern]] : b \in S}
NoBots    == [downloaded |-> {}, policy |-> NoPolicy, known |-> FALSE, effective |-> {}]
NoCache   == [items |-> {}, age |-> RefreshHours]

ListsInit ==
    /\ crawlers \in CrawlerLists /\ botsWanted = [policy |-> NoPolicy, list |-> {}]
    /\ botState = NoBots /\ dashboardBots = FALSE /\ botsInUse = {}
    /\ synced = [policy |-> NoPolicy, list |-> {}]
    /\ feedsIn = {} /\ since = [k \in Kinds |-> RefreshHours]
    /\ \E S \in {{}, Slugged(crawlers, OldSlugs)} :
           cache = [feeds |-> NoCache, bots |-> [items |-> S, age |-> RefreshHours - 1]]
    /\ updater = [pc |-> "down"] /\ syncer = [pc |-> "idle"]
    /\ requested = [k \in Kinds |-> [age |-> RefreshHours, kept |-> TRUE, restarted |-> FALSE]]
    /\ hurried = FALSE /\ behind = {}
    /\ listEventsN = 0 /\ listFaultsN = 0 /\ listRestartsN = 0

----------------------------------------------------------------------------
(* The publishers and the dashboard.                                       *)

ListEvent ==
    /\ listEventsN < MaxListEvents /\ listEventsN' = listEventsN + 1
    /\ UNCHANGED <<botState, dashboardBots, botsInUse, synced, feedsIn, since, cache, updater, syncer,
                   requested, hurried, behind, listFaultsN, listRestartsN>>
Publish(S)    == ListEvent /\ S # crawlers /\ crawlers' = S /\ UNCHANGED botsWanted
Edited(w)     == ListEvent /\ w # botsWanted /\ botsWanted' = w /\ UNCHANGED crawlers
EditPolicy(p) == Edited([botsWanted EXCEPT !.policy = p])
EditList(S)   == Edited([botsWanted EXCEPT !.list = S])

ListFault == listFaultsN < MaxListFaults /\ listFaultsN' = listFaultsN + 1

----------------------------------------------------------------------------
(* The action of a bot, and the list the watcher gets.                     *)

\* The bot's own entry first, then its category's, else the default of the list; an
\* action that is none is passed over.
ActionOf(b, p) ==
    CASE b.slug \in DOMAIN p.bots /\ p.bots[b.slug] \in Actions -> p.bots[b.slug]
      [] b.category \in DOMAIN p.categories /\ p.categories[b.category] \in Actions -> p.categories[b.category]
      [] OTHER -> b.action
applyBotPolicy(S, p) == {[b EXCEPT !.action = ActionOf(b, p)] : b \in S}

ListFrame ==
    UNCHANGED <<listWorld, feedsIn, since, cache, requested, hurried, listFaultsN, listRestartsN>>

\* reapplyBots, first part: under the lock.
Reapply(thread, next) ==
    IF botState.downloaded = {} THEN thread' = [thread EXCEPT !.pc = next] /\ UNCHANGED botState
    ELSE LET eff == applyBotPolicy(botState.downloaded, botState.policy)
         IN  /\ botState' = [botState EXCEPT !.effective = eff]
             /\ thread' = [thread EXCEPT !.pc = "hand over", !.list = eff]
\* Second part: not if the dashboard has a list of its own.
Asks(thread, next) ==
    thread' = [thread EXCEPT !.pc = IF dashboardBots THEN next ELSE "install"]
\* UpdateBotFingerprints.  The list is behind if it was overtaken on the way.
BotsDue == IF dashboardBots THEN synced.list ELSE botState.effective
HandOver(S) ==
    /\ botsInUse' = S
    /\ behind' = IF S = BotsDue THEN {} ELSE {"overtaken"}

----------------------------------------------------------------------------
(* The goroutine that syncs.                                               *)

\* The first sync comes before the updater.
SyncBots ==
    /\ syncer.pc = "idle" /\ (updater.pc = "down" => ~botState.known)
    /\ syncer' = [pc |-> "policy", list |-> botsWanted.list, policy |-> botsWanted.policy]
    /\ dashboardBots' = (botsWanted.list # {})
    /\ synced' = botsWanted
    /\ behind' = IF dashboardBots /\ botsWanted.list = {} THEN behind \cup {"handed back"} ELSE behind
    /\ ListFrame /\ UNCHANGED <<botState, botsInUse, updater>>

\* setBotPolicy: only a policy that changed is applied.
SetBotPolicy ==
    /\ syncer.pc = "policy"
    /\ LET changed == ~botState.known \/ botState.policy # syncer.policy
       IN  /\ botState' = IF changed THEN [botState EXCEPT !.policy = syncer.policy, !.known = TRUE]
                          ELSE botState
           /\ syncer' = [pc |-> IF changed THEN "reapply" ELSE "dashboard",
                         list |-> {}, given |-> syncer.list]
    /\ ListFrame /\ UNCHANGED <<dashboardBots, botsInUse, synced, behind, updater>>

SyncReapplies ==
    /\ \/ syncer.pc = "reapply" /\ Reapply(syncer, "dashboard") /\ UNCHANGED <<botsInUse, behind>>
       \/ syncer.pc = "hand over" /\ Asks(syncer, "dashboard") /\ UNCHANGED <<botState, botsInUse, behind>>
       \/ /\ syncer.pc = "install" /\ HandOver(syncer.list)
          /\ syncer' = [syncer EXCEPT !.pc = "dashboard"] /\ UNCHANGED botState
    /\ ListFrame /\ UNCHANGED <<dashboardBots, synced, updater>>

\* The list of an older dashboard, on every sync.
DashboardList ==
    /\ syncer.pc = "dashboard" /\ syncer' = [pc |-> "idle"]
    /\ IF syncer.given = {} THEN UNCHANGED <<botsInUse, behind>> ELSE HandOver(syncer.given)
    /\ ListFrame /\ UNCHANGED <<botState, dashboardBots, synced, updater>>

----------------------------------------------------------------------------
(* The goroutine that downloads (runIntelUpdater).                         *)

SetDownloaded(S, next) ==
    IF S = {} THEN updater' = [pc |-> next, list |-> {}, next |-> next] /\ UNCHANGED botState
    ELSE /\ botState' = [botState EXCEPT !.downloaded = Slugged(S, SlugOf)]
         /\ updater' = [pc |-> "reapply", list |-> {}, next |-> next]

\* After the first sync, whether it succeeded or not: the caches are loaded.
UpdaterStarts ==
    /\ updater.pc = "down" /\ syncer.pc = "idle"
    /\ since' = [k \in Kinds |-> cache[k].age]
    /\ feedsIn' = cache["feeds"].items
    /\ SetDownloaded(cache["bots"].items, "feeds")
    /\ UNCHANGED <<listWorld, dashboardBots, botsInUse, synced, cache, syncer, requested, hurried, behind,
                   listFaultsN, listRestartsN>>

UpdaterReapplies ==
    /\ \/ updater.pc = "reapply" /\ Reapply(updater, updater.next) /\ UNCHANGED <<botsInUse, behind>>
       \/ updater.pc = "hand over" /\ Asks(updater, updater.next) /\ UNCHANGED <<botState, botsInUse, behind>>
       \/ /\ updater.pc = "install" /\ HandOver(updater.list)
          /\ updater' = [updater EXCEPT !.pc = updater.next] /\ UNCHANGED botState
    /\ ListFrame /\ UNCHANGED <<dashboardBots, synced, syncer>>

\* A download is asked for again too soon: within the hour, or within the day if the
\* last one is in the file; a restart forgets one that is not.
Requested(k, kept) ==
    /\ requested' = [requested EXCEPT ![k] = [age |-> 0, kept |-> kept, restarted |-> FALSE]]
    /\ hurried' = (hurried \/ /\ ~(requested[k].restarted /\ ~requested[k].kept)
                              /\ requested[k].age < IF requested[k].kept THEN RefreshHours ELSE 1)

\* SaveCache: a file under another name, renamed.
Downloaded(k, S) ==
    /\ since' = [since EXCEPT ![k] = 0]
    /\ \/ cache' = [cache EXCEPT ![k] = [items |-> S, age |-> 0]] /\ Requested(k, TRUE) /\ UNCHANGED listFaultsN
       \/ ListFault /\ UNCHANGED cache /\ Requested(k, FALSE)
DownloadedPart(k, S) ==
    /\ since' = [since EXCEPT ![k] = 0] /\ cache' = [cache EXCEPT ![k] = [items |-> S, age |-> 0]]
    /\ Requested(k, TRUE) /\ ListFault
NotDownloaded(k) == ListFault /\ Requested(k, FALSE) /\ UNCHANGED <<since, cache>>

\* FetchThreatFeeds: a source that fails is missing from the result.
FetchFeeds ==
    /\ updater.pc = "feeds" /\ updater' = [updater EXCEPT !.pc = "bots"]
    /\ \/ /\ since["feeds"] < RefreshHours
          /\ UNCHANGED <<feedsIn, since, cache, requested, hurried, listFaultsN>>
       \/ /\ since["feeds"] >= RefreshHours
          /\ \/ feedsIn' = FeedSources /\ Downloaded("feeds", FeedSources)
             \/ \E S \in SUBSET FeedSources \ {{}, FeedSources} :
                    feedsIn' = S /\ DownloadedPart("feeds", S)
             \/ NotDownloaded("feeds") /\ UNCHANGED feedsIn
    /\ UNCHANGED <<listWorld, botState, dashboardBots, botsInUse, synced, syncer, behind, listRestartsN>>

\* What the two lists hold when they are fetched and parsed.
ParseCrawlerUserAgents == Slugged(crawlers, SlugOf)
ParseAIRobots == Slugged(AIBots, SlugOf)

\* MergeBots: the AI crawlers none of the other patterns matches.
MergeBots(C, A) == C \cup {a \in A : ~\E c \in C : <<c.pattern, a.pattern>> \in Covers}

FetchBots ==
    /\ updater.pc = "bots"
    /\ \/ since["bots"] < RefreshHours /\ updater' = [updater EXCEPT !.pc = "sleep"]
          /\ UNCHANGED <<since, cache, requested, hurried, listFaultsN, botState>>
       \/ /\ since["bots"] >= RefreshHours
          /\ \/ LET S == MergeBots(ParseCrawlerUserAgents, ParseAIRobots)
                IN  Downloaded("bots", S) /\ SetDownloaded(S, "sleep")
             \/ \* the list of AI crawlers was not there
                LET S == ParseCrawlerUserAgents
                IN  DownloadedPart("bots", S) /\ SetDownloaded(S, "sleep")
             \/ NotDownloaded("bots") /\ updater' = [updater EXCEPT !.pc = "sleep"] /\ UNCHANGED botState
    /\ UNCHANGED <<listWorld, dashboardBots, botsInUse, synced, feedsIn, syncer, behind, listRestartsN>>

UpdaterStep == UpdaterStarts \/ UpdaterReapplies \/ FetchFeeds \/ FetchBots
SyncStep    == SetBotPolicy \/ SyncReapplies \/ DashboardList

HourOlder(n) == IF n = RefreshHours THEN n ELSE n + 1
HourPasses ==
    /\ updater.pc = "sleep" /\ updater' = [updater EXCEPT !.pc = "feeds"]
    /\ since' = [k \in Kinds |-> HourOlder(since[k])]
    /\ cache' = [k \in Kinds |-> [cache[k] EXCEPT !.age = HourOlder(@)]]
    /\ requested' = [k \in Kinds |-> [requested[k] EXCEPT !.age = HourOlder(@)]]
    /\ UNCHANGED <<listWorld, botState, dashboardBots, botsInUse, synced, feedsIn, syncer, hurried, behind,
                   listFaultsN, listRestartsN>>

ListRestart ==
    /\ listRestartsN < MaxListRestarts /\ listRestartsN' = listRestartsN + 1
    /\ botState' = NoBots /\ dashboardBots' = FALSE
    /\ feedsIn' = {} /\ since' = [k \in Kinds |-> RefreshHours]
    /\ updater' = [pc |-> "down"] /\ syncer' = [pc |-> "idle"]
    /\ synced' = [policy |-> NoPolicy, list |-> {}]
    /\ requested' = [k \in Kinds |-> [requested[k] EXCEPT !.restarted = TRUE]]
    /\ behind' = {"restarted"}
    /\ UNCHANGED <<listWorld, botsInUse, cache, hurried, listFaultsN>>

ListsNext ==
    \/ \E S \in CrawlerLists : Publish(S)
    \/ \E p \in BotPolicies : EditPolicy(p)
    \/ \E S \in DashboardLists : EditList(S)
    \/ SyncBots \/ SyncStep \/ UpdaterStep \/ HourPasses \/ ListRestart

----------------------------------------------------------------------------

BotRecords ==
    LET P == DOMAIN SlugOf
        A == UNION CrawlerLists \cup AIBots \cup UNION DashboardLists
    IN  [pattern : P, category : {b.category : b \in A}, action : Actions,
         slug : {SlugOf[q] : q \in P} \cup {OldSlugs[q] : q \in P}]
ListsTypeOK ==
    /\ crawlers \in CrawlerLists
    /\ \A w \in {botsWanted, synced} : w.policy \in BotPolicies /\ w.list \in DashboardLists
    /\ botState.downloaded \cup botState.effective \cup botsInUse \subseteq BotRecords
    /\ botState.policy \in BotPolicies /\ botState.known \in BOOLEAN /\ dashboardBots \in BOOLEAN
    /\ feedsIn \subseteq FeedSources
    /\ since \in [Kinds -> 0..RefreshHours]
    /\ \A k \in Kinds : cache[k].age \in 0..RefreshHours /\ requested[k].age \in 0..RefreshHours
    /\ cache["feeds"].items \subseteq FeedSources /\ cache["bots"].items \subseteq BotRecords
    /\ updater.pc \in {"down", "feeds", "bots", "sleep", "reapply", "hand over", "install"}
    /\ syncer.pc \in {"idle", "policy", "reapply", "hand over", "install", "dashboard"}
    /\ hurried \in BOOLEAN /\ behind \subseteq {"overtaken", "handed back", "restarted"}
    /\ listEventsN \in 0..MaxListEvents /\ listFaultsN \in 0..MaxListFaults
    /\ listRestartsN \in 0..MaxListRestarts

\* Whatever the two goroutines did at once, the bots a web server is told to block are
\* those of the last list and the last policy, under the slugs of this version.
Reapplying == "reapply" \in {updater.pc, syncer.pc} \/ syncer.pc = "policy"
PolicyHolds ==
    ~Reapplying => /\ botState.effective = applyBotPolicy(botState.downloaded, botState.policy)
                   /\ botState.known => botState.policy = synced.policy
                   /\ \A b \in botState.downloaded : b.slug = SlugOf[b.pattern]

\* The watcher has the list that is due, unless it was overtaken by an older one, a
\* dashboard that sent its own list has stopped, or the agent has just started.
HandingOver == {updater.pc, syncer.pc} \cap {"hand over", "install", "dashboard"} # {}
ListInUse ==
    ~Reapplying /\ ~HandingOver /\ behind = {} /\ botState.effective # {} => botsInUse = BotsDue

\* What the comment on botState says (botpolicy.go:15-17, the policy "is re-applied
\* whenever either the lists or the policy change"), without the first of these
\* exceptions.  Both goroutines hand over outside the lock what they computed under
\* it: the list computed first may be installed last, and no later sync repeats it.
NeverOvertaken ==
    ~Reapplying /\ ~HandingOver /\ ~dashboardBots /\ behind \cap {"handed back", "restarted"} = {}
    /\ botState.effective # {} => botsInUse = botState.effective

\* A publisher is asked once a day, and once an hour after a failure ("no more than one
\* fetch per hour"); a restart repeats only what failed or could not be saved.
PublishersSpared == ~hurried

\* In the end the bots and the feeds in use are those that are published, with the
\* actions the dashboard asks for.
ListsUpToDate ==
    /\ botsInUse = IF botsWanted.list # {} THEN botsWanted.list
                   ELSE applyBotPolicy(MergeBots(ParseCrawlerUserAgents, ParseAIRobots),
                                       botsWanted.policy)
    /\ feedsIn = FeedSources
=============================================================================
