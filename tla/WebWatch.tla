------------------------------ MODULE WebWatch ------------------------------
(***************************************************************************)
(* The watcher of the web servers' access logs                             *)
(* (internal/watcher/weblog.go): a request that matches a pattern adds to  *)
(* the score of its address (botscore.go), a score over a threshold asks   *)
(* for a ban; a visitor that claims to be a crawler is looked up in the    *)
(* DNS (fcrdns.go).  Every log has a goroutine; addScore gives w.mu up     *)
(* while it calls the scorer, the DNS answers in goroutines of their own,  *)
(* and every ban is asked for in one (asked).                              *)
(*                                                                         *)
(* One tick is the five minutes of CleanExpiredScores.  What a request     *)
(* looks like is abstracted to the rule it matches first; the reports of   *)
(* detections that ban nobody are left out.                                *)
(*                                                                         *)
(* A definition whose name begins with Mut is the one after it with a      *)
(* mistake planted, to see a property fail.                                *)
(***************************************************************************)
EXTENDS Integers, Sequences, FiniteSets

CONSTANTS
    Visitors, Crawlers, \* addresses; those the DNS confirms as a search engine's
    Logs, Types, Points, \* the points of a type of attack
    BlockAt, BlacklistAt, Decay, OldAge, MaxScored, LoginTries, MaxLookups,
    DetectOnly,          \* the types the first sync sets to detect-only
    Changeable,          \* which settings later syncs change
    MaxRequests, MaxSettings \* bounds

ASSUME WebAssumption ==
    /\ IsFiniteSet(Visitors) /\ Crawlers \subseteq Visitors
    /\ Visitors \cap Logs = {}
    /\ {"login", "spoofed"} \subseteq Types /\ {"bot", "other bot", "country"} \cap Types = {}
    /\ Points \in [Types -> Nat]
    /\ {BlockAt, BlacklistAt, Decay, OldAge, MaxScored, LoginTries, MaxLookups}
         \subseteq Nat \ {0}
    /\ BlockAt < BlacklistAt /\ DetectOnly \subseteq Types
ASSUME WebBounds == {MaxRequests, MaxSettings} \subseteq Nat

VARIABLES
    settings,       \* what the dashboard has set
    score, scoreAge, \* the scorer: points and ticks since lastUpdate
    flagged,        \* banned: addresses no line of is looked at
    scored,         \* scoredActions
    recent,         \* recentScores within two seconds
    tries,          \* address -> the ages of its failed logins
    adding,         \* goroutine -> where it is in addScore
    verdict, lookup, \* the cache of the DNS answers, the lookups that run
    cleaner,        \* CleanExpiredScores: "due", "scores", "done"
    asked,          \* the goroutines begun with onBan or onScoredBan
    asks,           \* history: what its score asked for since the address was last cleared
    flagAge,        \* history: ticks since it was flagged for its score
    requests, settingsN

webVars == <<settings, score, scoreAge, flagged, scored, recent, tries, adding, verdict,
             lookup, cleaner, asked, asks, flagAge, requests, settingsN>>

Actions == {"none", "block", "blacklist"}
AtEase  == [pc |-> "idle"]
NoLookup == [rule |-> "none", answer |-> "none"]
Rank(a) == CASE a = "none" -> 0 [] a = "block" -> 1 [] OTHER -> 2

\* After the first sync.
WebInit ==
    /\ settings = [monitor |-> FALSE, enabled |-> Types, detectOnly |-> DetectOnly, bot |-> "block",
                   spared |-> {}, foreign |-> {}]
    /\ score = [v \in Visitors |-> 0] /\ scoreAge = [v \in Visitors |-> 0]
    /\ flagged = {} /\ scored = [v \in Visitors |-> "none"] /\ recent = {}
    /\ tries = [v \in Visitors |-> <<>>]
    /\ adding = [g \in Logs \cup Visitors |-> AtEase]
    /\ verdict = [v \in Visitors |-> "none"] /\ lookup = [v \in Visitors |-> NoLookup]
    /\ cleaner = "done" /\ asked = {} /\ asks = [v \in Visitors |-> <<>>]
    /\ flagAge = [v \in Visitors |-> 0] /\ requests = 0 /\ settingsN = 0

----------------------------------------------------------------------------
(* The scorer, under its own lock.                                         *)

Decayed(v) == LET s == score[v] - Decay * scoreAge[v] IN IF s < 0 THEN 0 ELSE s

\* AddScore
Added(v, t) == Decayed(v) + Points[t]

ActionFor(s) == CASE s >= BlacklistAt -> "blacklist"
                  [] s >= BlockAt /\ s < BlacklistAt -> "block"
                  [] OTHER -> "none"

----------------------------------------------------------------------------
(* addScore                                                                *)

\* isDetectOnly, which nothing asks.
IsDetectOnly(t) == settings.monitor \/ t \in settings.detectOnly

\* Up to w.mu.Unlock: g goes on to the scorer, unless the type has no points
\* or the same was scored less than two seconds ago (one request in two logs).
BeginScore(g, v, t) ==
    IF Points[t] = 0 \/ <<v, t>> \in recent
    THEN UNCHANGED <<recent, adding>>
    ELSE /\ recent' = recent \cup {<<v, t>>}
         /\ adding' = [adding EXCEPT ![g] = [pc |-> "scorer", ip |-> v, type |-> t]]

CallScorer(g) ==
    /\ adding[g].pc = "scorer"
    /\ LET v == adding[g].ip
           s == Added(v, adding[g].type)
       IN /\ score' = [score EXCEPT ![v] = s] /\ scoreAge' = [scoreAge EXCEPT ![v] = 0]
          /\ adding' = [adding EXCEPT ![g] = [pc |-> "decide", ip |-> v, type |-> @.type,
                                              action |-> ActionFor(s), before |-> scored[v]]]
    /\ UNCHANGED <<settings, flagged, scored, recent, tries, verdict, lookup, cleaner, asked,
                   asks, flagAge, requests, settingsN>>

AskBan(v, why, action) ==
    asked' = asked \cup {[ip |-> v, why |-> why, action |-> action]}

\* After w.mu.Lock: only escalate.
Decide(g) ==
    /\ adding[g].pc = "decide" /\ adding' = [adding EXCEPT ![g] = AtEase]
    /\ LET a == adding[g]
           v == a.ip
       IN IF ~settings.monitor /\ Rank(a.action) > Rank(scored[v])
          THEN /\ scored' = [scored EXCEPT ![v] = a.action] /\ flagged' = flagged \cup {v}
               /\ AskBan(v, a.type, a.action) /\ flagAge' = [flagAge EXCEPT ![v] = 1]
               /\ asks' = [asks EXCEPT ![v] = Append(@, a.action)]
          ELSE UNCHANGED <<scored, flagged, asked, asks, flagAge>>
    /\ UNCHANGED <<settings, score, scoreAge, recent, tries, verdict, lookup, cleaner,
                   requests, settingsN>>

----------------------------------------------------------------------------
(* processLine, under w.mu: the first lines, then the rule that matches.   *)

Looked(l, v) ==
    /\ adding[l].pc = "idle" /\ v \notin flagged \cup settings.spared
    /\ requests < MaxRequests /\ requests' = requests + 1
    /\ UNCHANGED <<settings, cleaner, settingsN>>

\* An address of a blocked country, whatever it asks for.
Foreign(l, v) ==
    /\ Looked(l, v) /\ v \in settings.foreign
    /\ flagged' = flagged \cup {v} /\ AskBan(v, "country", "block")
    /\ UNCHANGED <<asks, score, scoreAge, scored, recent, tries, adding, verdict, lookup, flagAge>>

Looks(l, v) == Looked(l, v) /\ v \notin settings.foreign

\* A built-in pattern, a virtual patch, a scanner's agent, a header.
Attack(l, v, t) ==
    /\ Looks(l, v) /\ t \in settings.enabled \ {"login", "spoofed"}
    /\ BeginScore(l, v, t)
    /\ UNCHANGED <<score, scoreAge, flagged, scored, tries, verdict, lookup, asked, asks, flagAge>>

\* checkThresholdOnly; a tick is longer than the window of every rule.
Failures(v) == Append(SelectSeq(tries[v], LAMBDA a : a = 0), 0)

\* A failed login: the threshold rules.
FailedLogin(l, v) ==
    /\ Looks(l, v) /\ "login" \in settings.enabled
    /\ IF Len(Failures(v)) >= LoginTries
       THEN tries' = [tries EXCEPT ![v] = <<>>] /\ BeginScore(l, v, "login")
       ELSE tries' = [tries EXCEPT ![v] = Failures(v)] /\ UNCHANGED <<recent, adding>>
    /\ UNCHANGED <<score, scoreAge, flagged, scored, verdict, lookup, asked, asks, flagAge>>

\* A bot no search engine runs.
OtherBot(l, v) ==
    /\ Looks(l, v) /\ settings.bot = "block" /\ ~settings.monitor
    /\ flagged' = flagged \cup {v} /\ AskBan(v, "other bot", "block")
    /\ UNCHANGED <<asks, score, scoreAge, scored, recent, tries, adding, verdict, lookup, flagAge>>

\* blockSearchEngineBot and allowVerifiableBot, by the goroutine g.
MutWithVerdict(g, v, rule, d) ==
    IF d = "real" \/ v \in flagged THEN UNCHANGED <<flagged, asked, recent, adding>>
    ELSE IF rule = "block"
    THEN flagged' = flagged \cup {v} /\ AskBan(v, "bot", "block") /\ UNCHANGED <<recent, adding>>
    ELSE BeginScore(g, v, "spoofed") /\ UNCHANGED <<flagged, asked>>

WithVerdict(g, v, rule, d) ==
    IF d # "impostor" \/ v \in flagged THEN UNCHANGED <<flagged, asked, recent, adding>>
    ELSE IF rule = "block"
    THEN flagged' = flagged \cup {v} /\ AskBan(v, "bot", "block") /\ UNCHANGED <<recent, adding>>
    ELSE BeginScore(g, v, "spoofed") /\ UNCHANGED <<flagged, asked>>

\* withBotVerdict: with what the cache says, or a lookup is begun.
ClaimsCrawler(l, v) ==
    /\ Looks(l, v) /\ (settings.bot = "block" => ~settings.monitor)
    /\ IF verdict[v] # "none" THEN WithVerdict(l, v, settings.bot, verdict[v]) /\ UNCHANGED lookup
       ELSE /\ lookup' = IF lookup[v] = NoLookup
                            /\ Cardinality({u \in Visitors : lookup[u] # NoLookup}) < MaxLookups
                         THEN [lookup EXCEPT ![v].rule = settings.bot] ELSE lookup
            /\ UNCHANGED <<flagged, asked, recent, adding>>
    /\ UNCHANGED <<score, scoreAge, scored, tries, verdict, asks, flagAge>>

\* verifyFcrdns and storeResult: the DNS knows, or does not answer.
DNSAnswers(v) ==
    /\ lookup[v].rule # "none" /\ lookup[v].answer = "none"
    /\ \E d \in {IF v \in Crawlers THEN "real" ELSE "impostor", "undecided"} :
         /\ verdict' = [verdict EXCEPT ![v] = d]
         /\ lookup' = [lookup EXCEPT ![v].answer = d]
    /\ UNCHANGED <<settings, score, scoreAge, flagged, scored, recent, tries, adding, cleaner,
                   asked, asks, flagAge, requests, settingsN>>

\* The goroutine of the lookup takes w.mu.
ActOnVerdict(v) ==
    /\ lookup[v].answer # "none" /\ adding[v].pc = "idle"
    /\ WithVerdict(v, v, lookup[v].rule, lookup[v].answer)
    /\ lookup' = [lookup EXCEPT ![v] = NoLookup]
    /\ UNCHANGED <<settings, score, scoreAge, scored, tries, verdict, cleaner, asks, flagAge,
                   requests, settingsN>>

----------------------------------------------------------------------------
(* CleanExpiredScores: DecayAndCleanup, then the addresses without a score *)
(* are looked at again.  lastUpdate stays, so that a later pass takes what *)
(* an earlier one took once more.                                          *)

\* Over the cap half of the entries go, whichever come first.
Evicted(s) ==
    LET held == {v \in Visitors : s[v] > 0}
    IN IF Cardinality(held) <= MaxScored THEN {{}}
       ELSE {e \in SUBSET held : Cardinality(e) = Cardinality(held) \div 2}

DecayAndCleanup ==
    /\ cleaner = "due" /\ cleaner' = "scores"
    /\ LET left == [v \in Visitors |-> IF scoreAge[v] > OldAge THEN 0 ELSE Decayed(v)]
       IN \E e \in Evicted(left) :
            score' = [v \in Visitors |-> IF v \in e THEN 0 ELSE left[v]]
    /\ scoreAge' = [v \in Visitors |-> IF score'[v] = 0 THEN 0 ELSE scoreAge[v]]
    /\ UNCHANGED <<settings, flagged, scored, recent, tries, adding, verdict, lookup, asked,
                   asks, flagAge, requests, settingsN>>

ClearFlags ==
    /\ cleaner = "scores" /\ cleaner' = "done"
    /\ LET cleared == {v \in Visitors : scored[v] # "none" /\ Decayed(v) = 0}
       IN /\ scored' = [v \in Visitors |-> IF v \in cleared THEN "none" ELSE scored[v]]
          /\ flagged' = flagged \ cleared
          /\ asks' = [v \in Visitors |-> IF v \in cleared THEN <<>> ELSE asks[v]]
          /\ flagAge' = [v \in Visitors |-> IF v \in cleared THEN 0 ELSE flagAge[v]]
    /\ UNCHANGED <<settings, score, scoreAge, recent, tries, adding, verdict, lookup, asked,
                   requests, settingsN>>

\* Five minutes later; the cleaner runs once in them, the goroutines end.
FiveMinutes ==
    /\ cleaner = "done" /\ cleaner' = "due"
    /\ \A g \in DOMAIN adding : adding[g].pc = "idle"
    /\ \A v \in Visitors : lookup[v] = NoLookup
    /\ scoreAge' = [v \in Visitors |-> IF score[v] = 0 THEN 0
                                       ELSE IF scoreAge[v] > OldAge THEN scoreAge[v]
                                       ELSE scoreAge[v] + 1]
    /\ recent' = {} /\ tries' = [v \in Visitors |-> <<>>]
    /\ verdict' = [v \in Visitors |-> IF verdict[v] = "undecided" THEN "none" ELSE verdict[v]]
    /\ flagAge' = [v \in Visitors |-> IF v \in flagged /\ flagAge[v] > 0 THEN flagAge[v] + 1
                                      ELSE 0]
    /\ UNCHANGED <<settings, score, flagged, scored, adding, lookup, asked, asks, requests,
                   settingsN>>

TwoSeconds ==
    /\ recent # {} /\ recent' = {}
    /\ UNCHANGED <<settings, score, scoreAge, flagged, scored, tries, adding, verdict, lookup,
                   cleaner, asked, asks, flagAge, requests, settingsN>>

\* A sync: SetMonitorMode, UpdateWAFConfig, UpdateBotFingerprints,
\* UpdateWhitelist, the countries of checkIP.
NewSettings ==
    /\ settingsN < MaxSettings /\ settingsN' = settingsN + 1
    /\ \E t \in Types, v \in Visitors :
         \/ "monitor" \in Changeable /\ settings' = [settings EXCEPT !.monitor = ~@]
         \/ "types" \in Changeable /\ settings' \in {[settings EXCEPT !.enabled = @ \ {t}],
                                                    [settings EXCEPT !.detectOnly = @ \cup {t}]}
         \/ "bot" \in Changeable /\ settings' = [settings EXCEPT !.bot = "allow"]
         \/ "addresses" \in Changeable /\ settings' \in {[settings EXCEPT !.spared = @ \cup {v}],
                                                        [settings EXCEPT !.foreign = @ \cup {v}]}
    /\ UNCHANGED <<score, scoreAge, flagged, scored, recent, tries, adding, verdict, lookup,
                   cleaner, asked, asks, flagAge, requests>>

WebNext ==
    \/ \E l \in Logs, v \in Visitors :
         \/ Foreign(l, v) \/ FailedLogin(l, v) \/ OtherBot(l, v) \/ ClaimsCrawler(l, v)
         \/ \E t \in Types : Attack(l, v, t)
    \/ \E g \in Logs \cup Visitors : CallScorer(g) \/ Decide(g)
    \/ \E v \in Visitors : DNSAnswers(v) \/ ActOnVerdict(v)
    \/ DecayAndCleanup \/ ClearFlags \/ FiveMinutes \/ TwoSeconds
    \/ NewSettings

WebSpec == WebInit /\ [][WebNext]_webVars

----------------------------------------------------------------------------

WebTypeOK ==
    /\ settings \in [monitor : BOOLEAN, enabled : SUBSET Types, detectOnly : SUBSET Types,
                     bot : {"block", "allow"}, spared : SUBSET Visitors, foreign : SUBSET Visitors]
    /\ score \in [Visitors -> Nat] /\ scoreAge \in [Visitors -> 0..(OldAge + 1)]
    /\ flagged \subseteq Visitors /\ scored \in [Visitors -> Actions]
    /\ recent \subseteq Visitors \X Types /\ cleaner \in {"due", "scores", "done"}
    /\ \A g \in DOMAIN adding : adding[g].pc \in {"idle", "scorer", "decide"}
    /\ \A v \in Visitors : scored[v] # "none" => v \in flagged

\* A search engine the DNS confirms is never banned for what it says it is,
\* whatever the DNS failed to answer before and whichever rule was in force
\* when the lookup began.
CrawlersSpared == \A b \in asked : b.why = "bot" => b.ip \in Visitors \ Crawlers

\* Goroutines of several logs that score one address at the same time ask for
\* each ban of it once, and for a longer one only after the shorter.
AsksOnlyEscalate ==
    \A v \in Visitors : \A i, j \in DOMAIN asks[v] :
        i < j => Rank(asks[v][i]) < Rank(asks[v][j])

\* An address flagged for its score is looked at again once the score is
\* gone: no later than OldAge and the pass after it.
LookedAtAgain == \A v \in Visitors : flagAge[v] <= OldAge + 2

\* UpdateWAFConfig, SetMonitorMode: a type the dashboard set to detect-only,
\* and monitor mode, ban nobody.
DetectOnlyBansNobody ==
    [][\A b \in asked' \ asked : ~IsDetectOnly(b.why)]_webVars
=============================================================================
