--------------------------- MODULE AddressRanges ----------------------------
(* Countries: first the database, then the networks computed from it.       *)
(* The two parts share no state.                                            *)
(*                                                                          *)
(* The country database (internal/geoip/update.go, geoip.go,                *)
(* cmd/infrafence-agent/geoipdb.go): downloaded from the dashboard while a  *)
(* country is blocked, at most once a day, verified, put in the place of    *)
(* the old file and then in use.  A database is its version, larger ones    *)
(* newer; a request lasts less than an hour, which is the unit of time.     *)
(* A definition whose name begins with Mut is another one with a plausible  *)
(* mistake; nothing but the check of the properties uses it.                *)
EXTENDS Integers, Sequences, FiniteSets, SequencesExt

CONSTANTS
    RefreshEvery,   \* hours between two checks that worked, and the longest wait
    Editions,       \* bound: versions of the database
    LegacyVersion,  \* the database an older install left, 0: none
    MaxTroubles     \* bound: failed requests, damaged files, restarts, together

ASSUME RefreshAssumption == RefreshEvery \in Nat \ {0}

VARIABLES
    offered,   \* the version the dashboard has, 0: none
    country,   \* a country is blocked, for the dashboard
    file,      \* the file at DefaultPath: its version (0: none, -1: damaged)
               \* and the hours since it was written or confirmed
    inUse,     \* the database lookups use: its version, read from DefaultPath
    want, wake,\* Updater.want, and the token of the channel
    tick,      \* the hourly ticker has fired
    lastCheck, \* hours since the last check that worked (RefreshEvery: that
               \* many or more; Never)
    nextTry,   \* hours until the next attempt after failures
    failures,
    check,     \* the check that runs: its step, tag and the body it received
    parts,     \* temporary files of downloads
    asking,    \* history: hours since the last request of this process, and how
               \* many must pass before the next
    troublesLeft       \* the troubles the bound leaves

databaseVars == <<offered, country, file, inUse, want, wake, tick, lastCheck, nextTry,
                  failures, check, parts, asking, troublesLeft>>

NotYet == RefreshEvery + 1
Aged(n) == IF n < RefreshEvery THEN n + 1 ELSE n
Least(a, b) == IF a < b THEN a ELSE b
Trouble == troublesLeft > 0 /\ troublesLeft' = troublesLeft - 1

NoCheck == [at |-> "idle", tag |-> 0, body |-> 0]
Free == [hours |-> 0, need |-> 0]

\* New: the file at DefaultPath, else the one of an older install.  A damaged
\* file is not used.
Opened(f) ==
    IF f.version > 0 THEN [version |-> f.version, ours |-> TRUE]
    ELSE [version |-> LegacyVersion, ours |-> FALSE]

DatabaseInit ==
    /\ offered \in {0, 1} /\ country \in BOOLEAN
    /\ file \in {[version |-> 0, age |-> 0]} \cup [version : {-1, 1}, age : {0, RefreshEvery}]
    /\ inUse = Opened(file)
    /\ want = FALSE /\ wake = FALSE /\ tick = FALSE
    /\ lastCheck = (IF inUse.ours THEN file.age ELSE NotYet)
    /\ nextTry = 0 /\ failures = 0
    /\ check = NoCheck /\ parts = 0 /\ asking = Free
    /\ troublesLeft = MaxTroubles

----------------------------------------------------------------------------
(* The updater.                                                             *)

\* Want, called by each sync.
Want ==
    /\ want' = country /\ wake' = (wake \/ country)
    /\ <<want', wake'>> # <<want, wake>>
    /\ UNCHANGED <<offered, country, file, inUse, tick, lastCheck, nextTry, failures, check,
                   parts, asking, troublesLeft>>

DueNow ==
    /\ want /\ nextTry = 0
    /\ ~inUse.ours \/ lastCheck >= RefreshEvery

\* Run takes the token or the tick; Check sends the tag of the file in use,
\* and opens a temporary file for the answer.
LookUp(hourly) ==
    /\ check.at = "idle"
    /\ IF hourly THEN tick /\ tick' = FALSE /\ UNCHANGED wake
                 ELSE wake /\ wake' = FALSE /\ UNCHANGED tick
    /\ IF DueNow
       THEN /\ check' = [at |-> "asked", tag |-> IF inUse.ours THEN file.version ELSE 0, body |-> 0]
            /\ parts' = parts + 1
            /\ asking' = [asking EXCEPT !.hours = 0]
       ELSE UNCHANGED <<check, parts, asking>>
    /\ UNCHANGED <<offered, country, file, inUse, want, lastCheck, nextTry, failures, troublesLeft>>

\* A failure keeps what is in use and waits: an hour, doubled for each, up to a
\* day, or what the dashboard asks for if that is longer.
Doubled == [n \in 0..5 |-> 2 ^ n]
Wait(n, asked) ==
    LET w == Least(Doubled[Least(n - 1, 5)], RefreshEvery)
    IN  IF asked > w THEN asked ELSE w

Failed(asked) ==
    /\ failures' = Least(failures + 1, 6)
    /\ nextTry' = Wait(failures + 1, asked)
    /\ asking' = [asking EXCEPT !.need = Least(2 ^ failures, RefreshEvery)]
    /\ check' = NoCheck /\ parts' = parts - 1
    /\ UNCHANGED <<file, inUse, lastCheck>>

Worked ==
    /\ failures' = 0 /\ nextTry' = 0 /\ lastCheck' = 0
    /\ asking' = [asking EXCEPT !.need = RefreshEvery]
    /\ check' = NoCheck

\* 304: the file in use is current.  Without a tag it answers nothing.
Confirmed ==
    /\ check.tag # 0 /\ check.tag = offered
    /\ file' = [file EXCEPT !.age = 0]
    /\ Worked /\ parts' = parts - 1 /\ UNCHANGED inUse

\* The answer: a failure, a 304, or a file.  A file that does not verify (not a
\* country database, cut short, corrupt) is refused.
Answer ==
    /\ check.at = "asked"
    /\ \/ /\ Confirmed /\ UNCHANGED troublesLeft
       \/ /\ offered > 0 /\ offered # check.tag
          /\ check' = [check EXCEPT !.at = "verified", !.body = offered]
          /\ UNCHANGED <<file, inUse, lastCheck, nextTry, failures, parts, asking, troublesLeft>>
       \/ /\ offered = 0 /\ Failed(0) /\ UNCHANGED troublesLeft
       \/ /\ Trouble /\ \E asked \in {0, RefreshEvery} : Failed(asked)
    /\ UNCHANGED <<offered, country, want, wake, tick>>

\* The dashboard answers 304 to a request without a tag.
AnswerOdd ==
    /\ check.at = "asked" /\ check.tag = 0 /\ Trouble
    /\ Confirmed \/ Failed(0)
    /\ UNCHANGED <<offered, country, want, wake, tick>>

\* The temporary file takes the place of the old one, then its database the
\* place of the one in use; onSwap has the country sets loaded from it.
Install ==
    /\ check.at = "verified"
    /\ \/ /\ file' = [version |-> check.body, age |-> 0] /\ parts' = parts - 1
          /\ check' = [check EXCEPT !.at = "installed"]
          /\ UNCHANGED <<inUse, lastCheck, nextTry, failures, asking, troublesLeft>>
       \/ Trouble /\ Failed(0)
    /\ UNCHANGED <<offered, country, want, wake, tick>>

Replace ==
    /\ check.at = "installed"
    /\ inUse' = [version |-> check.body, ours |-> TRUE]
    /\ Worked
    /\ UNCHANGED <<offered, country, file, want, wake, tick, parts, troublesLeft>>

----------------------------------------------------------------------------
(* The world.                                                               *)

\* The hour is handled before the next one is over.
Hour ==
    /\ ~tick /\ check.at = "idle"
    /\ tick' = TRUE
    /\ lastCheck' = (IF lastCheck = NotYet THEN NotYet ELSE Aged(lastCheck))
    /\ nextTry' = (IF nextTry = 0 THEN 0 ELSE nextTry - 1)
    /\ file' = [file EXCEPT !.age = Aged(@)]
    /\ asking' = [asking EXCEPT !.hours = Aged(@)]
    /\ UNCHANGED <<offered, country, inUse, want, wake, failures, check, parts, troublesLeft>>

AskOffer(c) ==
    /\ c # country /\ Trouble
    /\ country' = c
    /\ UNCHANGED <<offered, file, inUse, want, wake, tick, lastCheck, nextTry, failures, check,
                   parts, asking>>

Edition ==
    /\ offered < Editions /\ check.at \in {"idle", "installed"}
    /\ offered' = offered + 1
    /\ UNCHANGED <<country, file, inUse, want, wake, tick, lastCheck, nextTry, failures, check,
                   parts, asking, troublesLeft>>

\* The disk spoils the file.
Damage ==
    /\ file.version > 0 /\ check.at = "idle" /\ Trouble
    /\ file' = [file EXCEPT !.version = -1]
    /\ UNCHANGED <<offered, country, inUse, want, wake, tick, lastCheck, nextTry, failures,
                   check, parts, asking>>

\* NewUpdater removes what a download that was cut off left behind.
MutSwept == parts' = parts
Swept == parts' = 0

\* The agent dies and starts again: New and NewUpdater.
Restarted ==
    /\ Trouble
    /\ inUse' = Opened(file)
    /\ lastCheck' = (IF inUse'.ours THEN file.age ELSE NotYet)
    /\ Swept
    /\ want' = FALSE /\ wake' = FALSE /\ tick' = FALSE /\ nextTry' = 0 /\ failures' = 0
    /\ check' = NoCheck /\ asking' = Free
    /\ UNCHANGED <<offered, country, file>>

CheckStep == Answer \/ Install \/ Replace

DatabaseNext ==
    \/ Want \/ (\E hourly \in BOOLEAN : LookUp(hourly)) \/ CheckStep \/ AnswerOdd
    \/ Hour \/ (\E c \in BOOLEAN : AskOffer(c)) \/ Edition \/ Damage \/ Restarted

DatabaseSpec == DatabaseInit /\ [][DatabaseNext]_databaseVars

\* Syncs go on; the select of the updater leaves neither the token nor the tick
\* behind; a request ends (downloadTimeout); time passes.
DatabaseFairness ==
    /\ WF_databaseVars(Want) /\ WF_databaseVars(LookUp(TRUE)) /\ WF_databaseVars(LookUp(FALSE))
    /\ WF_databaseVars(CheckStep) /\ WF_databaseVars(Hour)
DatabaseLive == DatabaseSpec /\ DatabaseFairness

----------------------------------------------------------------------------

\* The variables keep their types; the temporary file there is, if any, is that
\* of the download that runs, over crashes too.
DatabaseTypeOK ==
    /\ offered \in 0..Editions /\ country \in BOOLEAN
    /\ file \in [version : -1..Editions, age : 0..RefreshEvery]
    /\ inUse \in [version : 0..Editions, ours : BOOLEAN]
    /\ want \in BOOLEAN /\ wake \in BOOLEAN /\ tick \in BOOLEAN
    /\ lastCheck \in 0..NotYet /\ nextTry \in 0..RefreshEvery /\ failures \in 0..6
    /\ check \in [at : {"idle", "asked", "verified", "installed"}, tag : -1..Editions,
                  body : 0..Editions]
    /\ parts = (IF check.at \in {"asked", "verified"} THEN 1 ELSE 0)

\* What is in use is never exchanged for something older, by a failed download,
\* a restart or both, unless the file itself was spoiled.
NeverOlder == [][inUse'.version >= inUse.version \/ file.version = -1]_databaseVars

\* The dashboard is asked at most once a day while that works; after n failures
\* in a row at the earliest after 2^(n-1) hours, however many syncs ask for the
\* database (update.go:24).
AskedInTime ==
    [][check'.at = "asked" /\ check.at = "idle" => asking.hours >= asking.need]_databaseVars

\* While a country is blocked, the dashboard's database comes to be in use.
DatabaseUpToDate == country /\ offered # 0 => inUse.version = offered
DatabaseFollows == <>[]DatabaseUpToDate

----------------------------------------------------------------------------

(* The networks of the kernel's sets, as computed from a country database   *)
(* and from the threat feeds (internal/geoip/geoip.go mergeRanges and       *)
(* rangesToCIDRs, internal/firewall/geoblock.go excludeAddrs,               *)
(* threatset.go filterThreatNets), on addresses of Bits bits.  A run takes  *)
(* one input and computes: the networks of a country, then those without    *)
(* the exempt addresses; and of a threat feed, the networks that are kept.  *)
(* A definition whose name begins with Mut is another one with a plausible  *)
(* mistake; nothing but the check of the properties uses it.                *)

CONSTANTS
    Bits,       \* the width of an address
    Limit,      \* MaxCIDRs: more networks refuse the database
    MinPrefix   \* minThreatPrefix

ASSUME BitsAssumption == Bits \in Nat \ {0} /\ Limit \in Nat /\ MinPrefix \in 0..Bits

VARIABLES
    input,     \* ranges of a country, exempt addresses; feed entries, keep entries
    networks,  \* what ExtractCIDRs gives: the networks, or refused
    loaded,    \* the networks without the exempt addresses
    keptFeed       \* the entries of the feed that are kept
networkVars == <<input, networks, loaded, keptFeed>>

NetAddresses == 0..(2 ^ Bits - 1)
\* A network is its first address and the length of its prefix.
Block(base, ones) == [base |-> base, ones |-> ones]
Blocks == UNION {{Block(b, n) : b \in {a \in NetAddresses : a % 2 ^ (Bits - n) = 0}} : n \in 0..Bits}
InNet(a, b) == a >= b.base /\ a < b.base + 2 ^ (Bits - b.ones)
Holds(b) == {a \in NetAddresses : InNet(a, b)}
Ranges == {r \in [first : NetAddresses, last : NetAddresses] : r.first <= r.last}

----------------------------------------------------------------------------

\* mergeRanges: in order of the first address, those that overlap or touch the
\* one before are joined to it.
MutTouches(r, o) == r.first <= o.last + 2
Touches(r, o) == r.first <= o.last + 1
Later(a, b) == IF a > b THEN a ELSE b
MergeOne(out, r) ==
    IF out # <<>> /\ Touches(r, Last(out))
    THEN [out EXCEPT ![Len(out)].last = Later(@, r.last)]
    ELSE Append(out, r)
StartOf(r, q) == r.first < q.first \/ (r.first = q.first /\ r.last < q.last)
MergeRanges(S) ==
    FoldLeft(MergeOne, <<>>, SetToSortSeq(S, StartOf))

\* rangesToCIDRs: from the first address on, the largest block aligned there
\* that ends within the range.
Largest(cur, end) ==
    CHOOSE n \in 0..Bits :
        /\ cur % 2 ^ n = 0 /\ cur + 2 ^ n - 1 <= end
        /\ \A m \in (n + 1)..Bits : cur % 2 ^ m # 0 \/ cur + 2 ^ m - 1 > end
Covered(r) ==
    LET from[cur \in r.first..(r.last + 1)] ==
          IF cur > r.last THEN <<>>
          ELSE LET n == Largest(cur, r.last)
               IN  <<Block(cur, Bits - n)>> \o from[cur + 2 ^ n]
    IN  from[r.first]
RangesToCIDRs(ranges) == FoldLeft(LAMBDA out, r : out \o Covered(r), <<>>, ranges)

\* appendWithout: a network that holds an exempt address is split in two, and
\* again; the address itself goes.  excludeAddrs does so for each network.
AppendWithout(b, ex) ==
    LET halves[n \in 0..Bits] ==
          \* the networks of prefix n that the splitting of b reaches, left to right
          IF n = b.ones THEN <<b>>
          ELSE LET split == SelectSeq(halves[n - 1], LAMBDA p : \E a \in ex : InNet(a, p))
               IN  FlattenSeq([i \in DOMAIN split |->
                     <<Block(split[i].base, n), Block(split[i].base + 2 ^ (Bits - n), n)>>])
    IN  UNION {{p \in ToSet(halves[n]) : \A a \in ex : ~InNet(a, p)} : n \in b.ones..Bits}
ExcludeAddrs(nets, ex) == UNION {AppendWithout(nets[i], ex) : i \in DOMAIN nets}

\* filterThreatNets: nothing too broad, and nothing that covers, or lies in, an
\* entry of the whitelist or an address with a login (coversSafeIP).
CoversSafe(n, keep) == \E k \in keep : InNet(k.base, n) \/ InNet(n.base, k)
FilterThreatNets(feed, keep) == {n \in feed : n.ones >= MinPrefix /\ ~CoversSafe(n, keep)}

----------------------------------------------------------------------------

\* One of the two computations, on any two ranges and one login, or on any two
\* entries of a feed and one of the whitelist.
NetworksInit ==
    /\ \/ input \in [ranges : {{r, q} : r, q \in Ranges}, ex : {{a} : a \in NetAddresses} \cup {{}},
                     feed : {{}}, keep : {{}}]
       \/ input \in [ranges : {{}}, ex : {{}},
                     feed : {{n, m} : n, m \in Blocks}, keep : {{n} : n \in Blocks}]
    /\ networks = [ok |-> FALSE, list |-> <<>>] /\ loaded = {} /\ keptFeed = {}

Extract ==
    /\ input.ranges # {} /\ networks.list = <<>>
    /\ LET list == RangesToCIDRs(MergeRanges(input.ranges))
       IN  networks' = [ok |-> Len(list) <= Limit, list |-> list]
    /\ UNCHANGED <<input, loaded, keptFeed>>

Load ==
    /\ networks.ok /\ loaded = {}
    /\ loaded' = ExcludeAddrs(networks.list, input.ex)
    /\ UNCHANGED <<input, networks, keptFeed>>

FilterFeed ==
    /\ input.feed # {} /\ keptFeed = {}
    /\ keptFeed' = FilterThreatNets(input.feed, input.keep)
    /\ UNCHANGED <<input, networks, loaded>>

NetworksNext == Extract \/ Load \/ FilterFeed
NetworksSpec == NetworksInit /\ [][NetworksNext]_networkVars

----------------------------------------------------------------------------

\* The variables keep their types.
NetworksTypeOK ==
    /\ input.ranges \subseteq Ranges /\ input.ex \subseteq NetAddresses
    /\ networks.ok \in BOOLEAN /\ ToSet(networks.list) \subseteq Blocks
    /\ loaded \subseteq Blocks /\ keptFeed \subseteq Blocks

\* The fewest networks that hold exactly the addresses of S.
Fewest(S) ==
    LET inside == {b \in Blocks : Holds(b) \subseteq S}
    IN  {b \in inside : \A c \in inside : Holds(b) \subseteq Holds(c) => c = b}

\* A country's set holds every address of the country and no other, in the
\* fewest networks, and no address that logged in (ipset would refuse a set
\* that is too large, and a set with one network too many blocks a neighbour).
SetsAreExact ==
    LET all == UNION {r.first..r.last : r \in input.ranges}
    IN  /\ networks.list # <<>> => /\ ToSet(networks.list) = Fewest(all)
                                   /\ Len(networks.list) = Cardinality(Fewest(all))
        /\ loaded # {} => loaded = Fewest(all \ input.ex)

\* No network kept of a feed shares an address with the whitelist.
FeedsSpareKept == \A n \in keptFeed, k \in input.keep : Holds(n) \cap Holds(k) = {}
=============================================================================
