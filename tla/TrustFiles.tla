----------------------------- MODULE TrustFiles -----------------------------
(***************************************************************************)
(* The verification files of the trust badge (cmd/infrafence-agent/        *)
(* trust.go, internal/trust): every sync lists the domains whose badge     *)
(* needs one, each with its token; the agent writes one file per document  *)
(* root with the tokens of its domains, and takes away what is no longer   *)
(* listed.  What it wrote, and what it reported, is in a state file that   *)
(* each sync reads and, at its end, replaces.  The owners of the sites     *)
(* change the same directories meanwhile, and the process may end between  *)
(* any two steps.                                                          *)
(*                                                                         *)
(* A domain that is listed twice, or has no valid name or token, and the   *)
(* limit of the list, are left out.  "no root" stands for the two reasons  *)
(* no_document_root and dns_only.                                          *)
(***************************************************************************)
EXTENDS Integers, FiniteSets

CONSTANTS
    Domains,    \* the domains of the server
    LastSite,   \* the document roots are 1..LastSite, in the order of their paths
    Homes,      \* where a domain may be: [own |-> roots of sites with its name, www |-> of its www. twin]
    MaxTokens,  \* bound: tokens a domain is given
    MaxTrustEvents, MaxTrustCrashes, MaxTrustFaults \* bounds

SiteRoots == 1..LastSite
ASSUME TrustConstants ==
    /\ IsFiniteSet(Domains) /\ LastSite \in Nat
    /\ MaxTokens \in Nat \ {0} /\ {MaxTrustEvents, MaxTrustCrashes, MaxTrustFaults} \subseteq Nat
    /\ \A h \in Homes : DOMAIN h = {"own", "www"} /\ h.own \cup h.www \subseteq SiteRoots

VARIABLES
    trustListed,  \* the dashboard: the token of each domain (0: not listed)
    homes,        \* the document roots that serve each domain
    disk,         \* each document root
    trustOff,     \* protection is switched off
    trustState,   \* the state file: what is in which root, what was reported of each domain
    trustJob,     \* applyTrustTokens
    told,         \* the last report of each domain the dashboard got
    unrecorded,   \* ghost: roots with a file the state file never learnt of
    unsaid,       \* ghost: domains with a report it never learnt of
    retold,       \* ghost: a report was repeated although the state file had it
    harmed,       \* ghost: a file of someone else, there when it was looked at, is gone
    trustEventsN, trustCrashesN, trustFaultsN

trustWorld == <<trustListed, homes, trustOff, trustEventsN>>
trustVars  == <<trustWorld, disk, trustState, trustJob, told, unrecorded, unsaid, retold, harmed,
                trustCrashesN, trustFaultsN>>

NotTold  == [root |-> 0, reason |-> "none"]
Placed(r) == [root |-> r, reason |-> "placed"]
Failed(x) == [root |-> 0, reason |-> x]

NoTokens    == [by |-> "nobody", tokens |-> {}]
Foreign   == [by |-> "owner", tokens |-> {}]
OurFile(T) == [by |-> "agent", tokens |-> T]

\* The empty directory .well-known is removed; one with something in it stays.
Emptied(x) == IF x.wk = "dir" /\ x.file.by = "nobody" /\ ~x.more THEN [x EXCEPT !.wk = "none"] ELSE x

\* A document root: itself, its .well-known, the file, and whether there is more in
\* .well-known.
EmptyRoot == [top |-> "dir", wk |-> "none", file |-> NoTokens, more |-> FALSE]
GoneRoot  == [EmptyRoot EXCEPT !.top = "gone"]

NoRecord == [made |-> FALSE, tokens |-> {}]
NoTrustJob == [pc |-> "idle"]

TrustInit ==
    /\ trustListed = [d \in Domains |-> 1]
    /\ homes \in [Domains -> Homes]
    /\ disk = [r \in SiteRoots |-> EmptyRoot]
    /\ trustOff = FALSE
    /\ trustState = [roots |-> [r \in SiteRoots |-> NoRecord], reported |-> [d \in Domains |-> NotTold]]
    /\ trustJob = NoTrustJob
    /\ told = [d \in Domains |-> NotTold]
    /\ unrecorded = {} /\ unsaid = {} /\ retold = FALSE /\ harmed = FALSE
    /\ trustEventsN = 0 /\ trustCrashesN = 0 /\ trustFaultsN = 0

----------------------------------------------------------------------------
(* The dashboard, the owners of the sites, the switch.                     *)

TrustEvent == trustEventsN < MaxTrustEvents /\ trustEventsN' = trustEventsN + 1
JobFrame   == UNCHANGED <<trustState, trustJob, told, unrecorded, unsaid, retold, harmed, trustCrashesN, trustFaultsN>>

EditTokens(d, n) ==
    /\ TrustEvent /\ n # trustListed[d]
    /\ trustListed' = [trustListed EXCEPT ![d] = n]
    /\ UNCHANGED <<homes, disk, trustOff>> /\ JobFrame

MoveDomain(d, h) ==
    /\ TrustEvent /\ h # homes[d]
    /\ homes' = [homes EXCEPT ![d] = h]
    /\ UNCHANGED <<trustListed, disk, trustOff>> /\ JobFrame

\* The owner of a site removes the root, puts a link in the place of .well-known, or
\* a file of the same name in it, or deletes the file, or keeps something beside it.
OwnerChanges(r) ==
    /\ TrustEvent
    /\ disk' \in {[disk EXCEPT ![r] = x] : x \in
           {GoneRoot, EmptyRoot, [EmptyRoot EXCEPT !.wk = "link"],
            [EmptyRoot EXCEPT !.wk = "dir", !.file = Foreign]}
           \cup (IF disk[r].wk = "dir" THEN {[disk[r] EXCEPT !.more = TRUE], [disk[r] EXCEPT !.file = NoTokens]}
                                       ELSE {})}
    /\ disk' # disk
    /\ UNCHANGED <<trustListed, homes, trustOff>> /\ JobFrame

SwitchTrust ==
    /\ TrustEvent /\ trustOff' = ~trustOff
    /\ UNCHANGED <<trustListed, homes, disk>> /\ JobFrame

----------------------------------------------------------------------------
(* A sync begins (applyTrustTokens).                                       *)

\* The sites the web servers and the panels declare when a sync asks.
detectTrustSites == homes

\* Match: the sites that declare the name itself, else those that declare its www.
\* twin; none if they have different roots.
Match(d) ==
    LET sites == detectTrustSites[d]
        S     == IF sites.own # {} THEN sites.own ELSE sites.www
    IN  IF Cardinality(S) = 1 THEN [root |-> CHOOSE r \in S : TRUE, reason |-> "placed"]
        ELSE Failed(IF S = {} THEN "no root" ELSE "many roots")

ListedNow == {d \in Domains : trustListed[d] # 0}
Want == [r \in SiteRoots |-> {<<d, trustListed[d]>> : d \in {e \in ListedNow : Match(e).root = r}}]

TrustSync ==
    /\ trustJob.pc = "idle" /\ ~trustOff
    /\ \/ ListedNow # {}
       \/ \E r \in SiteRoots : trustState.roots[r] # NoRecord
       \/ \E d \in Domains : trustState.reported[d] # NotTold
    /\ trustJob' = [pc |-> "root", st |-> trustState, want |-> Want, made |-> FALSE, seen |-> "nobody",
                    status |-> [d \in ListedNow |-> Match(d)],
                    todo |-> {r \in SiteRoots : Want[r] # {} \/ trustState.roots[r] # NoRecord}]
    /\ UNCHANGED <<trustWorld, disk, trustState, told, unrecorded, unsaid, retold, harmed, trustCrashesN, trustFaultsN>>

----------------------------------------------------------------------------
(* One root after another, in the order of their paths.                    *)

RootFrame  == UNCHANGED <<trustWorld, trustState, told, unrecorded, unsaid, retold, trustCrashesN>>
TrustFault == trustFaultsN < MaxTrustFaults /\ trustFaultsN' = trustFaultsN + 1
NoFault    == UNCHANGED trustFaultsN

At(r, pc)  == trustJob.pc = pc /\ r \in trustJob.todo /\ \A s \in trustJob.todo : r <= s
DomainsOf(T) == {t[1] : t \in T}
RecordOf(r)  == trustJob.st.roots[r]

\* The root is done with: what is recorded of it, and the result of its domains.
RootDone(r, record, result) ==
    trustJob' = [trustJob EXCEPT !.pc = "root", !.made = FALSE, !.seen = "nobody", !.todo = @ \ {r},
                     !.st.roots[r] = record,
                     !.status = [d \in DOMAIN @ |-> IF d \in DOMAIN result THEN result[d] ELSE @[d]]]

PlaceDone(r, made) ==
    RootDone(r, [made |-> RecordOf(r).made \/ made, tokens |-> trustJob.want[r]],
             [d \in DomainsOf(trustJob.want[r]) |-> Placed(r)])

\* A domain whose file was there before, with this token, is taken to be served still.
PlaceFails(r, reason) ==
    RootDone(r, RecordOf(r),
             [d \in DomainsOf(trustJob.want[r]) |->
                IF /\ {t \in trustJob.want[r] : t[1] = d} \subseteq RecordOf(r).tokens
                   /\ trustJob.st.reported[d] = Placed(r)
                THEN Placed(r) ELSE Failed(reason)])

\* Place: the root and .well-known are opened, which is made if it is not there, and
\* the file is looked at.
PlaceCheck(r) ==
    /\ At(r, "root") /\ trustJob.want[r] # {} /\ RootFrame /\ UNCHANGED harmed
    /\ \/ /\ disk[r].top = "gone" /\ PlaceFails(r, "no root") /\ UNCHANGED disk /\ NoFault
       \/ /\ disk[r].wk = "link" /\ PlaceFails(r, "unsafe") /\ UNCHANGED disk /\ NoFault
       \/ /\ disk[r].top = "dir" /\ TrustFault /\ PlaceFails(r, "write failed") /\ UNCHANGED disk
       \/ /\ disk[r].top = "dir" /\ disk[r].wk # "link" /\ NoFault
          /\ disk' = [disk EXCEPT ![r].wk = "dir"]
          /\ LET made == disk[r].wk = "none"
             IN  CASE disk[r].file = Foreign -> PlaceFails(r, "file exists")
                   [] disk[r].file = OurFile(trustJob.want[r]) -> PlaceDone(r, made)
                   [] OTHER -> trustJob' = [trustJob EXCEPT !.pc = "write", !.made = made,
                                                !.seen = disk[r].file.by]

\* writeAt: a new file is renamed over whatever has the name by now; a .well-known
\* made just now is taken away if that fails.
PlaceWrite(r) ==
    /\ At(r, "write") /\ RootFrame
    /\ \/ /\ disk[r].wk = "dir" /\ NoFault
          /\ disk' = [disk EXCEPT ![r].file = OurFile(trustJob.want[r])]
          /\ harmed' = (harmed \/ (disk[r].file = Foreign /\ trustJob.seen = "owner"))
          /\ PlaceDone(r, trustJob.made)
       \/ /\ (disk[r].wk # "dir" /\ NoFault) \/ TrustFault
          /\ disk' = IF trustJob.made THEN [disk EXCEPT ![r] = Emptied(@)] ELSE disk
          /\ UNCHANGED harmed
          /\ PlaceFails(r, "write failed")

\* Remove: what is gone needs no removal, a file of someone else is left and
\* forgotten, an unsafe path is tried again at the next sync.
RemoveCheck(r) ==
    /\ At(r, "root") /\ trustJob.want[r] = {} /\ RootFrame /\ UNCHANGED <<disk, harmed>>
    /\ \/ /\ disk[r].wk = "none" \/ disk[r].file = Foreign
          /\ RootDone(r, NoRecord, <<>>) /\ NoFault
       \/ disk[r].wk = "link" /\ RootDone(r, RecordOf(r), <<>>) /\ NoFault
       \/ /\ disk[r].wk = "dir" /\ disk[r].file # Foreign /\ NoFault
          /\ trustJob' = [trustJob EXCEPT !.pc = "unlink", !.seen = disk[r].file.by]
       \/ disk[r].wk = "dir" /\ TrustFault /\ RootDone(r, RecordOf(r), <<>>)

\* The file, if there was one, and then .well-known, if the agent made it and it is
\* empty.
Unlink(r) ==
    /\ At(r, "unlink") /\ RootFrame
    /\ \/ /\ LET left == IF trustJob.seen = "agent" THEN [disk[r] EXCEPT !.file = NoTokens] ELSE disk[r]
             IN  disk' = [disk EXCEPT ![r] = IF RecordOf(r).made THEN Emptied(left) ELSE left]
          /\ harmed' = (harmed \/ (disk[r].file = Foreign /\ trustJob.seen = "owner"))
          /\ RootDone(r, NoRecord, <<>>) /\ NoFault
       \/ /\ trustJob.seen = "agent" /\ TrustFault
          /\ RootDone(r, RecordOf(r), <<>>) /\ UNCHANGED <<disk, harmed>>

----------------------------------------------------------------------------
(* What changed is reported, then the state file is replaced.              *)

Served(st, d) == \E r \in SiteRoots : d \in DomainsOf(st.roots[r].tokens)
Said(j)     == {d \in DOMAIN j.status : j.st.reported[d] # j.status[d]}
Dropped(j)  == {d \in Domains \ DOMAIN j.status : j.st.reported[d] # NotTold /\ ~Served(j.st, d)}

ReportTrust ==
    /\ trustJob.pc = "root" /\ trustJob.todo = {}
    /\ LET said     == Said(trustJob)
           news(old) == [d \in Domains |-> IF d \in said THEN trustJob.status[d]
                                           ELSE IF d \in Dropped(trustJob) THEN NotTold ELSE old[d]]
           st       == [trustJob.st EXCEPT !.reported = news(@)]
       IN  /\ told' = news(told)
           /\ retold' = (retold \/ \E d \in said \ unsaid : told[d] = trustJob.status[d])
           /\ trustJob' = IF st = trustState THEN NoTrustJob ELSE [trustJob EXCEPT !.pc = "save", !.st = st]
    /\ UNCHANGED <<trustWorld, disk, trustState, unrecorded, unsaid, harmed, trustCrashesN, trustFaultsN>>

\* What a state file does not know of: the files, the reports.
Unknown(st)   == {r \in SiteRoots : disk[r].file.by = "agent" /\ disk[r].file.tokens # st.roots[r].tokens}
Untold(st)    == {d \in Domains : told[d] # st.reported[d]}

SaveTrustState ==
    /\ trustJob.pc = "save" /\ trustJob' = NoTrustJob
    /\ trustState' = trustJob.st
    /\ unrecorded' = unrecorded \cap Unknown(trustJob.st) /\ unsaid' = unsaid \cap Untold(trustJob.st)
    /\ UNCHANGED <<trustWorld, disk, told, retold, harmed, trustCrashesN, trustFaultsN>>

JobLost ==
    /\ trustJob' = NoTrustJob
    /\ unrecorded' = unrecorded \cup Unknown(trustState) /\ unsaid' = unsaid \cup Untold(trustState)
    /\ UNCHANGED <<trustWorld, disk, trustState, told, retold, harmed>>
SaveFails  == trustJob.pc = "save" /\ TrustFault /\ JobLost /\ UNCHANGED trustCrashesN
TrustCrash ==
    /\ trustJob.pc # "idle" /\ trustCrashesN < MaxTrustCrashes /\ trustCrashesN' = trustCrashesN + 1
    /\ JobLost /\ UNCHANGED trustFaultsN

TrustStep ==
    \/ \E r \in SiteRoots : PlaceCheck(r) \/ PlaceWrite(r) \/ RemoveCheck(r) \/ Unlink(r)
    \/ ReportTrust \/ SaveTrustState \/ SaveFails

TrustNext ==
    \/ \E d \in Domains : \/ \E n \in 0..MaxTokens : EditTokens(d, n)
                          \/ \E h \in Homes : MoveDomain(d, h)
    \/ \E r \in SiteRoots : OwnerChanges(r)
    \/ SwitchTrust \/ TrustSync \/ TrustStep \/ TrustCrash

----------------------------------------------------------------------------

TrustTokens == Domains \X (1..MaxTokens)
TrustReports == {NotTold} \cup {Placed(r) : r \in SiteRoots} \cup
    {Failed(x) : x \in {"no root", "many roots", "unsafe", "write failed", "file exists"}}
TrustStates == [roots : [SiteRoots -> [made : BOOLEAN, tokens : SUBSET TrustTokens]],
                reported : [Domains -> TrustReports]]
TrustTypeOK ==
    /\ trustListed \in [Domains -> 0..MaxTokens] /\ homes \in [Domains -> Homes] /\ trustOff \in BOOLEAN
    /\ \A r \in SiteRoots :
         /\ disk[r].top \in {"dir", "gone"} /\ disk[r].wk \in {"none", "dir", "link"} /\ disk[r].more \in BOOLEAN
         /\ disk[r].file \in {NoTokens, Foreign, OurFile(disk[r].file.tokens)} /\ disk[r].file.tokens \subseteq TrustTokens
         /\ disk[r].wk # "dir" => disk[r].file = NoTokens /\ ~disk[r].more
    /\ \A st \in {trustState} \cup (IF trustJob.pc = "idle" THEN {} ELSE {trustJob.st}) :
         /\ \A r \in SiteRoots : st.roots[r].tokens \subseteq TrustTokens /\ st.roots[r].made \in BOOLEAN
         /\ \A d \in Domains : st.reported[d] \in TrustReports
    /\ told \in [Domains -> TrustReports]
    /\ unrecorded \subseteq SiteRoots /\ unsaid \subseteq Domains /\ retold \in BOOLEAN /\ harmed \in BOOLEAN
    /\ trustEventsN \in 0..MaxTrustEvents /\ trustCrashesN \in 0..MaxTrustCrashes
    /\ trustFaultsN \in 0..MaxTrustFaults

\* Between two syncs every file of the agent is recorded with the tokens it holds, so
\* that it is taken away when its domains are no longer listed, whatever failed on the
\* way: unless the process ended, or the save failed, after it was written.
FilesRecorded == trustJob.pc = "idle" => Unknown(trustState) \subseteq unrecorded

\* A domain of which the dashboard was told nothing, or that it is removed, has no
\* token left on the server; one told to be placed has its token on record.
ToldAsIs ==
    trustJob.pc = "idle" => \A d \in Domains \ unsaid :
        /\ told[d] = NotTold => \A r \in SiteRoots \ unrecorded : d \notin DomainsOf(disk[r].file.tokens)
        /\ told[d].root # 0 => Served(trustState, d)

\* A result is reported once, not on every sync ("reported once per change"); a file of
\* someone else is neither replaced nor removed.
ToldOnce    == ~retold
ForeignKept == ~harmed

\* While protection is on, the files and the reports come to be what the dashboard
\* lists, where the owner of the site lets the agent write.
Writable(r) == disk[r].wk # "link" /\ disk[r].top = "dir" /\ disk[r].file # Foreign
BadgesRight ==
    ~trustOff => \A d \in Domains :
        IF d \notin ListedNow
        THEN \A r \in SiteRoots \ unrecorded : d \notin DomainsOf(disk[r].file.tokens)
        ELSE IF Match(d).root = 0 THEN d \in unsaid \/ told[d] = Match(d)
        ELSE Writable(Match(d).root) =>
               /\ <<d, trustListed[d]>> \in disk[Match(d).root].file.tokens
               /\ d \in unsaid \/ told[d] = Match(d)
=============================================================================
