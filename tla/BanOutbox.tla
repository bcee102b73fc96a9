------------------------------ MODULE BanOutbox ------------------------------
(***************************************************************************)
(* The bans the agent makes itself, and the outbox that keeps each of them *)
(* until the dashboard lists it (cmd/infrafence-agent/protstate.go,        *)
(* banAndReport and syncAndApply in main.go).  Three kinds of goroutine    *)
(* meet: the watchers, which ban, note and report; the sync, which reports *)
(* what is left, decides which local bans to keep and cleans up; the timer *)
(* that writes the state file.                                             *)
(*                                                                         *)
(* One action is one section under a lock (firewall, prot) or one request. *)
(* The ban table is a set here (see FirewallBans).  Which entry is the     *)
(* oldest is left open: any may be the one a full outbox drops, and a      *)
(* flush goes in any order.  Sync runs are shorter than reportedGrace.     *)
(*                                                                         *)
(* A definition whose name begins with Mut is the one after it with a      *)
(* mistake planted, to see a property fail.                                *)
(***************************************************************************)
EXTENDS Naturals, FiniteSets

CONSTANTS
    IP,
    Watchers,  \* goroutines of the watchers
    Sizes,     \* the bounds a behaviour may have (see size)
    NoIP

\* ips, watchers: those that take part; outbox: maxBanOutbox; then the bounds
\* on detections, on bans and lifts by people and expiries, on reports that do
\* not get through or are refused, on restarts of the agent.
Size == [ips: SUBSET IP, watchers: SUBSET Watchers, outbox: Nat \ {0},
         detects: Nat, lifts: Nat, fails: Nat, restarts: Nat]

ASSUME IPAssumption == IsFiniteSet(IP) /\ NoIP \notin IP
ASSUME OutboxAssumption == Sizes \subseteq Size

VARIABLES
    size,     \* the bounds, chosen at the beginning
    bans,     \* the addresses the firewall bans
    outbox,   \* prot.outbox: what is known of each local ban's report
    dash,     \* how many ban rows the dashboard has for each address
    th,       \* the watchers: what each is about to do, for which address
    sync,     \* the sync, with the locals of flushLocalBans and syncAndApply
    saver,    \* saveProtectionState: the bans it has read, or not yet
    saved,    \* protection-state.json (and own, then)
    own,      \* history: the agent's own bans, noted and not ended
    ended,    \* history: addresses whose ban was lifted, refused, dropped or expired
    detects, lifts, fails, restarts

outboxVars == <<size, bans, outbox, dash, th, sync, saver, saved, own, ended,
          detects, lifts, fails, restarts>>
disk   == <<saver, saved>>
history == <<own, ended>>
bounds == <<detects, lifts, fails, restarts>>

\* Not in the outbox, not reported yet, reported less than reportedGrace ago,
\* reported longer ago.
Reports == {"none", "waiting", "reported", "old"}
Outboxes == [IP -> Reports]
InOutbox(o) == {i \in IP : o[i] # "none"}

IdleSync  == [pc |-> "idle", ip |-> NoIP, listed |-> {}, todo |-> {}, keep |-> {}, noted |-> {}]
IdleSaver == [busy |-> FALSE, bans |-> {}]

---------------------------------------------------------------------------
OutboxInit ==
    /\ size \in Sizes
    /\ bans = {} /\ own = {} /\ ended = {}
    /\ outbox = [i \in IP |-> "none"]
    /\ dash = [i \in IP |-> 0]
    /\ th = [w \in Watchers |-> [pc |-> "idle", ip |-> NoIP]]
    /\ sync = IdleSync
    /\ saver = IdleSaver
    /\ saved = [bans |-> {}, outbox |-> outbox, own |-> {}]
    /\ detects = 0 /\ lifts = 0 /\ fails = 0 /\ restarts = 0

---------------------------------------------------------------------------
(* History: a ban that ends counts no more, nor do later ones of the same  *)
(* address.                                                                *)
Ends(ip) == own' = own \ {ip} /\ ended' = ended \cup {ip}
Owns(ip) == ({ip} \cap bans) \ ended

(* A report, and what becomes of it: a row; accepted, but the dashboard    *)
(* does not ban; refused for good; lost; its answer lost.                  *)
Answers == {"listed", "unlisted", "refused", "lost", "answer_lost"}

Report(ip, answer) ==
    /\ dash' = IF answer \in {"listed", "answer_lost"} THEN [dash EXCEPT ![ip] = @ + 1] ELSE dash
    /\ IF answer \in {"unlisted", "refused"} THEN Ends(ip) ELSE UNCHANGED history
    /\ IF answer = "listed" THEN fails' = fails
       ELSE fails < size.fails /\ fails' = fails + 1
Accepted(answer) == answer \in {"listed", "unlisted"}

(* banAndReport.                                                           *)
\* BanIPOnceUntil added the ban.
Detect(w, ip) ==
    /\ th[w].pc = "idle" /\ ip \notin bans
    /\ detects < size.detects /\ detects' = detects + 1
    /\ bans' = bans \cup {ip}
    /\ th' = [th EXCEPT ![w] = [pc |-> "note", ip |-> ip]]
    /\ UNCHANGED <<outbox, dash, sync, disk, history, lifts, fails, restarts>>

\* noteLocalBan: a full outbox drops one first.
Full(o) == Cardinality(InOutbox(o)) >= size.outbox

Note(w) ==
    /\ th[w].pc = "note"
    /\ \/ /\ ~Full(outbox)
          /\ outbox' = [outbox EXCEPT ![th[w].ip] = "waiting"]
          /\ own' = own \cup Owns(th[w].ip) /\ ended' = ended
       \/ \E oldest \in InOutbox(outbox) :
          /\ Full(outbox)
          /\ outbox' = [outbox EXCEPT ![oldest] = "none", ![th[w].ip] = "waiting"]
          /\ own' = (own \ {oldest}) \cup (Owns(th[w].ip) \ {oldest})
          /\ ended' = ended \cup {oldest}
    /\ th' = [th EXCEPT ![w].pc = "report"]
    /\ UNCHANGED <<bans, dash, sync, disk, bounds>>

WatcherReport(w) ==
    /\ th[w].pc = "report"
    /\ \E answer \in Answers :
         /\ Report(th[w].ip, answer)
         /\ th' = [th EXCEPT ![w] = IF Accepted(answer) THEN [@ EXCEPT !.pc = "reported"]
                                    ELSE [pc |-> "idle", ip |-> NoIP]]
    /\ UNCHANGED <<bans, outbox, sync, disk, detects, lifts, restarts>>

\* noteBanReported.
Reported(o, ip) == IF o[ip] = "none" THEN o ELSE [o EXCEPT ![ip] = "reported"]

NoteReported(w) ==
    /\ th[w].pc = "reported"
    /\ outbox' = Reported(outbox, th[w].ip)
    /\ th' = [th EXCEPT ![w] = [pc |-> "idle", ip |-> NoIP]]
    /\ UNCHANGED <<bans, dash, sync, disk, history, bounds>>

---------------------------------------------------------------------------
(* Others: a ban or a lift on the dashboard, the push about it; Lift is an *)
(* expiry, a lift on the server or the push of a dashboard's.              *)
DashBan(ip) ==
    /\ dash[ip] = 0
    /\ lifts < size.lifts /\ lifts' = lifts + 1
    /\ dash' = [dash EXCEPT ![ip] = 1]
    /\ UNCHANGED <<bans, outbox, th, sync, disk, history, detects, fails, restarts>>

PushBan(ip) ==
    /\ dash[ip] > 0 /\ ip \notin bans
    /\ bans' = bans \cup {ip}
    /\ UNCHANGED <<outbox, dash, th, sync, disk, history, bounds>>

DashLift(ip) ==
    /\ dash[ip] > 0
    /\ lifts < size.lifts /\ lifts' = lifts + 1
    /\ dash' = [dash EXCEPT ![ip] = 0]
    /\ Ends(ip)
    /\ UNCHANGED <<bans, outbox, th, sync, disk, detects, fails, restarts>>

Lift(ip) ==
    /\ ip \in bans
    /\ lifts < size.lifts /\ lifts' = lifts + 1
    /\ bans' = bans \ {ip} /\ Ends(ip)
    /\ UNCHANGED <<outbox, dash, th, sync, disk, detects, fails, restarts>>

\* reportedGrace passes.
Age(ip) ==
    /\ sync.pc = "idle" /\ outbox[ip] = "reported"
    /\ outbox' = [outbox EXCEPT ![ip] = "old"]
    /\ UNCHANGED <<bans, dash, th, sync, disk, history, bounds>>

---------------------------------------------------------------------------
(* syncAndApply: the dashboard's answer, flushLocalBans, ApplyBans,        *)
(* localBansToKeep, CleanupStaleBans.                                      *)
SyncFetch ==
    /\ sync.pc = "idle"
    /\ sync' = [IdleSync EXCEPT !.pc = "todo", !.listed = {i \in IP : dash[i] > 0}]
    /\ UNCHANGED <<bans, outbox, dash, th, disk, history, bounds>>

Unreported(o) == {i \in IP : o[i] = "waiting"}

FlushTodo ==
    /\ sync.pc = "todo"
    /\ sync' = [sync EXCEPT !.pc = "flush", !.todo = Unreported(outbox)]
    /\ UNCHANGED <<bans, outbox, dash, th, disk, history, bounds>>

\* banInForce: what is no longer in force is dropped, under another lock.
FlushCheck(ip) ==
    /\ sync.pc = "flush" /\ ip \in sync.todo
    /\ sync' = [sync EXCEPT !.todo = @ \ {ip}, !.ip = ip,
                            !.pc = IF ip \in bans THEN "flush_report" ELSE "flush_drop"]
    /\ UNCHANGED <<bans, outbox, dash, th, disk, history, bounds>>

FlushDrop ==
    /\ sync.pc = "flush_drop"
    /\ outbox' = [outbox EXCEPT ![sync.ip] = "none"]
    /\ sync' = [sync EXCEPT !.pc = "flush", !.ip = NoIP]
    /\ UNCHANGED <<bans, dash, th, disk, history, bounds>>

\* A refusal drops the ban, any other failure ends the flush.
FlushReport ==
    /\ sync.pc = "flush_report"
    /\ \E answer \in Answers :
         /\ Report(sync.ip, answer)
         /\ sync' = CASE Accepted(answer)   -> [sync EXCEPT !.pc = "flush_note"]
                      [] answer = "refused" -> [sync EXCEPT !.pc = "flush_drop"]
                      [] OTHER -> [sync EXCEPT !.pc = "apply", !.ip = NoIP, !.todo = {}]
    /\ UNCHANGED <<bans, outbox, th, disk, detects, lifts, restarts>>

FlushNote ==
    /\ sync.pc = "flush_note"
    /\ outbox' = Reported(outbox, sync.ip)
    /\ sync' = [sync EXCEPT !.pc = "flush", !.ip = NoIP]
    /\ UNCHANGED <<bans, dash, th, disk, history, bounds>>

FlushEnd ==
    /\ sync.pc = "flush" /\ sync.todo = {}
    /\ sync' = [sync EXCEPT !.pc = "apply"]
    /\ UNCHANGED <<bans, outbox, dash, th, disk, history, bounds>>

SyncApply ==
    /\ sync.pc = "apply"
    /\ bans' = bans \cup sync.listed
    /\ sync' = [sync EXCEPT !.pc = "keep"]
    /\ UNCHANGED <<outbox, dash, th, disk, history, bounds>>

\* localBansToKeep: the listed ones are confirmed, those past the grace and
\* not listed are given up.
MutKept(o, listed) == {i \in IP \ listed : o[i] = "waiting"}
Kept(o, listed) == {i \in IP \ listed : o[i] \in {"waiting", "reported"}}

SyncKeep ==
    /\ sync.pc = "keep"
    /\ LET keep == Kept(outbox, sync.listed)
       IN  /\ outbox' = [i \in IP |-> IF i \in keep THEN outbox[i] ELSE "none"]
           /\ sync' = [sync EXCEPT !.pc = "clean", !.keep = keep,
                                   !.noted = own \cap InOutbox(outbox)]
    /\ UNCHANGED <<bans, dash, th, disk, history, bounds>>

SyncClean ==
    /\ sync.pc = "clean"
    /\ bans' = bans \cap (sync.listed \cup sync.keep)
    /\ sync' = IdleSync
    /\ UNCHANGED <<outbox, dash, th, disk, history, bounds>>

---------------------------------------------------------------------------
(* saveProtectionState reads the bans and then the outbox.                 *)
SaveBegin ==
    /\ restarts < size.restarts /\ ~saver.busy
    /\ saved.bans # bans \/ saved.outbox # outbox
    /\ saver' = [busy |-> TRUE, bans |-> bans]
    /\ UNCHANGED <<bans, outbox, dash, th, sync, saved, history, bounds>>

SaveEnd ==
    /\ saver.busy
    /\ saver' = IdleSaver
    /\ saved' = [bans |-> saver.bans, outbox |-> outbox, own |-> own]
    /\ UNCHANGED <<bans, outbox, dash, th, sync, history, bounds>>

OutboxRestart ==
    /\ restarts < size.restarts /\ restarts' = restarts + 1
    /\ bans' = saved.bans /\ outbox' = saved.outbox
    /\ own' = own \cap saved.own \cap saved.bans
    /\ th' = [w \in Watchers |-> [pc |-> "idle", ip |-> NoIP]]
    /\ sync' = IdleSync /\ saver' = IdleSaver
    /\ UNCHANGED <<dash, saved, ended, detects, lifts, fails>>

---------------------------------------------------------------------------
WatcherStep(w) == Note(w) \/ WatcherReport(w) \/ NoteReported(w)
SyncStep ==
    \/ SyncFetch \/ FlushTodo \/ (\E ip \in IP : FlushCheck(ip)) \/ FlushDrop \/ FlushReport
    \/ FlushNote \/ FlushEnd \/ SyncApply \/ SyncKeep \/ SyncClean

OutboxNext ==
    /\ \/ \E w \in size.watchers : WatcherStep(w) \/ \E ip \in size.ips : Detect(w, ip)
       \/ SyncStep
       \/ \E ip \in size.ips : DashBan(ip) \/ PushBan(ip) \/ DashLift(ip) \/ Lift(ip) \/ Age(ip)
       \/ SaveBegin \/ SaveEnd \/ OutboxRestart
    /\ UNCHANGED size

OutboxSpec == OutboxInit /\ [][OutboxNext]_outboxVars

(* A watcher in banAndReport goes on, and the periodic sync runs for ever  *)
(* (a request ends: apiTimeout).                                           *)
OutboxFairness ==
    /\ WF_outboxVars(SyncStep /\ UNCHANGED size)
    /\ \A w \in Watchers : WF_outboxVars(WatcherStep(w) /\ UNCHANGED size)
OutboxLive == OutboxSpec /\ OutboxFairness

---------------------------------------------------------------------------
(* Properties.                                                             *)

\* However many watchers note a ban at once, and after a restart, the outbox
\* holds at most maxBanOutbox bans.
OutboxBounded ==
    Cardinality(InOutbox(outbox)) <= size.outbox /\ Cardinality(InOutbox(saved.outbox)) <= size.outbox

\* The type of each variable, and the limit of the outbox.
OutboxTypeOK ==
    /\ OutboxBounded
    /\ size \in Sizes
    /\ bans \subseteq IP /\ own \subseteq IP /\ ended \subseteq IP
    /\ outbox \in Outboxes
    /\ dash \in [IP -> Nat]
    /\ th \in [Watchers -> [pc: {"idle", "note", "report", "reported"}, ip: IP \cup {NoIP}]]
    /\ \A w \in Watchers : th[w].pc # "idle" => th[w].ip \in IP
    /\ sync \in [pc: {"idle", "todo", "flush", "flush_drop", "flush_report", "flush_note",
                      "apply", "keep", "clean"},
                 ip: IP \cup {NoIP}, listed: SUBSET IP, todo: SUBSET IP, keep: SUBSET IP,
                 noted: SUBSET IP]
    /\ sync.pc \in {"flush_drop", "flush_report", "flush_note"} => sync.ip \in IP
    /\ saver \in [busy: BOOLEAN, bans: SUBSET IP]
    /\ saved \in [bans: SUBSET IP, outbox: Outboxes, own: SUBSET IP]
    /\ detects \in Nat /\ lifts \in Nat /\ fails \in Nat /\ restarts \in Nat

\* A sync's cleanup never removes a ban of the agent's own that nobody ended,
\* if it was in the outbox when the sync decided what to keep,
\* although the list it works from may be older than the report, and a ban
\* reported long ago is given up when it is not listed (localBansToKeep).
NotedBansSpared ==
    [][sync.pc = "clean" /\ sync'.pc = "idle" /\ restarts' = restarts
         => (bans \ bans') \cap own \cap sync.noted = {}]_outboxVars

\* A local ban waiting to be reported does not wait for ever: it is reported,
\* refused, dropped or listed, once reports get through (flushLocalBans).
WaitingIsResolved == \A ip \in IP : []<>(outbox[ip] # "waiting")
=============================================================================
