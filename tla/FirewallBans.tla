---------------------------- MODULE FirewallBans ----------------------------
(***************************************************************************)
(* The ban table of the agent (fw.bans) and the kernel's infrafence-bans   *)
(* set, with ipset (src/internal/firewall/bans.go, iptables.go, chain.go). *)
(*                                                                         *)
(* Every goroutine that bans or lifts takes the firewall lock to change    *)
(* the table and runs ipset AFTER releasing it, so the table and the set   *)
(* are two copies that drift and are brought together again by the guard's *)
(* Ensure and by the cleanup of a sync.  One action is one section under   *)
(* the lock, or one ipset command outside it.  A section that runs ipset   *)
(* under the lock (Ensure, dropFromKernel) is one action: the commands of  *)
(* other goroutines commute with the ones inside it.                       *)
(*                                                                         *)
(* A definition whose name begins with Mut is the one after it with a      *)
(* mistake planted: no part of the specification, only there to see that   *)
(* a property fails when the code is wrong.                                *)
(***************************************************************************)
EXTENDS Integers, FiniteSets
LOCAL INSTANCE TLC

CONSTANTS
    Addr,         \* addresses that may be banned (never isSafeIP)
    V6,           \* the IPv6 ones among them
    Cap,          \* banCap(): the most bans the table holds
    MaxTime,      \* bound: the clock stops there
    LocalFor,     \* localBanFor: how long the agent's own bans last
    Detectors,    \* goroutines of the watchers (banAndReport)
    Pushers,      \* the push listener and the panel (BanIPUntil, UnbanIP)
    Syncs,        \* the sync runner's goroutine
    Timers,       \* runBanExpiry
    Guards,       \* the firewall guard (Ensure)
    Switches,     \* the goroutine that holds protCtl.op (Disable, Enable)
    MonitorModes, \* what the sync's MonitorMode may be
    KeepSets,     \* what activeRuleIPs may hold: rule addresses, local bans
    MaxOps,       \* bound: bans and lifts asked for by people and watchers
    MaxFlushes,   \* bound: rebuilds of the host firewall by other tools
    MaxRestarts,  \* bound: restarts of the agent
    NoIP

Threads == Detectors \cup Pushers \cup Syncs \cup Timers \cup Guards \cup Switches

Never == 0                       \* the zero time.Time: no expiry
Time  == 0..MaxTime
Expiry == 0..(MaxTime + LocalFor)

ASSUME CapAssumption == Cap \in Nat \ {0}
ASSUME TimeAssumption == MaxTime \in Nat /\ LocalFor \in Nat \ {0}
ASSUME AddrAssumption == IsFiniteSet(Addr) /\ V6 \subseteq Addr /\ NoIP \notin Addr
\* protCtl.op: one switch-off or switch-on at a time.
ASSUME SwitchAssumption == \A v, w \in Switches : v = w
ASSUME KeepAssumption == KeepSets \subseteq SUBSET Addr /\ MonitorModes \subseteq BOOLEAN
ASSUME BoundAssumption == MaxOps \in Nat /\ MaxFlushes \in Nat /\ MaxRestarts \in Nat

VARIABLES
    now,        \* the clock
    bans,       \* fw.bans: banned address -> [added, expires]
    kset,       \* members of the kernel set infrafence-bans
    setExists,  \* whether that set exists
    disabled,   \* fw.disabled
    off,        \* protCtl.disabledAt is set: the switch-off is complete
    restored,   \* fw.restored: restored bans not put in the set yet
    th,         \* what each goroutine is about to do, and its locals
    dash,       \* the dashboard's ban rows <<address, expiry>>
    saved,      \* protection-state.json: the bans and the switch-off
    ops, flushes, restarts   \* how often each bounded thing happened

vars == <<now, bans, kset, setExists, disabled, off, restored, th, dash, saved,
          ops, flushes, restarts>>
kernel == <<kset, setExists>>
bounds == <<ops, flushes, restarts>>
env    == <<now, dash, saved, off>>

Entry == [added: Time, expires: Expiry]
Tables == UNION {[S -> Entry] : S \in SUBSET Addr}
Rows   == Addr \X Expiry

PCs == {"idle",
        "ban_evict", "ban_check", "ban_add", "ban_expiry",
        "unban_check", "unban_del",
        "exp_drop",
        "sync_apply", "sync_evict", "sync_check", "sync_add",
        "clean_table", "clean_check", "clean_list", "clean_del",
        "off_remove", "on_ensure"}

\* A goroutine's locals: the address and expiry of a ban, whether it added
\* the ban, the addresses a kernel command is still to be run for, and the
\* rows the sync was answered with.
BanSteps == {"ban_evict", "ban_check", "ban_add"}
Locals == [pc: PCs, ip: Addr \cup {NoIP}, exp: Expiry, added: BOOLEAN,
           ips: SUBSET Addr, active: SUBSET Addr, rows: SUBSET Rows]
Local == {l \in Locals : l.pc \in BanSteps => l.ip \in Addr}

Idle == [pc |-> "idle", ip |-> NoIP, exp |-> Never, added |-> FALSE,
         ips |-> {}, active |-> {}, rows |-> {}]

---------------------------------------------------------------------------
(* Helpers.                                                                *)

Banned == DOMAIN bans
Expired(e) == e # Never /\ e <= now

\* How many bans are too many for n more.
MutOver(b, n) == Cardinality(DOMAIN b) + n - Cap - 1
Over(b, n)      == Cardinality(DOMAIN b) + n - Cap

\* makeRoomLocked's order: an expiring ban goes before one without expiry,
\* then the one added first.  Equal times are settled by the address, here
\* by any choice.
MutBefore(b, x, y) == b[x].added < b[y].added
Before(b, x, y) ==
    \/ b[x].expires # Never /\ b[y].expires = Never
    \/ /\ (b[x].expires = Never) = (b[y].expires = Never)
       /\ b[x].added < b[y].added

\* The sets makeRoomLocked may evict from b so that n more bans fit.
MakeRoom(b, n, keep) ==
    LET over == Over(b, n)
        free == DOMAIN b \ keep
        k    == IF over > Cardinality(free) THEN Cardinality(free) ELSE over
    IN  IF over <= 0 THEN {{}}
        ELSE {out \in SUBSET free :
                /\ Cardinality(out) = k
                /\ \A x \in out, y \in free \ out : ~Before(b, y, x)}

Without(b, gone) == [a \in DOMAIN b \ gone |-> b[a]]
MutWithBan(b, ip, e) ==
    [a \in DOMAIN b \cup {ip} |-> IF a = ip THEN [e EXCEPT !.expires = @ + LocalFor] ELSE b[a]]
WithBan(b, ip, e) == [a \in DOMAIN b \cup {ip} |-> IF a = ip THEN e ELSE b[a]]

\* What "ipset restore" may leave of a set k after adding ips: the set is
\* of family inet, and the command stops at the first line it cannot take.
BatchAdd(k, ips) ==
    IF ips \cap V6 = {} THEN {k \cup ips}
    ELSE {k \cup done : done \in SUBSET (ips \ V6)}
BatchDel(k, ips) ==
    IF ips \cap V6 = {} THEN {k \ ips}
    ELSE {k \ done : done \in SUBSET (ips \ V6)}

\* What dropFromKernel takes out: an address banned again meanwhile stays.
MutGone(ips)    == ips
MutGoneInverted(ips) == ips \cap Banned
Gone(ips)         == ips \ Banned

\* The set members a cleanup removes, known to the agent or not.
MutStaleMembers(k, stays)   == (k \ stays) \cap Banned
StaleMembers(k, stays) == k \ stays

\* Ensure does nothing while protection is off.
MutMayEnsure == TRUE
MayEnsure       == ~disabled

\* ensureSets and the restored bans of Ensure: the set is created and filled
\* from the table when it is missing, filled again when it holds FEWER
\* entries than the table has IPv4 bans.
EnsureOutcomes(b, k, exists, rest) ==
    LET v4 == DOMAIN b \ V6
        filled == IF ~exists THEN BatchAdd({}, DOMAIN b)
                  ELSE IF Cardinality(k) < Cardinality(v4) THEN {k \cup v4}
                  ELSE {k}
    IN  IF ~rest THEN {[k |-> f, rest |-> FALSE] : f \in filled}
        ELSE UNION {{[k |-> g, rest |-> DOMAIN b \cap V6 # {}]
                       : g \in BatchAdd(f, DOMAIN b)} : f \in filled}

\* RestoreBans: the unexpired saved bans, past the capacity the newest.
Restorable(b) ==
    LET ok == {a \in DOMAIN b : ~Expired(b[a].expires)}
    IN  IF Cardinality(ok) <= Cap THEN {ok}
        ELSE {T \in SUBSET ok :
                /\ Cardinality(T) = Cap
                /\ \A x \in T, y \in ok \ T : b[x].added >= b[y].added}

\* The latest expiry of the rows for one address wins; zero is never.
LatestOf(rows, ip, e) ==
    /\ <<ip, e>> \in rows
    /\ e = Never \/ \A r \in rows : r[1] = ip => r[2] # Never /\ r[2] <= e

Become(t, l) == th' = [th EXCEPT ![t] = l]
Goto(t, pc)  == th' = [th EXCEPT ![t].pc = pc]
At(t, pc)    == th[t].pc = pc

---------------------------------------------------------------------------
Init ==
    /\ now = 0
    /\ bans = [a \in {} |-> [added |-> 0, expires |-> Never]]
    /\ kset = {} /\ setExists = TRUE
    /\ disabled = FALSE /\ off = FALSE /\ restored = FALSE
    /\ th = [t \in Threads |-> Idle]
    /\ dash = {}
    /\ saved = [bans |-> bans, off |-> FALSE]
    /\ ops = 0 /\ flushes = 0 /\ restarts = 0

Tick == /\ now < MaxTime
        /\ now' = now + 1
        /\ UNCHANGED <<bans, kernel, disabled, off, restored, th, dash, saved, bounds>>

(* The dashboard's own list changes: an operator bans or lifts.            *)
DashBan(ip, e) ==
    /\ ops < MaxOps /\ ops' = ops + 1
    /\ dash' = dash \cup {<<ip, e>>}
    /\ UNCHANGED <<now, bans, kernel, disabled, off, restored, th, saved, flushes, restarts>>

DashLift(ip) ==
    /\ ops < MaxOps /\ ops' = ops + 1
    /\ \E e \in Expiry : <<ip, e>> \in dash
    /\ dash' = {r \in dash : r[1] # ip}
    /\ UNCHANGED <<now, bans, kernel, disabled, off, restored, th, saved, flushes, restarts>>

---------------------------------------------------------------------------
(* BanIPOnceUntil, BanIPUntil.                                             *)

\* claimBan: under the lock, the table only.
ClaimBan(t, ip, e) ==
    /\ At(t, "idle")
    /\ ops < MaxOps /\ ops' = ops + 1
    /\ \/ /\ ip \in Banned
          /\ bans' = bans
          /\ Become(t, [Idle EXCEPT !.pc = "ban_check", !.ip = ip, !.exp = e])
       \/ /\ ip \notin Banned
          /\ \E out \in MakeRoom(bans, 1, {}) :
               /\ bans' = WithBan(Without(bans, out), ip, [added |-> now, expires |-> e])
               /\ Become(t, [Idle EXCEPT !.pc = IF out = {} THEN "ban_check" ELSE "ban_evict",
                                         !.ip = ip, !.exp = e, !.added = TRUE, !.ips = out])
    /\ UNCHANGED <<kernel, disabled, restored, env, flushes, restarts>>

\* The agent's own detection (banAndReport).
Detect(t, ip) == t \in Detectors /\ ~off /\ ClaimBan(t, ip, now + LocalFor)

\* The dashboard's ban.created message.
PushBan(t, ip, e) == t \in Pushers /\ ClaimBan(t, ip, e)

\* dropFromKernel with ipset: under the lock, leaving out the addresses
\* banned again meanwhile; nothing while disabled.
DropFromKernel(t) ==
    /\ IF disabled \/ ~setExists THEN kset' = kset
       ELSE kset' \in BatchDel(kset, Gone(th[t].ips))
    /\ UNCHANGED <<bans, setExists, disabled, restored, env, bounds>>

BanEvict(t) ==
    /\ At(t, "ban_evict")
    /\ DropFromKernel(t)
    /\ th' = [th EXCEPT ![t].pc = "ban_check", ![t].ips = {}]

\* applyBan's Disabled().
BanCheck(t) ==
    /\ At(t, "ban_check")
    /\ IF disabled THEN IF t \in Pushers /\ ~th[t].added
                        THEN Goto(t, "ban_expiry") ELSE Become(t, Idle)
       ELSE Goto(t, "ban_add")
    /\ UNCHANGED <<bans, kernel, disabled, restored, env, bounds>>

\* applyBan's ipset add, outside the lock.  It fails on a missing set and on
\* an IPv6 address.
BanAdd(t) ==
    /\ At(t, "ban_add")
    /\ LET ok == setExists /\ th[t].ip \notin V6
       IN  /\ kset' = IF ok THEN kset \cup {th[t].ip} ELSE kset
           /\ IF ok /\ t \in Pushers /\ ~th[t].added
              THEN Goto(t, "ban_expiry") ELSE Become(t, Idle)
    /\ UNCHANGED <<bans, setExists, disabled, restored, env, bounds>>

\* BanIPUntil of an address already banned: SetBanExpiry.
BanExpiry(t) ==
    /\ At(t, "ban_expiry")
    /\ LET ip == th[t].ip
       IN  bans' = IF ip \in Banned THEN [bans EXCEPT ![ip].expires = th[t].exp] ELSE bans
    /\ Become(t, Idle)
    /\ UNCHANGED <<kernel, disabled, restored, env, bounds>>

(* UnbanIP: ban.removed, a lift from the hosting panel, an SSH login.      *)
Unban(t, ip) ==
    /\ t \in Pushers /\ At(t, "idle")
    /\ ops < MaxOps /\ ops' = ops + 1
    /\ bans' = Without(bans, {ip})
    /\ Become(t, [Idle EXCEPT !.pc = "unban_check", !.ip = ip])
    /\ UNCHANGED <<kernel, disabled, restored, env, flushes, restarts>>

UnbanCheck(t) ==
    /\ At(t, "unban_check")
    /\ IF disabled THEN Become(t, Idle) ELSE Goto(t, "unban_del")
    /\ UNCHANGED <<bans, kernel, disabled, restored, env, bounds>>

UnbanDel(t) ==
    /\ At(t, "unban_del")
    /\ kset' = kset \ {th[t].ip}
    /\ Become(t, Idle)
    /\ UNCHANGED <<bans, setExists, disabled, restored, env, bounds>>

(* ExpireBans, on a local timer.                                           *)
ExpireBans(t) ==
    /\ t \in Timers /\ At(t, "idle")
    /\ LET gone == {a \in Banned : Expired(bans[a].expires)}
       IN  /\ gone # {}
           /\ bans' = Without(bans, gone)
           /\ Become(t, [Idle EXCEPT !.pc = "exp_drop", !.ips = gone])
    /\ UNCHANGED <<kernel, disabled, restored, env, bounds>>

ExpireDrop(t) ==
    /\ At(t, "exp_drop")
    /\ DropFromKernel(t)
    /\ Become(t, Idle)

---------------------------------------------------------------------------
(* A sync: the dashboard's rows as it answered, then ApplyBans (not in     *)
(* monitor mode), then CleanupStaleBans.                                   *)

SyncFetch(t) ==
    /\ t \in Syncs /\ At(t, "idle")
    /\ Become(t, [Idle EXCEPT !.pc = "sync_apply", !.rows = dash])
    /\ UNCHANGED <<bans, kernel, disabled, restored, env, bounds>>

\* unexpiredBans, then ApplyBans' section under the lock.  A list longer
\* than the capacity is cut.
SyncApply(t, monitor) ==
    /\ At(t, "sync_apply")
    /\ LET rows   == {r \in th[t].rows : ~Expired(r[2])}
           active == {r[1] : r \in rows}
       IN  \/ /\ monitor
              /\ bans' = bans
              /\ Become(t, [Idle EXCEPT !.pc = "clean_table", !.active = active])
           \/ /\ ~monitor
              /\ \E safe \in SUBSET active :
                   /\ Cardinality(safe) = IF Cardinality(active) > Cap THEN Cap
                                          ELSE Cardinality(active)
                   /\ \E out \in MakeRoom(bans, Cardinality(safe \ Banned), safe),
                         expires \in [safe -> Expiry] :
                        /\ \A a \in safe : LatestOf(rows, a, expires[a])
                        /\ bans' = [a \in (Banned \ out) \cup safe |->
                                      IF a \notin safe THEN bans[a]
                                      ELSE [added   |-> IF a \in Banned THEN bans[a].added ELSE now,
                                            expires |-> expires[a]]]
                        /\ Become(t, [Idle EXCEPT
                                        !.pc = IF out = {} THEN "sync_check" ELSE "sync_evict",
                                        !.ips = out, !.active = active,
                                        !.rows = {r \in rows : r[1] \in safe}])
    /\ UNCHANGED <<kernel, disabled, restored, env, bounds>>

SyncEvict(t) ==
    /\ At(t, "sync_evict")
    /\ DropFromKernel(t)
    /\ th' = [th EXCEPT ![t].pc = "sync_check", ![t].ips = {}]

SyncCheck(t) ==
    /\ At(t, "sync_check")
    /\ IF disabled
       THEN th' = [th EXCEPT ![t].pc = "clean_table", ![t].rows = {}]
       ELSE Goto(t, "sync_add")
    /\ UNCHANGED <<bans, kernel, disabled, restored, env, bounds>>

\* ipsetBatchAdd of the list, outside the lock.
SyncAdd(t) ==
    /\ At(t, "sync_add")
    /\ IF setExists THEN kset' \in BatchAdd(kset, {r[1] : r \in th[t].rows})
       ELSE kset' = kset
    /\ th' = [th EXCEPT ![t].pc = "clean_table", ![t].rows = {}]
    /\ UNCHANGED <<bans, setExists, disabled, restored, env, bounds>>

\* CleanupStaleBans' section under the lock.
CleanTable(t, keep) ==
    /\ At(t, "clean_table")
    /\ LET stays == th[t].active \cup keep
       IN  /\ bans' = Without(bans, Banned \ stays)
           /\ Become(t, [Idle EXCEPT !.pc = "clean_check", !.active = stays])
    /\ UNCHANGED <<kernel, disabled, restored, env, bounds>>

CleanCheck(t) ==
    /\ At(t, "clean_check")
    /\ IF disabled THEN Become(t, Idle) ELSE Goto(t, "clean_list")
    /\ UNCHANGED <<bans, kernel, disabled, restored, env, bounds>>

\* ipsetListMembers: what the set holds at this moment and no list keeps.
CleanList(t) ==
    /\ At(t, "clean_list")
    /\ LET stale == StaleMembers(kset, th[t].active)
       IN  Become(t, IF stale = {} THEN Idle
                     ELSE [Idle EXCEPT !.pc = "clean_del", !.ips = stale])
    /\ UNCHANGED <<bans, kernel, disabled, restored, env, bounds>>

\* One ipset del each, outside the lock.
CleanDel(t, ip) ==
    /\ At(t, "clean_del")
    /\ ip \in th[t].ips
    /\ kset' = kset \ {ip}
    /\ IF th[t].ips = {ip} THEN Become(t, Idle)
       ELSE th' = [th EXCEPT ![t].ips = @ \ {ip}]
    /\ UNCHANGED <<bans, setExists, disabled, restored, env, bounds>>

---------------------------------------------------------------------------
(* Ensure, Disable, Enable.                                                *)

EnsureSet ==
    /\ MayEnsure
    /\ \E o \in EnsureOutcomes(bans, kset, setExists, restored) :
         kset' = o.k /\ restored' = o.rest
    /\ setExists' = TRUE

Ensure(t) ==
    /\ t \in Guards /\ At(t, "idle")
    /\ EnsureSet
    /\ UNCHANGED <<bans, disabled, th, env, bounds>>

\* Disable: the flag under the lock, then RemoveAll outside it, then the
\* state file says so.
Disable(t) ==
    /\ t \in Switches /\ At(t, "idle") /\ ~disabled
    /\ ops < MaxOps /\ ops' = ops + 1
    /\ disabled' = TRUE
    /\ Goto(t, "off_remove")
    /\ UNCHANGED <<bans, kernel, restored, env, flushes, restarts>>

\* "ipset destroy" of the set: refused while a rule that could not be
\* deleted still names it, and like every failure in RemoveAll passed over.
DestroySet ==
    \/ kset' = {} /\ setExists' = FALSE
    \/ UNCHANGED kernel

RemoveAll(t) ==
    /\ At(t, "off_remove")
    /\ DestroySet
    /\ off' = TRUE
    /\ saved' = [bans |-> bans, off |-> TRUE]
    /\ Become(t, Idle)
    /\ UNCHANGED <<now, bans, disabled, restored, dash, bounds>>

Enable(t) ==
    /\ t \in Switches /\ At(t, "idle") /\ disabled
    /\ off' = FALSE
    /\ disabled' = FALSE
    /\ restored' = (Banned # {})
    /\ Goto(t, "on_ensure")
    /\ UNCHANGED <<now, bans, kernel, dash, saved, bounds>>

EnableEnsure(t) ==
    /\ At(t, "on_ensure")
    /\ EnsureSet
    /\ saved' = [bans |-> bans, off |-> FALSE]
    /\ Become(t, Idle)
    /\ UNCHANGED <<now, bans, disabled, off, dash, bounds>>

---------------------------------------------------------------------------
(* The state file, a restart of the agent, and other tools on the host.    *)

\* scheduleProtectionSave: some time after a change, the whole table.
SaveBans ==
    /\ MaxRestarts > 0 /\ saved # [bans |-> bans, off |-> off]
    /\ saved' = [bans |-> bans, off |-> off]
    /\ UNCHANGED <<now, bans, kernel, disabled, off, restored, th, dash, bounds>>

\* The process ends at any point; the new one restores the table from the
\* file and sets the firewall up (or, switched off, removes what is left of
\* it: restoreRefusal) before anything else runs.  The kernel set
\* stays as it was in between.
Restart ==
    /\ restarts < MaxRestarts /\ restarts' = restarts + 1
    /\ th' = [t \in Threads |-> Idle]
    /\ disabled' = saved.off /\ off' = saved.off
    /\ \E T \in Restorable(saved.bans) :
         /\ bans' = [a \in T |-> saved.bans[a]]
         /\ IF saved.off
            THEN restored' = (T # {}) /\ DestroySet
            ELSE /\ \E o \in EnsureOutcomes(bans', kset, setExists, T # {}) :
                      kset' = o.k /\ restored' = o.rest
                 /\ setExists' = TRUE
    /\ UNCHANGED <<now, dash, saved, ops, flushes>>

\* "csf -r", a flushed or destroyed set (chain.go, ensureSets).
HostFlush ==
    /\ flushes < MaxFlushes /\ flushes' = flushes + 1
    /\ setExists
    /\ kset' = {} /\ setExists' \in BOOLEAN
    /\ UNCHANGED <<bans, disabled, restored, th, env, ops, restarts>>

---------------------------------------------------------------------------
Ask(t) ==
    \/ \E ip \in Addr : Detect(t, ip) \/ Unban(t, ip)
    \/ \E ip \in Addr, e \in {Never} \cup (now + 1)..MaxTime : PushBan(t, ip, e)
    \/ SyncFetch(t) \/ ExpireBans(t) \/ Disable(t) \/ Enable(t)

Continue(t) ==
    \/ BanEvict(t) \/ BanCheck(t) \/ BanAdd(t) \/ BanExpiry(t)
    \/ UnbanCheck(t) \/ UnbanDel(t)
    \/ ExpireDrop(t)
    \/ \E monitor \in MonitorModes : SyncApply(t, monitor)
    \/ SyncEvict(t) \/ SyncCheck(t) \/ SyncAdd(t)
    \/ \E keep \in KeepSets : CleanTable(t, keep)
    \/ CleanCheck(t) \/ CleanList(t) \/ \E ip \in Addr : CleanDel(t, ip)
    \/ RemoveAll(t) \/ EnableEnsure(t)

Next ==
    \/ Tick
    \/ \E ip \in Addr, e \in Expiry : DashBan(ip, e)
    \/ \E ip \in Addr : DashLift(ip)
    \/ \E t \in Threads : Ask(t) \/ Continue(t) \/ Ensure(t)
    \/ SaveBans \/ Restart \/ HostFlush

Spec == Init /\ [][Next]_vars

(* Every goroutine that runs a command comes back from it (execTimeout),   *)
(* the timer, the guard and the periodic sync run for ever, and the clock  *)
(* goes on.  Nothing makes anyone ask for another ban.                     *)
Fairness ==
    /\ WF_vars(Tick)
    /\ \A t \in Threads : WF_vars(Continue(t))
    /\ \A t \in Timers : WF_vars(ExpireBans(t))
    /\ \A t \in Guards : WF_vars(Ensure(t))
    /\ \A t \in Syncs : WF_vars(SyncFetch(t))

LiveSpec == Spec /\ Fairness

---------------------------------------------------------------------------
(* Properties.                                                             *)

TypeOK ==
    /\ now \in Time
    /\ bans \in Tables
    /\ kset \subseteq Addr /\ setExists \in BOOLEAN
    /\ disabled \in BOOLEAN /\ off \in BOOLEAN /\ restored \in BOOLEAN
    /\ th \in [Threads -> Local]
    /\ dash \subseteq Rows
    /\ saved \in [bans: Tables, off: BOOLEAN]
    /\ ops \in 0..MaxOps /\ flushes \in 0..MaxFlushes /\ restarts \in 0..MaxRestarts

\* The table never holds more bans than the capacity, whichever goroutines
\* claim, apply a list and restore at once (bans.go: "the cap stays below it
\* so an add never fails on a full set").
WithinCapacity == Cardinality(Banned) <= Cap

\* A ban without expiry makes room only when every other ban it could have
\* been instead has none either: a flood of short local bans cannot push the
\* dashboard's permanent ones out (makeRoomLocked).  The bans a sync lists
\* are not candidates; a lift, an expiry and the cleanup are not evictions.
Listed == UNION {{r[1] : r \in th[t].rows} : t \in Syncs}
MadeRoom == \E t \in Threads : th'[t].pc \in {"ban_evict", "sync_evict"} /\ th[t].pc # th'[t].pc
PermanentSpared ==
    [][MadeRoom =>
         \A a \in Banned \ DOMAIN bans' : bans[a].expires = Never =>
            \A b \in (Banned \cap DOMAIN bans') \ Listed : bans[b].expires = Never]_vars

\* Removing evicted and expired bans from the kernel never takes out an
\* address that was banned again meanwhile (dropFromKernel).
Dropping(t) == th[t].pc \in {"ban_evict", "sync_evict", "exp_drop"} /\ th'[t] # th[t]
DropSparesRebanned ==
    [][(\E t \in Threads : Dropping(t)) /\ restarts' = restarts
         => (kset \ kset') \cap Banned = {}]_vars

\* Off means off (Disable: "keeps them out, whatever Ensure, bans, country
\* blocks or threat feeds ask, until Enable"): from the flag on until the next
\* switch-on, restarts included, a set that is gone is not made again, no
\* goroutine comes to add a ban, and the only addresses a set the removal had
\* to leave can still gain are those of the adds that were past their
\* Disabled() when the flag went up.  That the set is gone when the switch-off
\* is recorded is not so: nothing in the code looks at what RemoveAll left.
Adding == {t \in Threads : th[t].pc \in {"ban_add", "sync_add"}}
Adds(t) == IF th[t].pc = "ban_add" THEN {th[t].ip} ELSE {r[1] : r \in th[t].rows}
OffMeansOff ==
    [][(disabled \/ off) /\ (disabled' \/ off') =>
         /\ setExists' => setExists
         /\ Adding' \subseteq Adding
         /\ kset' \ kset \subseteq UNION {Adds(t) : t \in Adding}]_vars

\* What ExpireBans took out of the table is out of the kernel set too when
\* its ipset command has run (bans.go: "ExpireBans removes the bans whose
\* expiry is at or before now, from the ipset or the chain") - as long as
\* there is no IPv6 address among them: the set is one of IPv4 addresses, and
\* the command stops at the first line it cannot take.
Expiring(t) == /\ th[t].pc = "exp_drop" /\ th'[t].pc = "idle" /\ restarts' = restarts
               /\ setExists /\ ~disabled
ExpiredLeaveKernel ==
    [][\A t \in Timers : Expiring(t) /\ Gone(th[t].ips) \cap V6 = {}
          => kset' \cap (th[t].ips \ Banned) = {}]_vars

\* The same as the comment has it, whatever expired at once.
ExpiredAllGone ==
    [][\A t \in Timers : Expiring(t) => kset' \cap (th[t].ips \ Banned) = {}]_vars

Quiet == \A t \in Threads : At(t, "idle")

\* With nothing more asked for, the table and the kernel set come to agree
\* and stay so: a missing address is put back by Ensure, one without a ban is
\* taken out by the cleanup of the next sync. The cleanup spares an address the
\* dashboard lists: under monitor mode, where a sync applies no ban, a late
\* ipset add of a lifted ban that is still listed stays for as long.
InStep ==
    ~disabled => /\ Banned \ V6 \subseteq kset
                 /\ kset \subseteq Banned \cup {row[1] : row \in dash}
Converges == <>[](Quiet => InStep)

\* The IPv4 addresses are alike.
AddrSymmetry == Permutations(Addr \ V6)
=============================================================================
