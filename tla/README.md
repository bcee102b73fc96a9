# A verification project for infrafence-agent

TLA+ models of the agent's protocol logic, TLC configurations that check them
on small instances, and proofs, checked by TLAPS, of what matters most for
instances of every size. Paths are the repository's, with
`cmd/infrafence-agent/` shortened to `agent/` and `internal/firewall/` to
`firewall/`.

Contents: [the system](#1-the-system), [the modules](#2-the-modules),
[the runs](#3-the-runs), [fairness](#4-fairness), [the proofs](#5-the-proofs),
[where the code departs from what it says](#6-where-the-code-departs-from-what-it-says),
[what is not modelled](#7-what-is-not-modelled), [the plan](#8-the-plan).

## 1. The system

infrafence-agent runs as root on a server. It watches logs, packets and files,
bans addresses in the kernel firewall, and keeps a dashboard informed, which in
turn decides: bans, firewall rules, closed ports, settings. About thirty
goroutines share the firewall's state and one link to the dashboard, which may
be slow, refuse, lose answers or be gone for days; other tools rewrite the
firewall behind the agent's back; the agent updates and restarts itself. What
it must keep right through all that is mostly *agreement between copies*: the
ban table and the kernel set, the dashboard's rules and the chain, what is
enforced and what was asked for, memory and the state file.

### Components

| component | state | operations | talks to | hard because | correct when |
| --- | --- | --- | --- | --- | --- |
| Ban table and kernel set (`firewall/bans.go`, `iptables.go`) | `fw.bans` (address, added, expiry), the ipset `infrafence-bans`, `fw.disabled`, `fw.restored` | ban, lift, expire, apply a sync's list, clean up, switch off and on, restore | watchers, push channel, syncs, guard, ipset | the table changes under a lock, the kernel after it | capacity holds, permanent bans are not pushed out, off means off, both copies converge |
| Chains (`firewall/chain.go`) | `s.applied`, `lastDesired`, `peInForce`, `peFailedKey` | `Ensure` compares and repairs | every other firewall part | iptables may refuse, another tool may rebuild | the kernel comes back to what is wanted |
| Firewall rules by ID (`firewall/rules.go`, `agent/main.go`) | `ruleArgs`, `userRules`, `ruleTouched`, `ruleRemoved`, `ruleGen` | apply, remove, reconcile | push channel, syncs | a sync works from an old list while pushes go on | the chain is the table, no live rule is dropped, none deleted stays |
| The agent's own bans (`agent/protstate.go`, `main.go`) | `prot.outbox`, `protection-state.json` | note, report, flush, keep, save, restore | watchers, syncs, API | reports are lost or repeated; the list may be older than the ban | a ban is reported once it can be and kept until listed |
| Events (`internal/api/events.go`) | queue, pending batch, parts, spool file | add, send, split, retry, flush, close | every watcher, API | full queue, poison events, shutdown in the middle of a send | delivered in order or dropped and counted; none waits for ever |
| Refusal clock (`internal/backoff/gate.go`) | since, last, wait | OK, Refused, Unreachable, Delay, restore | every API call | proxies answer for the dashboard; restarts | counts refusals only |
| Switch-off and syncs (`agent/refusal.go`, `syncrunner.go`, `protstate.go`) | `protCtl`, versions seen and applied, requests, the state file | heartbeat, sync, switch off and on, save, restore | firewall, gate, API | unserialised saves, a sync crossing a switch | never off while accepted, never stuck on an old configuration |
| Closed ports and egress blocks (`agent/fwactions.go`, `fwstate.go`, `firewall/portsegress.go`) | `fwBase`, `fwPending`, `fwOverlay`, `fwDone`, `fwUnsent`, `fwApplied*`, `firewall-state.json` | sync, run a request (refuse, apply, verify, undo), report, restore | syncs, API, chains, host | a request outlives several syncs; its result may be lost; a restart forgets the overlay | nothing takes effect unverified, nothing runs twice, no sync undoes it |
| Firewall guard (`agent/fwguard.go`, `firewall/csf*.go`) | backoff, follow-up, csf lock holder | tick, repair, report conflict | chains, csf | another tool repairs in the opposite direction | repairs go on, at a bounded rate |
| Push channel (`internal/ws`, `realtime`) | connection, backoff | connect, authenticate, receive | rules, bans, syncs | messages lost while down | reconnects; a sync mends what was lost |
| Self-update (`internal/updater`) | crash counter, backup, marker, staging file | check, stage, preflight, replace, recover | systemd, dashboard | a crash between any two steps | a bad version is rolled back, a good one is not |
| Log watchers and ban decisions (`internal/watcher`, `agent/sshlogins.go`) | offsets of the logs, windows and scores per address | tail, line, score, expire, ban, verify a crawler | bans, events, login guard | rotations under a tail; two sources of one line; settings that change meanwhile | a line counts once and for who it is about; crawlers and persons are spared |
| Scan detection (`scanwatch`) | attempts that wait, the table of the sockets, captures | attempt, read of the table, switch | events | the table is old when it is asked | clients are no scanners, who goes on is reported |
| DNS and egress monitoring (`dnswatch`, `monitor`) | destinations, verdicts, names, askers | packet, scan, feed | events, closed egress | bounded tables; the owner of a packet is looked up later | a question is laid to who asked it |
| Host monitoring (`monitor`, `dbclients`, `netstate`) | baselines, counters, samples | check, scan, sample | events, closed ports | a read fails, a cooldown hides a change | what changed is told, a flood is one |
| Malware scanner (`internal/malware`, `agent/malwarescan.go`) | the slot, the scan, signatures, the watched directories | scan, cancel, load, poll | events, dashboard | signatures replaced under a scan; loops stopped and started | the end is the last word on a scan; a file is alerted once |
| Quarantine and restore (`internal/malware`) | vault, journal | quarantine, restore | dashboard | a crash between move and record | nothing is lost, what was restored is what was taken |
| Hardening fixes and package updates (`remediation`, `agent/hardening.go`, `verify`) | backup of each fix | apply, verify, roll back | host, dashboard | verification fails after application | a fix that breaks the host is undone |
| Virtual patches and the web server (`modsecurity`, `webserver/ua_block.go`, `agent/vpatch.go`) | the files of the web server, what it has loaded | write, test, load, take back | syncs, bans | a test fails, a reload is put off, a crash in between | the web server starts; what was taken out refuses nobody |
| Bot policy and trusted addresses (`agent/botpolicy.go`, `intel`, `trust`) | lists, policy, caches, verification files | download, merge, place, remove | syncs, watchers | two threads install a list; a crash before the record | the policy is in force, no one else's file is touched |
| Sessions and login history (`session`, `loginhistory`, `agent/sshlogins.go`) | sessions by PID, history, series | line, close, prune, guard | bans | PIDs used again, logs read twice | reported once; who logs in is not banned |
| Panel plugins (`agent/panel*.go`, `panel`) | lifted bans, allowed addresses, an outbox | lift, allow, report | bans, syncs | a sync works from an older list | a lift lasts, reports arrive in order |
| Country blocks and threat sets (`firewall/geoblock.go`, `threatset.go`, `geoip`) | sets, databases, keys of what was applied | load, swap, rebuild, download | chains, syncs | loads side by side, a switch-off meanwhile | the sets are exactly what was asked for |
| Inventories and configuration checks (`collector`, `scanner`, `phpconf`, ...), installer, packaging | caches | parse, report | events | I/O and text | |

`PROJECT.json` lists every component with its sources and status, and the
hazards of the code, each at its line with the properties that cover it or the
reason none does.

### How they interact

```
 watchers --ban--> ban table --ipset--> kernel <--iptables-- chains <-- guard
    |                 ^  ^                                     ^  ^
    |note          lift  list                              rules  closed ports
    v                 |  |                                     |  |
 outbox --report--> [ dashboard ] <--heartbeat, sync, push-----+--+
    |                 ^   |accepts, refuses, unreachable
 state file           |   v
    ^              events  refusal gate --> switch-off / switch-on
    +------------------------------------------+
```

## 2. The modules

A module has its state as `VARIABLES` named as in the code, an action for each
section under a lock and for each command or request outside one, the
properties at its end. A definition whose name begins with `Mut` is the one
after it with a plausible mistake in it: it is no part of the specification and
is there to see that a property fails when the code is wrong. Variables marked
history or ghost are read by properties only. `PROJECT.json` `map` gives the
source lines of each definition.

### The firewall

**FirewallBans** (proofs: `FirewallBansProofs`). The ban table (`bans`) and the
kernel set (`kset`, `setExists`). Each goroutine `t` that bans, lifts, expires,
syncs, repairs or switches is at `th[t].pc` with its locals: `ClaimBan`, then
`BanEvict`, `BanCheck`, `BanAdd` are `BanIPUntil` (the table under the lock, the
eviction's ipset commands, the check of `disabled`, the ipset add); `Unban`,
`UnbanCheck`, `UnbanDel`; `ExpireBans` and `ExpireDrop`; `SyncFetch` to
`CleanDel` are the ban part of a sync; `Disable`/`RemoveAll`,
`Enable`/`EnableEnsure`; `Ensure`; `SaveBans` and `Restart` the state file;
`HostFlush` another tool. `RemoveAll` may have to leave the set (`DestroySet`:
a failing `ipset destroy` is passed over), and records protection as off all
the same. A section that runs ipset while it holds the lock
(`Ensure`, `dropFromKernel`) is one action: the commands of other goroutines
commute with those inside it. `V6` are the addresses an `hash:ip` set refuses.

**FirewallRules** (`FirewallRulesProofs`). `ApplyRuleID`, `RemoveRuleID`,
`ReconcileRules`, the push listener (`ws`) and the rule part of `syncAndApply`
(`sync`), with the dashboard's statuses and the messages on their way.
`touched` stands for the generation counters: they are only ever compared with
the generation the one running sync took.

**FirewallActions** (`FirewallActionsProofs`). Closed ports and egress blocks: a
target is a port or an address, closing one stands for blocking the other.
`SyncFetch`, `SyncApply` (`applyFirewallState`), `Begin` to `End`
(`applyFirewallActions` with `runFirewallAction`: `Read`, `Decide`, `Apply`,
`Confirm`, `Verify`, `Undo`, `Report`), `NoteBegin`/`NoteEnd` (the save that is
not serialised with the others), `Guard`, `Crash`, `Start`. What the host shows
of a target is one of four classes, those the refusals tell apart;
**CutOffChecks** (`HostProofs`) has the checks themselves (who is in a session, which clients
of a database are regular). Assumed: the goroutine of a sync has taken its turn
before the next sync is applied.

**FirewallGuard** (`WatchProofs`): the guard's look, follow-up, backoff, the lock
of csf. The look for csf's lock and the `Ensure` after it are steps of their own:
`EnsureBegins`, an `EnsurePart` for the jump and one for the rest, `EnsureEnds` or
`EnsureFails`, with other tools and csf in between; what a failing `Ensure` had
restored stays, and is not told. `Ensure` takes no time of the guard's clock.
**SourceBlocks**: country sets and the threat set, loaded side by side with
rebuilds and the switch, whose removal (`RemoveSets`) passes over commands that
fail: `left.stuck` is what it left of the chain. **AddressRanges**: the download of the country
database, and the arithmetic of networks on addresses of `Bits` bits (ranges to
CIDRs, exempt addresses, too broad or safe threat entries), checked against the
set of addresses they stand for.

### The link to the dashboard

**Protection** (`ProtectionProofs`). The gate (`backoff/gate.go`) as functions on
records, its times as ages in units of half an hour, capped where the code
stops telling them apart; composed with the heartbeat, `syncRunner` (request,
debounce, periodic sync, versions), `checkRefusal` with `disableProtection`,
`enableProtection`, the state file's timer and writes, shutdown, crash, start.
`protCtl.op` is held for the whole of a switch.

**BanOutbox** (`ReportsProofs`). A watcher's ban, note, report, mark; the
sync's flush, its decision what to keep, its cleanup; the file's two reads;
lifts. The ban table is a set here, since `FirewallBans` has the rest.

**EventDelivery**, **EventQueue** (`ReportsProofs`). `EventDelivery` is what the sender promises of
an event: its fate moves from waiting to delivered, dropped, kept or lost, in
order. An event is given up on its own only when the dashboard refuses it or has
failed a request (`Refuse`, counted in `faults`), or to make room for another. It
is lost only as the process ends: at a shutdown, what is not urgent or did not fit
the spool (`Stop`); at its next start what waited when it was killed (`Restart`,
counted in `starts`, so that each of the sender's own restarts accounts for one);
or when the disk fails the spool (`diskFails`). `EventQueue` is the sender: `add`
with `makeRoom`, the goroutine `run` with its timers, batches, parts, retries and
poison rule, `Flush`, `Close`, the spool with writes that fail and reads that fail
and remove it (`DiskFault`). `Delivery == INSTANCE EventDelivery
WITH ...` maps each event's place to its fate; the run checks
`DeliveryKept`, that `EventQueue` implements it.

**PushSignals** (`WatchProofs`): the channel, its join, the signals and the syncs
they ask for, which end (`SyncEnd`) or fail (`SyncFails`: the error is dropped,
nothing is asked for again); and the connection with its authentication, refusals
and waits.

### The host

**Updater** (`HostProofs`). The files of an update: the binary in place, the
backup, the crash counter. A binary is its version, or `Broken` when a copy was
cut short. `Start` is systemd running the recovery script and then the binary;
`HealthCheck`, `Rollback`, `RollbackEnd` are `CheckStartupHealth`; `Stage` to
`RestartService` are `CheckAndUpdate`; `Settle` clears the counter after two
minutes. What each release is (`kind`) is chosen at the start: good, failing its
check, crashing after its first sync, crashing before it.

**Quarantine** (`HostProofs`). The steps of a quarantine and of a restore
between which the process may end or one may fail: description, move, copy,
removal, and the marks. A file's birth and second stand for its identity. Two
paths may have one name in the vault; `clashed` is a history of the versions that
met another path's file or description there.

**HostChanges** (`HostProofs`): fixes and virtual patches written, tested,
loaded, verified and taken back; `putBack` is a history of the patches whose
removal failed. A result is queued as an event, which may be dropped (`Answer`):
the request then stays pending and is not run again before a restart; `dropped` is
a history of these. **TrustFiles** (`HostProofs`): the verification files of
domains, placed and removed root by root, recorded, reported.
**WebServerEdits** (`WatchProofs`): the bots refused by the web server
(`ua_block.go`), and the bans given to ModSecurity.
**MalwareScans** (`WatchProofs`): scans with cancel, time limit, signatures replaced meanwhile
and the schedule; the watcher of the upload directories. **HostAlarms** (`WatchProofs`):
integrity, floods, zombies, and what of them is told once. **Sessions** (`HostProofs`): the
sessions read from a log that is rotated, and the series of automatic logins.
**LoginHistory**, **LoginGuard**: the logins that shield an address, their policy
and pruning; a ban that asks the guard and is made afterwards.
**PanelLifts**, **PanelAllow** (`ReportsProofs`): bans lifted and addresses allowed in a hosting
panel, against syncs that work from older lists, with reports that fail.

### What is seen

**LogWatchers** (`SourcesProofs`): a tail over rotations, truncations and the hot reload (bytes are
chunks, a line is some of them); the mail, database and FTP watchers with their
counters. **WebSources** (`SourcesProofs`): which logs of which web server are read, for which
site, behind which proxy. **WebWatch** (`WatchProofs`): scores, decay, eviction, crawler
verification, settings. **PacketWatch** (`SourcesProofs`): what counts as a probe; the switch of a
capture and what stands in for it. **EgressWatch** (`SourcesProofs`): the destinations the server
depends on; DNS queries and who asked them. **PublicLists**: downloaded lists and
the policy of the dashboard make the list in use.

### Compositions

A component runs by itself unless it shares state with another. Those that do
are one module (`Protection` and the modules above that name two files of the
code). The others share a run: `MCReports`, `MCHost`,
`MCSources` and `MCWatch` extend several components and begin with a choice,
`which`, of the one whose actions are enabled, so that the state spaces add up
and do not multiply. Their properties are conjunctions of the components' own,
each true of the initial state of a component that does not run.

| composition | components |
| --- | --- |
| `MCReports` | EventQueue, BanOutbox, PanelAllow |
| `MCHost` | Updater, Quarantine, HostChanges, Sessions (two parts), PanelLifts, CutOffChecks (two parts), TrustFiles |
| `MCWatch` | FirewallGuard, WebWatch, LoginHistory, LoginGuard, PushSignals, WebServerEdits (two parts), MalwareScans (two parts), HostAlarms |
| `MCSources` | SourceBlocks, AddressRanges (two parts), LogWatchers (two parts), WebSources, PacketWatch (two parts), EgressWatch (two parts), PublicLists |

`MCHost` and `MCSources` also have a specification of one component alone each
(`VaultSpec`, `ListsRun`), for two of the configurations that fail (section 6). `FirewallBans`,
`FirewallRules`, `FirewallActions`, `Protection`, `FirewallGuard` and `LoginGuard`
are run as they are, with their constants from the configuration.

## 3. The runs

`CHECK_DEADLOCK FALSE` is set in every configuration: people's requests,
faults and restarts are bounded, and where they are used up and all work is
done the bounded system really is at rest.

| run | instance | shows |
| --- | --- | --- |
| `FirewallBansRace` | 3 addresses, one IPv6, capacity 2, one goroutine each to detect, push, expire, repair, switch; 3 requests, a restart | the capacity, the eviction order and the kernel set hold over every interleaving, and a switched-off agent neither makes a set nor fills the one it had to leave |
| `FirewallBansLive` | 2 addresses, capacity 1, syncs with and without monitor mode, a host flush | table and kernel set come to agree |
| `FirewallRulesLive` | 2 rules with the same arguments, one failure of iptables, one faulty list, one restart | chain = table always; no live rule is dropped; the chain ends as the dashboard wants |
| `FirewallActionsLive` | a close and an open of one port, one request per sync, one lost result or refused rule set, two changes of host, mode or process | no close is enforced outside its run, none runs twice, no sync undoes one, all are answered |
| `ProtectionLive` | a gap of 1 and a limit of 2 units, changes of the dashboard, a restart | the clock, the switches and the versions stay honest; the agent follows the dashboard |
| `ReportsLive` | events: 3, one refused, queue and batch of 2, 2 faults, a disk that fails once, a shutdown or crash; outbox: two watchers and one address, or a restart, or an outbox one smaller than the addresses; panel: two requests for one address, a lost report, a restart, a week | `EventQueue` implements `EventDelivery`; a sync spares the bans noted; what a panel allowed is told in order; nothing waits for ever |
| `HostLive` | 3 releases of any kind and 3 kills; 2 paths with one name in the vault, a crash and a fault; two fixes, a patch and a permission, at most one of them bad and one harmful, and a mishap; 2 logins; and so on | proven versions only, what is kept can be restored, changes are in force or taken back, visitors are known and not cut off |
| `WatchLive` | two visitors, two logs, 3 requests; a rewriting tool; 2 roots, one too big; one upload directory with 2 loops; two virtual hosts, one hidden; and so on | who is banned and for what, the web server starts, no change is missed, retries are spaced |
| `SourcesLive` | one country, 2 databases; 3-bit addresses with every country of two ranges; 3 lines of up to 3 chunks; 4 ports; and so on | the kernel's sets are exact, a line counts once, nobody is misjudged, what was asked for comes to be in use |
| `FirewallRulesRedo`, `FirewallActionsRestart`, `LoginGuardGuesses` | smallest instances | the first three findings of section 6 |

Why the bounds are enough. The properties relate at most two actors to one
address, rule, file or request and its rival, and each instance has the rival: a
third address for a table of two, a second rule with the same arguments, an
older and a newer request on the same port, an event more than the queue holds.
A threshold, a window or a limit is at the smallest value that has a case
below, at and above it. One restart and one fault suffice to separate any two
adjacent steps, which is where the code loses what it has not saved; where a
component's hazard is two of them, its bound is two. Time is bounded at the
first value after the last comparison. Each property is known to fail in its
run's own instance when a mistake is planted (`PROJECT.json`, `mutants`), so
that the case it is about does happen there. In a composition the mutant shows
this of one of its conjuncts.

## 4. Fairness

Safety runs use `Spec`, which has none. The live specifications add:

- `FirewallBans`, `FirewallRules`, `BanOutbox`, `PanelLifts`: a goroutine in the
  middle of an operation goes on (commands run through `command()` and requests
  to the API end by their timeouts), the timers, the guard and the periodic sync
  come round for ever. No fairness makes a person or an attacker act, nor a push
  message arrive.
- `EventQueue`: the sender goes on, timers fire, the context of `Close` ends.
- `FirewallGuard`: the guard ticks for ever and every `Ensure` ends (its commands
  time out). None for csf: that one of its runs never ends is covered.
- `PushSignals`: a sync that runs ends, well or not; the number of failures is
  bounded (`MaxBreaks`).
- `Protection`: the goroutines take their turns, time passes, systemd starts the
  agent again (`Restart=always`).
- `FirewallActions`: the periodic sync, a started goroutine, the goroutine's
  next step, systemd. None for `Guard`: the liveness does not rest on it.
- the compositions: `WF_runVars(UNCHANGED which /\ Runs(n))` for the `n`-th
  thread of the component that runs: a goroutine that has begun goes on, a
  ticker ticks, a sync comes. None for people, faults, kills, releases, what
  the dashboard edits or what the host does.

All are weak but four. In `MCSources`, `SF` for the rebuild that the guard asks
for and for the half window of the DNS analyser: both wait for a moment in
which another goroutine is between two steps, and Go's mutexes and tickers serve
a waiter in the end. In `MCWatch`, `SF` for a loop of the upload watcher that
has a closed channel and a tick to choose from: `select` chooses at random. In
`MCHost`, `WF` for each fix by itself.

## 5. The proofs

For every value of the constants that satisfies the named assumptions of the
module, unlike the runs. Each theorem has the same argument: an inductive
invariant, checked with TLC first; one lemma per action that it is kept; the
temporal step. Types are proved first where the rest needs them.

**FirewallBansProofs** (`CapAssumption`, `TimeAssumption`, `AddrAssumption`,
`SwitchAssumption`: one switch at a time, `KeepAssumption`). `TypeCorrect`;
`CapacityHolds`, where the work is the lemma `MakeRoomFits`: whatever a list
evicts, a list of at most `Cap` bans it keeps fits beside what stays;
`OffStaysOff` (`OffMeansOff`, an action property): from the flag on until the next
switch-on, restarts included, a set that is gone is not made again, no goroutine
comes to add a ban, and a set the removal had to leave gains only what the adds
past their check put there. `OffInv` adds that a completed switch-off has the flag
up and that only the holder of `protCtl.op` is between the two. Three
action properties, over any number of goroutines between the section that
changes the table and the command: `RebannedSpared` (`DropSparesRebanned`): the
kernel gives up no address that was banned again meanwhile; `ExpiredGone`
(`ExpiredLeaveKernel`): what expired is gone from the kernel when `ExpireBans`
returns, unless an IPv6 address is among what it has to take out: ipset stops there
and leaves the rest of the batch. The exception is part of the property, for any
`V6`; the run has such an address, and `FirewallBansV6.cfg` shows the property
without the exception violated. `PermanentBansSpared`
(`PermanentSpared`): no permanent ban is pushed out while a passing one is
there. It rests on `SyncsOwn`: only the goroutine of a sync is ever in the
middle of one, so that the list a new ban makes room for is the one in force.

**FirewallRulesProofs** (`ArgsAssumption`). `TypeCorrect`; `ChainIsTable`, for
any assignment of arguments to IDs; `NoLiveRuleDropped`: once the answer to a
sync has come, each rule in force that the table has and that nobody touched
since the request is applied, being applied, or still to be looked at
(`AllInHand`); to carry it, a rule the agent has heard of in any way has been
created, and without a failure of iptables none is marked failed.

**ProtectionProofs** (`AgeAssumption`, `BoundAssumption`). `ProtectionTypes`;
`BeliefsAreTrue` (the run's `BeliefsHold`): the clock counts refusals only, the
switches exclude each other, firewall, gate and status agree at rest;
`NoChangeTakenForApplied` (`NoMissedChange`); `AcceptedSwitchesOn`, the action
property `AcceptedMeansOn`. `ProtectionInv` adds what the three need: that a
clock and the save of one have both times or neither (`TypeInv`), that no holder
of `protCtl.op` is left behind (`AtRest`), that the clock of a *save* in
progress and of the file is honest too, since a restart makes it the clock
(`ClockInv`), that a sync that was accepted has switched on or is about to
(`SyncedOn`), and how the versions of the dashboard, the sync and the record
are ordered at each step of a sync (`VersionInv`).

**FirewallActionsProofs** (`RequestAssumption`, `BoundAssumption`).
`ActionsTypes`, with `AtRequest`: a goroutine is at a request of its list;
`PendingIsHeld` (`PendingWaits`): nothing is enforced but what a request closed
that was verified, that the dashboard knows as done, or that is being verified.
`HeldInv` ties the overlay, what waits to be reported and what is applied to
the requests, in memory and in the file. `RunAtMostOnce`: a request runs once in
a life of the process, whatever syncs cross its result. This is the first half
of `AppliedOnce`; the second, `KeepsApplied`, is no theorem for every
`Requests`: a second request to close a port that is closed already opens it
until its own run has verified it (`agent/fwactions.go:345`-`355`). It is
checked on an instance without such a request.

**WatchProofs**, PushSignals (`SignalsAssumption`, `SignalsBounds`):
`SignalsTypes`; `SignalsMissNothing` (`NoChangeMissed`): while the channel is
joined, a change no sync has applied is on its way, asked for, about to be fetched,
or was fetched by the last sync, which runs or has failed. A failed sync is where
the signals end: the heartbeat's version (`Protection`, `NoMissedChange`) and the
periodic sync mend it. What makes it inductive is `JoinIsFirst`: the answer to a join comes
before every push of that join, so that a change after it is a push and one
before it is in the sync the join asks for. FirewallGuard (`GuardTimes`,
`GuardBounds`): `GuardInTime`: with iptables answering and csf away, a jump that
is gone is back within `Worst`, whatever the other tools do during an `Ensure`, and
no `Ensure` is begun in the first minutes of a csf run (`CSFSpared`). That nothing
is *repaired* there, as the code says, is false: `GuardDuringCSF.cfg`. The invariant is a sum: the time the jump has been missing and the
longest time until a look that may repair (`UntilLook`) stay within `Worst`. The
lengths of the looks and of the back-off keep their limits (`Spaced`), and what
the guard knows of the process that holds the lock of csf is no older than that
process (`HolderKnown`). PushSignals, the connection (`ConnectionAssumption`):
`RefusalsInTime`: the authentication is not asked for again before the wait that
the number of refusals calls for has passed, and a subscription that worked
starts the count over.
LoginHistory (`HistoryAssumption`, `HistoryBounds`): `HistoryTypes`, with the
limit of the history; `PersonsAreKept`: the cached list of unguarded addresses is
what the history says (`PolicyIsCurrent`, inductive with `HistoryFresh`: between
a scan and the next day nothing out of the window is kept, so that a login from
a known address moves nothing), and a person's address is not pushed out while
one that only service users logged in from stays. The proof attempt changed this
property: a person whose user becomes a service user by the very login, or by
what the same scan finds, can be pushed out, with more addresses than the run
has; `PersonsStay` now says so (`OnManyNets`). The lemmas `PrunedIs` (what
pruning leaves) and `PrunedUnguarded` (it makes nobody a service user) carry it.
A component of `MCWatch` moves by its own steps or not at all (`EachByItself`),
so that `RetriesInTime` (`RetriesSpaced`) and `LoginsAreKept` (`LoginsKept`) hold
of the composition. So does `WatchIsSafe` (`WebSafe`), from one invariant for each
of the six components it speaks of (`WatchInv`):

- WebWatch (`WebAssumption`): an answer that waits calls nobody an impostor the
  DNS confirms (`ImpostorsAreNone`); nothing longer has been asked for than what is
  noted of the address (`NotedIsLongest`); a flag and the score it came from age
  together (`FlagAges`), so that the cleaner's next pass takes both.
- WebServerEdits, the bots (`BotAssumption`): at each step of a change, what the
  vhosts hold (`LinesTold`), what a removal has left (`RemovedIsGone`) and what the
  change can come to when it fails there (`ChangeCanFail`): set up whole, or as it
  was. The rules of Apache (`RulesAssumption`): what is put back is read and what is
  loaded was tested (`RulesCanFail`); a change that begins with the rules taken out
  puts nothing else back (`OutStaysOut`).
- MalwareScans, the scans (`ScansAssumption`): the slot, the watch and the
  dashboard agree on whether one runs (`ScanHasSlot`); a cancellation in the middle
  of a root is still to be seen in the flag, in the root that was cut short, or in
  the status (`CancelKept`); the roots so far were walked or refused, and of a file
  that is being checked the built-in signature comes first, whatever a sync loads
  (`RootsKept`). The watcher (`UploadsAssumption`): the reports of a file, those a
  loop is about to make and the one it has still to find are no more than its
  versions (`Reported`), as long as no loop outlived a Stop.
- HostAlarms (`HostAlarmsConstants`): what the counters rose since the last scan
  is what they are now (`RiseIsSince`).

**HostProofs**, Updater (`VersionAssumption`, `CrashAssumption`,
`BoundAssumption`): `UpdaterTypes`; `UpdaterOnlyProven` (`OnlyProven`): neither
a kill between two steps nor one update after another makes a backup of a
version that never ran, or puts one in place that failed its check. `OwnBinary`
ties a process to the files: until it replaces the binary it runs what is in
place, a version that installs another has lived until a sync, and a rollback
has a backup. Quarantine (`PathsAssumption`, `SafeNameAssumption`,
`VaultBounds`): `VaultTypes`; `NothingLost` (`KeptRestorable`): every version of
a file is whole on the site, or whole in the vault under a description of its
path, whatever fails and wherever the process ends, for any `SafeName`: except a
version that met another path's under one name in the same second (`clashed`),
which the code does lose (`QuarantineClash.cfg`). `VaultInv` says of each job what is
where at its step (`Moving`, `Restoring`), whose the description in the vault is
(`Owned`, `Filed`), and that a version is not born twice (`Fresh`).
HostChanges (`ChangeAssumption`, `ChangeBounds`): `ChangesSafe`, its three
safety properties, with the fixer and the patcher at work at once. `ChangesInv`
says what each has in the files at its step (`FixShape`, `PatchShape`), that a
file is wrong only while it is tested (`BadTested`), that a change that takes a
site down is the one at work and saw the site up before (`HarmlessKept`), and
that what is reported applied is loaded (`AppliedKept`). The proof attempt, and
then TLC on more patches than the run has, changed `AppliedInForce`: see
`modsecurity/vpatches.go` in section 6.
TrustFiles (`TrustConstants`): `BadgesSafe`. `TrustInv` says that file and record
of a root change together (`RecordedInv`), that what was told is what the state
file has (`ToldInv`), and that each result the job has stands on a root it has
yet to visit, or on what it recorded of it (`JobFits`), from which what is
reported fits the records (`StateFits`). `ChangesAreRight` (`ChangesHold`) is both
of the composition that is checked, `MCHost`.
Sessions (`SessionBounds`): `SessionsReportedOnce` (`ReportedOnce`, with the types).
A login is open once, or leaving once, or reported once, and its line was read
(`OnceInv`); what its account ran is counted in the log (`LoginsInv`), and what a
session is credited with leaves room for what is unread (`CreditInv`), where the
tail is (`TailInv`) telling what was read. `AutomationAssumption`:
`AutomationEarned` (`SeriesLasted`): the logins kept and the first one on record
are of one series, in memory and in the file (`SeriesFits`), so that neither an
eviction nor a restart lends one the age of another. The loop of `record` is a
recursive function; what it computes (`RecentIs`) is found by an induction over
sets of numbers (`NatSet`), which needs no operator as a parameter. To be reasoned
about, the model's `Recent` now has that loop and `Burst` is positive, as
`autoBurst` is.
CutOffChecks (`RefusalsAssumption`): `NobodyShutOut` (`SessionsSpared`,
`GuessersNotShielded`, with the types): what a check read of a connection is true
of it still when it decides, if it stays (`HeldInv`), the ports of sshd it knows
are those of who comes by SSH but for the one sshd listens on now (`PortsInv`),
and who is taken for a client has logged in (`LoggedInv`).
`DatabaseClientsAssumption`, `ReportsSuffice`: `ClientsKnown` (`HeldIsCounted`,
`NobodyCutOff`, `ToldInTime`, with the types). What a client may rely on are two
days, or today (`FirmHolds`): nobody is evicted who has them (`CountOneIs`,
`CountAllIs`, again by `NatSet`). What is owed of yesterday and what the reports of
today have taken stay within `PerPort` (`OwedFits`), as a report takes the oldest
first (`ReportTakes`); that yesterday is told before today ends then needs
`ReportsSuffice`: the reports of a day take what a port may hold. The code's numbers
are 1000 addresses against 2000 entries every quarter of an hour.
`VisitorsAreRight` (`VisitorsKnown`) is the four of the composition, and
`HostSideTypes` (`TypesOK`) the types of all nine components; those of the scheduled
logins need that few keys have logins in the file too (`FewKeys`), as a restart
takes them from there. PanelLifts has its types only.

**ReportsProofs**, BanOutbox (`IPAssumption`, `OutboxAssumption`): `OutboxTypes`, the
outbox's limit included, for any number of watchers; `CleanupSpares`
(`NotedBansSpared`, an action property): the clean-up of a sync removes no ban
that nobody ended, if the outbox knew it when the sync decided what to keep.
`SparedInv` follows an entry from the note through the flush to the decision,
over reports that are lost, refused or sent twice.
PanelAllow (`PanelAllowConstants`): `PanelInOrder`, its types, the limit of its
outbox, who holds `outboxMu`, and `ReportsInOrder`, for any number of requests at
once. The induction is on what a dashboard that heard `h` holds once it has heard
the outbox too (`Told`): one report more decides its own address and no other
(`ToldAppend`), the one a full outbox forgets decides no other (`ToldTail`), and
reports heard again, whole or in part, say the same (`ToldAgain`, `ToldYoung`),
which is why an answer that is lost does no harm. `PanelOrder` adds what the steps
need of each other: a request not reported yet is the last change of its address
(`AsAllowed`, with `OneRequest`), one sends at once only while nothing waits
(`SendsFirst`), and what is about to be cleared has been heard (`SentAll`).
`ReportsAreRight` states `ReportsHold`, `DeliveryKept` and `NotedBansSpared` of
the composition that is checked, `MCReports`.

EventQueue (`SizeAssumption`, `BoundAssumption`): `EventsAreKept`
(`DeliveryKept`): for any number of events, limits of the queue, the batch and
the spool, and any set of events the dashboard refuses, the sender implements
`EventDelivery`, which lets it lose an event only as the process ends or the disk
fails the spool, and a full queue gives up an urgent event only when it holds
no other (`UrgentMakesRoomLast`). The inductive invariant is `QueueInv`
(`LineIsKept`): pending batch, queue and spool are one line (`InLine`), in which
the identities increase, what was delivered is a beginning, nothing was given up
and an event is as urgent as it was made; the sender sends nothing that is
empty, and a sender that runs has no spool. Each action either picks some of the
line in order (`PickedInLine`), appends to it (`NewInLine`, `WarningInLine`), or
moves where it is cut (`CutInLine`, `CutOfConcat`). Order is kept because a
batch that is refused in part counts as delivered part by part, from the front
(`PartIsAhead`), and what a shutdown leaves unsent is the newest of the line
(`UnsentIsNewest`). The refinement is then one lemma per action: the fate of each
event moves as `EventDelivery` allows (`NextImplements`), or not at all
(`SameFates`). The lemmas on sequences (`NthInOrder`, `KeepPicks`, `OnePart`,
`CutOfConcat`) replace what a recursion would need an induction for: `Keep` takes
the `k`-th position by counting those below, and `PartsArePending` has the ends
of the parts instead of a sum.

**SourcesProofs**: `NobodyIsMisjudged` (`NobodyMisjudged`), for any constants the
assumptions allow. One inductive invariant for each of six components:
- LogWatchers, the tails (`TailAssumption`): any lines of any length, any number of
  rotations. `TailsInv` has that the file, with the chunk written next, is a run of
  lines (`Flowing`); that every end of a line still to be read is of a later line
  than the last one handed on, which is why none comes twice; and that the lines
  torn, and one more while the reader is not at the beginning of a line (`Loose`),
  are at most the cuts. Reading is the hard step: only the first line handed on can
  be torn (`TornIsFirst`, `LaterIsWhole`), after an end the reader is at a beginning
  (`LeftOverFits`), and the mail reader forgets only the beginning of a line that is
  too long (`DroppedFits`).
- LogWatchers, the counters (`ServiceAssumption`): of the logs a failure is written
  to, one counts (`OneLog`), so that it is in one line (`InOneLine`) which is not
  counted before it is read (`ToBeCounted`).
- WebSources (`WebSourcesAssumption`): what a log takes for proxies are addresses of
  proxies (`AtProxies`).
- PacketWatch, the probes (`ScanAssumption`): each attempt of the client that waits is
  `Excused`, by a socket, by the FTP session the server knows of, or by a table that
  could not be read, for as long as it takes to the next read. This needs the memory
  for FTP clients to outlast that (2 minutes against 20 seconds in the code).
- EgressWatch, the destinations (`DestinationAssumption`): of an address listed from
  the first day on, only a restart leaves a day without a verdict (`JudgedAtOnce`);
  the questions (`DnsAssumption`): a table that is not old has of each port who held
  it lately (`FinderFits`), and a port who holds it (`Traced`).

Only model-checked, and why:

- every liveness property, and `ENABLED`: beyond the prover.
- `AppliedOnce`'s `KeepsApplied`: see above.
- `SetsAreRight`, with the arithmetic of networks: powers and folds again.
- the `TypesOK` of `MCWatch` and `MCSources`: that the signatures a sync selects are a
  sequence rests on a sort having a result, and that of the uploads on the bound of
  their number. The invariants above have the types of the other components but
  LoginGuard's, and PushSignals' and LoginHistory's are theorems.

## 6. Where the code departs from what it says

Each of these is a property that states a line of the repository and fails. The
first three are runs of `PROJECT.json`.

1. `FirewallRulesRedo` (`agent/main.go:1338`): a `rule.removed` between a sync's
   `RuleRemovedSince` and its `ApplyRuleID` is undone, until the next sync
   (against `firewall/rules.go:19`).
2. `FirewallActionsRestart` (`agent/fwactions.go:346`): a port closed and
   verified whose result has not arrived is opened by the first sync after a
   restart, and stays open if a client connected (against
   `agent/fwactions.go:53`).
3. `LoginGuardGuesses` (`agent/fwstate.go:84`): an address that guessed a
   password is shielded from bans all the same, by the session tracker at once
   or by the next reading of the log (against `agent/sshlogins.go:171` and
   `CHANGELOG.md:28`).

Each of four more is a property of a passing run without its exception. They
are not among the runs of `PROJECT.json`; the configurations are beside the modules,
and TLC ends each with a counterexample of a few steps.

| configuration | module | property | fails | its passing form |
| --- | --- | --- | --- | --- |
| `FirewallBansV6.cfg` | `FirewallBans` | `ExpiredAllGone` | `firewall/bans.go:121`: an IPv6 ban that expires with others stops the batch that takes them out of the set (`enforceable`, `bans.go:250`, lets it in); they stay in the kernel until a sync cleans up, which takes a dashboard that answers. Against `bans.go:145` | `ExpiredLeaveKernel` |
| `GuardDuringCSF.cfg` | `FirewallGuard` | `NoRepairDuringCSF` | `agent/fwguard.go:144`: csf takes its lock after the guard looked for it (line 135), and `Ensure` puts back what csf has just flushed. Against `fwguard.go:26` and `CHANGELOG.md:86` | `CSFSpared` |
| `QuarantineClash.cfg` | `MCHost` | `EveryVersionKept` | `malware/quarantine.go:41`: `/a/b` and `/a_b`, quarantined in one second, have one name in the vault, and the second file replaces the first. Against the hash promised at `quarantine.go:29`, and line 18 | `KeptRestorable` |
| `ListOvertaken.cfg` | `MCSources` | `NeverOvertaken` | `agent/botpolicy.go:98`: the list computed before a new policy is installed after the one computed with it, and stays until the next download or change. Against `botpolicy.go:15`-`17` | `ListInUse` |

Other places met while modelling, which no run of their own shows. The models
contain these behaviours; a property that they would break is stated so as to
leave them out, with a history variable that says so.

Firewall and link:
- `firewall/chain.go:880`-`932`: `RemoveAll` passes over every command that fails,
  and `agent/refusal.go:197` records protection as off all the same, although
  "only once everything is removed": chains and sets may remain, with the bans they
  hold, until the next switch-on or start. What is checked is that nothing fills
  them again (`OffMeansOff`, `OffHoldsNothing`).
- `agent/syncrunner.go:102`: a requested sync that fails is not asked for again.
- `agent/fwguard.go:144`: what an `Ensure` restored before a command failed is not
  reported.
- `agent/main.go:1327`: a ban made between `localBansToKeep` and
  `CleanupStaleBans` is removed by the latter.
- `backoff/gate.go:255`: one request that does not reach the dashboard, while
  protection is off, keeps the first accepted one from asking for the sync that
  switches it on.
- `firewall/chain.go:725`: `Ensure` runs ipset under the lock without the
  timeout that the comment at `chain.go:100` wants for it.
- `agent/main.go:2220`: `appliedKey` is set before `ApplyThreatSet` has
  succeeded, and compares lengths only; `firewall/geoblock.go:116`: `reload` is
  cleared though a load failed; `chain.go:836`: a country set loaded against a
  `Disable` is left behind; `chain.go:366`: temporary sets share a name.
- `ws/client.go:314`: connecting and authenticating have no timeout of their
  own; nor has the join of the channel.
- `agent/panelstate.go:455`: two requests for one address at once may report in
  reverse for good; a failed save of the outbox and a restart resend older
  reports after newer ones.

Updates, files, web server:
- `updater/updater.go:87`: once the counter is at three and there is no backup,
  the goroutine that should clear it (line 42) is not started, nor does an
  update reset it: the next version's first start goes back to the version
  before, though it never crashed.
- `agent/hardening.go:50`, `agent/vpatch.go`: the result of a change is an event as
  any other; if the queue drops it the dashboard goes on asking, and the agent takes
  the request for done until it restarts.
- `agent/hardening.go:157`: the undo of a fix is the opposite operation, not what
  was there before; `modsecurity/vpatches.go:221` writes back the rules read
  before the change, whatever has been written since. A patch whose removal
  failed, after someone reloaded Apache without it, is in the file and not
  loaded; applied again it is reported applied if any other patch is enforced,
  since an unchanged file is not loaded (`agent/vpatch.go:125`).
- `agent/trust.go:31`: a crash or a failed save between placing a file and
  saving leaves the file for ever; `trust.go:207`: a failed placing keeps
  "placed" although the owner replaced the file.
- `agent/refusal.go:245` and `webserver/ua_block.go`: a failed reload after a
  removal leaves the sentinel, and the bots are not set up again; a crash
  between the write of the list and the reload counts as "unchanged" for good;
  an emptied list is never applied. `modsecurity.go`: a failed reload after a
  write is not repeated.
- `malware/scanner.go`: `scanContent` reads `s.signatures` without the lock while
  `LoadDynamicSignatures` truncates them; what a user ignored is not respected
  for modified core files and hash matches (`scanner.go:285`). A late goroutine
  of a sync starts the upload watcher after a switch-off (`CHANGELOG.md:106`).
- `agent/botpolicy.go`: after a restart a cached list has the default actions until
  the first sync; the list of an older dashboard stays in use until the policy
  changes (`agent/main.go:1356`).

What is seen:
- `dnswatch/analyzer.go:184`: the recursion of a local resolver that an
  application asked is reported as the application's own query
  (`CHANGELOG.md:175`), and of two processes that ask for one name within five
  seconds either may be named; a tunnel with 5000 names or more is no longer
  reported.
- `watcher/maillog.go:236`: an Exim failure that is written both to Exim's own
  log and to a syslog mail log counts twice: only the journal's copy is skipped
  (`maillog_journal.go:46`).
- tails: a partial line is not dropped at a rotation, a log that outgrew the old
  one between two looks loses its first lines.
- `watcher/weblog.go:2528`: `isDetectOnly` has no caller, so that the detect-only
  list and the monitor mode change nothing here.
- `scanwatch`: a failed read of the table forgets the clients of the FTP server;
  a failed capture is never tried again.
- `monitor/destinations.go:247`: `Save` is not called at shutdown, as the record
  of database clients is (`agent/main.go:1094`), only now and then
  (`CHANGELOG.md:71`); a change within a cooldown is learned as normal and never
  told.
- `agent/dbclients.go:133`: a read of the access hosts that fails forgets those
  declared so far, until the next one (`CHANGELOG.md:33`).

## 7. What is not modelled

Every component is `partly` modelled: `PROJECT.json` says for each what is left
out. In general: cryptography, packet, log and configuration formats, the
matching of files and requests against patterns (a class of each is chosen
instead), HTTP itself, the wording of events, metrics, locks whose sections are
single actions. Of the modelled parts: the chain mode without ipset, country and
threat sets in `Ensure` (they are in `SourceBlocks`), the order of rules in a
chain, the byte budget of the event queue (it works as the limit on their
number), a spool that was read but cannot be removed, port and egress rules given
up in the kernel alone (`firewall/chain.go:451`), malformed requests, updates in Kubernetes, the removal of files at an
uninstall, the message at login.

Not modelled at all: the inventories and configuration checks (`collector`,
`scanner`, `phpconf`, `malware/framework_checks.go`, most of `webserver`), which
read files and format what they find without state of their own; the API
client's calls, one line of I/O each around the gate; the installer, charts,
packaging and the catalogue generator, which people run.

## 8. The plan

Done: the components above, their runs, and the theorems of section 5 about the
ones that decide most. What is worth proving next, in this order:

1. `KeepsApplied` under the hypothesis that no request closes what another has
   closed.
2. The safety of `PanelLifts` beside `HostProofs`.
