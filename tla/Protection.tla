----------------------------- MODULE Protection -----------------------------
(***************************************************************************)
(* How the agent follows the dashboard: the heartbeat and the syncs        *)
(* (syncrunner.go, main.go), the gate their answers move (gate.go), the    *)
(* switch-off after a day of refusals and the switch-on by the next sync   *)
(* (refusal.go), the state file that carries them over a restart           *)
(* (protstate.go).                                                         *)
(*                                                                         *)
(* What takes seconds or minutes (a request, a sync, a save) ends within   *)
(* the unit of time in which it begins; how those steps interleave is not  *)
(* restricted.  The heartbeat and the periodic sync run once in a unit.  A *)
(* configuration is its version.  The requests of other parts move the     *)
(* gate as the heartbeat's do and are left out, as is the watchers'        *)
(* monitor mode: banAndReport bans nothing while switched off.             *)
(*                                                                         *)
(* A definition whose name begins with Mut is the one after it with a      *)
(* mistake planted, to see a property fail.                                *)
(***************************************************************************)
EXTENDS Integers

CONSTANTS
    Gap,         \* ClockGap, and refusalFresh, which is as long
    Limit,       \* refusalLimit
    MaxVersion,  \* bound: configurations of the dashboard
    MaxTurns     \* bound: changes of the dashboard's attitude and ends of the process

ASSUME AgeAssumption == Gap \in Nat \ {0} /\ Limit \in Nat /\ Limit > Gap
ASSUME BoundAssumption == MaxVersion \in Nat \ {0} /\ MaxTurns \in Nat

(***************************************************************************)
(* The gate every request to the dashboard waits on: the backoff after a   *)
(* refusal and the refusal clock.                                          *)
(*                                                                         *)
(* A time is held as its age, in units of the longest backoff (Max, half   *)
(* an hour), and ages are counted no further than they are compared: since *)
(* up to Limit, last up to just past the gap.  The time the dashboard was  *)
(* last unreachable needs no field: Unreachable also clears the clock, so  *)
(* a clock that runs was started after it.                                 *)
(***************************************************************************)
None == -1
Since == {None} \cup 0..Limit
Last  == {None} \cup 0..(Gap + 1)
Gates == [since: Since, last: Last, wait: 0..1, idle: BOOLEAN]

\* The clock's two times are set and cleared together.
Paired(g) == (g.since = None) = (g.last = None)

FreshGate == [since |-> None, last |-> None, wait |-> 0, idle |-> FALSE]

Running(g) == g.since # None

Older(age, most) == IF age = None \/ age = most THEN age ELSE age + 1

\* A unit of time passes.
Aged(g) == [g EXCEPT !.since = Older(@, Limit), !.last = Older(@, Gap + 1), !.wait = 0]

MutClearClock(g) == [g EXCEPT !.since = None]
ClearClock(g) == [g EXCEPT !.since = None, !.last = None]

OK(g) == [ClearClock(g) EXCEPT !.wait = 0]

Unreachable(g) == ClearClock(g)

\* The dashboard's own answer moves the clock, and a gap starts it again.
MutCounted(g) ==
    [g EXCEPT !.since = IF @ = None \/ g.last > Gap THEN 0 ELSE @,
              !.last = IF @ = None THEN 0 ELSE @]
Counted(g) ==
    [g EXCEPT !.since = IF @ = None \/ g.last > Gap THEN 0 ELSE @, !.last = 0]

\* Delay: a wait shorter than half a unit is over before the next one; an idle
\* gate waits Suspended. Requests sent together are one try, unless the
\* dashboard refuses them differently.
Waits(g) == (IF g.idle THEN {1} ELSE 0..1) \cup (IF g.wait > 0 THEN {g.wait} ELSE {})

\* The gates Refused may leave; own: the answer is the dashboard's (dashboardBody).
Refused(g, own) ==
    {[(IF own THEN Counted(g) ELSE g) EXCEPT !.wait = w] : w \in Waits(g)}

\* None stands for the zero duration of a clock that does not count.
RefusedFor(g) == IF g.since = None \/ g.last = None \/ g.last > Gap THEN None ELSE g.since

RestoreClock(g, since, last) ==
    IF since = None \/ last = None \/ last > Gap THEN g
    ELSE [g EXCEPT !.since = since, !.last = last]

(***************************************************************************)
(* The agent.                                                              *)
(***************************************************************************)
VARIABLES
    gate,      \* the API client's Gate
    off,       \* protCtl.disabledAt is set
    fwOff,     \* firewall.Disabled
    op,        \* who holds protCtl.op
    watch,     \* watchRefusal's goroutine
    hb,        \* the heartbeat's goroutine
    sync,      \* the sync under way: its step, its caller, version, answer
    loop,      \* syncRunner.Loop's goroutine
    request,   \* a token in requests
    notice,    \* a goroutine runs onAccepted
    seen, applied,  \* syncRunner's versions
    inForce,   \* the version of the configuration the agent applied last
    timer,     \* prot.saveAt is set
    saver,     \* the save its timer has begun: what it is about to write
    file,      \* protection-state.json
    up,        \* the agent runs
    due,       \* the periodic work of this unit not yet begun
    dash,      \* the dashboard: its attitude, its version
    spoilt,    \* history: the clock counts time before another answer
    lost,      \* history: the agent was killed before a save it owed
    turns

vars == <<gate, off, fwOff, op, watch, hb, sync, loop, request, notice, seen, applied,
          inForce, timer, saver, file, up, due, dash, spoilt, lost, turns>>
env      == <<up, dash, lost, turns>>
runner   == <<seen, applied>>
switches == <<off, fwOff, op>>
storage  == <<timer, saver, file>>

Attitude == {"accepts", "refuses", "blocked", "down"}
Versions == 0..MaxVersion
Saved    == [off: BOOLEAN, since: Since, last: Last, spoilt: BOOLEAN]
NoSave   == [none |-> TRUE]
NoFile   == [off |-> FALSE, since |-> None, last |-> None, spoilt |-> FALSE]
Answers  == [as: Attitude, version: Versions]
NoAnswer == [as |-> "down", version |-> 0]
IdleSync == [pc |-> "idle", by |-> "none", version |-> 0, ans |-> NoAnswer, refused |-> FALSE]
IdleHb   == [pc |-> "idle", ans |-> NoAnswer]

\* saveProtectionState: what it reads.
Snapshot == [off |-> off, since |-> gate.since,
             last |-> IF Running(gate) THEN gate.last ELSE None, spoilt |-> spoilt]

AgedSave(s) == [s EXCEPT !.since = Older(@, Limit), !.last = Older(@, Gap + 1)]

----------------------------------------------------------------------------
(* Requests: held back while the gate waits, or answered at once; it is    *)
(* the answer's way back that takes time, so that answers are taken in any *)
(* order.  An answer moves the gate, and a clock that starts or stops is   *)
(* saved (onChange).                                                       *)

Held == gate.wait > 0

Answer == [as |-> dash.as, version |-> IF dash.as = "accepts" THEN dash.version ELSE 0]

\* Every other answer than a refusal ends the streak, and so does a gap: a
\* clock that goes on running after it, in memory or in a file to be restored,
\* is spoilt.
Spoil(s) == [s EXCEPT !.spoilt = (s.since # None)]
Continues == Running(gate) /\ gate.last <= Gap

GateAfter(ans) ==
    CASE ans.as = "accepts" -> {OK(gate)}
      [] ans.as = "down"    -> {Unreachable(gate)}
      [] ans.as = "refuses" -> Refused(gate, TRUE)
      [] ans.as = "blocked" -> Refused(gate, FALSE)

\* onChange after OK or Unreachable.
StopSaved == Running(gate)

Take(ans) ==
    /\ gate' \in GateAfter(ans)
    /\ notice' = (notice \/ (ans.as = "accepts" /\ Running(gate)))
    /\ \/ /\ ans.as \in {"accepts", "down"}
          /\ timer' = (timer \/ StopSaved)
          /\ spoilt' = Running(gate')
          /\ file' = Spoil(file)
          /\ saver' = IF saver = NoSave THEN saver ELSE Spoil(saver)
       \/ /\ ans.as = "refuses"
          /\ timer' = (timer \/ ~Continues)
          /\ spoilt' = IF Continues THEN spoilt ELSE gate'.since # 0
          /\ UNCHANGED <<file, saver>>
       \/ /\ ans.as = "blocked"
          /\ UNCHANGED <<timer, spoilt, file, saver>>

----------------------------------------------------------------------------
(* The heartbeat.                                                          *)

HbSend ==
    /\ up /\ hb.pc = "idle" /\ "heartbeat" \in due /\ "initial" \notin due /\ sync.by # "initial"
    /\ due' = due \ {"heartbeat"}
    /\ hb' = IF Held THEN hb ELSE [pc |-> "answered", ans |-> Answer]
    /\ UNCHANGED <<gate, switches, watch, sync, loop, request, notice, runner, inForce,
                   storage, env, spoilt>>

AfterAnswer == {"enable", "firewall", "save", "apply"}

HbTake ==
    /\ hb.pc = "answered"
    /\ Take(hb.ans)
    /\ hb' = IF hb.ans.as = "accepts" THEN [hb EXCEPT !.pc = "observe"] ELSE IdleHb
    /\ sync' = [sync EXCEPT !.refused = @ \/ (hb.ans.as = "refuses" /\ sync.pc \in AfterAnswer)]
    /\ UNCHANGED <<switches, watch, loop, request, runner, inForce, env, due>>

\* ObserveVersion.
HbObserve ==
    /\ hb.pc = "observe"
    /\ seen' = hb.ans.version
    /\ hb' = IF hb.ans.version # applied THEN [IdleHb EXCEPT !.pc = "request"] ELSE IdleHb
    /\ UNCHANGED <<gate, switches, watch, sync, loop, request, notice, applied, inForce,
                   storage, env, due, spoilt>>

\* Request: the channel holds one token, so that one sent while the loop is
\* busy is not lost.
HbRequest ==
    /\ hb.pc = "request"
    /\ request' = TRUE
    /\ hb' = IdleHb
    /\ UNCHANGED <<gate, switches, watch, sync, loop, notice, runner, inForce, storage,
                   env, due, spoilt>>

\* OnAccepted's function.
Accepted ==
    /\ notice
    /\ notice' = FALSE
    /\ request' = (request \/ off)
    /\ UNCHANGED <<gate, switches, watch, hb, sync, loop, runner, inForce, storage, env,
                   due, spoilt>>

----------------------------------------------------------------------------
(* The syncs (syncRunner.Now, syncAndApply), one at a time (s.mu).         *)

\* The initial sync, Loop's and the periodic one.
SyncBegin(by) ==
    /\ up /\ sync.pc = "idle"
    /\ \/ by = "initial" /\ due' = due \ {"initial"}
       \/ by = "loop" /\ loop = "lock" /\ UNCHANGED due
       \/ by = "periodic" /\ due' = due \ {"periodic"}
    /\ by # "loop" => by \in due
    /\ by = "periodic" => "initial" \notin due
    /\ sync' = [IdleSync EXCEPT !.pc = IF Held THEN "failed" ELSE "answered",
                                !.by = by, !.version = seen, !.ans = IF Held THEN @ ELSE Answer]
    /\ UNCHANGED <<gate, switches, watch, hb, loop, request, notice, runner, inForce,
                   storage, env, spoilt>>

SyncTake ==
    /\ sync.pc = "answered"
    /\ Take(sync.ans)
    /\ sync' = IF sync.ans.as = "accepts" THEN [sync EXCEPT !.pc = "enable"]
               ELSE [sync EXCEPT !.pc = "failed", !.ans = NoAnswer]
    /\ UNCHANGED <<switches, watch, hb, loop, request, runner, inForce, env, due>>

\* enableProtection.
SyncEnable ==
    /\ sync.pc = "enable" /\ op = "free"
    /\ off' = FALSE
    /\ IF off THEN op' = "sync" /\ sync' = [sync EXCEPT !.pc = "firewall"]
              ELSE op' = op     /\ sync' = [sync EXCEPT !.pc = "apply"]
    /\ UNCHANGED <<gate, fwOff, watch, hb, loop, request, notice, runner, inForce,
                   storage, env, due, spoilt>>

EnableFirewall ==
    /\ sync.pc = "firewall"
    /\ fwOff' = FALSE
    /\ sync' = [sync EXCEPT !.pc = "save"]
    /\ UNCHANGED <<gate, off, op, watch, hb, loop, request, notice, runner, inForce,
                   storage, env, due, spoilt>>

\* SetIdle(false), then saveProtectionState.
EnableSave ==
    /\ sync.pc = "save"
    /\ gate' = [gate EXCEPT !.idle = FALSE]
    /\ file' = Snapshot
    /\ op' = "free"
    /\ sync' = [sync EXCEPT !.pc = "apply"]
    /\ UNCHANGED <<off, fwOff, watch, hb, loop, request, notice, runner, inForce,
                   timer, saver, env, due, spoilt>>

\* The rest of syncAndApply; noteSyncedSettings saves.
SyncApply ==
    /\ sync.pc = "apply"
    /\ inForce' = sync.ans.version
    /\ timer' = TRUE
    /\ sync' = [sync EXCEPT !.pc = "applied", !.ans = NoAnswer, !.refused = FALSE]
    /\ UNCHANGED <<gate, switches, watch, hb, loop, request, notice, runner,
                   saver, file, env, due, spoilt>>

\* The version is the one seen before the request: the answer is as new.
MutVersion == seen
Version == sync.version

SyncEnd ==
    /\ sync.pc \in {"applied", "failed"}
    /\ applied' = IF sync.pc = "applied" THEN Version ELSE applied
    /\ loop' = IF sync.by = "loop" THEN "wait" ELSE loop
    /\ sync' = IdleSync
    /\ UNCHANGED <<gate, switches, watch, hb, request, notice, seen, inForce,
                   storage, env, due, spoilt>>

LoopTake ==
    /\ up /\ loop = "wait" /\ request
    /\ loop' = "debounce"
    /\ request' = FALSE
    /\ UNCHANGED <<gate, switches, watch, hb, sync, notice, runner, inForce, storage,
                   env, due, spoilt>>

\* Anything requested meanwhile is covered by this sync.
LoopDrain ==
    /\ loop = "debounce"
    /\ loop' = "lock"
    /\ request' = FALSE
    /\ UNCHANGED <<gate, switches, watch, hb, sync, notice, runner, inForce, storage,
                   env, due, spoilt>>

----------------------------------------------------------------------------
(* The switch-off (watchRefusal, disableProtection).                       *)

WatchCheck ==
    /\ up /\ watch = "idle"
    /\ ~off /\ RefusedFor(gate) >= Limit
    /\ watch' = "decided"
    /\ UNCHANGED <<gate, switches, hb, sync, loop, request, notice, runner, inForce,
                   storage, env, due, spoilt>>

\* Again under op: a sync may have succeeded meanwhile.
MutStillRefused == ~off
StillRefused == ~off /\ RefusedFor(gate) # None

DisableBegin ==
    /\ watch = "decided" /\ op = "free"
    /\ IF StillRefused THEN op' = "watch" /\ watch' = "firewall"
                       ELSE op' = op /\ watch' = "idle"
    /\ UNCHANGED <<gate, off, fwOff, hb, sync, loop, request, notice, runner, inForce,
                   storage, env, due, spoilt>>

DisableFirewall ==
    /\ watch = "firewall"
    /\ fwOff' = TRUE
    /\ watch' = "record"
    /\ UNCHANGED <<gate, off, op, hb, sync, loop, request, notice, runner, inForce,
                   storage, env, due, spoilt>>

\* Saved as off only once everything is removed.
DisableRecord ==
    /\ watch = "record"
    /\ gate' = [gate EXCEPT !.idle = TRUE]
    /\ off' = TRUE
    /\ watch' = "save"
    /\ UNCHANGED <<fwOff, op, hb, sync, loop, request, notice, runner, inForce,
                   storage, env, due, spoilt>>

DisableSave ==
    /\ watch = "save"
    /\ file' = Snapshot
    /\ op' = "free"
    /\ watch' = "idle"
    /\ UNCHANGED <<gate, off, fwOff, hb, sync, loop, request, notice, runner, inForce,
                   timer, saver, env, due, spoilt>>

----------------------------------------------------------------------------
(* The state file, the end of the process and the next start.              *)

\* scheduleProtectionSave's timer: a save reads, then writes.
SaveRead ==
    /\ timer /\ saver = NoSave
    /\ timer' = FALSE
    /\ saver' = Snapshot
    /\ UNCHANGED <<gate, switches, watch, hb, sync, loop, request, notice, runner, inForce,
                   file, env, due, spoilt>>

SaveWrite ==
    /\ saver # NoSave
    /\ file' = saver
    /\ saver' = NoSave
    /\ UNCHANGED <<gate, switches, watch, hb, sync, loop, request, notice, runner, inForce,
                   timer, env, due, spoilt>>

\* What is in memory is gone.
Stop ==
    /\ up /\ turns < MaxTurns
    /\ up' = FALSE
    /\ turns' = turns + 1
    /\ gate' = FreshGate /\ off' = FALSE /\ fwOff' = FALSE /\ op' = "free" /\ watch' = "idle"
    /\ hb' = IdleHb /\ sync' = IdleSync /\ loop' = "wait" /\ request' = FALSE
    /\ notice' = FALSE /\ seen' = 0 /\ applied' = 0 /\ inForce' = 0
    /\ timer' = FALSE /\ saver' = NoSave /\ due' = {} /\ spoilt' = FALSE
    /\ UNCHANGED dash

\* main's last lines: SIGTERM.
Shutdown ==
    /\ Stop
    /\ file' = Snapshot
    /\ UNCHANGED lost

Crash ==
    /\ Stop
    /\ lost' = (lost \/ timer \/ saver # NoSave)
    /\ UNCHANGED file

\* restoreRefusal, before firewall.Init.
MutRestored == FreshGate
Restored == RestoreClock([FreshGate EXCEPT !.idle = file.off], file.since, file.last)

Start ==
    /\ ~up
    /\ up' = TRUE
    /\ off' = file.off
    /\ fwOff' = file.off
    /\ gate' = Restored
    /\ spoilt' = (Running(gate') /\ file.spoilt)
    /\ due' = {"initial"}
    /\ UNCHANGED <<op, watch, hb, sync, loop, request, notice, runner, inForce, storage,
                   dash, lost, turns>>

----------------------------------------------------------------------------
(* Time and the dashboard (external).                                      *)

Settled ==
    /\ hb.pc = "idle" /\ sync.pc = "idle" /\ watch = "idle" /\ loop = "wait"
    /\ ~request /\ ~notice /\ ~timer /\ saver = NoSave /\ due = {}

Tick ==
    /\ Settled
    /\ gate' = Aged(gate)
    /\ file' = AgedSave(file)
    /\ due' = IF up THEN {"heartbeat", "periodic"} ELSE {}
    /\ UNCHANGED <<switches, watch, hb, sync, loop, request, notice, runner, inForce,
                   timer, saver, env, spoilt>>

Change(as) ==
    /\ turns < MaxTurns /\ dash.as # as
    /\ dash' = [dash EXCEPT !.as = as]
    /\ turns' = turns + 1
    /\ UNCHANGED <<gate, switches, watch, hb, sync, loop, request, notice, runner, inForce,
                   storage, up, due, spoilt, lost>>

Configure ==
    /\ dash.version < MaxVersion
    /\ dash' = [dash EXCEPT !.version = @ + 1]
    /\ UNCHANGED <<gate, switches, watch, hb, sync, loop, request, notice, runner, inForce,
                   storage, up, due, spoilt, lost, turns>>

Init ==
    /\ gate = FreshGate /\ off = FALSE /\ fwOff = FALSE /\ op = "free" /\ watch = "idle"
    /\ hb = IdleHb /\ sync = IdleSync /\ loop = "wait" /\ request = FALSE /\ notice = FALSE
    /\ seen = 0 /\ applied = 0 /\ inForce = 0
    /\ timer = FALSE /\ saver = NoSave /\ file = NoFile
    /\ up = TRUE /\ due = {"initial"}
    /\ dash \in [as: Attitude, version: {1}]
    /\ spoilt = FALSE /\ lost = FALSE
    /\ turns = 0

Heartbeat == HbSend \/ HbTake \/ HbObserve \/ HbRequest
SyncStep  == SyncTake \/ SyncEnable \/ EnableFirewall \/ EnableSave
             \/ SyncApply \/ SyncEnd
LoopStep  == LoopTake \/ LoopDrain
Switch    == WatchCheck \/ DisableBegin \/ DisableFirewall
             \/ DisableRecord \/ DisableSave
Save      == SaveRead \/ SaveWrite
Callers   == {"initial", "loop", "periodic"}

Work == Heartbeat \/ Accepted \/ SyncStep \/ LoopStep \/ Save
        \/ \E by \in Callers : SyncBegin(by)

Next ==
    \/ Work \/ Switch
    \/ Shutdown \/ Crash \/ Start
    \/ Tick \/ Configure \/ \E as \in Attitude : Change(as)

Spec == Init /\ [][Next]_vars

\* The goroutines go on in some order: what a unit of time brings is finite, so
\* each has its turn. Time passes, and the service manager starts a stopped
\* agent again.
Fairness == WF_vars(Work) /\ WF_vars(Switch) /\ WF_vars(Start) /\ WF_vars(Tick)

LiveSpec == Spec /\ Fairness

----------------------------------------------------------------------------
(* Properties.                                                             *)

TypeOK ==
    /\ gate \in Gates /\ Paired(gate) /\ Paired(file)
    /\ off \in BOOLEAN /\ fwOff \in BOOLEAN /\ op \in {"free", "sync", "watch"}
    /\ watch \in {"idle", "decided", "firewall", "record", "save"}
    /\ hb \in [pc: {"idle", "answered", "observe", "request"}, ans: Answers]
    /\ sync \in [pc: {"idle", "answered", "enable", "firewall", "save",
                      "apply", "applied", "failed"},
                 by: Callers \cup {"none"}, version: Versions, ans: Answers, refused: BOOLEAN]
    /\ loop \in {"wait", "debounce", "lock"}
    /\ request \in BOOLEAN /\ notice \in BOOLEAN /\ timer \in BOOLEAN
    /\ seen \in Versions /\ applied \in Versions /\ inForce \in Versions
    /\ saver \in Saved \cup {NoSave} /\ file \in Saved
    /\ up \in BOOLEAN /\ due \subseteq {"initial", "heartbeat", "periodic"}
    /\ dash \in Answers
    /\ spoilt \in BOOLEAN /\ lost \in BOOLEAN
    /\ turns \in 0..MaxTurns

\* The refusal clock counts refusals only: since it started no answer was
\* accepted, none failed to come and there was no gap, over restarts too,
\* unless the agent was killed before a save it owed (gate.go: "every answer
\* since the clock started was a refusal").
ClockHonest == spoilt => lost

\* Whenever no switch is under way, the firewall, the gate and the status say
\* the same, after a restart too (refusal.go: "op is held for a whole
\* switch-off or switch-on, so they never interleave").
StatusAgrees == op = "free" => fwOff = off /\ gate.idle = off

\* What the agent believes is so, over refusals, switches and restarts: the
\* clock of refusals counts nothing else, and the firewall, the gate and the
\* status agree on whether protection is off.
BeliefsHold == ClockHonest /\ StatusAgrees

\* A sync that was accepted leaves protection on, unless the dashboard has
\* refused the agent again since (refusal.go: "the first successful sync
\* switches protection back on").
AcceptedMeansOn ==
    [][sync.pc = "apply" /\ sync'.pc = "applied" => ~off \/ sync.refused]_vars

\* The version recorded as applied is never newer than the configuration the
\* agent has: a change during a sync is not taken for applied.
NoMissedChange == applied <= inForce

\* A dashboard that accepts the agent for good ends with protection on and its
\* latest configuration in force; one that refuses it for good, with
\* protection off (refusal.go's header).
FollowsDashboard ==
    /\ <>[](dash.as = "accepts") => <>[](~off /\ ~fwOff /\ inForce = dash.version)
    /\ <>[](dash.as = "refuses") => <>[](off /\ fwOff)
=============================================================================
