-------------------------- MODULE ProtectionProofs --------------------------
(***************************************************************************)
(* Theorems about Protection, for every length of the gap and of the       *)
(* limit, any number of configurations, of changes of the dashboard's      *)
(* attitude and of ends of the process: types, what the agent believes,    *)
(* the version it takes for applied and the switch-on by a sync.           *)
(***************************************************************************)
EXTENDS Protection, TLAPS

----------------------------------------------------------------------------
(* The gate and the saves.                                                 *)

\* What the gate's operations return, and what they keep.
LEMMA GateOperations ==
    ASSUME gate \in Gates, Paired(gate)
    PROVE  /\ \A g \in {OK(gate), Unreachable(gate)} :
                 g \in Gates /\ Paired(g) /\ g.since = None /\ g.idle = gate.idle
           /\ \A g \in Refused(gate, TRUE) :
                 /\ g \in Gates /\ Paired(g) /\ g.since # None /\ g.idle = gate.idle
                 /\ g.since = IF gate.since = None \/ gate.last > Gap THEN 0 ELSE gate.since
           /\ \A g \in Refused(gate, FALSE) :
                 /\ g \in Gates /\ Paired(g) /\ g.since = gate.since /\ g.last = gate.last
                 /\ g.idle = gate.idle
           /\ Aged(gate) \in Gates /\ Paired(Aged(gate)) /\ Aged(gate).idle = gate.idle
           /\ Aged(gate).since = None <=> gate.since = None
<1>1. 0 \in Since /\ 0 \in Last /\ None \in Since /\ None \in Last /\ None # 0
  BY AgeAssumption DEF Since, Last, None
<1>2. /\ gate.since \in Since /\ gate.last \in Last /\ gate.wait \in 0..1 /\ gate.idle \in BOOLEAN
      /\ 0 \in 0..1
  BY DEF Gates
<1>3. OK(gate) = [gate EXCEPT !.since = None, !.last = None, !.wait = 0]
      /\ Unreachable(gate) = [gate EXCEPT !.since = None, !.last = None]
  BY DEF OK, Unreachable, ClearClock, Gates
<1>4. \A g \in {OK(gate), Unreachable(gate)} :
         g \in Gates /\ Paired(g) /\ g.since = None /\ g.idle = gate.idle
  <2>1. OK(gate) \in Gates /\ Unreachable(gate) \in Gates
    BY <1>1, <1>2, <1>3 DEF Gates
  <2>2. /\ OK(gate).since = None /\ OK(gate).last = None /\ OK(gate).idle = gate.idle
        /\ Unreachable(gate).since = None /\ Unreachable(gate).last = None /\ Unreachable(gate).idle = gate.idle
    BY <1>3 DEF Gates
  <2> QED BY <2>1, <2>2 DEF Paired
<1>5. ASSUME NEW g \in Refused(gate, TRUE)
      PROVE  /\ g \in Gates /\ Paired(g) /\ g.since # None /\ g.idle = gate.idle
             /\ g.since = IF gate.since = None \/ gate.last > Gap THEN 0 ELSE gate.since
  <2>1. PICK w \in Waits(gate) : g = [Counted(gate) EXCEPT !.wait = w]
    BY <1>5 DEF Refused
  <2>2. w \in 0..1
    BY <1>2, <2>1 DEF Waits
  <2>3. CASE gate.since = None \/ gate.last > Gap
    <3>1. Counted(gate) = [gate EXCEPT !.since = 0, !.last = 0]
      BY <2>3 DEF Counted
    <3> QED BY <1>1, <1>2, <2>1, <2>2, <2>3, <3>1 DEF Gates, Paired
  <2>4. CASE ~(gate.since = None \/ gate.last > Gap)
    <3>1. Counted(gate) = [gate EXCEPT !.last = 0]
      BY <2>4 DEF Counted, Gates
    <3> QED BY <1>1, <1>2, <2>1, <2>2, <2>4, <3>1 DEF Gates, Paired
  <2> QED BY <2>3, <2>4
<1>6. ASSUME NEW g \in Refused(gate, FALSE)
      PROVE  /\ g \in Gates /\ Paired(g) /\ g.since = gate.since /\ g.last = gate.last
             /\ g.idle = gate.idle
  <2>1. PICK w \in Waits(gate) : g = [gate EXCEPT !.wait = w]
    BY <1>6 DEF Refused
  <2>2. w \in 0..1
    BY <1>2, <2>1 DEF Waits
  <2> QED BY <1>2, <2>1, <2>2 DEF Gates, Paired
<1>7. /\ Aged(gate) \in Gates /\ Paired(Aged(gate)) /\ Aged(gate).idle = gate.idle
      /\ Aged(gate).since = None <=> gate.since = None
  <2>1. /\ Older(gate.since, Limit) \in Since /\ (Older(gate.since, Limit) = None <=> gate.since = None)
        /\ Older(gate.last, Gap + 1) \in Last /\ (Older(gate.last, Gap + 1) = None <=> gate.last = None)
    BY <1>2, AgeAssumption DEF Older, Since, Last, None
  <2> QED BY <1>2, <2>1 DEF Aged, Gates, Paired
<1> QED BY <1>4, <1>5, <1>6, <1>7

\* Both times of a save are there or neither.
TypeInv == TypeOK /\ (saver # NoSave => Paired(saver))

\* A save can be restored while the gap has not passed since its last refusal.
Fresh(s) == s.since # None /\ s.last <= Gap

\* Ageing a save, spoiling it and reading one.
LEMMA SaveOperations ==
    ASSUME TypeOK, NEW s \in Saved, Paired(s)
    PROVE  /\ s # NoSave
           /\ AgedSave(s) \in Saved /\ Paired(AgedSave(s)) /\ AgedSave(s).spoilt = s.spoilt
           /\ AgedSave(s).off = s.off /\ (Fresh(AgedSave(s)) => Fresh(s))
           /\ Spoil(s) \in Saved /\ Paired(Spoil(s)) /\ Spoil(s).spoilt = (s.since # None)
           /\ Spoil(s).since = s.since /\ Spoil(s).last = s.last /\ Spoil(s).off = s.off
           /\ Snapshot \in Saved /\ Paired(Snapshot) /\ Snapshot.spoilt = spoilt
           /\ Snapshot.off = off /\ (Snapshot.since # None <=> Running(gate))
<1>1. s.since \in Since /\ s.last \in Last /\ s.off \in BOOLEAN /\ s.spoilt \in BOOLEAN
  BY DEF Saved
<1>2. s # NoSave
  <2>1. DOMAIN s = {"off", "since", "last", "spoilt"} /\ DOMAIN NoSave = {"none"}
    BY DEF Saved, NoSave
  <2> QED BY <2>1
<1>3. /\ AgedSave(s) \in Saved /\ Paired(AgedSave(s)) /\ AgedSave(s).spoilt = s.spoilt
      /\ AgedSave(s).off = s.off /\ (Fresh(AgedSave(s)) => Fresh(s))
  <2>1. /\ Older(s.since, Limit) \in Since /\ (Older(s.since, Limit) = None <=> s.since = None)
        /\ Older(s.last, Gap + 1) \in Last /\ (Older(s.last, Gap + 1) = None <=> s.last = None)
        /\ Older(s.last, Gap + 1) <= Gap => s.last <= Gap
    BY <1>1, AgeAssumption DEF Older, Since, Last, None
  <2>2. /\ AgedSave(s).since = Older(s.since, Limit) /\ AgedSave(s).last = Older(s.last, Gap + 1)
        /\ AgedSave(s).off = s.off /\ AgedSave(s).spoilt = s.spoilt
        /\ AgedSave(s) = [off |-> s.off, since |-> Older(s.since, Limit),
                          last |-> Older(s.last, Gap + 1), spoilt |-> s.spoilt]
    <3> DEFINE a == Older(s.since, Limit)  b == Older(s.last, Gap + 1)
    <3>1. AgedSave(s) = [s EXCEPT !.since = a, !.last = b]
      BY DEF AgedSave
    <3>2. s \in Saved
      OBVIOUS
    <3> HIDE DEF a, b
    <3>3. /\ AgedSave(s).since = a /\ AgedSave(s).last = b
          /\ AgedSave(s).off = s.off /\ AgedSave(s).spoilt = s.spoilt
      BY <3>1, <3>2 DEF Saved
    <3>4. AgedSave(s) = [off |-> s.off, since |-> a, last |-> b, spoilt |-> s.spoilt]
      BY <3>1, <3>2 DEF Saved
    <3> QED BY <3>3, <3>4 DEF a, b
  <2> QED BY <1>1, <2>1, <2>2 DEF Saved, Paired, Fresh
<1>4. /\ Spoil(s) \in Saved /\ Paired(Spoil(s)) /\ Spoil(s).spoilt = (s.since # None)
      /\ Spoil(s).since = s.since /\ Spoil(s).last = s.last /\ Spoil(s).off = s.off
  BY <1>1 DEF Spoil, Saved, Paired
<1>5. /\ Snapshot \in Saved /\ Paired(Snapshot) /\ Snapshot.spoilt = spoilt
      /\ Snapshot.off = off /\ (Snapshot.since # None <=> Running(gate))
  <2>1. gate.since \in Since /\ gate.last \in Last /\ None \in Last /\ Paired(gate)
        /\ off \in BOOLEAN /\ spoilt \in BOOLEAN
    BY DEF TypeOK, Gates, Last
  <2> QED BY <2>1 DEF Snapshot, Saved, Paired, Running
<1> QED BY <1>2, <1>3, <1>4, <1>5

\* An answer moves the gate by what it says, and spoils or keeps the saves.
LEMMA Taken ==
    ASSUME TypeInv, NEW ans \in Answers, Take(ans)
    PROVE  /\ gate' \in Gates /\ Paired(gate') /\ gate'.idle = gate.idle
           /\ notice' \in BOOLEAN /\ timer' \in BOOLEAN /\ spoilt' \in BOOLEAN
           /\ file' \in Saved /\ Paired(file') /\ file'.off = file.off
           /\ saver' \in Saved \cup {NoSave} /\ (saver' # NoSave => Paired(saver'))
           /\ \/ /\ ans.as \in {"accepts", "down"} /\ ~Running(gate') /\ ~spoilt'
                 /\ timer' = (timer \/ Running(gate))
                 /\ file' = Spoil(file) /\ saver' = IF saver = NoSave THEN saver ELSE Spoil(saver)
              \/ /\ ans.as = "refuses" /\ Running(gate') /\ (spoilt' => spoilt)
                 /\ timer' = (timer \/ ~Continues) /\ UNCHANGED <<file, saver>>
              \/ /\ ans.as = "blocked" /\ gate'.since = gate.since /\ gate'.last = gate.last
                 /\ UNCHANGED <<timer, spoilt, file, saver>>
<1>1. /\ gate \in Gates /\ Paired(gate) /\ timer \in BOOLEAN /\ spoilt \in BOOLEAN
      /\ notice \in BOOLEAN /\ file \in Saved /\ Paired(file)
      /\ saver \in Saved \cup {NoSave} /\ (saver # NoSave => Paired(saver) /\ saver \in Saved)
  BY DEF TypeInv, TypeOK
<1>2. notice' \in BOOLEAN
  BY DEF Take
<1>3. CASE ans.as \in {"accepts", "down"}
  <2>1. gate' \in {OK(gate), Unreachable(gate)}
    BY <1>3 DEF Take, GateAfter
  <2>2. gate' \in Gates /\ Paired(gate') /\ gate'.since = None /\ gate'.idle = gate.idle
    BY <1>1, <2>1, GateOperations
  <2>3. /\ timer' = (timer \/ Running(gate)) /\ spoilt' = Running(gate')
        /\ file' = Spoil(file) /\ saver' = IF saver = NoSave THEN saver ELSE Spoil(saver)
    BY <1>3 DEF Take, StopSaved
  <2>4. Spoil(file) \in Saved /\ Paired(Spoil(file)) /\ Spoil(file).off = file.off
    BY <1>1, SaveOperations DEF TypeInv
  <2>5. saver # NoSave => Spoil(saver) \in Saved /\ Paired(Spoil(saver))
    BY <1>1, SaveOperations DEF TypeInv
  <2> QED BY <1>1, <1>2, <1>3, <2>2, <2>3, <2>4, <2>5 DEF Running
<1>4. CASE ans.as = "refuses"
  <2>1. gate' \in Refused(gate, TRUE)
    BY <1>4 DEF Take, GateAfter
  <2>2. /\ gate' \in Gates /\ Paired(gate') /\ gate'.since # None /\ gate'.idle = gate.idle
        /\ gate'.since = IF gate.since = None \/ gate.last > Gap THEN 0 ELSE gate.since
    BY <1>1, <2>1, GateOperations
  <2>3. /\ timer' = (timer \/ ~Continues) /\ UNCHANGED <<file, saver>>
        /\ spoilt' = IF Continues THEN spoilt ELSE gate'.since # 0
    BY <1>4 DEF Take
  <2>4. gate.last \in Int /\ Gap \in Int
    BY <1>1, AgeAssumption DEF Gates, Last, None
  <2>5. ~Continues => gate'.since = 0
    BY <2>2, <2>4 DEF Continues, Running
  <2>6. spoilt' \in BOOLEAN /\ (spoilt' => spoilt)
    BY <1>1, <2>3, <2>5
  <2>7. timer' \in BOOLEAN
    BY <1>1, <2>3
  <2> QED BY <1>1, <1>2, <1>4, <2>2, <2>3, <2>6, <2>7 DEF Running
<1>5. CASE ans.as = "blocked"
  <2>1. gate' \in Refused(gate, FALSE)
    BY <1>5 DEF Take, GateAfter
  <2>2. /\ gate' \in Gates /\ Paired(gate') /\ gate'.idle = gate.idle
        /\ gate'.since = gate.since /\ gate'.last = gate.last
    BY <1>1, <2>1, GateOperations
  <2>3. UNCHANGED <<timer, spoilt, file, saver>>
    BY <1>5 DEF Take
  <2> QED BY <1>1, <1>2, <1>5, <2>2, <2>3
<1> QED BY <1>3, <1>4, <1>5 DEF Answers, Attitude

----------------------------------------------------------------------------
(* Types, one group of actions after the other.                            *)

LEMMA HeartbeatTypes ==
    ASSUME TypeInv, Heartbeat \/ Accepted
    PROVE  TypeInv'
<1> USE DEF TypeInv
<1>1. 0 \in Versions /\ IdleHb \in [pc: {"idle"}, ans: Answers]
  BY BoundAssumption DEF Versions, IdleHb, NoAnswer, Answers, Attitude
<1>2. CASE HbSend
  <2>1. Answer \in Answers
    BY <1>1 DEF Answer, TypeOK, Answers
  <2>2. hb' \in [pc: {"idle", "answered", "observe", "request"}, ans: Answers]
    BY <1>2, <2>1 DEF HbSend, TypeOK
  <2>3. due' \subseteq {"initial", "heartbeat", "periodic"}
    BY <1>2 DEF HbSend, TypeOK
  <2> QED BY <1>2, <2>2, <2>3
       DEF HbSend, TypeOK, switches, runner, storage, env, Paired
<1>3. CASE HbTake
  <2>1. hb.ans \in Answers /\ Take(hb.ans)
    BY <1>3 DEF HbTake, TypeOK
  <2>2. /\ gate' \in Gates /\ Paired(gate') /\ notice' \in BOOLEAN /\ timer' \in BOOLEAN
        /\ spoilt' \in BOOLEAN /\ file' \in Saved /\ Paired(file')
        /\ saver' \in Saved \cup {NoSave} /\ (saver' # NoSave => Paired(saver'))
    BY <2>1, Taken
  <2>3. hb' \in [pc: {"idle", "answered", "observe", "request"}, ans: Answers]
    BY <1>1, <1>3 DEF HbTake, TypeOK
  <2>4. sync' = [sync EXCEPT !.refused = sync'.refused] /\ sync'.refused \in BOOLEAN
    BY <1>3 DEF HbTake, TypeOK
  <2>5. sync' \in [pc: {"idle", "answered", "enable", "firewall", "save",
                        "apply", "applied", "failed"},
                   by: Callers \cup {"none"}, version: Versions, ans: Answers, refused: BOOLEAN]
    BY <2>4 DEF TypeOK
  <2>6. UNCHANGED <<off, fwOff, op, watch, loop, request, seen, applied, inForce, up, dash, lost,
                    turns, due>>
    BY <1>3 DEF HbTake, switches, runner, env
  <2> QED BY <2>2, <2>3, <2>5, <2>6 DEF TypeOK
<1>4. CASE HbObserve
  <2>1. hb' \in [pc: {"idle", "answered", "observe", "request"}, ans: Answers]
    BY <1>1, <1>4 DEF HbObserve, TypeOK, IdleHb
  <2>2. seen' \in Versions
    BY <1>4 DEF HbObserve, TypeOK, Answers
  <2>3. UNCHANGED <<gate, off, fwOff, op, watch, sync, loop, request, notice, applied, inForce,
                    timer, saver, file, up, due, dash, lost, turns, spoilt>>
    BY <1>4 DEF HbObserve, switches, storage, env
  <2> QED BY <2>1, <2>2, <2>3 DEF TypeOK, Paired
<1>5. CASE HbRequest
  <2>1. /\ request' = TRUE /\ hb' = IdleHb
        /\ UNCHANGED <<gate, off, fwOff, op, watch, sync, loop, notice, seen, applied, inForce,
                       timer, saver, file, up, due, dash, lost, turns, spoilt>>
    BY <1>5 DEF HbRequest, switches, runner, storage, env
  <2>2. hb' \in [pc: {"idle", "answered", "observe", "request"}, ans: Answers]
    BY <1>1, <2>1
  <2>3. request' \in BOOLEAN /\ Paired(gate') /\ Paired(file') /\ (saver' # NoSave => Paired(saver'))
    BY <2>1 DEF TypeOK
  <2> QED BY <2>1, <2>2, <2>3 DEF TypeOK
<1>6. CASE Accepted
  <2>1. /\ notice' \in BOOLEAN /\ request' \in BOOLEAN
        /\ UNCHANGED <<gate, off, fwOff, op, watch, hb, sync, loop, seen, applied, inForce, timer,
                       saver, file, up, due, dash, lost, turns, spoilt>>
    BY <1>6 DEF Accepted, TypeOK, switches, runner, storage, env
  <2>2. Paired(gate') /\ Paired(file') /\ (saver' # NoSave => Paired(saver'))
    BY <2>1 DEF TypeOK
  <2> QED BY <2>1, <2>2 DEF TypeOK
<1> QED BY <1>2, <1>3, <1>4, <1>5, <1>6 DEF Heartbeat

LEMMA SyncTypes ==
    ASSUME TypeInv, SyncStep \/ LoopStep \/ \E by \in Callers : SyncBegin(by)
    PROVE  TypeInv'
<1> USE DEF TypeInv
<1> DEFINE Syncs == [pc: {"idle", "answered", "enable", "firewall", "save",
                          "apply", "applied", "failed"},
                     by: Callers \cup {"none"}, version: Versions, ans: Answers,
                     refused: BOOLEAN]
<1>1. 0 \in Versions /\ NoAnswer \in Answers /\ IdleSync \in Syncs
  BY BoundAssumption DEF Versions, IdleSync, NoAnswer, Answers, Attitude
<1>2. sync \in Syncs /\ sync.ans \in Answers /\ sync.version \in Versions
  BY DEF TypeOK
<1>3. /\ Snapshot \in Saved /\ Paired(Snapshot)
  BY SaveOperations DEF TypeOK
<1>4. ASSUME NEW by \in Callers, SyncBegin(by) PROVE TypeInv'
  <2>1. Answer \in Answers
    BY <1>1 DEF Answer, TypeOK, Answers
  <2>2. sync' \in Syncs
    <3>1. seen \in Versions /\ IdleSync.ans = NoAnswer
      BY DEF TypeOK, IdleSync
    <3>2. \E a \in Answers, pc \in {"failed", "answered"} :
             sync' = [IdleSync EXCEPT !.pc = pc, !.by = by, !.version = seen, !.ans = a]
      BY <1>1, <1>4, <2>1, <3>1 DEF SyncBegin
    <3> QED BY <1>1, <1>4, <3>1, <3>2
  <2>3. due' \subseteq {"initial", "heartbeat", "periodic"}
    BY <1>4 DEF SyncBegin, TypeOK
  <2>4. UNCHANGED <<gate, off, fwOff, op, watch, hb, loop, request, notice, seen, applied, inForce,
                    timer, saver, file, up, dash, lost, turns, spoilt>>
    BY <1>4 DEF SyncBegin, switches, runner, storage, env
  <2> QED BY <2>2, <2>3, <2>4 DEF TypeOK, Paired
<1>5. CASE SyncTake
  <2>1. Take(sync.ans)
    BY <1>5 DEF SyncTake
  <2>2. /\ gate' \in Gates /\ Paired(gate') /\ notice' \in BOOLEAN /\ timer' \in BOOLEAN
        /\ spoilt' \in BOOLEAN /\ file' \in Saved /\ Paired(file')
        /\ saver' \in Saved \cup {NoSave} /\ (saver' # NoSave => Paired(saver'))
    BY <1>2, <2>1, Taken
  <2>3. sync' \in Syncs
    BY <1>1, <1>2, <1>5 DEF SyncTake
  <2>4. UNCHANGED <<off, fwOff, op, watch, hb, loop, request, seen, applied, inForce, up, dash, lost,
                    turns, due>>
    BY <1>5 DEF SyncTake, switches, runner, env
  <2> QED BY <2>2, <2>3, <2>4 DEF TypeOK
<1>6. CASE SyncEnable
  <2>1. sync' \in Syncs /\ op' \in {"free", "sync", "watch"}
    BY <1>2, <1>6 DEF SyncEnable, TypeOK
  <2>2. UNCHANGED <<gate, fwOff, watch, hb, loop, request, notice, seen, applied, inForce, timer,
                    saver, file, up, dash, lost, turns, due, spoilt>>
    BY <1>6 DEF SyncEnable, runner, storage, env
  <2>3. off' \in BOOLEAN
    BY <1>6 DEF SyncEnable
  <2>4. Paired(gate') /\ Paired(file') /\ (saver' # NoSave => Paired(saver'))
    BY <2>2 DEF TypeOK
  <2> QED BY <2>1, <2>2, <2>3, <2>4 DEF TypeOK
<1>7. CASE EnableFirewall
  <2>1. sync' \in Syncs
    BY <1>2, <1>7 DEF EnableFirewall
  <2>2. UNCHANGED <<gate, off, op, watch, hb, loop, request, notice, seen, applied, inForce, timer,
                    saver, file, up, dash, lost, turns, due, spoilt>>
    BY <1>7 DEF EnableFirewall, runner, storage, env
  <2>3. fwOff' \in BOOLEAN
    BY <1>7 DEF EnableFirewall
  <2>4. Paired(gate') /\ Paired(file') /\ (saver' # NoSave => Paired(saver'))
    BY <2>2 DEF TypeOK
  <2> QED BY <2>1, <2>2, <2>3, <2>4 DEF TypeOK
<1>8. CASE EnableSave
  <2>1. sync' \in Syncs
    BY <1>2, <1>8 DEF EnableSave
  <2>2. gate' \in Gates /\ Paired(gate')
    BY <1>8 DEF EnableSave, TypeOK, Gates, Paired
  <2>3. UNCHANGED <<off, fwOff, watch, hb, loop, request, notice, seen, applied, inForce, timer,
                    saver, up, dash, lost, turns, due, spoilt>>
    BY <1>8 DEF EnableSave, runner, env
  <2>4. file' = Snapshot /\ op' = "free"
    BY <1>8 DEF EnableSave
  <2> QED BY <1>3, <2>1, <2>2, <2>3, <2>4 DEF TypeOK, Paired
<1>9. CASE SyncApply
  <2>1. sync' \in Syncs
    BY <1>1, <1>2, <1>9 DEF SyncApply
  <2>2. inForce' \in Versions
    BY <1>2, <1>9 DEF SyncApply, Answers
  <2>3. UNCHANGED <<gate, off, fwOff, op, watch, hb, loop, request, notice, seen, applied, saver,
                    file, up, dash, lost, turns, due, spoilt>>
    BY <1>9 DEF SyncApply, switches, runner, env
  <2>4. timer' = TRUE
    BY <1>9 DEF SyncApply
  <2> QED BY <2>1, <2>2, <2>3, <2>4 DEF TypeOK, Paired
<1>10. CASE SyncEnd
  <2>1. sync' \in Syncs /\ applied' \in Versions /\ loop' \in {"wait", "debounce", "lock"}
    BY <1>1, <1>2, <1>10 DEF SyncEnd, TypeOK, Version
  <2>2. UNCHANGED <<gate, off, fwOff, op, watch, hb, request, notice, seen, inForce, timer, saver,
                    file, up, dash, lost, turns, due, spoilt>>
    BY <1>10 DEF SyncEnd, switches, storage, env
  <2> QED BY <2>1, <2>2 DEF TypeOK, Paired
<1>11. CASE LoopStep
  <2>1. /\ loop' \in {"wait", "debounce", "lock"} /\ request' = FALSE
        /\ UNCHANGED <<gate, switches, watch, hb, sync, notice, runner, inForce, storage, env, due, spoilt>>
    BY <1>11 DEF LoopStep, LoopTake, LoopDrain
  <2>2. UNCHANGED <<gate, off, fwOff, op, watch, hb, sync, notice, seen, applied, inForce, timer, saver,
                    file, up, dash, lost, turns, due, spoilt>>
    BY <2>1 DEF switches, runner, storage, env
  <2>3. request' \in BOOLEAN /\ loop' \in {"wait", "debounce", "lock"}
    BY <2>1
  <2> QED BY <2>2, <2>3 DEF TypeOK, Paired
<1> QED BY <1>4, <1>5, <1>6, <1>7, <1>8, <1>9, <1>10, <1>11 DEF SyncStep

LEMMA SwitchTypes ==
    ASSUME TypeInv, Switch \/ Save
    PROVE  TypeInv'
<1> USE DEF TypeInv
<1>1. Snapshot \in Saved /\ Paired(Snapshot)
  BY SaveOperations DEF TypeOK
<1>2. CASE WatchCheck \/ DisableBegin \/ DisableFirewall
  <2>1. /\ watch' \in {"idle", "decided", "firewall", "record", "save"}
        /\ op' \in {"free", "sync", "watch"} /\ fwOff' \in BOOLEAN
    <3>1. watch \in {"idle", "decided", "firewall", "record", "save"} /\ op \in {"free", "sync", "watch"} /\ fwOff \in BOOLEAN
      BY DEF TypeOK
    <3>2. CASE WatchCheck \/ DisableFirewall
      BY <3>1, <3>2 DEF WatchCheck, DisableFirewall, switches
    <3>3. CASE DisableBegin
      BY <3>1, <3>3 DEF DisableBegin
    <3> QED BY <1>2, <3>2, <3>3
  <2>2. UNCHANGED <<gate, off, hb, sync, loop, request, notice, runner, inForce, storage, env, due, spoilt>>
    BY <1>2 DEF WatchCheck, DisableBegin, DisableFirewall, switches
  <2> QED BY <2>1, <2>2 DEF TypeOK, Paired, runner, storage, env
<1>3. CASE DisableRecord
  <2>1. gate' \in Gates /\ Paired(gate')
    BY <1>3 DEF DisableRecord, TypeOK, Gates, Paired
  <2>2. UNCHANGED <<fwOff, op, hb, sync, loop, request, notice, seen, applied, inForce, timer,
                    saver, file, up, dash, lost, turns, due, spoilt>>
    BY <1>3 DEF DisableRecord, runner, storage, env
  <2>3. off' \in BOOLEAN /\ watch' = "save"
    BY <1>3 DEF DisableRecord
  <2>4. Paired(file') /\ (saver' # NoSave => Paired(saver'))
    BY <2>2 DEF TypeOK
  <2>5. watch' \in {"idle", "decided", "firewall", "record", "save"}
    BY <2>3
  <2>6. TypeOK'
    BY <2>1, <2>2, <2>3, <2>4, <2>5 DEF TypeOK
  <2> QED BY <2>4, <2>6
<1>4. CASE DisableSave
  BY <1>1, <1>4 DEF DisableSave, TypeOK, runner, env, Paired
<1>5. CASE SaveRead
  <2>1. /\ timer' \in BOOLEAN /\ saver' = Snapshot
        /\ UNCHANGED <<gate, off, fwOff, op, watch, hb, sync, loop, request, notice, seen, applied,
                       inForce, file, up, dash, lost, turns, due, spoilt>>
    BY <1>5 DEF SaveRead, switches, runner, env
  <2>2. Paired(gate') /\ Paired(file') /\ Paired(saver')
    BY <1>1, <2>1 DEF TypeOK
  <2> QED BY <1>1, <2>1, <2>2 DEF TypeOK
<1>6. CASE SaveWrite
  BY <1>6 DEF SaveWrite, TypeOK, switches, runner, env, Paired
<1> QED BY <1>2, <1>3, <1>4, <1>5, <1>6 DEF Switch, Save

LEMMA WorldTypes ==
    ASSUME TypeInv,
           Shutdown \/ Crash \/ Start \/ Tick \/ Configure \/ \E as \in Attitude : Change(as)
    PROVE  TypeInv'
<1> USE DEF TypeInv
<1>1. /\ 0 \in Versions /\ FreshGate \in Gates /\ Paired(FreshGate)
      /\ IdleHb \in [pc: {"idle", "answered", "observe", "request"}, ans: Answers]
      /\ IdleSync \in [pc: {"idle", "answered", "enable", "firewall", "save",
                            "apply", "applied", "failed"},
                       by: Callers \cup {"none"}, version: Versions, ans: Answers,
                       refused: BOOLEAN]
  BY BoundAssumption, AgeAssumption
     DEF Versions, IdleSync, IdleHb, NoAnswer, Answers, Attitude, FreshGate, Gates, Since, Last,
         Paired
<1>2. Snapshot \in Saved /\ Paired(Snapshot)
  BY SaveOperations DEF TypeOK
<1>3. CASE Shutdown \/ Crash
  <2>1. turns' \in 0..MaxTurns
    BY <1>3, BoundAssumption DEF Shutdown, Crash, Stop, TypeOK
  <2>2. file' \in Saved /\ Paired(file') /\ lost' \in BOOLEAN
    BY <1>2, <1>3 DEF Shutdown, Crash, TypeOK, Paired
  <2>3. /\ up' = FALSE /\ gate' = FreshGate /\ off' = FALSE /\ fwOff' = FALSE /\ op' = "free"
        /\ watch' = "idle" /\ hb' = IdleHb /\ sync' = IdleSync /\ loop' = "wait"
        /\ request' = FALSE /\ notice' = FALSE /\ seen' = 0 /\ applied' = 0 /\ inForce' = 0
        /\ timer' = FALSE /\ saver' = NoSave /\ due' = {} /\ spoilt' = FALSE /\ dash' = dash
    BY <1>3 DEF Shutdown, Crash, Stop
  <2> QED BY <1>1, <2>1, <2>2, <2>3 DEF TypeOK
<1>4. CASE Start
  <2>1. gate' \in Gates /\ Paired(gate')
    <3>1. /\ file.since \in Since /\ file.last \in Last /\ file.off \in BOOLEAN /\ Paired(file)
      BY DEF TypeOK, Saved
    <3>2. [FreshGate EXCEPT !.idle = file.off] \in Gates /\ Paired([FreshGate EXCEPT !.idle = file.off])
      BY <1>1, <3>1 DEF Gates, Paired
    <3> QED BY <1>4, <3>1, <3>2 DEF Start, Restored, RestoreClock, Gates, Paired
  <2>2. spoilt' \in BOOLEAN /\ off' \in BOOLEAN /\ fwOff' \in BOOLEAN
    BY <1>4 DEF Start, TypeOK, Saved, Running
  <2>3. up' = TRUE /\ due' = {"initial"}
        /\ UNCHANGED <<op, watch, hb, sync, loop, request, notice, seen, applied, inForce, timer,
                       saver, file, dash, lost, turns>>
    BY <1>4 DEF Start, runner, storage
  <2> QED BY <2>1, <2>2, <2>3 DEF TypeOK, Paired
<1>5. CASE Tick
  <2>1. gate' \in Gates /\ Paired(gate') /\ file' \in Saved /\ Paired(file')
    BY <1>5, GateOperations, SaveOperations DEF Tick, TypeOK
  <2>2. due' \subseteq {"initial", "heartbeat", "periodic"}
    BY <1>5 DEF Tick
  <2>3. UNCHANGED <<off, fwOff, op, watch, hb, sync, loop, request, notice, seen, applied, inForce,
                    timer, saver, up, dash, lost, turns, spoilt>>
    BY <1>5 DEF Tick, switches, runner, env
  <2> QED BY <2>1, <2>2, <2>3 DEF TypeOK, Paired
<1>6. CASE Configure \/ \E as \in Attitude : Change(as)
  <2>1. dash' \in Answers /\ turns' \in 0..MaxTurns
    BY <1>6, BoundAssumption DEF Configure, Change, TypeOK, Answers, Versions
  <2>2. UNCHANGED <<gate, off, fwOff, op, watch, hb, sync, loop, request, notice, seen, applied,
                    inForce, timer, saver, file, up, due, spoilt, lost>>
    BY <1>6 DEF Configure, Change, switches, runner, storage
  <2> QED BY <2>1, <2>2 DEF TypeOK, Paired
<1> QED BY <1>3, <1>4, <1>5, <1>6

LEMMA InitTypes == Init => TypeInv
<1> SUFFICES ASSUME Init PROVE TypeInv
  OBVIOUS
<1>1. 0 \in Versions /\ 1 \in Versions /\ 0 \in 0..MaxTurns
  BY BoundAssumption DEF Versions
<1>2. FreshGate \in Gates /\ Paired(FreshGate) /\ NoFile \in Saved /\ Paired(NoFile)
  BY AgeAssumption DEF FreshGate, Gates, Since, Last, Paired, NoFile, Saved
<1>3. /\ IdleHb \in [pc: {"idle", "answered", "observe", "request"}, ans: Answers]
      /\ IdleSync \in [pc: {"idle", "answered", "enable", "firewall", "save",
                            "apply", "applied", "failed"},
                       by: Callers \cup {"none"}, version: Versions, ans: Answers,
                       refused: BOOLEAN]
  BY <1>1 DEF IdleSync, IdleHb, NoAnswer, Answers, Attitude
<1>4. dash \in Answers
  BY <1>1 DEF Init, Answers
<1> QED BY <1>1, <1>2, <1>3, <1>4 DEF Init, TypeInv, TypeOK

LEMMA StutterTypes == TypeInv /\ UNCHANGED vars => TypeInv'
  BY DEF vars, TypeInv, TypeOK, Paired

LEMMA NextTypes == TypeInv /\ [Next]_vars => TypeInv'
  BY HeartbeatTypes, SyncTypes, SwitchTypes, WorldTypes, StutterTypes DEF Next, Work

\* Every variable keeps its type; a clock and a save have both times or neither.
THEOREM ProtectionTypes == Spec => []TypeOK
<1>1. TypeInv => TypeOK
  BY DEF TypeInv
<1> QED BY <1>1, InitTypes, NextTypes, PTL DEF Spec

----------------------------------------------------------------------------
(* The switches: what the agent believes of its firewall.                  *)

\* An agent that does not run does nothing.
AtRest ==
    ~up => /\ hb.pc = "idle" /\ sync.pc = "idle" /\ watch = "idle" /\ op = "free"
           /\ ~timer /\ saver = NoSave

\* op says who switches, and a switch goes through its steps in order.
Exclusive ==
    /\ op = "sync" <=> sync.pc \in {"firewall", "save"}
    /\ op = "watch" <=> watch \in {"firewall", "record", "save"}
    /\ op = "sync" => ~off /\ (sync.pc = "save" => ~fwOff)
    /\ watch \in {"record", "save"} => fwOff
    /\ watch = "save" => off /\ gate.idle

LEMMA RestNext == TypeInv /\ AtRest /\ [Next]_vars => AtRest'
<1> SUFFICES ASSUME TypeInv, AtRest, [Next]_vars, ~up'
             PROVE  /\ hb'.pc = "idle" /\ sync'.pc = "idle" /\ watch' = "idle" /\ op' = "free"
                    /\ ~timer' /\ saver' = NoSave
  BY DEF AtRest
<1>1. CASE Shutdown \/ Crash
  BY <1>1 DEF Shutdown, Crash, Stop, IdleHb, IdleSync
<1>2. CASE ~(Shutdown \/ Crash)
  <2>1. ~up
    <3>1. Next => up' = up \/ Start
      BY <1>2 DEF Next, Work, Switch, Heartbeat, SyncStep, LoopStep, Save, HbSend, HbTake, HbObserve,
             HbRequest, Accepted, SyncBegin, SyncTake, SyncEnable, EnableFirewall, EnableSave,
             SyncApply, SyncEnd, LoopTake, LoopDrain, WatchCheck, DisableBegin, DisableFirewall,
             DisableRecord, DisableSave, SaveRead, SaveWrite, Tick, Configure, Change, env
    <3> QED BY <3>1 DEF Start, vars
  <2>2. /\ hb.pc = "idle" /\ sync.pc = "idle" /\ watch = "idle" /\ op = "free"
        /\ ~timer /\ saver = NoSave
    BY <2>1 DEF AtRest
  <2>3. ~Heartbeat /\ ~SyncStep /\ ~Switch /\ ~Save /\ ~Start
    BY <2>1, <2>2 DEF Heartbeat, SyncStep, Switch, Save, HbSend, HbTake, HbObserve, HbRequest,
       SyncTake, SyncEnable, EnableFirewall, EnableSave, SyncApply, SyncEnd, WatchCheck,
       DisableBegin, DisableFirewall, DisableRecord, DisableSave, SaveRead, SaveWrite, Start
  <2>4. Next => UNCHANGED <<hb, sync, watch, op, timer, saver>>
    BY <1>2, <2>1, <2>3 DEF Next, Work, Accepted, LoopStep, LoopTake, LoopDrain, SyncBegin, Tick,
       Configure, Change, switches, storage
  <2> QED BY <2>2, <2>4 DEF vars
<1> QED BY <1>1, <1>2

LEMMA SwitchesNext == TypeInv /\ AtRest /\ Exclusive /\ StatusAgrees /\ [Next]_vars
                        => Exclusive' /\ StatusAgrees'
<1> SUFFICES ASSUME TypeInv, AtRest, Exclusive, StatusAgrees, [Next]_vars
             PROVE  Exclusive' /\ StatusAgrees'
  OBVIOUS
<1> USE DEF Exclusive, StatusAgrees
<1>1. sync \in [pc: {"idle", "answered", "enable", "firewall", "save",
                     "apply", "applied", "failed"},
                by: Callers \cup {"none"}, version: Versions, ans: Answers, refused: BOOLEAN]
      /\ gate \in Gates /\ Paired(gate) /\ hb.ans \in Answers /\ sync.ans \in Answers
  BY DEF TypeInv, TypeOK
\* Steps of others: a request's answer keeps the gate idle or not.
<1>2. ASSUME UNCHANGED <<off, fwOff, op, watch>>, sync'.pc = sync.pc, gate'.idle = gate.idle
      PROVE  Exclusive' /\ StatusAgrees'
  BY <1>2
<1>3. CASE Heartbeat \/ Accepted
  <2>1. UNCHANGED <<off, fwOff, op, watch>>
    BY <1>3 DEF Heartbeat, HbSend, HbTake, HbObserve, HbRequest, Accepted, switches
  <2>2. sync'.pc = sync.pc
    BY <1>1, <1>3 DEF Heartbeat, HbSend, HbTake, HbObserve, HbRequest, Accepted
  <2>3. gate'.idle = gate.idle
    <3>1. CASE HbTake
      BY <1>1, <3>1, Taken DEF HbTake
    <3>2. CASE ~HbTake
      BY <1>3, <3>2 DEF Heartbeat, HbSend, HbObserve, HbRequest, Accepted
    <3> QED BY <3>1, <3>2
  <2> QED BY <1>2, <2>1, <2>2, <2>3
<1>4. ASSUME NEW by \in Callers, SyncBegin(by) PROVE Exclusive' /\ StatusAgrees'
  <2>1. sync.pc = "idle" /\ sync'.pc \in {"failed", "answered"}
    BY <1>4 DEF SyncBegin, IdleSync
  <2> QED BY <1>4, <2>1 DEF SyncBegin, switches
<1>5. CASE SyncTake
  <2>1. gate'.idle = gate.idle
    BY <1>1, <1>5, Taken DEF SyncTake
  <2>2. sync.pc = "answered" /\ sync'.pc \in {"enable", "failed"}
    BY <1>1, <1>5 DEF SyncTake
  <2> QED BY <1>5, <2>1, <2>2 DEF SyncTake, switches
<1>6. CASE SyncEnable
  <2>1. /\ sync.pc = "enable" /\ op = "free" /\ off' = FALSE
        /\ UNCHANGED <<gate, fwOff, watch>>
        /\ \/ off /\ op' = "sync" /\ sync'.pc = "firewall"
           \/ ~off /\ op' = op /\ sync'.pc = "apply"
    BY <1>1, <1>6 DEF SyncEnable
  <2>2. off \in BOOLEAN /\ fwOff \in BOOLEAN
    BY DEF TypeInv, TypeOK
  <2> QED BY <2>1, <2>2
<1>7. CASE EnableFirewall
  BY <1>1, <1>7 DEF EnableFirewall
<1>8. CASE EnableSave
  <2>1. /\ sync.pc = "save" /\ op' = "free" /\ sync'.pc = "apply" /\ gate'.idle = FALSE
        /\ UNCHANGED <<off, fwOff, watch>>
    BY <1>1, <1>8 DEF EnableSave, Gates
  <2>2. off = FALSE /\ fwOff = FALSE /\ watch \notin {"firewall", "record", "save"}
    BY <2>1 DEF TypeInv, TypeOK
  <2> QED BY <2>1, <2>2
<1>9. CASE SyncApply \/ SyncEnd
  <2>1. /\ sync.pc \notin {"firewall", "save"} /\ sync'.pc \notin {"firewall", "save"}
        /\ UNCHANGED <<off, fwOff, op, watch, gate>>
    <3>1. CASE SyncApply
      BY <1>1, <3>1 DEF SyncApply, switches
    <3>2. CASE SyncEnd
      BY <1>1, <3>2 DEF SyncEnd, IdleSync, switches
    <3> QED BY <1>9, <3>1, <3>2
  <2> QED BY <2>1
<1>10. CASE LoopStep \/ Save
  BY <1>2, <1>10 DEF LoopStep, LoopTake, LoopDrain, Save, SaveRead, SaveWrite, switches
<1>11. CASE WatchCheck
  BY <1>11 DEF WatchCheck, switches
<1>12. CASE DisableBegin
  BY <1>12 DEF DisableBegin
<1>13. CASE DisableFirewall
  BY <1>13 DEF DisableFirewall
<1>14. CASE DisableRecord
  <2>1. gate'.idle = TRUE
    BY <1>1, <1>14 DEF DisableRecord, Gates
  <2> QED BY <1>14, <2>1 DEF DisableRecord
<1>15. CASE DisableSave
  <2>1. watch = "save" /\ watch' = "idle" /\ op' = "free" /\ UNCHANGED <<off, fwOff, gate, sync>>
    BY <1>15 DEF DisableSave
  <2>2. /\ off = TRUE /\ fwOff = TRUE /\ gate.idle = TRUE
        /\ sync.pc \notin {"firewall", "save"}
    BY <1>1, <2>1 DEF TypeInv, TypeOK, Gates
  <2>3. Exclusive'
    BY <2>1, <2>2
  <2>4. fwOff' = TRUE /\ off' = TRUE /\ gate'.idle = TRUE
    BY <2>1, <2>2
  <2> QED BY <2>3, <2>4
<1>16. CASE Shutdown \/ Crash
  <2>1. sync'.pc = "idle"
    BY <1>16 DEF Shutdown, Crash, Stop, IdleSync
  <2>2. gate'.idle = FALSE /\ off' = FALSE /\ fwOff' = FALSE /\ op' = "free" /\ watch' = "idle"
    BY <1>16 DEF Shutdown, Crash, Stop, FreshGate
  <2> QED BY <2>1, <2>2
<1>17. CASE Start
  <2>1. /\ op = "free" /\ watch = "idle" /\ sync.pc = "idle" /\ UNCHANGED <<op, watch, sync>>
        /\ off' = file.off /\ fwOff' = file.off /\ gate' = Restored
    BY <1>17 DEF Start, AtRest
  <2>2. Restored.idle = file.off
    BY DEF Restored, RestoreClock, FreshGate
  <2> QED BY <2>1, <2>2
<1>18. CASE Tick
  <2>1. gate'.idle = gate.idle
    BY <1>1, <1>18, GateOperations DEF Tick
  <2> QED BY <1>2, <1>18, <2>1 DEF Tick, switches
<1>19. CASE Configure \/ \E as \in Attitude : Change(as)
  BY <1>2, <1>19 DEF Configure, Change, switches
<1>20. CASE UNCHANGED vars
  BY <1>2, <1>20 DEF vars
<1> QED BY <1>3, <1>4, <1>5, <1>6, <1>7, <1>8, <1>9, <1>10, <1>11, <1>12, <1>13, <1>14, <1>15,
           <1>16, <1>17, <1>18, <1>19, <1>20 DEF Next, Work, SyncStep, Switch

----------------------------------------------------------------------------
(* The clock of the refusals.                                              *)

\* A save that is spoilt, or that says more than the gate knows, is about to be
\* written again, unless the agent was killed before: in the file it does no harm
\* once it is too old to be restored.
ClockInv ==
    /\ saver # NoSave /\ saver.spoilt => timer \/ lost
    /\ file.spoilt /\ Fresh(file) => timer \/ lost \/ saver # NoSave
    /\ up /\ ~Running(gate) /\ Fresh(file) => timer \/ lost \/ saver # NoSave
    /\ ~Running(gate) /\ saver # NoSave /\ saver.since # None => timer \/ lost

Clock == ClockInv /\ ClockHonest

\* An answer, whoever takes it.
LEMMA TakenClock ==
    ASSUME TypeInv, Clock, up, NEW ans \in Answers, Take(ans), UNCHANGED <<up, lost>>
    PROVE  Clock'
<1> USE DEF Clock, ClockInv, ClockHonest
<1>1. file \in Saved /\ Paired(file) /\ saver \in Saved \cup {NoSave} /\ timer \in BOOLEAN
      /\ (saver # NoSave => Paired(saver) /\ saver \in Saved)
  BY DEF TypeInv, TypeOK
<1>2. CASE ans.as \in {"accepts", "down"}
  <2>1. /\ ~Running(gate') /\ ~spoilt' /\ timer' = (timer \/ Running(gate))
        /\ file' = Spoil(file) /\ saver' = IF saver = NoSave THEN saver ELSE Spoil(saver)
    BY <1>2, Taken
  <2>2. /\ Spoil(file).spoilt = (file.since # None) /\ Spoil(file).since = file.since
        /\ Spoil(file).last = file.last /\ Spoil(file) # NoSave
    BY <1>1, SaveOperations DEF TypeInv
  <2>3. saver # NoSave => /\ Spoil(saver).spoilt = (saver.since # None)
                          /\ Spoil(saver).since = saver.since /\ Spoil(saver) # NoSave
    BY <1>1, SaveOperations DEF TypeInv
  <2>4. (saver' = NoSave <=> saver = NoSave) /\ (Fresh(file') <=> Fresh(file))
    BY <2>1, <2>2, <2>3 DEF Fresh
  <2>5. saver' # NoSave /\ saver'.since # None => timer' \/ lost'
    BY <2>1, <2>3, <2>4
  <2>6. saver' # NoSave /\ saver'.spoilt => timer' \/ lost'
    BY <2>1, <2>3, <2>4
  <2>7. Fresh(file') => timer' \/ lost' \/ saver' # NoSave
    BY <2>1, <2>4
  <2> QED BY <2>1, <2>5, <2>6, <2>7
<1>3. CASE ans.as = "refuses"
  BY <1>3, Taken
<1>4. CASE ans.as = "blocked"
  <2>1. gate'.since = gate.since /\ UNCHANGED <<timer, spoilt, file, saver>>
    BY <1>4, Taken
  <2> QED BY <2>1 DEF Running
<1> QED BY <1>2, <1>3, <1>4 DEF Answers, Attitude

LEMMA ClockNext == TypeInv /\ AtRest /\ Clock /\ [Next]_vars => Clock'
<1> SUFFICES ASSUME TypeInv, AtRest, Clock, [Next]_vars
             PROVE  Clock'
  OBVIOUS
<1>1. /\ file \in Saved /\ Paired(file) /\ hb.ans \in Answers /\ sync.ans \in Answers
      /\ gate \in Gates /\ Paired(gate)
  BY DEF TypeInv, TypeOK
<1>2. ASSUME UNCHANGED <<file, saver, timer, up, lost, spoilt>>, gate'.since = gate.since
      PROVE  Clock'
  BY <1>2 DEF Clock, ClockInv, ClockHonest, Running
<1>3. /\ Snapshot.spoilt = spoilt /\ (Snapshot.since # None <=> Running(gate))
      /\ Snapshot \in Saved /\ Snapshot # NoSave
  <2>1. Snapshot \in Saved
    BY <1>1, SaveOperations DEF TypeInv
  <2> QED BY <1>1, <2>1, SaveOperations DEF TypeInv
<1>4. CASE HbTake
  <2>1. up
    BY <1>4 DEF AtRest, HbTake
  <2> QED BY <1>1, <1>4, <2>1, TakenClock DEF HbTake, env
<1>5. CASE SyncTake
  <2>1. up
    BY <1>5 DEF AtRest, SyncTake
  <2> QED BY <1>1, <1>5, <2>1, TakenClock DEF SyncTake, env
<1>6. CASE HbSend \/ HbObserve \/ HbRequest \/ Accepted
  BY <1>2, <1>6 DEF HbSend, HbObserve, HbRequest, Accepted, storage, env
<1>7. CASE LoopStep \/ SyncEnable \/ EnableFirewall \/ SyncEnd \/ \E by \in Callers : SyncBegin(by)
  BY <1>2, <1>7 DEF LoopStep, LoopTake, LoopDrain, SyncEnable, EnableFirewall, SyncEnd, SyncBegin,
     storage, env
<1>8. CASE WatchCheck \/ DisableBegin \/ DisableFirewall
  BY <1>2, <1>8 DEF WatchCheck, DisableBegin, DisableFirewall, storage, env
<1>9. CASE DisableRecord
  <2>1. gate'.since = gate.since
    BY <1>1, <1>9 DEF DisableRecord, Gates
  <2> QED BY <1>2, <1>9, <2>1 DEF DisableRecord, storage, env
<1>10. CASE SyncApply
  BY <1>10 DEF SyncApply, env, Clock, ClockInv, ClockHonest
<1>11. CASE EnableSave \/ DisableSave
  <2>1. /\ file' = Snapshot /\ gate'.since = gate.since /\ UNCHANGED <<saver, timer, up, lost, spoilt>>
    BY <1>1, <1>11 DEF EnableSave, DisableSave, env, Gates
  <2> QED BY <1>3, <2>1 DEF Clock, ClockInv, ClockHonest, Running, Fresh
<1>12. CASE SaveRead
  <2>1. /\ saver' = Snapshot /\ timer' = FALSE /\ UNCHANGED <<file, gate, up, lost, spoilt>>
    BY <1>12 DEF SaveRead, env
  <2> QED BY <1>3, <2>1 DEF Clock, ClockInv, ClockHonest, Running
<1>13. CASE SaveWrite
  <2>1. /\ saver # NoSave /\ file' = saver /\ saver' = NoSave
        /\ UNCHANGED <<gate, timer, up, lost, spoilt>>
    BY <1>13 DEF SaveWrite, env
  <2> QED BY <2>1 DEF Clock, ClockInv, ClockHonest, Fresh
<1>14. CASE Shutdown \/ Crash
  <2>1. timer' = FALSE /\ saver' = NoSave /\ spoilt' = FALSE /\ up' = FALSE
    BY <1>14 DEF Shutdown, Crash, Stop
  <2>2. \/ file' = Snapshot /\ lost' = lost
        \/ file' = file /\ lost' = (lost \/ timer \/ saver # NoSave)
    BY <1>14 DEF Shutdown, Crash
  <2> QED BY <1>3, <2>1, <2>2 DEF Clock, ClockInv, ClockHonest
<1>15. CASE Start
  <2>1. /\ ~up /\ ~timer /\ saver = NoSave /\ UNCHANGED <<timer, saver, file, lost>>
        /\ gate' = Restored /\ spoilt' = (Running(gate') /\ file.spoilt)
    BY <1>15 DEF Start, AtRest, storage
  <2>2. Running(gate') <=> Fresh(file)
    <3>1. file.since \in Since /\ file.last \in Last /\ (file.since = None <=> file.last = None)
      BY <1>1 DEF Saved, Paired
    <3>2. file.last \in Int /\ Gap \in Int
      BY <3>1, AgeAssumption DEF Last, None
    <3>3. [FreshGate EXCEPT !.idle = file.off].since = None
      BY DEF FreshGate
    <3>4. CASE Fresh(file)
      <4>1. gate'.since = file.since
        BY <2>1, <3>1, <3>2, <3>4 DEF Restored, RestoreClock, Fresh, FreshGate
      <4> QED BY <3>4, <4>1 DEF Fresh, Running
    <3>5. CASE ~Fresh(file)
      <4>1. gate' = [FreshGate EXCEPT !.idle = file.off]
        BY <2>1, <3>1, <3>2, <3>5 DEF Restored, RestoreClock, Fresh
      <4> QED BY <3>3, <3>5, <4>1 DEF Running
    <3> QED BY <3>4, <3>5
  <2> QED BY <2>1, <2>2 DEF Clock, ClockInv, ClockHonest
<1>16. CASE Tick
  <2>1. /\ (Running(gate') <=> Running(gate)) /\ (Fresh(file') => Fresh(file))
        /\ file'.spoilt = file.spoilt
    BY <1>1, <1>16, GateOperations, SaveOperations DEF Tick, TypeInv, Running
  <2>2. UNCHANGED <<saver, timer, up, lost, spoilt>>
    BY <1>16 DEF Tick, env
  <2> QED BY <2>1, <2>2 DEF Clock, ClockInv, ClockHonest
<1>17. CASE Configure \/ (\E as \in Attitude : Change(as)) \/ UNCHANGED vars
  BY <1>2, <1>17 DEF Configure, Change, vars, storage
<1> QED BY <1>4, <1>5, <1>6, <1>7, <1>8, <1>9, <1>10, <1>11, <1>12, <1>13, <1>14, <1>15, <1>16,
           <1>17 DEF Next, Work, Heartbeat, SyncStep, Switch, Save

----------------------------------------------------------------------------
(* A sync that was accepted.                                               *)

\* From the answer on no refusal is counted, unless another one has come; once
\* protection is on again no switch-off is under way or can begin.
SyncedOn ==
    sync.pc \in AfterAnswer /\ ~sync.refused =>
        /\ ~Running(gate)
        /\ sync.pc # "enable" => ~off /\ watch \notin {"firewall", "record", "save"}

LEMMA SyncedOnNext == TypeInv /\ AtRest /\ Exclusive /\ SyncedOn /\ [Next]_vars => SyncedOn'
<1> SUFFICES ASSUME TypeInv, AtRest, Exclusive, SyncedOn, [Next]_vars,
                    sync'.pc \in AfterAnswer, ~sync'.refused
             PROVE  /\ ~Running(gate')
                    /\ sync'.pc # "enable" => ~off' /\ watch' \notin {"firewall", "record", "save"}
  BY DEF SyncedOn
<1> USE DEF AfterAnswer
<1>1. /\ sync \in [pc: {"idle", "answered", "enable", "firewall", "save",
                        "apply", "applied", "failed"},
                   by: Callers \cup {"none"}, version: Versions, ans: Answers, refused: BOOLEAN]
      /\ gate \in Gates /\ Paired(gate) /\ hb.ans \in Answers /\ sync.ans \in Answers
  BY DEF TypeInv, TypeOK
<1>2. ASSUME UNCHANGED <<off, watch>>, sync'.pc = sync.pc, sync'.refused = sync.refused,
             gate'.since = gate.since
      PROVE  /\ ~Running(gate')
             /\ sync'.pc # "enable" => ~off' /\ watch' \notin {"firewall", "record", "save"}
  BY <1>2 DEF SyncedOn, Running
<1>3. CASE HbTake
  <2>1. Take(hb.ans) /\ UNCHANGED <<off, watch>>
    BY <1>3 DEF HbTake, switches
  <2>2. /\ sync'.pc = sync.pc
        /\ sync'.refused = (sync.refused \/ (hb.ans.as = "refuses" /\ sync.pc \in AfterAnswer))
    BY <1>1, <1>3 DEF HbTake
  <2>3. ~sync.refused /\ hb.ans.as # "refuses"
    BY <2>2
  <2>4. ~Running(gate') \/ gate'.since = gate.since
    BY <1>1, <2>1, <2>3, Taken
  <2> QED BY <2>1, <2>2, <2>3, <2>4 DEF SyncedOn, Running
<1>4. CASE SyncTake
  <2>1. Take(sync.ans) /\ sync.ans.as = "accepts" /\ sync'.pc = "enable"
    BY <1>1, <1>4 DEF SyncTake
  <2> QED BY <1>1, <2>1, Taken
<1>5. CASE SyncEnable
  <2>1. /\ sync.pc = "enable" /\ op = "free" /\ off' = FALSE /\ UNCHANGED <<gate, watch>>
        /\ sync'.refused = sync.refused
    BY <1>1, <1>5 DEF SyncEnable
  <2>2. watch \notin {"firewall", "record", "save"}
    BY <2>1 DEF Exclusive
  <2> QED BY <2>1, <2>2 DEF SyncedOn
<1>6. CASE EnableFirewall
  <2>1. /\ sync.pc = "firewall" /\ sync'.pc = "save" /\ UNCHANGED <<off, watch, gate>>
        /\ sync'.refused = sync.refused
    BY <1>1, <1>6 DEF EnableFirewall
  <2> QED BY <2>1 DEF SyncedOn
<1>7. CASE EnableSave
  <2>1. /\ sync.pc = "save" /\ sync'.pc = "apply" /\ UNCHANGED <<off, watch>>
        /\ sync'.refused = sync.refused /\ gate'.since = gate.since
    BY <1>1, <1>7 DEF EnableSave, Gates
  <2> QED BY <2>1 DEF SyncedOn, Running
<1>8. CASE SyncApply \/ SyncEnd \/ \E by \in Callers : SyncBegin(by)
  <2>1. sync'.pc \in {"applied", "idle", "failed", "answered"}
    <3>1. CASE SyncApply
      BY <1>1, <3>1 DEF SyncApply
    <3>2. CASE SyncEnd
      BY <3>2 DEF SyncEnd, IdleSync
    <3>3. CASE \E by \in Callers : SyncBegin(by)
      BY <3>3 DEF SyncBegin, IdleSync
    <3> QED BY <1>8, <3>1, <3>2, <3>3
  <2> QED BY <2>1
<1>9. CASE HbSend \/ HbObserve \/ HbRequest \/ Accepted \/ LoopStep \/ Save
  BY <1>2, <1>9 DEF HbSend, HbObserve, HbRequest, Accepted, LoopStep, LoopTake, LoopDrain, Save,
     SaveRead, SaveWrite, switches
<1>10. CASE WatchCheck
  BY <1>10 DEF WatchCheck, switches, SyncedOn
<1>11. CASE DisableBegin
  <2>1. UNCHANGED <<gate, off, sync>> /\ (watch' = "firewall" => RefusedFor(gate) # None)
    BY <1>11 DEF DisableBegin, StillRefused
  <2>2. ~Running(gate)
    BY <2>1 DEF SyncedOn
  <2>3. watch' \in {"firewall", "idle"} /\ watch' # "firewall"
    BY <1>11, <2>1, <2>2 DEF DisableBegin, RefusedFor, Running
  <2> QED BY <2>1, <2>2, <2>3 DEF SyncedOn
<1>12. CASE DisableFirewall \/ DisableRecord \/ DisableSave
  <2>1. watch \in {"firewall", "record", "save"} /\ sync' = sync
    BY <1>12 DEF DisableFirewall, DisableRecord, DisableSave
  <2>2. sync.pc = "enable" /\ gate'.since = gate.since
    BY <1>1, <1>12, <2>1 DEF SyncedOn, DisableFirewall, DisableRecord, DisableSave, Gates
  <2> QED BY <2>1, <2>2 DEF SyncedOn, Running
<1>13. CASE Shutdown \/ Crash
  BY <1>13 DEF Shutdown, Crash, Stop, IdleSync
<1>14. CASE Start
  BY <1>14 DEF Start, AtRest
<1>15. CASE Tick
  BY <1>15 DEF Tick, Settled
<1>16. CASE Configure \/ (\E as \in Attitude : Change(as)) \/ UNCHANGED vars
  BY <1>2, <1>16 DEF Configure, Change, vars, switches
<1> QED BY <1>3, <1>4, <1>5, <1>6, <1>7, <1>8, <1>9, <1>10, <1>11, <1>12, <1>13, <1>14, <1>15,
           <1>16 DEF Next, Work, Heartbeat, SyncStep, Switch

----------------------------------------------------------------------------
(* The versions.                                                           *)

\* What the agent has seen is no newer than the dashboard's configuration, and the
\* answer to a sync no older than what was seen before it and what is in force.
VersionInv ==
    /\ seen <= dash.version /\ applied <= inForce /\ inForce <= dash.version
    /\ hb.ans.version <= dash.version
    /\ (sync.pc = "answered" /\ sync.ans.as = "accepts") \/ sync.pc \in AfterAnswer =>
          /\ inForce <= sync.ans.version /\ sync.version <= sync.ans.version
          /\ sync.ans.version <= dash.version
    /\ sync.pc = "applied" => sync.version <= inForce

LEMMA VersionNext == TypeInv /\ AtRest /\ VersionInv /\ [Next]_vars => VersionInv'
<1> SUFFICES ASSUME TypeInv, AtRest, VersionInv, [Next]_vars PROVE VersionInv'
  OBVIOUS
<1> USE DEF AfterAnswer
<1>1. /\ sync \in [pc: {"idle", "answered", "enable", "firewall", "save",
                        "apply", "applied", "failed"},
                   by: Callers \cup {"none"}, version: Versions, ans: Answers, refused: BOOLEAN]
      /\ hb \in [pc: {"idle", "answered", "observe", "request"}, ans: Answers]
      /\ dash \in Answers
      /\ seen \in Nat /\ applied \in Nat /\ inForce \in Nat /\ dash.version \in Nat
      /\ hb.ans.version \in Nat /\ sync.version \in Nat /\ sync.ans.version \in Nat
  BY BoundAssumption DEF TypeInv, TypeOK, Answers, Versions
<1>2. Answer.version \in Nat /\ Answer.version <= dash.version
      /\ (Answer.as = "accepts" => Answer.version = dash.version)
  BY <1>1 DEF Answer
<1>3. ASSUME UNCHANGED <<seen, applied, inForce, dash>>, hb'.ans.version \in {0, hb.ans.version},
             sync'.pc = sync.pc, sync'.ans = sync.ans, sync'.version = sync.version
      PROVE  VersionInv'
  BY <1>1, <1>3 DEF VersionInv
<1>4. CASE HbSend
  <2>1. UNCHANGED <<seen, applied, inForce, dash, sync>> /\ hb' \in {hb, [pc |-> "answered", ans |-> Answer]}
    BY <1>4 DEF HbSend, runner, env
  <2>2. hb'.ans.version <= dash.version
    BY <1>2, <2>1 DEF VersionInv
  <2> QED BY <2>1, <2>2 DEF VersionInv
<1>5. CASE HbTake
  <2>1. UNCHANGED <<seen, applied, inForce, dash>>
    BY <1>5 DEF HbTake, runner, env
  <2>2. sync'.pc = sync.pc /\ sync'.ans = sync.ans /\ sync'.version = sync.version
    BY <1>1, <1>5 DEF HbTake
  <2>3. hb'.ans.version \in {0, hb.ans.version}
    BY <1>1, <1>5 DEF HbTake, IdleHb, NoAnswer
  <2> QED BY <1>3, <2>1, <2>2, <2>3
<1>6. CASE HbObserve
  <2>1. /\ seen' = hb.ans.version /\ UNCHANGED <<applied, inForce, dash, sync>>
        /\ hb'.ans = NoAnswer
    BY <1>6 DEF HbObserve, env, IdleHb
  <2>2. hb'.ans.version = 0
    BY <2>1 DEF NoAnswer
  <2> QED BY <1>1, <2>1, <2>2 DEF VersionInv
<1>7. CASE HbRequest
  <2>1. hb'.ans.version = 0 /\ UNCHANGED <<seen, applied, inForce, dash, sync>>
    BY <1>7 DEF HbRequest, IdleHb, NoAnswer, runner, env
  <2> QED BY <1>3, <2>1
<1>8. ASSUME NEW by \in Callers, SyncBegin(by) PROVE VersionInv'
  <2>1. /\ UNCHANGED <<seen, applied, inForce, dash, hb>> /\ sync'.version = seen
        /\ \/ sync'.pc = "failed"
           \/ sync'.pc = "answered" /\ sync'.ans = Answer
    BY <1>8 DEF SyncBegin, runner, env, IdleSync
  <2> QED BY <1>1, <1>2, <2>1 DEF VersionInv
<1>9. CASE SyncTake
  <2>1. UNCHANGED <<seen, applied, inForce, dash, hb>> /\ sync.pc = "answered"
    BY <1>9 DEF SyncTake, runner, env
  <2>2. \/ sync.ans.as = "accepts" /\ sync'.pc = "enable" /\ sync'.ans = sync.ans
           /\ sync'.version = sync.version
        \/ sync'.pc = "failed"
    BY <1>1, <1>9 DEF SyncTake
  <2> QED BY <2>1, <2>2 DEF VersionInv
<1>10. CASE SyncEnable \/ EnableFirewall \/ EnableSave
  <2>1. /\ UNCHANGED <<seen, applied, inForce, dash, hb>>
        /\ sync.pc \in {"enable", "firewall", "save"} /\ sync'.pc \in {"firewall", "save", "apply"}
        /\ sync'.ans = sync.ans /\ sync'.version = sync.version
    BY <1>1, <1>10 DEF SyncEnable, EnableFirewall, EnableSave, runner, env
  <2> QED BY <2>1 DEF VersionInv
<1>11. CASE SyncApply
  <2>1. /\ sync.pc = "apply" /\ inForce' = sync.ans.version /\ UNCHANGED <<seen, applied, dash, hb>>
        /\ sync'.pc = "applied" /\ sync'.version = sync.version
    BY <1>1, <1>11 DEF SyncApply, runner, env
  <2> QED BY <1>1, <2>1 DEF VersionInv
<1>12. CASE SyncEnd
  <2>1. /\ applied' = IF sync.pc = "applied" THEN sync.version ELSE applied
        /\ UNCHANGED <<seen, inForce, dash, hb>> /\ sync'.pc = "idle"
    BY <1>12 DEF SyncEnd, Version, env, IdleSync
  <2> QED BY <2>1 DEF VersionInv
<1>13. CASE Accepted \/ LoopStep \/ Switch \/ Save
  BY <1>3, <1>13 DEF Accepted, LoopStep, LoopTake, LoopDrain, Switch, WatchCheck, DisableBegin,
     DisableFirewall, DisableRecord, DisableSave, Save, SaveRead, SaveWrite, runner, env
<1>14. CASE Shutdown \/ Crash
  <2>1. /\ seen' = 0 /\ applied' = 0 /\ inForce' = 0 /\ dash' = dash /\ hb'.ans.version = 0
        /\ sync'.pc = "idle"
    BY <1>14 DEF Shutdown, Crash, Stop, IdleHb, IdleSync, NoAnswer
  <2> QED BY <1>1, <2>1 DEF VersionInv
<1>15. CASE Start \/ Tick \/ UNCHANGED vars
  BY <1>3, <1>15 DEF Start, Tick, vars, runner, env
<1>16. CASE Configure \/ \E as \in Attitude : Change(as)
  <2>1. UNCHANGED <<seen, applied, inForce, hb, sync>> /\ dash'.version \in {dash.version, dash.version + 1}
    BY <1>1, <1>16 DEF Configure, Change, runner, Answers
  <2> QED BY <1>1, <2>1 DEF VersionInv
<1> QED BY <1>4, <1>5, <1>6, <1>7, <1>8, <1>9, <1>10, <1>11, <1>12, <1>13, <1>14, <1>15, <1>16
           DEF Next, Work, Heartbeat, SyncStep

----------------------------------------------------------------------------

ProtectionInv ==
    TypeInv /\ AtRest /\ Exclusive /\ StatusAgrees /\ Clock /\ SyncedOn /\ VersionInv

LEMMA ProtectionInit == Init => ProtectionInv
<1> SUFFICES ASSUME Init PROVE ProtectionInv
  OBVIOUS
<1>1. AtRest /\ Exclusive /\ StatusAgrees
  BY DEF Init, AtRest, Exclusive, StatusAgrees, IdleHb, IdleSync, FreshGate
<1>2. Clock /\ SyncedOn
  BY DEF Init, Clock, ClockInv, ClockHonest, SyncedOn, AfterAnswer, IdleSync, NoFile, Fresh
<1>3. VersionInv
  BY DEF Init, VersionInv, AfterAnswer, IdleHb, IdleSync, NoAnswer
<1> QED BY <1>1, <1>2, <1>3, InitTypes DEF ProtectionInv

LEMMA ProtectionInvariant == Spec => []ProtectionInv
<1>1. ProtectionInv /\ [Next]_vars => ProtectionInv'
  BY NextTypes, RestNext, SwitchesNext, ClockNext, SyncedOnNext, VersionNext DEF ProtectionInv
<1> QED BY <1>1, ProtectionInit, PTL DEF Spec

\* What the agent believes is so, over refusals, switches, crashes and restarts: the
\* refusal clock counts refusals only (gate.go), and whenever no switch is under way the
\* firewall, the gate and the status agree on whether protection is off (refusal.go).
THEOREM BeliefsAreTrue == Spec => []BeliefsHold
<1>1. ProtectionInv => BeliefsHold
  BY DEF ProtectionInv, Clock, BeliefsHold
<1> QED BY <1>1, ProtectionInvariant, PTL

\* The version recorded as applied is never newer than the configuration the agent
\* has: a change made during a sync is fetched by another (syncrunner.go).
THEOREM NoChangeTakenForApplied == Spec => []NoMissedChange
<1>1. ProtectionInv => NoMissedChange
  BY DEF ProtectionInv, VersionInv, NoMissedChange
<1> QED BY <1>1, ProtectionInvariant, PTL

\* A sync that was accepted leaves protection on, unless the dashboard has refused the
\* agent again since (refusal.go).
THEOREM AcceptedSwitchesOn == Spec => AcceptedMeansOn
<1>1. ProtectionInv /\ [Next]_vars
        => [sync.pc = "apply" /\ sync'.pc = "applied" => ~off \/ sync.refused]_vars
  BY DEF ProtectionInv, SyncedOn, AfterAnswer
<1> QED BY <1>1, ProtectionInvariant, PTL DEF Spec, AcceptedMeansOn
=============================================================================
