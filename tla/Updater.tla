------------------------------ MODULE Updater -------------------------------
(***************************************************************************)
(* The agent's own updates (internal/updater/updater.go, recover.go): a    *)
(* newer release is checked, the binary in place is copied to the backup   *)
(* and replaced, the service restarted; the start counts starts that did   *)
(* not last two minutes and goes back to the backup after three; before    *)
(* the start a script replaces a binary that does not run.                 *)
(*                                                                         *)
(* One action is one change of a file.  The process may be killed between  *)
(* any two.  A binary is its version; Broken is one cut short.  Updates    *)
(* are on ("auto"), on a host with systemd and not in Kubernetes, with the *)
(* script in place.  A download, a signature or a check that fails leaves  *)
(* every file as it was and is no step.  The marker of the last attempt    *)
(* decides nothing (it is removed, whatever it names) and is left out.     *)
(* The restart the agent asks systemd for succeeds.                        *)
(*                                                                         *)
(* A definition whose name begins with Mut is the one after it with a      *)
(* mistake planted, to see a property fail.                                *)
(***************************************************************************)
EXTENDS Integers

CONSTANTS
    Newest,     \* the last version released
    MaxCrashes, \* maxCrashesBeforeRollback
    MaxKills,   \* bound: ends of the process from outside
    MaxFaults   \* bound: writes that fail

Versions == 1..Newest
Broken   == 0
Missing  == -1
Binaries == {Missing, Broken} \cup Versions

\* A version whose "check" fails; one that ends before two minutes have
\* passed; one that ends before its first sync, too.
Kinds == {"good", "unfit", "crasher", "silent"}

ASSUME VersionAssumption == Newest \in Nat \ {0}
ASSUME CrashAssumption == MaxCrashes \in Nat \ {0}
ASSUME BoundAssumption == MaxKills \in Nat /\ MaxFaults \in Nat

VARIABLES
    kind,    \* what each version is
    target,  \* targetPath
    backup,  \* backupPath
    count,   \* crashMarkerPath; 0 when there is none
    proc,    \* the process: its step, its version, the one it installs
    armed,   \* the goroutine that clears the counter after two minutes runs
    latest,  \* the release the dashboard names
    kills, faults

vars  == <<kind, target, backup, count, proc, armed, latest, kills, faults>>
files == <<target, backup, count>>

Steps   == {"down", "started", "rollback", "rolled", "up", "staged", "copying", "backed", "replaced"}
Working == {"up", "staged", "copying", "backed", "replaced"}
Down    == [pc |-> "down", ver |-> Missing, new |-> Missing, stable |-> FALSE]

Short     == {"crasher", "silent"}
Goto(pc)  == proc' = [proc EXCEPT !.pc = pc]
Fault     == faults < MaxFaults /\ faults' = faults + 1

Of(k) == {v \in Versions : kind[v] = k}
PassesCheck(b) == b \in Versions \ Of("unfit")

Init ==
    /\ kind \in [Versions -> Kinds] /\ kind[1] = "good"
    /\ target = 1 /\ backup = Missing /\ count = 0
    /\ proc = Down /\ armed = FALSE
    /\ latest = 1 /\ kills = 0 /\ faults = 0

----------------------------------------------------------------------------
(* The start.                                                              *)

\* systemd runs the script and then the binary: the one in place if it runs,
\* else the backup, else the latest release.
Start ==
    /\ proc.pc = "down"
    /\ \/ PassesCheck(target) /\ UNCHANGED <<target, count>>
       \/ ~PassesCheck(target) /\ PassesCheck(backup) /\ target' = backup /\ count' = 0
       \/ ~PassesCheck(target) /\ ~PassesCheck(backup) /\ PassesCheck(latest)
              /\ target' = latest /\ count' = 0
    /\ proc' = [Down EXCEPT !.pc = "started", !.ver = target']
    /\ UNCHANGED <<backup, armed, latest, kills, faults>>

\* CheckStartupHealth.
MutLooping == count > MaxCrashes
Looping == count >= MaxCrashes

Counted == count + 1

HealthCheck ==
    /\ proc.pc = "started"
    /\ \/ /\ Looping
          /\ Goto(IF backup = Missing THEN "up" ELSE "rollback")
          /\ UNCHANGED <<count, armed, faults>>
       \/ /\ ~Looping
          /\ \/ count' = Counted /\ UNCHANGED faults
             \/ count' = count /\ Fault
          /\ armed' = TRUE /\ Goto("up")
    /\ UNCHANGED <<target, backup, latest, kills>>

Rollback ==
    /\ proc.pc = "rollback"
    /\ \/ target' = backup /\ Goto("rolled") /\ UNCHANGED faults
       \/ Goto("up") /\ Fault /\ UNCHANGED target
    /\ UNCHANGED <<backup, count, armed, latest, kills>>

AfterRollback == 0

RollbackEnd ==
    /\ proc.pc = "rolled"
    /\ count' = AfterRollback
    /\ proc' = Down /\ armed' = FALSE
    /\ UNCHANGED <<target, backup, latest, kills, faults>>

----------------------------------------------------------------------------
(* An update (CheckAndUpdate), one at a time (updateMu).                   *)

\* The new binary has been downloaded, verified, staged and has run "check".
Stage ==
    /\ proc.pc = "up" /\ kind[proc.ver] # "silent"
    /\ latest > proc.ver /\ PassesCheck(latest)
    /\ proc' = [proc EXCEPT !.pc = "staged", !.new = latest]
    /\ UNCHANGED <<files, armed, latest, kills, faults>>

\* copyFile truncates the backup and then fills it.
BackupBegin ==
    /\ proc.pc = "staged"
    /\ backup' = Broken /\ Goto("copying")
    /\ UNCHANGED <<target, count, armed, latest, kills, faults>>

MutCopied == proc.new
Copied == target

BackupEnd ==
    /\ proc.pc = "copying"
    /\ \/ backup' = Copied /\ Goto("backed") /\ UNCHANGED faults
       \/ Goto("up") /\ Fault /\ UNCHANGED backup
    /\ UNCHANGED <<target, count, armed, latest, kills>>

Replace ==
    /\ proc.pc = "backed"
    /\ \/ target' = proc.new /\ Goto("replaced") /\ UNCHANGED faults
       \/ Goto("up") /\ Fault /\ UNCHANGED target
    /\ UNCHANGED <<backup, count, armed, latest, kills>>

RestartService ==
    /\ proc.pc = "replaced"
    /\ proc' = Down /\ armed' = FALSE
    /\ UNCHANGED <<files, latest, kills, faults>>

----------------------------------------------------------------------------
(* Time, ends of the process, releases.                                    *)

\* Two minutes have passed since the start.
Settle ==
    /\ proc.pc \in Working /\ ~proc.stable /\ kind[proc.ver] \notin Short
    /\ proc' = [proc EXCEPT !.stable = TRUE]
    /\ count' = IF armed THEN 0 ELSE count
    /\ UNCHANGED <<target, backup, armed, latest, kills, faults>>

Crash ==
    /\ proc.pc \in Working /\ kind[proc.ver] \in Short
    /\ proc' = Down /\ armed' = FALSE
    /\ UNCHANGED <<files, latest, kills, faults>>

Kill ==
    /\ proc.pc # "down" /\ kills < MaxKills /\ kills' = kills + 1
    /\ proc' = Down /\ armed' = FALSE
    /\ UNCHANGED <<files, latest, faults>>

Release ==
    /\ latest < Newest /\ latest' = latest + 1
    /\ UNCHANGED <<files, proc, armed, kills, faults>>

----------------------------------------------------------------------------
Boot == Start \/ HealthCheck \/ Rollback \/ RollbackEnd
Update == Stage \/ BackupBegin \/ BackupEnd \/ Replace \/ RestartService
Next ==
    /\ Boot \/ Update \/ Settle \/ Crash \/ Kill \/ Release
    /\ UNCHANGED kind

Spec == Init /\ [][Next]_vars

\* systemd starts the agent again, it syncs, and time passes.
Fairness ==
    /\ WF_vars(Boot /\ UNCHANGED kind) /\ WF_vars(Update /\ UNCHANGED kind)
    /\ WF_vars(Settle /\ UNCHANGED kind) /\ WF_vars(Crash /\ UNCHANGED kind)

LiveSpec == Spec /\ Fairness

----------------------------------------------------------------------------
(* Properties.                                                             *)

\* Every variable keeps its type; the counter is never beyond the limit.
TypeOK ==
    /\ kind \in [Versions -> Kinds]
    /\ target \in Binaries \ {Missing} /\ backup \in Binaries /\ count \in 0..MaxCrashes
    /\ proc \in [pc: Steps, ver: Binaries, new: Binaries, stable: BOOLEAN]
    /\ armed \in BOOLEAN /\ latest \in Versions
    /\ kills \in 0..MaxKills /\ faults \in 0..MaxFaults

\* What is in place passed its check or was cut short, and what a rollback goes
\* back to lived at least until a sync: neither a kill between two steps nor
\* one update after another makes a backup of a version that never ran.
OnlyProven ==
    /\ target \in Versions => kind[target] # "unfit"
    /\ backup \in Versions => kind[backup] \notin {"unfit", "silent"}

\* A version that ends before its first sync, which no update can replace, is
\* left by the rollback, however updates were cut short before.
CrashLoopLeft == \A v \in Versions : []<>~(kind[v] = "silent" /\ target = v)

\* Once the latest release is a good one and stays the latest, the agent comes
\* to run it for good, whatever crashed, was killed or failed on the way.  Not
\* if a version can sync and then crash: it installs the release at its third
\* start, the counter is not reset by that, and the first start of the good
\* version finds three and goes back, each time.
Converges ==
    (\A v \in Versions : kind[v] # "crasher") =>
        (<>[](kind[latest] = "good")
            => <>[](target = latest /\ proc.ver = latest /\ proc.stable))
=============================================================================
