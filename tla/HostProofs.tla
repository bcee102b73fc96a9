----------------------------- MODULE HostProofs -----------------------------
(***************************************************************************)
(* Theorems about what the agent does to the host: Updater first, then     *)
(* Quarantine, HostChanges, TrustFiles, Sessions, CutOffChecks, and what   *)
(* the composition of MCHost checks of them.                               *)
(*                                                                         *)
(* Theorems about Updater, for every number of releases, every limit of    *)
(* the crash counter and any number of kills and faults: what is in place  *)
(* passed its check or was cut short, and a rollback goes back to nothing  *)
(* that never ran.                                                         *)
(***************************************************************************)
EXTENDS MCHost, FiniteSetTheorems, WellFoundedInduction, TLAPS

Running   == {"started", "rollback", "up", "staged", "copying", "backed"}
Replacing == {"staged", "copying", "backed", "replaced"}

\* What makes OnlyProven inductive.  The backup is a copy of what is in place:
\* until the process replaces it that is the version the process runs, and a
\* version that installs another has lived until a sync.
OwnBinary ==
    /\ proc.pc # "down" => proc.ver \in Versions /\ kind[proc.ver] # "unfit"
    /\ proc.pc \in Running => target = proc.ver
    /\ proc.pc \in Replacing =>
          kind[proc.ver] # "silent" /\ proc.new \in Versions /\ kind[proc.new] # "unfit"
    /\ proc.pc = "rollback" => backup # Missing

UpdaterInv == TypeOK /\ OnlyProven /\ OwnBinary

LEMMA CheckPassed ==
    ASSUME TypeOK, NEW b \in Binaries, PassesCheck(b)
    PROVE  b \in Versions /\ b # Missing /\ kind[b] # "unfit"
  BY VersionAssumption DEF TypeOK, PassesCheck, Of, Versions, Missing

\* A process, and one that is down.
Process == [pc: Steps, ver: Binaries, new: Binaries, stable: BOOLEAN]

LEMMA DownType ==
    /\ Missing \in Binaries /\ Broken \in Binaries \ {Missing}
    /\ Down \in Process /\ Down.pc = "down"
    /\ \A v \in Versions : v \in Binaries \ {Missing, Broken}
  BY VersionAssumption DEF Missing, Broken, Binaries, Versions, Process, Steps, Down

LEMMA UpdaterInit == Init => UpdaterInv
<1> SUFFICES ASSUME Init PROVE UpdaterInv
  OBVIOUS
<1>1. 1 \in Versions /\ kind \in [Versions -> Kinds] /\ kind[1] = "good"
  BY VersionAssumption DEF Init, Versions
<1>2. /\ target = 1 /\ backup = Missing /\ Missing \notin Versions /\ count = 0 /\ proc = Down
      /\ armed = FALSE /\ latest = 1 /\ kills = 0 /\ faults = 0
  BY DownType DEF Init
<1>3. 0 \in 0..MaxCrashes /\ 0 \in 0..MaxKills /\ 0 \in 0..MaxFaults
  BY CrashAssumption, BoundAssumption
<1>4. TypeOK
  BY <1>1, <1>2, <1>3, DownType DEF TypeOK, Process
<1>5. OnlyProven /\ OwnBinary
  BY <1>1, <1>2, DownType DEF OnlyProven, OwnBinary, Running, Replacing
<1> QED BY <1>4, <1>5 DEF UpdaterInv

\* The start: the script, the crash counter, the rollback.
LEMMA StartKeeps ==
    ASSUME UpdaterInv, Start, UNCHANGED kind
    PROVE  UpdaterInv'
<1> USE DEF UpdaterInv
<1>1. target' \in Versions /\ kind[target'] # "unfit" /\ count' \in 0..MaxCrashes
  BY CheckPassed, CrashAssumption DEF Start, TypeOK, Binaries
<1>2. proc' = [pc |-> "started", ver |-> target', new |-> Missing, stable |-> FALSE]
  BY DEF Start, Down
<1>3. target' # Missing
  BY <1>1, VersionAssumption DEF Versions, Missing
<1>4. TypeOK'
  <2>1. proc' \in Process
    BY <1>1, <1>2, DownType DEF Process, Steps
  <2>2. target' \in Binaries \ {Missing}
    BY <1>1, DownType
  <2> QED BY <1>1, <2>1, <2>2 DEF Start, TypeOK, Process
<1>5. OnlyProven' /\ OwnBinary'
  BY <1>1, <1>2 DEF Start, OnlyProven, OwnBinary, Running, Replacing
<1> QED BY <1>4, <1>5

LEMMA HealthCheckKeeps ==
    ASSUME UpdaterInv, HealthCheck, UNCHANGED kind
    PROVE  UpdaterInv'
<1> USE DEF UpdaterInv
<1>1. /\ count' \in 0..MaxCrashes /\ faults' \in 0..MaxFaults
      /\ UNCHANGED <<target, backup, latest, kills>>
  <2>1. CASE Looping
    BY <2>1 DEF HealthCheck, TypeOK
  <2>2. CASE ~Looping
    BY <2>2, CrashAssumption, BoundAssumption DEF HealthCheck, Looping, Counted, Fault, TypeOK
  <2> QED BY <2>1, <2>2
<1>2. armed' \in BOOLEAN
  BY DEF HealthCheck, TypeOK
<1>3. /\ proc.pc = "started" /\ proc'.ver = proc.ver /\ proc'.new = proc.new
      /\ proc' \in Process
      /\ proc'.pc = "up" \/ (proc'.pc = "rollback" /\ backup # Missing)
  <2>1. CASE proc' = [proc EXCEPT !.pc = "up"]
    BY <2>1 DEF HealthCheck, TypeOK, Steps, Process
  <2>2. CASE backup # Missing /\ proc' = [proc EXCEPT !.pc = "rollback"]
    BY <2>2 DEF HealthCheck, TypeOK, Steps, Process
  <2> QED BY <2>1, <2>2 DEF HealthCheck, Goto
<1>4. TypeOK'
  BY <1>1, <1>2, <1>3 DEF TypeOK, Process
<1>5. OnlyProven' /\ OwnBinary'
  BY <1>1, <1>3 DEF OnlyProven, OwnBinary, Running, Replacing
<1> QED BY <1>4, <1>5

LEMMA RollbackKeeps ==
    ASSUME UpdaterInv, Rollback \/ RollbackEnd, UNCHANGED kind
    PROVE  UpdaterInv'
<1> USE DEF UpdaterInv
<1>1. CASE Rollback
  <2>1. /\ proc.pc = "rollback" /\ proc'.ver = proc.ver /\ proc'.new = proc.new
        /\ proc' \in Process
        /\ \/ proc'.pc = "rolled" /\ target' = backup
           \/ proc'.pc = "up" /\ target' = target
    BY <1>1 DEF Rollback, Goto, TypeOK, Steps, Process
  <2>2. /\ faults' \in 0..MaxFaults /\ UNCHANGED <<backup, count, armed, latest, kills>>
    BY <1>1, BoundAssumption DEF Rollback, Fault, TypeOK
  <2>3. TypeOK'
    BY <2>1, <2>2 DEF TypeOK, OwnBinary, Process
  <2>4. OnlyProven' /\ OwnBinary'
    BY <2>1, <2>2 DEF OnlyProven, OwnBinary, Running, Replacing
  <2> QED BY <2>3, <2>4
<1>2. CASE RollbackEnd
  <2>1. 0 \in 0..MaxCrashes
    BY CrashAssumption
  <2>2. TypeOK'
    BY <1>2, <2>1, DownType DEF RollbackEnd, AfterRollback, TypeOK, Process
  <2>3. OnlyProven' /\ OwnBinary'
    BY <1>2, DownType DEF RollbackEnd, OnlyProven, OwnBinary, Running, Replacing
  <2> QED BY <2>2, <2>3
<1> QED BY <1>1, <1>2

\* An update.
LEMMA UpdateKeeps ==
    ASSUME UpdaterInv, Update, UNCHANGED kind
    PROVE  UpdaterInv'
<1> USE DEF UpdaterInv
<1>1. CASE Stage
  <2>1. latest \in Versions /\ kind[latest] # "unfit" /\ latest \in Binaries
    BY <1>1, CheckPassed DEF Stage, TypeOK, Binaries
  <2>2. /\ proc.pc = "up" /\ kind[proc.ver] # "silent"
        /\ proc'.pc = "staged" /\ proc'.ver = proc.ver /\ proc'.new = latest
        /\ proc' \in Process
        /\ UNCHANGED <<files, armed, latest, kills, faults>>
    BY <1>1, <2>1 DEF Stage, TypeOK, Steps, Process
  <2> QED BY <2>1, <2>2 DEF TypeOK, OnlyProven, OwnBinary, Process, Running, Replacing, files
<1>2. CASE BackupBegin
  <2>1. /\ proc.pc = "staged" /\ proc'.pc = "copying" /\ proc'.ver = proc.ver /\ proc'.new = proc.new
        /\ proc' \in Process
        /\ backup' = Broken /\ UNCHANGED <<target, count, armed, latest, kills, faults>>
    BY <1>2 DEF BackupBegin, Goto, TypeOK, Steps, Process
  <2>2. Broken \in Binaries /\ Broken \notin Versions
    BY VersionAssumption DEF Broken, Binaries, Versions
  <2> QED BY <2>1, <2>2 DEF TypeOK, OnlyProven, OwnBinary, Process, Running, Replacing
<1>3. CASE BackupEnd
  <2>1. /\ proc.pc = "copying" /\ proc'.ver = proc.ver /\ proc'.new = proc.new
        /\ proc' \in Process
        /\ \/ proc'.pc = "backed" /\ backup' = proc.ver
           \/ proc'.pc = "up" /\ backup' = backup
    BY <1>3 DEF BackupEnd, Goto, Copied, TypeOK, Steps, Process, OwnBinary, Running
  <2>2. faults' \in 0..MaxFaults /\ UNCHANGED <<target, count, armed, latest, kills>>
    BY <1>3, BoundAssumption DEF BackupEnd, Fault, TypeOK
  <2> QED BY <2>1, <2>2 DEF TypeOK, OnlyProven, OwnBinary, Process, Running, Replacing
<1>4. CASE Replace
  <2>1. /\ proc.pc = "backed" /\ proc'.ver = proc.ver /\ proc'.new = proc.new
        /\ proc' \in Process
        /\ \/ proc'.pc = "replaced" /\ target' = proc.new
           \/ proc'.pc = "up" /\ target' = target
    BY <1>4 DEF Replace, Goto, TypeOK, Steps, Process
  <2>2. faults' \in 0..MaxFaults /\ UNCHANGED <<backup, count, armed, latest, kills>>
    BY <1>4, BoundAssumption DEF Replace, Fault, TypeOK
  <2>3. proc.new \in Binaries \ {Missing}
    BY <2>1, VersionAssumption DEF OwnBinary, Replacing, Binaries, Versions, Missing
  <2> QED BY <2>1, <2>2, <2>3 DEF TypeOK, OnlyProven, OwnBinary, Process, Running, Replacing
<1>5. CASE RestartService
  BY <1>5 DEF RestartService, files, TypeOK, OnlyProven, OwnBinary, Down, Steps, Running,
              Replacing, Binaries
<1> QED BY <1>1, <1>2, <1>3, <1>4, <1>5 DEF Update

\* Time, ends of the process, releases.
LEMMA OthersKeep ==
    ASSUME UpdaterInv, Settle \/ Crash \/ Kill \/ Release, UNCHANGED kind
    PROVE  UpdaterInv'
<1> USE DEF UpdaterInv
<1>1. CASE Settle
  <2>1. /\ proc'.pc = proc.pc /\ proc'.ver = proc.ver /\ proc'.new = proc.new
        /\ proc' \in Process
        /\ UNCHANGED <<target, backup, armed, latest, kills, faults>>
    BY <1>1 DEF Settle, TypeOK, Process
  <2>2. count' \in 0..MaxCrashes
    BY <1>1, CrashAssumption DEF Settle, TypeOK
  <2> QED BY <2>1, <2>2 DEF TypeOK, OnlyProven, OwnBinary, Process
<1>2. CASE Crash \/ Kill
  <2>1. /\ proc' = Down /\ armed' = FALSE /\ kills' \in 0..MaxKills
        /\ UNCHANGED <<files, latest, faults>>
    BY <1>2, BoundAssumption DEF Crash, Kill, TypeOK
  <2> QED BY <2>1, DownType DEF files, TypeOK, OnlyProven, OwnBinary, Down, Steps, Running, Replacing, Binaries
<1>3. CASE Release
  BY <1>3, VersionAssumption
     DEF Release, files, TypeOK, OnlyProven, OwnBinary, Versions
<1> QED BY <1>1, <1>2, <1>3

\* The invariant holds of every behaviour.
LEMMA UpdaterInvariant == Spec => []UpdaterInv
<1>1. UpdaterInv /\ [Next]_vars => UpdaterInv'
  <2> SUFFICES ASSUME UpdaterInv, [Next]_vars PROVE UpdaterInv'
    OBVIOUS
  <2>1. CASE UNCHANGED vars
    BY <2>1 DEF vars, UpdaterInv, TypeOK, OnlyProven, OwnBinary
  <2>2. CASE Next
    BY <2>2, StartKeeps, HealthCheckKeeps, RollbackKeeps, UpdateKeeps, OthersKeep DEF Next, Boot
  <2> QED BY <2>1, <2>2
<1> QED BY UpdaterInit, <1>1, PTL DEF Spec

\* Every variable keeps its type, and the crash counter its limit (updater.go,
\* CheckStartupHealth).
THEOREM UpdaterTypes == Spec => []TypeOK
<1>1. UpdaterInv => TypeOK
  BY DEF UpdaterInv
<1> QED BY <1>1, UpdaterInvariant, PTL

\* Neither a kill between two steps of an update nor one update after another makes
\* a backup of a version that never ran, or puts one in place that failed its check
\* (updater.go, recover.go).
THEOREM UpdaterOnlyProven == Spec => []OnlyProven
<1>1. UpdaterInv => OnlyProven
  BY DEF UpdaterInv
<1> QED BY <1>1, UpdaterInvariant, PTL

----------------------------------------------------------------------------

(***************************************************************************)
(* Theorems about Quarantine, for any files, whether or not their names in *)
(* the vault differ, any length of the clock and any number of crashes and *)
(* failures: types, and that every version of a file stays whole where it  *)
(* can be put back from, but for those that met another under one name.    *)
(***************************************************************************)

----------------------------------------------------------------------------
(* Types.                                                                  *)

Moves    == [pc : {"move", "remove"}, path : Paths, name : Names]
Restores == [pc : {"create", "copy", "clean", "unmark"}, path : Paths, name : Names]

LEMMA Bounds == MaxSec \in Nat /\ MaxBirths \in Nat /\ MaxQCrashes \in Nat /\ MaxQFaults \in Nat
  BY VaultBounds

LEMMA JobsAre ==
    ASSUME QuarantineTypeOK
    PROVE  /\ mover.pc # "idle" => mover \in Moves
           /\ restorer.pc # "idle" => restorer \in Restores
  BY DEF QuarantineTypeOK, Movers, Restorers, Resting, Moves, Restores

\* A file that is there has a version; its copy begins as another file.
LEMMA FileIs ==
    ASSUME NEW f \in Files
    PROVE  /\ Part(f) \in Files /\ Part(f).ver = f.ver /\ ~Part(f).whole
           /\ f # NoFile => f.ver \in Version /\ Part(f) # NoFile
                           /\ f = [ver |-> f.ver, whole |-> f.whole]
<1>1. CASE f = NoFile
  BY <1>1 DEF NoFile, Part, Files
<1>2. CASE f \in [ver : Version, whole : BOOLEAN]
  <2>1. <<>> \notin Version
    BY DEF Version
  <2> QED BY <1>2, <2>1 DEF NoFile, Part, Files
<1> QED BY <1>1, <1>2 DEF Files

LEMMA NameIs ==
    ASSUME NEW t \in 0..MaxSec, NEW p \in Paths
    PROVE  <<t, SafeName[p]>> \in Names
  BY SafeNameAssumption DEF Names

Less == {ss \in Nat \X Nat : ss[1] < ss[2]}

\* Of the copies of a file, one is the newest.
LEMMA NewestIs ==
    ASSUME NEW p \in Paths, Copies(p) # {}
    PROVE  NewestCopy(p) \in Copies(p)
<1> DEFINE T == {MaxSec - n[1] : n \in Copies(p)}
<1>1. \A n \in Copies(p) : n[1] \in 0..MaxSec
  BY DEF Copies, Names
<1>2. T # {} /\ \A x \in T : x \in Nat
  BY <1>1, Bounds
<1>3. IsWellFoundedOn(Less, Nat)
  BY NatLessThanWellFounded DEF OpToRel, Less
<1>4. PICK x \in T : \A y \in T : ~(<<y, x>> \in Less)
  <2> HIDE DEF T
  <2> QED BY <1>2, <1>3, WFMin
<1>5. PICK n \in Copies(p) : x = MaxSec - n[1]
  OBVIOUS
<1>6. ASSUME NEW m \in Copies(p) PROVE m[1] <= n[1]
  <2>1. MaxSec - m[1] \in Nat /\ MaxSec - n[1] \in Nat /\ n[1] \in Int /\ m[1] \in Int
    BY <1>1, Bounds
  <2>2. ~(MaxSec - m[1] < MaxSec - n[1])
    BY <1>4, <1>5, <2>1 DEF Less
  <2> QED BY <2>1, <2>2, Bounds
<1> QED BY <1>6 DEF NewestCopy

LEMMA FaultsCounted ==
    ASSUME QuarantineTypeOK, NoVaultFault \/ VaultFault
    PROVE  qFaults' \in 0..MaxQFaults
  BY Bounds DEF QuarantineTypeOK, NoVaultFault, VaultFault

\* The dashboard, the owners, a sync, the end of the process.
LEMMA OutsideTypes ==
    ASSUME QuarantineTypeOK,
           \/ \E p \in Paths : Ask(p) \/ OwnerCreates(p)
           \/ VaultSync \/ VaultCrash
    PROVE  QuarantineTypeOK'
<1>1. CASE \E p \in Paths : Ask(p)
  <2>1. PICK p \in Paths : Ask(p)
    BY <1>1
  <2>2. asked' \in [Paths -> {"none", "quarantine", "restore"}]
    BY <2>1 DEF Ask, QuarantineTypeOK
  <2>3. UNCHANGED <<site, vault, meta, born, sec, queue, mover, undone, begun, restorer, unmarked,
                    clashed, qCrashes, qFaults>>
    BY <2>1 DEF Ask, fileVars, jobVars
  <2> QED BY <2>2, <2>3 DEF QuarantineTypeOK
<1>2. CASE \E p \in Paths : OwnerCreates(p)
  <2>1. PICK p \in Paths : OwnerCreates(p)
    BY <1>2
  <2>2. born[p] + 1 \in 1..MaxBirths
    BY <2>1, Bounds DEF OwnerCreates, QuarantineTypeOK
  <2>3. Whole(<<p, born[p] + 1>>) \in Files
    BY <2>2 DEF Whole, Files, Version
  <2>4. site' \in [Paths -> Files] /\ born' \in [Paths -> 1..MaxBirths]
    BY <2>1, <2>2, <2>3 DEF OwnerCreates, QuarantineTypeOK
  <2>5. UNCHANGED <<vault, meta, asked, sec, queue, mover, undone, begun, restorer, unmarked,
                    clashed, qCrashes, qFaults>>
    BY <2>1 DEF OwnerCreates, jobVars
  <2> QED BY <2>4, <2>5 DEF QuarantineTypeOK
<1>3. CASE VaultSync
  <2>1. sec' \in 0..MaxSec /\ queue' \subseteq Paths /\ undone' \subseteq Paths
    BY <1>3, Bounds DEF VaultSync, QuarantineTypeOK
  <2>2. UNCHANGED <<site, vault, meta, born, asked, mover, begun, restorer, unmarked, clashed,
                    qCrashes, qFaults>>
    BY <1>3 DEF VaultSync, fileVars
  <2> QED BY <2>1, <2>2 DEF QuarantineTypeOK
<1>4. CASE VaultCrash
  <2>1. qCrashes' \in 0..MaxQCrashes
    BY <1>4, Bounds DEF VaultCrash, QuarantineTypeOK
  <2>2. /\ queue' = {} /\ mover' = Resting /\ undone' = {} /\ begun' = {} /\ restorer' = Resting
        /\ UNCHANGED <<site, vault, meta, born, asked, sec, unmarked, clashed, qFaults>>
    BY <1>4 DEF VaultCrash, fileVars
  <2> QED BY <2>1, <2>2 DEF QuarantineTypeOK, Movers, Restorers
<1> QED BY <1>1, <1>2, <1>3, <1>4

\* An answer, or none, keeps its types.
LEMMA AnswersTypes ==
    ASSUME QuarantineTypeOK, NEW p \in Paths, Answered(p) \/ Unanswered
    PROVE  /\ asked' \in [Paths -> {"none", "quarantine", "restore"}]
           /\ begun' \subseteq Paths
  BY DEF QuarantineTypeOK, Answered, Unanswered

LEMMA MoverTypes ==
    ASSUME QuarantineTypeOK, (\E p \in Paths : MoveBegin(p)) \/ Move \/ MoveRemove
    PROVE  QuarantineTypeOK'
<1>1. CASE \E p \in Paths : MoveBegin(p)
  <2>1. PICK p \in Paths : MoveBegin(p)
    BY <1>1
  <2> DEFINE name == <<sec, SafeName[p]>>
  <2>2. name \in Names
    BY NameIs DEF QuarantineTypeOK
  <2> HIDE DEF name
  <2>3. /\ queue' = queue \ {p}
        /\ NoVaultFault \/ VaultFault
        /\ Answered(p) \/ Unanswered
        /\ UNCHANGED <<site, vault, born, sec, undone, restorer, qCrashes>>
    BY <2>1 DEF MoveBegin
  <2>4. /\ mover' = mover \/ mover' = [pc |-> "move", path |-> p, name |-> name]
        /\ meta' = meta \/ meta' = [meta EXCEPT ![name] = p]
        /\ unmarked' \subseteq unmarked \cup (IF Movable(p) THEN {site[p].ver} ELSE {})
        /\ clashed' \subseteq clashed \cup (IF Movable(p) THEN {site[p].ver} ELSE {})
                                     \cup (IF vault[name] = NoFile THEN {} ELSE {vault[name].ver})
    BY <2>1 DEF MoveBegin, name
  <2>5. mover' \in Movers
    BY <2>2, <2>4 DEF QuarantineTypeOK, Movers
  <2>6. meta' \in [Names -> Paths \cup {NoPath}]
    BY <2>2, <2>4 DEF QuarantineTypeOK
  <2>7. unmarked' \subseteq Version /\ clashed' \subseteq Version
    <3>1. /\ site[p] \in Files /\ vault[name] \in Files
          /\ unmarked \subseteq Version /\ clashed \subseteq Version
      BY <2>2 DEF QuarantineTypeOK
    <3>2. /\ site[p] # NoFile => site[p].ver \in Version
          /\ vault[name] # NoFile => vault[name].ver \in Version
      BY <3>1, FileIs
    <3> QED BY <2>4, <3>1, <3>2 DEF Movable
  <2> QED BY <2>3, <2>5, <2>6, <2>7, AnswersTypes, FaultsCounted DEF QuarantineTypeOK
<1>2. CASE Move \/ MoveRemove
  <2> DEFINE p == mover.path
  <2>1. mover \in Moves /\ p \in Paths /\ mover.name \in Names
    BY <1>2, JobsAre DEF Move, MoveRemove, Moves
  <2>2. NoVaultFault \/ VaultFault
    BY <1>2 DEF Move, MoveRemove
  <2>3. Answered(p) \/ Unanswered
    BY <1>2 DEF Move, MoveRemove
  <2>4. UNCHANGED <<born, sec, queue, undone, restorer, unmarked, clashed, qCrashes>>
    BY <1>2 DEF Move, MoveRemove
  <2>5. NoFile \in Files /\ site[p] \in Files
    BY <2>1 DEF Files, QuarantineTypeOK
  <2> HIDE DEF p
  <2>6. site' = site \/ site' = [site EXCEPT ![p] = NoFile]
    BY <1>2 DEF Move, MoveRemove, p
  <2>7. \/ vault' = vault
        \/ vault' = [vault EXCEPT ![mover.name] = NoFile]
        \/ vault' = [vault EXCEPT ![mover.name] = site[p]]
    BY <1>2 DEF Move, MoveRemove, p
  <2>8. meta' = meta \/ meta' = [meta EXCEPT ![mover.name] = NoPath]
    BY <1>2 DEF Move, MoveRemove
  <2>9. mover' \in Movers
    <3>1. mover' = Resting \/ mover' = [mover EXCEPT !.pc = "remove"]
      BY <1>2 DEF Move, MoveRemove
    <3> QED BY <2>1, <3>1 DEF Moves, Movers
  <2>10. site' \in [Paths -> Files] /\ vault' \in [Names -> Files]
    BY <2>1, <2>5, <2>6, <2>7 DEF QuarantineTypeOK
  <2>11. meta' \in [Names -> Paths \cup {NoPath}]
    BY <2>1, <2>8 DEF QuarantineTypeOK
  <2> QED BY <2>1, <2>2, <2>3, <2>4, <2>9, <2>10, <2>11, AnswersTypes, FaultsCounted
             DEF QuarantineTypeOK
<1> QED BY <1>1, <1>2

LEMMA RestorerTypes ==
    ASSUME QuarantineTypeOK,
           \/ \E p \in Paths : RestoreBegin(p)
           \/ RestoreCreate \/ RestoreCopy \/ RestoreClean \/ RestoreEnd
    PROVE  QuarantineTypeOK'
<1>1. CASE \E p \in Paths : RestoreBegin(p)
  <2>1. PICK p \in Paths : RestoreBegin(p)
    BY <1>1
  <2>2. UNCHANGED <<site, vault, meta, born, sec, queue, mover, unmarked, clashed, qCrashes, qFaults>>
        /\ undone' = undone \ {p}
    BY <2>1 DEF RestoreBegin, fileVars
  <2>3. CASE Answered(p) /\ restorer' = restorer
    BY <2>2, <2>3, AnswersTypes DEF QuarantineTypeOK
  <2>4. CASE /\ restorer' = [pc |-> "create", path |-> p, name |-> NewestCopy(p)]
             /\ begun' = begun \cup {p} /\ asked' = asked /\ Copies(p) # {}
    <3>1. NewestCopy(p) \in Names
      BY <2>4, NewestIs DEF Copies
    <3>2. restorer' \in Restorers
      BY <2>4, <3>1 DEF Restorers
    <3> QED BY <2>2, <2>4, <3>2 DEF QuarantineTypeOK
  <2> QED BY <2>1, <2>3, <2>4 DEF RestoreBegin
<1>2. CASE RestoreCreate \/ RestoreCopy \/ RestoreClean \/ RestoreEnd
  <2> DEFINE p == restorer.path  f == vault[restorer.name]
  <2>1. restorer \in Restores /\ p \in Paths /\ restorer.name \in Names
    BY <1>2, JobsAre DEF RestoreCreate, RestoreCopy, RestoreClean, RestoreEnd, Restores
  <2>2. NoVaultFault \/ VaultFault
    BY <1>2 DEF RestoreCreate, RestoreCopy, RestoreClean, RestoreEnd, NoVaultFault
  <2>3. Answered(p) \/ Unanswered
    BY <1>2 DEF RestoreCreate, RestoreCopy, RestoreClean, RestoreEnd, Unanswered
  <2>4. UNCHANGED <<born, sec, queue, mover, undone, unmarked, clashed, qCrashes>>
    BY <1>2 DEF RestoreCreate, RestoreCopy, RestoreClean, RestoreEnd
  <2>5. NoFile \in Files /\ f \in Files /\ Part(f) \in Files
    <3>1. NoFile \in Files /\ f \in Files
      BY <2>1 DEF Files, QuarantineTypeOK
    <3> HIDE DEF f
    <3> QED BY <3>1, FileIs
  <2> HIDE DEF p, f
  <2>6. \/ site' = site
        \/ site' = [site EXCEPT ![p] = NoFile]
        \/ site' = [site EXCEPT ![p] = f]
        \/ site' = [site EXCEPT ![p] = Part(f)]
    BY <1>2 DEF RestoreCreate, RestoreCopy, RestoreClean, RestoreEnd, p, f
  <2>7. vault' = vault \/ vault' = [vault EXCEPT ![restorer.name] = NoFile]
    BY <1>2 DEF RestoreCreate, RestoreCopy, RestoreClean, RestoreEnd
  <2>8. meta' = meta \/ meta' = [meta EXCEPT ![restorer.name] = NoPath]
    BY <1>2 DEF RestoreCreate, RestoreCopy, RestoreClean, RestoreEnd
  <2>9. restorer' \in Restorers
    <3>1. restorer' = Resting
          \/ \E pc \in {"copy", "clean", "unmark"} : restorer' = [restorer EXCEPT !.pc = pc]
      BY <1>2 DEF RestoreCreate, RestoreCopy, RestoreClean, RestoreEnd
    <3> QED BY <2>1, <3>1 DEF Restores, Restorers
  <2>10. site' \in [Paths -> Files] /\ vault' \in [Names -> Files]
    BY <2>1, <2>5, <2>6, <2>7 DEF QuarantineTypeOK
  <2>11. meta' \in [Names -> Paths \cup {NoPath}]
    BY <2>1, <2>8 DEF QuarantineTypeOK
  <2> QED BY <2>1, <2>2, <2>3, <2>4, <2>9, <2>10, <2>11, AnswersTypes, FaultsCounted
             DEF QuarantineTypeOK
<1> QED BY <1>1, <1>2

LEMMA VaultTypesInit == QuarantineInit => QuarantineTypeOK
<1> SUFFICES ASSUME QuarantineInit PROVE QuarantineTypeOK
  OBVIOUS
<1>1. 1 \in 1..MaxBirths
  BY VaultBounds
<1>2. site \in [Paths -> Files] /\ vault \in [Names -> Files] /\ born \in [Paths -> 1..MaxBirths]
  BY <1>1 DEF QuarantineInit, Whole, Files, Version
<1> QED BY <1>2, Bounds DEF QuarantineInit, QuarantineTypeOK, Movers, Restorers

LEMMA VaultTypesNext == QuarantineTypeOK /\ [QuarantineNext]_quarantineVars => QuarantineTypeOK'
<1> SUFFICES ASSUME QuarantineTypeOK, [QuarantineNext]_quarantineVars PROVE QuarantineTypeOK'
  OBVIOUS
<1>1. CASE QuarantineNext
  BY <1>1, OutsideTypes, MoverTypes, RestorerTypes DEF QuarantineNext, VaultStep
<1>2. CASE UNCHANGED quarantineVars
  BY <1>2 DEF quarantineVars, fileVars, jobVars, QuarantineTypeOK
<1> QED BY <1>1, <1>2

----------------------------------------------------------------------------
(* What makes KeptRestorable inductive.                                    *)

\* The path of a request under way is asked for: so the two jobs, and the paths still
\* to come, differ.
Owned ==
    /\ \A p \in queue : asked[p] = "quarantine"
    /\ \A p \in undone : asked[p] = "restore"
    /\ undone \cap begun = {}
    /\ mover.pc # "idle" => asked[mover.path] = "quarantine" /\ mover.path \notin queue
    /\ restorer.pc # "idle" => asked[restorer.path] = "restore" /\ restorer.path \in begun

\* A version is on the site at its own path, and described as its path's: but for one
\* that met another in the vault.
Filed ==
    /\ \A p \in Paths : site[p] # NoFile => site[p].ver[1] = p \/ site[p].ver \in clashed
    /\ \A n \in Names : vault[n] # NoFile /\ meta[n] # NoPath
                          => vault[n].ver[1] = meta[n] \/ vault[n].ver \in clashed

\* The names of the seconds to come are free.
Fresh == \A n \in Names : n[1] > sec => vault[n] = NoFile /\ meta[n] = NoPath

\* What a restore will look for was quarantined before the sync that asks for it: the two
\* jobs use other names.
Older == \A p \in undone : \A n \in Names : meta[n] = p => n[1] < sec

\* A move has a file to move, and what it moves it over has met another.
Moving ==
    mover.pc # "idle" =>
        LET p == mover.path  name == mover.name IN
        /\ name = <<sec, SafeName[p]>> /\ site[p] # NoFile
        /\ mover.pc = "move" => vault[name] = NoFile \/ vault[name].ver \in clashed
        /\ mover.pc = "remove" => vault[name] = site[p]
        /\ \/ meta[name] = p
           \/ meta[name] = NoPath /\ site[p].ver \in unmarked
           \/ site[p].ver \in clashed

\* A restore puts back what is described as the path's, and removes no copy before the
\* path has its contents.
Restoring ==
    restorer.pc # "idle" =>
        LET p == restorer.path  name == restorer.name IN
        /\ meta[name] = p /\ name[1] < sec
        /\ restorer.pc # "unmark" => vault[name] # NoFile
        /\ restorer.pc = "copy" => site[p] # NoFile /\ ~site[p].whole
        /\ restorer.pc \in {"clean", "unmark"} => vault[name] \in {NoFile, site[p]}

JobsInv == Owned /\ Filed /\ Fresh /\ Older /\ Moving /\ Restoring

LEMMA OwnedNext ==
    ASSUME QuarantineTypeOK, Owned, QuarantineNext
    PROVE  Owned'
<1>1. Resting.pc = "idle"
  BY DEF Resting
<1>2. asked \in [Paths -> {"none", "quarantine", "restore"}]
  BY DEF QuarantineTypeOK
<1>3. queue \subseteq Paths /\ undone \subseteq Paths /\ begun \subseteq Paths
  BY DEF QuarantineTypeOK
<1>4. CASE \E p \in Paths : Ask(p)
  <2>1. PICK p \in Paths : Ask(p)
    BY <1>4
  <2>2. /\ asked[p] = "none" /\ \A q \in Paths : q # p => asked'[q] = asked[q]
        /\ UNCHANGED <<queue, undone, begun, mover, restorer>>
    BY <1>2, <2>1 DEF Ask, jobVars
  <2> QED BY <1>3, <2>2, JobsAre DEF Owned, Moves, Restores
<1>5. CASE \E p \in Paths : OwnerCreates(p)
  BY <1>5 DEF OwnerCreates, jobVars, Owned
<1>6. CASE VaultSync
  <2>1. /\ mover.pc = "idle"
        /\ queue' = {p \in Paths : asked[p] = "quarantine"}
        /\ undone' = undone \cup {p \in Paths : asked[p] = "restore" /\ p \notin begun}
        /\ UNCHANGED <<asked, mover, begun, restorer>>
    BY <1>6 DEF VaultSync
  <2> QED BY <2>1 DEF Owned
<1>7. CASE VaultCrash
  <2>1. queue' = {} /\ undone' = {} /\ begun' = {} /\ mover' = Resting /\ restorer' = Resting
    BY <1>7 DEF VaultCrash
  <2> QED BY <1>1, <2>1 DEF Owned
<1>8. CASE \E p \in Paths : MoveBegin(p)
  <2>1. PICK p \in Paths : MoveBegin(p)
    BY <1>8
  <2>2. /\ mover.pc = "idle" /\ p \in queue /\ queue' = queue \ {p} /\ asked[p] = "quarantine"
        /\ UNCHANGED <<undone, restorer>>
    BY <2>1 DEF MoveBegin, Owned
  <2>3. CASE Answered(p) /\ mover' = mover
    <3>1. /\ \A q \in Paths : q # p => asked'[q] = asked[q]
          /\ begun' = begun \ {p}
      BY <1>2, <2>3 DEF Answered
    <3>2. p \notin undone /\ (restorer.pc # "idle" => restorer.path # p /\ restorer.path \in Paths)
      BY <2>2, JobsAre DEF Owned, Restores
    <3> QED BY <1>3, <2>2, <2>3, <3>1, <3>2 DEF Owned
  <2>4. CASE mover'.path = p /\ Unanswered
    BY <2>2, <2>4 DEF Owned, Unanswered
  <2> QED BY <2>1, <2>3, <2>4 DEF MoveBegin
<1>9. CASE Move \/ MoveRemove
  <2> DEFINE p == mover.path
  <2>1. /\ p \in Paths /\ mover \in Moves /\ mover.pc # "idle" /\ asked[p] = "quarantine"
        /\ p \notin queue
    BY <1>9, JobsAre DEF Move, MoveRemove, Moves, Owned
  <2>2. UNCHANGED <<queue, undone, restorer>>
    BY <1>9 DEF Move, MoveRemove
  <2> HIDE DEF p
  <2>3. CASE Answered(p) /\ mover' = Resting
    <3>1. /\ \A q \in Paths : q # p => asked'[q] = asked[q]
          /\ begun' = begun \ {p}
      BY <1>2, <2>3 DEF Answered
    <3>2. p \notin undone /\ (restorer.pc # "idle" => restorer.path # p /\ restorer.path \in Paths)
      BY <2>1, JobsAre DEF Owned, Restores
    <3> QED BY <1>1, <1>3, <2>1, <2>2, <2>3, <3>1, <3>2 DEF Owned
  <2>4. CASE Unanswered /\ mover' = [mover EXCEPT !.pc = "remove"]
    <3>1. mover'.path = p
      BY <2>1, <2>4 DEF Moves, p
    <3> QED BY <2>1, <2>2, <2>4, <3>1 DEF Owned, Unanswered
  <2> QED BY <1>9, <2>3, <2>4 DEF Move, MoveRemove, p
<1>10. CASE \E p \in Paths : RestoreBegin(p)
  <2>1. PICK p \in Paths : RestoreBegin(p)
    BY <1>10
  <2>2. /\ restorer.pc = "idle" /\ p \in undone /\ undone' = undone \ {p} /\ asked[p] = "restore"
        /\ UNCHANGED <<queue, mover>>
    BY <2>1 DEF RestoreBegin, Owned
  <2>3. CASE Answered(p) /\ restorer' = restorer
    <3>1. /\ \A q \in Paths : q # p => asked'[q] = asked[q]
          /\ begun' = begun \ {p}
      BY <1>2, <2>3 DEF Answered
    <3>2. p \notin queue /\ (mover.pc # "idle" => mover.path # p /\ mover.path \in Paths)
      BY <2>2, JobsAre DEF Owned, Moves
    <3> QED BY <1>3, <2>2, <2>3, <3>1, <3>2 DEF Owned
  <2>4. CASE restorer'.path = p /\ begun' = begun \cup {p} /\ asked' = asked
    BY <2>2, <2>4 DEF Owned
  <2> QED BY <2>1, <2>3, <2>4 DEF RestoreBegin
<1>11. CASE RestoreCreate \/ RestoreCopy \/ RestoreClean \/ RestoreEnd
  <2> DEFINE p == restorer.path
  <2>1. /\ p \in Paths /\ restorer \in Restores /\ restorer.pc # "idle" /\ asked[p] = "restore"
        /\ p \in begun
    BY <1>11, JobsAre DEF RestoreCreate, RestoreCopy, RestoreClean, RestoreEnd, Restores, Owned
  <2>2. UNCHANGED <<queue, undone, mover>>
    BY <1>11 DEF RestoreCreate, RestoreCopy, RestoreClean, RestoreEnd
  <2> HIDE DEF p
  <2>3. CASE Answered(p) /\ restorer' = Resting
    <3>1. /\ \A q \in Paths : q # p => asked'[q] = asked[q]
          /\ begun' = begun \ {p}
      BY <1>2, <2>3 DEF Answered
    <3>2. p \notin queue /\ p \notin undone
          /\ (mover.pc # "idle" => mover.path # p /\ mover.path \in Paths)
      BY <2>1, JobsAre DEF Owned, Moves
    <3> QED BY <1>1, <1>3, <2>1, <2>2, <2>3, <3>1, <3>2 DEF Owned
  <2>4. CASE asked' = asked /\ begun' = begun /\ \E pc \in {"copy", "clean", "unmark"} :
                                                    restorer' = [restorer EXCEPT !.pc = pc]
    <3>1. restorer'.path = p
      BY <2>1, <2>4 DEF Restores, p
    <3> QED BY <2>1, <2>2, <2>4, <3>1 DEF Owned
  <2> QED BY <1>11, <2>3, <2>4 DEF RestoreCreate, RestoreCopy, RestoreClean, RestoreEnd, Unanswered,
             p
<1> QED BY <1>4, <1>5, <1>6, <1>7, <1>8, <1>9, <1>10, <1>11 DEF QuarantineNext, VaultStep

\* The two jobs are at different paths, and at different names.
LEMMA Apart ==
    ASSUME QuarantineTypeOK, JobsInv, mover.pc # "idle", restorer.pc # "idle"
    PROVE  mover.path # restorer.path /\ mover.name # restorer.name
<1>1. mover.path # restorer.path
  BY DEF JobsInv, Owned
<1>2. mover.name[1] = sec /\ restorer.name[1] < sec /\ sec \in Nat
  BY DEF JobsInv, Moving, Restoring, QuarantineTypeOK
<1> QED BY <1>1, <1>2

\* What a restore puts back is a version of its path, or one that met another.
LEMMA OwnVersion ==
    ASSUME QuarantineTypeOK, JobsInv, restorer.pc # "idle", vault[restorer.name] # NoFile
    PROVE  \/ vault[restorer.name].ver[1] = restorer.path
           \/ vault[restorer.name].ver \in clashed
<1>1. restorer.path \in Paths /\ restorer.name \in Names
  BY JobsAre DEF Restores
<1>2. meta[restorer.name] = restorer.path /\ restorer.path # NoPath
  BY <1>1, PathsAssumption DEF JobsInv, Restoring
<1> QED BY <1>1, <1>2 DEF JobsInv, Filed

KeptAt(p, k, n) == vault[n] = Whole(<<p, k>>) /\ (meta[n] = p \/ <<p, k>> \in unmarked)

LEMMA KeptIs ==
    KeptRestorable <=> \A p \in Paths : \A k \in 1..born[p] :
                          \/ <<p, k>> \in clashed
                          \/ site[p] = Whole(<<p, k>>) \/ \E n \in Names : KeptAt(p, k, n)
  BY DEF KeptRestorable, Kept, KeptAt

LEMMA WholeIs ==
    ASSUME NEW p, NEW k
    PROVE  Whole(<<p, k>>) # NoFile /\ Whole(<<p, k>>).whole /\ Whole(<<p, k>>).ver = <<p, k>>
  BY DEF Whole, NoFile

FilesInv == Filed /\ Fresh /\ Older /\ Moving /\ Restoring /\ KeptRestorable

LEMMA OutsideKeeps ==
    ASSUME QuarantineTypeOK, JobsInv, KeptRestorable,
           \/ \E p \in Paths : Ask(p) \/ OwnerCreates(p)
           \/ VaultSync \/ VaultCrash
    PROVE  FilesInv'
<1>1. CASE \E p \in Paths : Ask(p)
  <2>1. UNCHANGED <<site, vault, meta, born, sec, undone, mover, restorer, unmarked, clashed>>
    BY <1>1 DEF Ask, fileVars, jobVars
  <2> QED BY <2>1 DEF FilesInv, JobsInv, Filed, Fresh, Older, Moving, Restoring, KeptRestorable, Kept
<1>2. CASE \E p \in Paths : OwnerCreates(p)
  <2>1. PICK p \in Paths : OwnerCreates(p)
    BY <1>2
  <2>2. /\ site[p] = NoFile /\ born[p] \in Nat
        /\ site' = [site EXCEPT ![p] = Whole(<<p, born[p] + 1>>)]
        /\ born' = [born EXCEPT ![p] = born[p] + 1]
        /\ UNCHANGED <<vault, meta, sec, undone, mover, restorer, unmarked, clashed>>
    BY <2>1 DEF OwnerCreates, jobVars, QuarantineTypeOK
  <2>3. /\ site'[p] = Whole(<<p, born[p] + 1>>) /\ \A q \in Paths : q # p => site'[q] = site[q]
        /\ born'[p] = born[p] + 1 /\ \A q \in Paths : q # p => born'[q] = born[q]
    BY <2>2 DEF QuarantineTypeOK
  <2>4. Filed' /\ Fresh' /\ Older'
    BY <2>2, <2>3, WholeIs DEF JobsInv, Filed, Fresh, Older
  <2>5. Moving'
    <3>1. mover.pc # "idle" => mover.path \in Paths /\ mover.path # p
      BY <2>2, JobsAre DEF Moves, JobsInv, Moving
    <3> QED BY <2>2, <2>3, <3>1 DEF JobsInv, Moving
  <2>6. Restoring'
    <3>1. restorer.pc # "idle" => restorer.path \in Paths
      BY JobsAre DEF Restores
    <3>2. CASE restorer.path = p
      BY <2>2, <3>1, <3>2 DEF JobsInv, Restoring
    <3>3. CASE restorer.path # p
      BY <2>2, <2>3, <3>1, <3>3 DEF JobsInv, Restoring
    <3> QED BY <3>2, <3>3
  <2>7. KeptRestorable'
    <3>1. SUFFICES ASSUME NEW q \in Paths, NEW k \in 1..born'[q], <<q, k>> \notin clashed
                   PROVE  site'[q] = Whole(<<q, k>>) \/ \E n \in Names : KeptAt(q, k, n)'
      BY <2>2 DEF KeptRestorable, Kept, KeptAt
    <3>2. CASE k \in 1..born[q]
      BY <2>2, <2>3, <3>1, <3>2, KeptIs, WholeIs DEF KeptAt
    <3>3. CASE k \notin 1..born[q]
      <4>1. q = p /\ k = born[p] + 1
        BY <2>2, <2>3, <3>3
      <4> QED BY <2>3, <4>1
    <3> QED BY <3>2, <3>3
  <2> QED BY <2>4, <2>5, <2>6, <2>7 DEF FilesInv
<1>3. CASE VaultSync
  <2>1. /\ mover.pc = "idle" /\ sec' = sec + 1 /\ sec \in Nat
        /\ undone' \subseteq Paths
        /\ UNCHANGED <<site, vault, meta, born, mover, restorer, unmarked, clashed>>
    BY <1>3 DEF VaultSync, fileVars, QuarantineTypeOK
  <2>2. Filed' /\ Moving' /\ KeptRestorable'
    BY <2>1 DEF JobsInv, Filed, Moving, KeptRestorable, Kept
  <2>3. ASSUME NEW n \in Names PROVE n[1] \in Nat
    BY Bounds DEF Names
  <2>4. Fresh'
    <3>1. ASSUME NEW n \in Names, n[1] > sec + 1 PROVE n[1] > sec
      BY <2>1, <2>3, <3>1
    <3> QED BY <2>1, <3>1 DEF JobsInv, Fresh
  <2>5. Older'
    <3>1. SUFFICES ASSUME NEW p \in Paths, NEW n \in Names, meta[n] = p
                   PROVE  n[1] < sec + 1
      BY <2>1 DEF Older
    <3>2. ~(n[1] > sec)
      BY <3>1, PathsAssumption DEF JobsInv, Fresh
    <3> QED BY <2>1, <2>3, <3>2
  <2>6. Restoring'
    <3>1. restorer.pc # "idle" => restorer.name \in Names
      BY JobsAre DEF Restores
    <3>2. restorer.pc # "idle" => restorer.name[1] < sec + 1
      BY <2>1, <2>3, <3>1 DEF JobsInv, Restoring
    <3> QED BY <2>1, <3>2 DEF JobsInv, Restoring
  <2> QED BY <2>2, <2>4, <2>5, <2>6 DEF FilesInv
<1>4. CASE VaultCrash
  <2>1. /\ undone' = {} /\ mover' = Resting /\ restorer' = Resting
        /\ UNCHANGED <<site, vault, meta, born, sec, unmarked, clashed>>
    BY <1>4 DEF VaultCrash, fileVars
  <2> QED BY <2>1 DEF FilesInv, JobsInv, Filed, Fresh, Older, Moving, Restoring, KeptRestorable, Kept,
             Resting
<1> QED BY <1>1, <1>2, <1>3, <1>4

LEMMA MoveBeginKeeps ==
    ASSUME QuarantineTypeOK, JobsInv, KeptRestorable, NEW p \in Paths, MoveBegin(p)
    PROVE  FilesInv'
<1> DEFINE name == <<sec, SafeName[p]>>
<1>1. /\ mover.pc = "idle" /\ p \in queue /\ p # NoPath
      /\ UNCHANGED <<site, vault, born, sec, undone, restorer>>
      /\ sec \in Nat /\ name \in Names /\ name[1] = sec
  BY NameIs, PathsAssumption DEF MoveBegin, QuarantineTypeOK
<1>2. \/ UNCHANGED <<mover, meta, unmarked, clashed>>
      \/ /\ mover' = [pc |-> "move", path |-> p, name |-> name] /\ site[p] # NoFile
         /\ clashed \subseteq clashed' /\ unmarked \subseteq unmarked'
         /\ vault[name] # NoFile => vault[name].ver \in clashed'
         /\ \/ meta' = [meta EXCEPT ![name] = p]
            \/ /\ meta' = meta /\ site[p].ver \in unmarked'
               /\ meta[name] # NoPath => site[p].ver \in clashed'
  BY DEF MoveBegin, Movable, NameTaken
<1> HIDE DEF name
<1>3. CASE UNCHANGED <<mover, meta, unmarked, clashed>>
  BY <1>1, <1>3 DEF FilesInv, JobsInv, Filed, Fresh, Older, Moving, Restoring, KeptRestorable, Kept
<1>4. CASE /\ mover' = [pc |-> "move", path |-> p, name |-> name] /\ site[p] # NoFile
           /\ clashed \subseteq clashed' /\ unmarked \subseteq unmarked'
           /\ vault[name] # NoFile => vault[name].ver \in clashed'
           /\ \/ meta' = [meta EXCEPT ![name] = p]
              \/ /\ meta' = meta /\ site[p].ver \in unmarked'
                 /\ meta[name] # NoPath => site[p].ver \in clashed'
  <2>1. /\ \A n \in Names : n # name => meta'[n] = meta[n]
        /\ \/ meta'[name] = p
           \/ /\ meta'[name] = meta[name] /\ site[p].ver \in unmarked'
              /\ meta[name] # NoPath => site[p].ver \in clashed'
    BY <1>1, <1>4 DEF QuarantineTypeOK
  <2>2. Filed'
    BY <1>1, <1>4, <2>1 DEF JobsInv, Filed
  <2>3. Fresh'
    <3>1. ASSUME NEW n \in Names, n[1] > sec PROVE n # name
      BY <1>1, <3>1
    <3> QED BY <1>1, <2>1, <3>1 DEF JobsInv, Fresh
  <2>4. p \notin undone
    BY <1>1 DEF JobsInv, Owned
  <2>5. Older'
    BY <1>1, <2>1, <2>4 DEF JobsInv, Older
  <2>6. Moving'
    <3>1. mover'.path = p /\ mover'.name = name /\ mover'.pc = "move"
      BY <1>4
    <3> QED BY <1>1, <1>4, <2>1, <3>1 DEF Moving, name
  <2>7. Restoring'
    <3>1. restorer.pc # "idle" => restorer.name \in Names /\ restorer.name # name
      BY <1>1, JobsAre DEF Restores, JobsInv, Restoring
    <3> QED BY <1>1, <2>1, <3>1 DEF JobsInv, Restoring
  <2>8. KeptRestorable'
    <3>1. SUFFICES ASSUME NEW q \in Paths, NEW k \in 1..born[q], <<q, k>> \notin clashed'
                   PROVE  site[q] = Whole(<<q, k>>) \/ \E n \in Names : KeptAt(q, k, n)'
      BY <1>1 DEF KeptRestorable, Kept, KeptAt
    <3>2. ASSUME NEW n \in Names, KeptAt(q, k, n) PROVE KeptAt(q, k, n)'
      <4>1. n # name
        BY <1>4, <3>1, <3>2, WholeIs DEF KeptAt
      <4> QED BY <1>1, <1>4, <2>1, <3>2, <4>1 DEF KeptAt
    <3> QED BY <1>4, <3>1, <3>2, KeptIs
  <2> QED BY <2>2, <2>3, <2>5, <2>6, <2>7, <2>8 DEF FilesInv
<1> QED BY <1>2, <1>3, <1>4

LEMMA MoveKeeps ==
    ASSUME QuarantineTypeOK, JobsInv, KeptRestorable, Move \/ MoveRemove
    PROVE  FilesInv'
<1> DEFINE p == mover.path  name == mover.name
<1>1. /\ mover \in Moves /\ p \in Paths /\ name \in Names /\ sec \in Nat
      /\ UNCHANGED <<born, sec, undone, restorer, unmarked, clashed>>
  BY JobsAre DEF Move, MoveRemove, Moves, QuarantineTypeOK
<1>2. /\ name = <<sec, SafeName[p]>> /\ site[p] # NoFile /\ mover.pc # "idle"
      /\ mover.pc = "move" => vault[name] = NoFile \/ vault[name].ver \in clashed
      /\ mover.pc = "remove" => vault[name] = site[p]
      /\ \/ meta[name] = p
         \/ meta[name] = NoPath /\ site[p].ver \in unmarked
         \/ site[p].ver \in clashed
  BY DEF Move, MoveRemove, JobsInv, Moving
<1>3. \/ Move /\ vault' = [vault EXCEPT ![name] = site[p]] /\ meta' = meta /\ mover.pc = "move"
         /\ \/ site' = [site EXCEPT ![p] = NoFile] /\ mover' = Resting
            \/ site' = site /\ mover' = [mover EXCEPT !.pc = "remove"]
      \/ /\ MoveRemove /\ mover.pc = "remove" /\ mover' = Resting
         /\ \/ site' = [site EXCEPT ![p] = NoFile] /\ UNCHANGED <<vault, meta>>
            \/ /\ site' = site
               /\ vault' = [vault EXCEPT ![name] = NoFile] /\ meta' = [meta EXCEPT ![name] = NoPath]
  BY DEF Move, MoveRemove
<1> HIDE DEF p, name
\* What the step does to the path and the name, and that it does nothing else.
<1>4. /\ \A q \in Paths : q # p => site'[q] = site[q]
      /\ \A n \in Names : n # name => vault'[n] = vault[n] /\ meta'[n] = meta[n]
  BY <1>1, <1>3 DEF QuarantineTypeOK
<1>5. /\ site'[p] \in {site[p], NoFile} /\ vault'[name] \in {site[p], NoFile}
      /\ meta'[name] \in {meta[name], NoPath}
      /\ site'[p] = site[p] \/ (vault'[name] = site[p] /\ meta'[name] = meta[name])
  BY <1>1, <1>2, <1>3 DEF QuarantineTypeOK
<1>6. /\ mover'.pc = "idle"
         \/ (/\ mover'.pc = "remove" /\ mover'.path = p /\ mover'.name = name
             /\ site' = site /\ vault'[name] = site[p] /\ meta' = meta)
  BY <1>1, <1>3 DEF QuarantineTypeOK, Resting, Moves, p, name
<1>7. site[p].ver[1] = p \/ site[p].ver \in clashed
  BY <1>1, <1>2 DEF JobsInv, Filed
<1>8. Filed'
  BY <1>1, <1>2, <1>4, <1>5, <1>7 DEF JobsInv, Filed
<1>9. Fresh'
  <2>1. ASSUME NEW n \in Names, n[1] > sec PROVE n # name
    BY <1>1, <1>2, <2>1
  <2> QED BY <1>1, <1>4, <2>1 DEF JobsInv, Fresh
<1>10. Older'
  <2>1. undone \subseteq Paths
    BY DEF QuarantineTypeOK
  <2> QED BY <1>1, <1>4, <1>5, <2>1, PathsAssumption DEF JobsInv, Older
<1>11. Moving'
  BY <1>1, <1>2, <1>6 DEF Moving
<1>12. Restoring'
  <2>1. restorer.pc # "idle" => /\ restorer.path \in Paths /\ restorer.name \in Names
                                /\ restorer.path # p /\ restorer.name # name
    BY <1>2, JobsAre, Apart DEF Restores, p, name
  <2> QED BY <1>1, <1>4, <2>1 DEF JobsInv, Restoring
<1>13. KeptRestorable'
  <2>1. SUFFICES ASSUME NEW q \in Paths, NEW k \in 1..born[q], <<q, k>> \notin clashed
                 PROVE  site'[q] = Whole(<<q, k>>) \/ \E n \in Names : KeptAt(q, k, n)'
    BY <1>1 DEF KeptRestorable, Kept, KeptAt
  <2>2. CASE site[q] = Whole(<<q, k>>)
    <3>1. CASE site'[q] = site[q]
      BY <2>2, <3>1
    <3>2. CASE site'[q] # site[q]
      <4>1. q = p /\ vault'[name] = site[p] /\ meta'[name] = meta[name]
        BY <1>4, <1>5, <3>2
      <4>2. site[p].ver = <<q, k>>
        BY <2>2, <4>1, WholeIs
      <4>3. vault'[name] = Whole(<<q, k>>) /\ (meta'[name] = q \/ <<q, k>> \in unmarked')
        BY <1>1, <1>2, <2>1, <2>2, <4>1, <4>2
      <4> QED BY <1>1, <4>3 DEF KeptAt
    <3> QED BY <3>1, <3>2
  <2>3. ASSUME site[q] # Whole(<<q, k>>), NEW n \in Names, KeptAt(q, k, n)
        PROVE  KeptAt(q, k, n)'
    <3>1. CASE n # name
      BY <1>1, <1>4, <2>3, <3>1 DEF KeptAt
    <3>2. CASE n = name
      <4>1. vault[name] # NoFile /\ vault[name].ver = <<q, k>> /\ vault[name] = Whole(<<q, k>>)
        BY <2>3, <3>2, WholeIs DEF KeptAt
      <4>2. site[p] = Whole(<<q, k>>)
        BY <1>2, <1>3, <2>1, <4>1
      <4>3. q = p
        BY <1>7, <2>1, <4>2, WholeIs
      <4> QED BY <2>3, <4>2, <4>3
    <3> QED BY <3>1, <3>2
  <2> QED BY <2>1, <2>2, <2>3, KeptIs
<1> QED BY <1>8, <1>9, <1>10, <1>11, <1>12, <1>13 DEF FilesInv

LEMMA RestoreBeginKeeps ==
    ASSUME QuarantineTypeOK, JobsInv, KeptRestorable, NEW p \in Paths, RestoreBegin(p)
    PROVE  FilesInv'
<1>1. /\ UNCHANGED <<site, vault, meta, born, sec, mover, unmarked, clashed>>
      /\ p \in undone /\ undone' = undone \ {p}
  BY DEF RestoreBegin, fileVars
<1>2. Filed' /\ Fresh' /\ Older' /\ Moving' /\ KeptRestorable'
  BY <1>1 DEF JobsInv, Filed, Fresh, Older, Moving, KeptRestorable, Kept
<1>3. Restoring'
  <2>1. CASE restorer' = restorer
    BY <1>1, <2>1 DEF JobsInv, Restoring
  <2>2. CASE restorer' = [pc |-> "create", path |-> p, name |-> NewestCopy(p)] /\ Copies(p) # {}
    <3>1. NewestCopy(p) \in Names /\ meta[NewestCopy(p)] = p /\ vault[NewestCopy(p)] # NoFile
      BY <2>2, NewestIs DEF Copies
    <3>2. NewestCopy(p)[1] < sec
      BY <1>1, <3>1 DEF JobsInv, Older
    <3>3. restorer'.pc = "create" /\ restorer'.path = p /\ restorer'.name = NewestCopy(p)
      BY <2>2
    <3> QED BY <1>1, <3>1, <3>2, <3>3 DEF Restoring
  <2> QED BY <2>1, <2>2 DEF RestoreBegin
<1> QED BY <1>2, <1>3 DEF FilesInv

\* The file at the path, before its copy goes.
LEMMA RestoreFillKeeps ==
    ASSUME QuarantineTypeOK, JobsInv, KeptRestorable, RestoreCreate \/ RestoreCopy
    PROVE  FilesInv'
<1> DEFINE p == restorer.path  name == restorer.name  f == vault[name]
<1>1. /\ restorer \in Restores /\ p \in Paths /\ name \in Names
      /\ UNCHANGED <<vault, meta, born, sec, undone, mover, unmarked, clashed>>
  BY JobsAre DEF RestoreCreate, RestoreCopy, Restores
<1>2. /\ restorer.pc \in {"create", "copy"} /\ restorer.pc # "idle"
      /\ meta[name] = p /\ name[1] < sec /\ f # NoFile
      /\ f.ver[1] = p \/ f.ver \in clashed
      /\ restorer.pc = "copy" => site[p] # NoFile /\ ~site[p].whole
  BY OwnVersion DEF RestoreCreate, RestoreCopy, JobsInv, Restoring
<1>3. f \in Files
  BY <1>1 DEF QuarantineTypeOK
<1>4. \/ RestoreCreate /\ site' = site /\ restorer' = Resting
      \/ /\ RestoreCreate /\ site[p] = NoFile /\ site' = [site EXCEPT ![p] = Part(f)]
         /\ restorer' = [restorer EXCEPT !.pc = "copy"]
      \/ /\ RestoreCopy /\ restorer.pc = "copy" /\ site' = [site EXCEPT ![p] = f]
         /\ restorer' = [restorer EXCEPT !.pc = "clean"]
      \/ /\ RestoreCopy /\ restorer.pc = "copy" /\ site' = [site EXCEPT ![p] = NoFile]
         /\ restorer' = Resting
  BY DEF RestoreCreate, RestoreCopy
<1> HIDE DEF p, name, f
<1>5. \A q \in Paths : q # p => site'[q] = site[q]
  BY <1>1, <1>4 DEF QuarantineTypeOK
<1>6. site'[p] \in {site[p], Part(f), f, NoFile}
  BY <1>1, <1>4 DEF QuarantineTypeOK
<1>7. site' = site \/ site[p] = NoFile \/ ~site[p].whole
  BY <1>2, <1>4
<1>8. Filed'
  <2>1. site'[p] # NoFile => site'[p].ver[1] = p \/ site'[p].ver \in clashed
    <3>1. Part(f).ver = f.ver
      BY <1>3, FileIs
    <3> QED BY <1>1, <1>2, <1>6, <3>1 DEF JobsInv, Filed
  <2> QED BY <1>1, <1>5, <2>1 DEF JobsInv, Filed
<1>9. Fresh' /\ Older'
  BY <1>1 DEF JobsInv, Fresh, Older
<1>10. Moving'
  <2>1. mover.pc # "idle" => mover.path \in Paths /\ mover.path # p
    BY <1>2, JobsAre, Apart DEF Moves, p
  <2> QED BY <1>1, <1>5, <2>1 DEF JobsInv, Moving
<1>11. Restoring'
  <2>1. CASE restorer' = Resting
    BY <2>1 DEF Restoring, Resting
  <2>2. CASE /\ site' = [site EXCEPT ![p] = Part(f)]
             /\ restorer' = [restorer EXCEPT !.pc = "copy"]
    <3>1. restorer'.pc = "copy" /\ restorer'.path = p /\ restorer'.name = name
      BY <1>1, <2>2 DEF Restores, p, name
    <3>2. site'[p] = Part(f)
      BY <1>1, <2>2 DEF QuarantineTypeOK
    <3>3. site'[p] # NoFile /\ ~site'[p].whole
      BY <1>2, <1>3, <3>2, FileIs
    <3> QED BY <1>1, <1>2, <3>1, <3>3 DEF Restoring, f
  <2>3. CASE site' = [site EXCEPT ![p] = f] /\ restorer' = [restorer EXCEPT !.pc = "clean"]
    <3>1. restorer'.pc = "clean" /\ restorer'.path = p /\ restorer'.name = name
      BY <1>1, <2>3 DEF Restores, p, name
    <3>2. site'[p] = f
      BY <1>1, <2>3 DEF QuarantineTypeOK
    <3> QED BY <1>1, <1>2, <3>1, <3>2 DEF Restoring, f
  <2> QED BY <1>4, <2>1, <2>2, <2>3
<1>12. KeptRestorable'
  <2>1. SUFFICES ASSUME NEW q \in Paths, NEW k \in 1..born[q], <<q, k>> \notin clashed
                 PROVE  site'[q] = Whole(<<q, k>>) \/ \E n \in Names : KeptAt(q, k, n)
    BY <1>1 DEF KeptRestorable, Kept, KeptAt
  <2>2. CASE site[q] = Whole(<<q, k>>)
    <3>1. q # p \/ site' = site
      BY <1>7, <2>2, WholeIs
    <3> QED BY <1>5, <2>2, <3>1
  <2> QED BY <2>1, <2>2, KeptIs
<1> QED BY <1>8, <1>9, <1>10, <1>11, <1>12 DEF FilesInv

LEMMA RestoreClearKeeps ==
    ASSUME QuarantineTypeOK, JobsInv, KeptRestorable, RestoreClean \/ RestoreEnd
    PROVE  FilesInv'
<1> DEFINE p == restorer.path  name == restorer.name
<1>1. /\ restorer \in Restores /\ p \in Paths /\ name \in Names
      /\ UNCHANGED <<site, born, sec, undone, mover, unmarked, clashed>>
  BY JobsAre DEF RestoreClean, RestoreEnd, Restores
<1>2. /\ restorer.pc \in {"clean", "unmark"} /\ restorer.pc # "idle"
      /\ meta[name] = p /\ name[1] < sec /\ vault[name] \in {NoFile, site[p]}
  BY DEF RestoreClean, RestoreEnd, JobsInv, Restoring
<1>3. \/ /\ vault' = [vault EXCEPT ![name] = NoFile] /\ meta' = meta
         /\ restorer' = [restorer EXCEPT !.pc = "unmark"]
      \/ /\ vault' = vault /\ meta' = meta
         /\ restorer' = [restorer EXCEPT !.pc = "unmark"]
      \/ /\ vault' = vault /\ meta' = [meta EXCEPT ![name] = NoPath]
         /\ restorer' = Resting
  BY DEF RestoreClean, RestoreEnd
<1> HIDE DEF p, name
<1>4. /\ \A n \in Names : n # name => vault'[n] = vault[n] /\ meta'[n] = meta[n]
      /\ vault'[name] \in {vault[name], NoFile} /\ meta'[name] \in {meta[name], NoPath}
  BY <1>1, <1>3 DEF QuarantineTypeOK
<1>5. Filed'
  BY <1>1, <1>4 DEF JobsInv, Filed
<1>6. Fresh' /\ Older'
  <2>1. undone \subseteq Paths
    BY DEF QuarantineTypeOK
  <2> QED BY <1>1, <1>4, <2>1, PathsAssumption DEF JobsInv, Fresh, Older
<1>7. Moving'
  <2>1. mover.pc # "idle" => mover.name \in Names /\ mover.name # name
    BY <1>2, JobsAre, Apart DEF Moves, name
  <2> QED BY <1>1, <1>4, <2>1 DEF JobsInv, Moving
<1>8. Restoring'
  <2>1. CASE restorer' = Resting
    BY <2>1 DEF Restoring, Resting
  <2>2. CASE restorer' = [restorer EXCEPT !.pc = "unmark"] /\ meta' = meta
    <3>1. restorer'.pc = "unmark" /\ restorer'.path = p /\ restorer'.name = name
      BY <1>1, <2>2 DEF Restores, p, name
    <3> QED BY <1>1, <1>2, <1>4, <2>2, <3>1 DEF Restoring
  <2> QED BY <1>3, <2>1, <2>2
<1>9. KeptRestorable'
  <2>1. SUFFICES ASSUME NEW q \in Paths, NEW k \in 1..born[q], <<q, k>> \notin clashed
                 PROVE  site[q] = Whole(<<q, k>>) \/ \E n \in Names : KeptAt(q, k, n)'
    BY <1>1 DEF KeptRestorable, Kept, KeptAt
  <2>2. ASSUME NEW n \in Names, KeptAt(q, k, n)
        PROVE  site[q] = Whole(<<q, k>>) \/ KeptAt(q, k, n)'
    <3>1. CASE n # name
      BY <1>1, <1>4, <2>2, <3>1 DEF KeptAt
    <3>2. CASE n = name
      <4>1. site[p] = Whole(<<q, k>>)
        BY <1>2, <2>2, <3>2, WholeIs DEF KeptAt
      <4>2. q = p
        BY <1>1, <2>1, <4>1, WholeIs DEF JobsInv, Filed
      <4> QED BY <4>1, <4>2
    <3> QED BY <3>1, <3>2
  <2> QED BY <2>1, <2>2, KeptIs
<1> QED BY <1>5, <1>6, <1>7, <1>8, <1>9 DEF FilesInv

VaultInv == JobsInv /\ KeptRestorable

LEMMA VaultNext ==
    ASSUME QuarantineTypeOK, VaultInv, [QuarantineNext]_quarantineVars
    PROVE  VaultInv'
<1>1. CASE QuarantineNext
  <2>1. Owned'
    BY <1>1, OwnedNext DEF VaultInv, JobsInv
  <2>2. FilesInv'
    BY <1>1, OutsideKeeps, MoveBeginKeeps, MoveKeeps, RestoreBeginKeeps, RestoreFillKeeps,
       RestoreClearKeeps DEF VaultInv, QuarantineNext, VaultStep
  <2> QED BY <2>1, <2>2 DEF VaultInv, JobsInv, FilesInv
<1>2. CASE UNCHANGED quarantineVars
  BY <1>2 DEF quarantineVars, fileVars, jobVars, VaultInv, JobsInv, Owned, Filed, Fresh, Older,
     Moving, Restoring, KeptRestorable, Kept
<1> QED BY <1>1, <1>2

LEMMA VaultInit == QuarantineInit => VaultInv
<1> SUFFICES ASSUME QuarantineInit PROVE VaultInv
  OBVIOUS
<1>1. Owned /\ Fresh /\ Older /\ Moving /\ Restoring
  BY DEF QuarantineInit, Owned, Fresh, Older, Moving, Restoring, Resting
<1>2. Filed /\ KeptRestorable
  BY WholeIs DEF QuarantineInit, Filed, KeptRestorable, Kept
<1> QED BY <1>1, <1>2 DEF VaultInv, JobsInv

----------------------------------------------------------------------------

\* Every variable keeps its type.
THEOREM VaultTypes == QuarantineSpec => []QuarantineTypeOK
  BY VaultTypesInit, VaultTypesNext, PTL DEF QuarantineSpec

\* Every version of a file is whole on the site, or whole in the vault under a
\* description of its path, whatever fails, in whatever order the two jobs run, and
\* wherever the process ends: but for a version that met another path's under one name
\* in one second.
THEOREM NothingLost == QuarantineSpec => []KeptRestorable
<1>1. QuarantineTypeOK /\ VaultInv /\ [QuarantineNext]_quarantineVars => VaultInv'
  BY VaultNext
<1>2. VaultInv => KeptRestorable
  BY DEF VaultInv
<1> QED BY <1>1, <1>2, VaultInit, VaultTypesInit, VaultTypesNext, PTL DEF QuarantineSpec

----------------------------------------------------------------------------

(***************************************************************************)
(* Theorems about HostChanges, for any fixes and patches, whichever of them*)
(* are bad or harmful, and any number of requests, crashes and failures:   *)
(* what is in the files of a server and in the server after a change.      *)
(***************************************************************************)

\* At work: what the steps of a change have in common, whatever fails.
FixShape ==
    fixer # AtRest =>
        /\ fixer.pc \in {"test", "reload"} =>
              dropIn[FixOf] = IF fixer.set THEN fixer.old \cup {Fix} ELSE fixer.old \ {Fix}
        /\ fixer.pc = "verify" =>
              ~fixer.undoing /\ dropIn[FixOf] \subseteq loaded[FixOf] /\ (fixer.set => Fix \in dropIn[FixOf])

PatchShape ==
    patcher # AtRest =>
        /\ IF patcher.pc = "write" THEN patcher.want \ {patcher.x} = rules \ {patcher.x}
           ELSE rules = patcher.want /\ patcher.old \ {patcher.x} = patcher.want \ {patcher.x}
        /\ ~Undoing => (patcher.set <=> patcher.x \in patcher.want)
        /\ patcher.pc = "verify" => ~Undoing /\ rules \subseteq loaded["apache"]

\* A file is wrong only while it is tested, and then its old one is not.
BadTested ==
    ~torn =>
        /\ fixer # AtRest => fixer.old \cap bad = {}
        /\ patcher # AtRest => patcher.old \cap bad = {}
        /\ rules \cap bad # {} => patcher.pc = "test"
        /\ \A s \in Services : dropIn[s] \cap bad # {} => fixer.pc = "test" /\ s = FixOf

Careful == ~torn /\ faultsN = 0

\* A change that takes a site down is the one at work, and is not reported applied.
HarmlessKept ==
    (Careful /\ ~blind) =>
        /\ \A x \in harmful : outcome[x] # "applied" /\ request[x] # "remove"
        /\ IF fixer = AtRest THEN \A s \in Services : dropIn[s] \cap harmful = {}
           ELSE /\ fixer.before /\ (Fix \in harmful => (fixer.set <=> ~fixer.undoing))
                /\ \A s \in Services : dropIn[s] \cap harmful \subseteq IF s = FixOf THEN {Fix} ELSE {}
                /\ ~fixer.undoing /\ fixer.pc = "write" => dropIn[FixOf] \cap harmful = {}
                /\ ~fixer.undoing /\ fixer.pc \in {"test", "reload"} => fixer.old \cap harmful = {}
        /\ IF patcher = AtRest THEN rules \cap harmful = {}
           ELSE /\ patcher.before /\ (patcher.x \in harmful => patcher.set)
                /\ IF Undoing THEN patcher.want \cap harmful = {}
                   ELSE /\ patcher.want \cap harmful \subseteq {patcher.x}
                        /\ patcher.pc = "write" => rules \cap harmful = {}
                        /\ patcher.pc # "write" => patcher.old \cap harmful = {}

\* What is reported applied stays in its file and loaded, unless it is at work.
AppliedKept ==
    Careful =>
        /\ \A f \in Fixes :
              outcome[f] = "applied" /\ (fixer # AtRest => Fix # f) =>
                  f \in dropIn[ServiceOf[f]] /\ f \in loaded[ServiceOf[f]]
        /\ "php" \in Services =>
              IF fixer # AtRest /\ FixOf = "php" /\ fixer.pc \in {"test", "reload"}
              THEN fixer.set => fixer.old \subseteq loaded["php"]
              ELSE dropIn["php"] \subseteq loaded["php"]
        /\ \A x \in Patches :
              outcome[x] = "applied" /\ (patcher # AtRest => patcher.x # x) => x \in rules
        /\ IF patcher # AtRest /\ patcher.pc \in {"test", "reload"}
           THEN rules \ {patcher.x} \subseteq loaded["apache"] \cup putBack
           ELSE rules \subseteq loaded["apache"] \cup putBack


WorkSteps == {"write", "test", "reload", "verify"}

LEMMA FixerAt ==
    ASSUME HostTypeOK
    PROVE  /\ fixer = AtRest <=> fixer.pc = "idle"
           /\ fixer # AtRest =>
                /\ fixer.pc \in WorkSteps /\ Fix \in Fixes /\ FixOf \in Services /\ fixer.set \in BOOLEAN
                /\ fixer.old \subseteq Fixes /\ fixer.before \in BOOLEAN /\ fixer.undoing \in BOOLEAN
                /\ fixer \in [pc : WorkSteps, x : Fixes, set : BOOLEAN,
                              old : SUBSET Fixes, before : BOOLEAN, undoing : BOOLEAN]
BY DEF HostTypeOK, Fixers, AtRest, WorkSteps, Fix, FixOf, Services

LEMMA PatcherAt ==
    ASSUME HostTypeOK
    PROVE  /\ patcher = AtRest <=> patcher.pc = "idle"
           /\ patcher # AtRest =>
                /\ patcher.pc \in WorkSteps /\ patcher.x \in Patches /\ patcher.set \in BOOLEAN
                /\ patcher.old \subseteq Patches /\ patcher.want \subseteq Patches
                /\ patcher.before \in BOOLEAN /\ patcher.after \in {"none", "failed", "rolled_back"}
                /\ patcher \in [pc : WorkSteps, x : Patches, set : BOOLEAN, old : SUBSET Patches,
                                want : SUBSET Patches, before : BOOLEAN, after : {"none", "failed", "rolled_back"}]
BY DEF HostTypeOK, Patchers, AtRest, WorkSteps

LEMMA Distinct ==
    /\ Fixes \cap Patches = {} /\ "apache" \in Services /\ Changes = Fixes \cup Patches
    /\ \A f \in Fixes : ServiceOf[f] \in Services
    /\ MaxAsked \in Nat /\ MaxMishaps \in Nat
BY ChangeAssumption, ChangeBounds DEF Services, Changes

LEMMA ConfigIs ==
    ASSUME NEW s, NEW d, NEW r
    PROVE  Config(s, d, r) = d[s] \cup (IF s = "apache" THEN r ELSE {})
BY DEF Config

LEMMA ReportTypes ==
    ASSUME HostTypeOK, NEW x \in Changes, NEW what \in Outcomes, Report(x, what)
    PROVE  /\ request' \in [Changes \cup Perms -> {"none", "apply", "remove"}]
           /\ done' \subseteq Changes \cup Perms /\ dropped' \subseteq done'
           /\ outcome' \in [Changes -> Outcomes] /\ blind' \in BOOLEAN
BY DEF HostTypeOK, Report, Answer, Changes

LEMMA LoadTypes ==
    ASSUME HostTypeOK, NEW s \in Services, NEW d \in [Services -> SUBSET Fixes],
           NEW r \in SUBSET Patches, Load(s, d, r)
    PROVE  loaded' \in [Services -> SUBSET Changes] /\ putBack' \subseteq Patches
BY Distinct DEF HostTypeOK, Load, Config

LEMMA FaultTypes ==
    ASSUME HostTypeOK, HostFault \/ NoHostFault
    PROVE  faultsN' \in 0..MaxMishaps
BY Distinct DEF HostTypeOK, HostFault, NoHostFault

LEMMA FixTypes ==
    ASSUME HostTypeOK, FixStep
    PROVE  HostTypeOK'
<1>f. fixer # AtRest
  BY FixerAt DEF FixStep, FixWrite, FixTest, FixReload, FixVerify
<1>k. /\ fixer.pc \in WorkSteps /\ Fix \in Fixes /\ FixOf \in Services /\ fixer.set \in BOOLEAN
      /\ fixer.old \subseteq Fixes /\ fixer.before \in BOOLEAN /\ fixer.undoing \in BOOLEAN
      /\ fixer \in [pc : WorkSteps, x : Fixes, set : BOOLEAN,
                    old : SUBSET Fixes, before : BOOLEAN, undoing : BOOLEAN]
      /\ Fix \in Changes /\ Changes = Fixes \cup Patches
  BY <1>f, FixerAt, Distinct
<1>d. /\ \A what \in Outcomes : FixDone(what) =>
            /\ request' \in [Changes \cup Perms -> {"none", "apply", "remove"}]
            /\ done' \subseteq Changes \cup Perms /\ dropped' \subseteq done'
            /\ outcome' \in [Changes -> Outcomes] /\ blind' \in BOOLEAN /\ fixer' \in Fixers
      /\ FixFailed => \E what \in Outcomes : FixDone(what)
  <2>1. ASSUME NEW what \in Outcomes, FixDone(what)
        PROVE  /\ request' \in [Changes \cup Perms -> {"none", "apply", "remove"}]
            /\ done' \subseteq Changes \cup Perms /\ dropped' \subseteq done'
               /\ outcome' \in [Changes -> Outcomes] /\ blind' \in BOOLEAN /\ fixer' \in Fixers
    BY <2>1, <1>k, ReportTypes DEF FixDone, Fixers
  <2> QED BY <2>1 DEF FixFailed, Outcomes
<1>n. NoReport =>
            /\ request' \in [Changes \cup Perms -> {"none", "apply", "remove"}]
            /\ done' \subseteq Changes \cup Perms /\ dropped' \subseteq done'
            /\ outcome' \in [Changes -> Outcomes] /\ blind' \in BOOLEAN
  BY DEF HostTypeOK, NoReport
<1>p. \A c \in SUBSET Fixes : PutDropIn(c) => dropIn' \in [Services -> SUBSET Fixes]
  BY <1>k DEF HostTypeOK, PutDropIn
<1>r. FixFrame => /\ bad' \subseteq Changes /\ harmful' \subseteq Changes /\ engineOn' \in BOOLEAN
                  /\ rules' \subseteq Patches /\ patcher' \in Patchers /\ torn' \in BOOLEAN
                  /\ askedN' \in 0..MaxAsked /\ crashesN' \in 0..MaxMishaps
  BY DEF HostTypeOK, FixFrame, hostConst
<1>u. UNCHANGED servers => loaded' \in [Services -> SUBSET Changes] /\ putBack' \subseteq Patches
  BY DEF HostTypeOK, servers
<1>x. \A pc \in WorkSteps : FixNext(pc) => fixer' \in Fixers
  BY <1>k DEF FixNext, Fixers, WorkSteps
<1>1. CASE FixWrite
  <2> DEFINE next == IF fixer.set THEN dropIn[FixOf] \cup {Fix} ELSE dropIn[FixOf] \ {Fix}
  <2>1. next \subseteq Fixes /\ dropIn[FixOf] \subseteq Fixes BY <1>k DEF HostTypeOK
  <2>2. /\ FixFrame /\ UNCHANGED servers
        /\ (HostFault \/ NoHostFault)
        /\ \/ UNCHANGED dropIn /\ \E what \in Outcomes : FixDone(what)
           \/ PutDropIn(next) /\ NoReport /\ fixer' = [fixer EXCEPT !.pc = "test", !.old = dropIn[FixOf]]
    BY <1>1, <1>d DEF FixWrite, Outcomes
  <2>3. fixer' = [fixer EXCEPT !.pc = "test", !.old = dropIn[FixOf]] => fixer' \in Fixers
    BY <1>k, <2>1 DEF Fixers, WorkSteps
  <2>4. UNCHANGED dropIn => dropIn' \in [Services -> SUBSET Fixes] BY DEF HostTypeOK
  <2>5. faultsN' \in 0..MaxMishaps BY <2>2, FaultTypes
  <2> HIDE DEF next
  <2>6. CASE UNCHANGED dropIn /\ \E what \in Outcomes : FixDone(what)
    BY <2>2, <2>4, <2>5, <2>6, <1>d, <1>r, <1>u DEF HostTypeOK
  <2>7. CASE PutDropIn(next) /\ NoReport /\ fixer' = [fixer EXCEPT !.pc = "test", !.old = dropIn[FixOf]]
    BY <2>1, <2>2, <2>3, <2>5, <2>7, <1>p, <1>n, <1>r, <1>u DEF HostTypeOK
  <2> QED BY <2>2, <2>6, <2>7
<1>2. CASE FixTest
  <2>1. /\ FixFrame /\ UNCHANGED servers
        /\ (HostFault \/ NoHostFault)
        /\ \/ UNCHANGED dropIn /\ FixNext("reload") /\ NoReport
           \/ PutDropIn(fixer.old) /\ \E what \in Outcomes : FixDone(what)
    BY <1>2, <1>d DEF FixTest, FixNext
  <2>2. UNCHANGED dropIn => dropIn' \in [Services -> SUBSET Fixes] BY DEF HostTypeOK
  <2>3. faultsN' \in 0..MaxMishaps BY <2>1, FaultTypes
  <2>4. CASE UNCHANGED dropIn /\ FixNext("reload") /\ NoReport
    BY <2>1, <2>2, <2>3, <2>4, <1>n, <1>x, <1>r, <1>u DEF HostTypeOK, WorkSteps
  <2>5. CASE PutDropIn(fixer.old) /\ \E what \in Outcomes : FixDone(what)
    BY <2>1, <2>3, <2>5, <1>k, <1>p, <1>d, <1>r, <1>u DEF HostTypeOK
  <2> QED BY <2>1, <2>4, <2>5
<1>3. CASE FixReload
  <2> DEFINE back == [dropIn EXCEPT ![FixOf] = fixer.old]
  <2>1. back \in [Services -> SUBSET Fixes] /\ dropIn \in [Services -> SUBSET Fixes] /\ rules \in SUBSET Patches
    BY <1>k DEF HostTypeOK
  <2>2. /\ FixFrame /\ (HostFault \/ NoHostFault) /\ dropIn' \in {dropIn, back}
        /\ Load(FixOf, dropIn, rules) \/ Load(FixOf, back, rules) \/ UNCHANGED servers
        /\ (FixNext("verify") /\ NoReport) \/ \E what \in Outcomes : FixDone(what)
    BY <1>3, <1>d DEF FixReload, FixNext, LoadIfParses, Outcomes
  <2>3. loaded' \in [Services -> SUBSET Changes] /\ putBack' \subseteq Patches
    BY <2>1, <2>2, <1>k, <1>u, LoadTypes
  <2>4. faultsN' \in 0..MaxMishaps BY <2>2, FaultTypes
  <2> HIDE DEF back
  <2>5. dropIn' \in [Services -> SUBSET Fixes] BY <2>1, <2>2
  <2> QED BY <2>2, <2>3, <2>4, <2>5, <1>d, <1>n, <1>x, <1>r DEF HostTypeOK, WorkSteps
<1>4. CASE FixVerify
  <2>1. /\ FixFrame /\ NoHostFault /\ UNCHANGED <<dropIn, servers>>
        /\ \/ \E what \in Outcomes : FixDone(what)
           \/ NoReport /\ fixer' = [fixer EXCEPT !.pc = "write", !.set = ~@, !.undoing = TRUE]
    BY <1>4 DEF FixVerify, Outcomes
  <2>2. fixer' = [fixer EXCEPT !.pc = "write", !.set = ~@, !.undoing = TRUE] => fixer' \in Fixers
    BY <1>k DEF Fixers, WorkSteps
  <2>3. faultsN' \in 0..MaxMishaps BY <2>1, FaultTypes
  <2>4. dropIn' \in [Services -> SUBSET Fixes] BY <2>1 DEF HostTypeOK
  <2> QED BY <2>1, <2>2, <2>3, <2>4, <1>d, <1>n, <1>r, <1>u DEF HostTypeOK
<1> QED BY <1>1, <1>2, <1>3, <1>4 DEF FixStep

LEMMA PatchTypes ==
    ASSUME HostTypeOK, PatchStep
    PROVE  HostTypeOK'
<1>f. patcher # AtRest
  BY PatcherAt DEF PatchStep, PatchWrite, PatchTest, PatchReload, PatchVerify
<1>k. /\ patcher.pc \in WorkSteps /\ patcher.x \in Patches /\ patcher.set \in BOOLEAN
      /\ patcher.old \subseteq Patches /\ patcher.want \subseteq Patches
      /\ patcher.after \in {"none", "failed", "rolled_back"}
      /\ patcher \in [pc : WorkSteps, x : Patches, set : BOOLEAN, old : SUBSET Patches,
                      want : SUBSET Patches, before : BOOLEAN, after : {"none", "failed", "rolled_back"}]
      /\ patcher.x \in Changes /\ "apache" \in Services
  BY <1>f, PatcherAt, Distinct
<1>d. /\ \A what \in Outcomes : PatchDone(what) =>
            /\ request' \in [Changes \cup Perms -> {"none", "apply", "remove"}]
            /\ done' \subseteq Changes \cup Perms /\ dropped' \subseteq done'
            /\ outcome' \in [Changes -> Outcomes] /\ blind' \in BOOLEAN /\ patcher' \in Patchers
      /\ PatchFailed => \E what \in Outcomes : PatchDone(what)
  <2>1. ASSUME NEW what \in Outcomes, PatchDone(what)
        PROVE  /\ request' \in [Changes \cup Perms -> {"none", "apply", "remove"}]
            /\ done' \subseteq Changes \cup Perms /\ dropped' \subseteq done'
               /\ outcome' \in [Changes -> Outcomes] /\ blind' \in BOOLEAN /\ patcher' \in Patchers
    BY <2>1, <1>k, ReportTypes DEF PatchDone, Patchers
  <2> QED BY <2>1 DEF PatchFailed, Outcomes
<1>n. NoReport =>
            /\ request' \in [Changes \cup Perms -> {"none", "apply", "remove"}]
            /\ done' \subseteq Changes \cup Perms /\ dropped' \subseteq done'
            /\ outcome' \in [Changes -> Outcomes] /\ blind' \in BOOLEAN
  BY DEF HostTypeOK, NoReport
<1>r. PatchFrame => /\ bad' \subseteq Changes /\ harmful' \subseteq Changes /\ engineOn' \in BOOLEAN
                    /\ dropIn' \in [Services -> SUBSET Fixes] /\ fixer' \in Fixers /\ torn' \in BOOLEAN
                    /\ askedN' \in 0..MaxAsked /\ crashesN' \in 0..MaxMishaps
  BY DEF HostTypeOK, PatchFrame, hostConst
<1>u. UNCHANGED servers => loaded' \in [Services -> SUBSET Changes] /\ putBack' \subseteq Patches
  BY DEF HostTypeOK, servers
<1>x. \A pc \in WorkSteps : PatchNext(pc) => patcher' \in Patchers
  BY <1>k DEF PatchNext, Patchers, WorkSteps
<1>b. PatchBack => putBack' \subseteq Patches
  BY <1>k DEF HostTypeOK, PatchBack
<1>1. CASE PatchWrite
  <2>1. /\ PatchFrame /\ UNCHANGED servers /\ (HostFault \/ NoHostFault) /\ rules' \in {rules, patcher.want}
        /\ \/ \E what \in Outcomes : PatchDone(what)
           \/ NoReport /\ patcher' = [patcher EXCEPT !.pc = "test", !.old = rules]
    <3>1. (IF patcher.set /\ ~Enforced THEN "failed" ELSE PatchOk) \in Outcomes
      BY DEF PatchOk, Outcomes
    <3> QED BY <1>1, <1>d, <3>1 DEF PatchWrite
  <2>2. patcher' = [patcher EXCEPT !.pc = "test", !.old = rules] => patcher' \in Patchers
    <3>1. rules \in SUBSET Patches BY DEF HostTypeOK
    <3> QED BY <1>k, <3>1 DEF Patchers, WorkSteps
  <2>3. faultsN' \in 0..MaxMishaps /\ rules' \subseteq Patches BY <2>1, <1>k, FaultTypes DEF HostTypeOK
  <2> QED BY <2>1, <2>2, <2>3, <1>d, <1>n, <1>r, <1>u DEF HostTypeOK
<1>2. CASE PatchTest
  <2>1. /\ PatchFrame /\ UNCHANGED loaded /\ (HostFault \/ NoHostFault) /\ rules' \in {rules, patcher.old}
        /\ UNCHANGED putBack \/ PatchBack
        /\ (NoReport /\ PatchNext("reload")) \/ \E what \in Outcomes : PatchDone(what)
    BY <1>2, <1>d DEF PatchTest, PatchNext
  <2>2. loaded' \in [Services -> SUBSET Changes] /\ putBack' \subseteq Patches
    BY <2>1, <1>b DEF HostTypeOK
  <2>3. faultsN' \in 0..MaxMishaps /\ rules' \subseteq Patches BY <2>1, <1>k, FaultTypes DEF HostTypeOK
  <2> QED BY <2>1, <2>2, <2>3, <1>d, <1>n, <1>r, <1>x DEF HostTypeOK, WorkSteps
<1>3. CASE PatchReload
  <2>1. /\ PatchFrame /\ (HostFault \/ NoHostFault) /\ rules' \in {rules, patcher.old}
        /\ \/ Load("apache", dropIn, rules) \/ Load("apache", dropIn, patcher.old)
           \/ PatchBack /\ UNCHANGED loaded
        /\ (NoReport /\ PatchNext("verify")) \/ \E what \in Outcomes : PatchDone(what)
    BY <1>3, <1>d, <1>k DEF PatchReload, PatchNext, Undoing, Outcomes
  <2>2. loaded' \in [Services -> SUBSET Changes] /\ putBack' \subseteq Patches
    BY <2>1, <1>b, <1>k, LoadTypes DEF HostTypeOK
  <2>3. faultsN' \in 0..MaxMishaps /\ rules' \subseteq Patches BY <2>1, <1>k, FaultTypes DEF HostTypeOK
  <2> QED BY <2>1, <2>2, <2>3, <1>d, <1>n, <1>r, <1>x DEF HostTypeOK, WorkSteps
<1>4. CASE PatchVerify
  <2>1. /\ PatchFrame /\ NoHostFault /\ UNCHANGED <<rules, servers>>
        /\ \/ \E what \in Outcomes : PatchDone(what)
           \/ /\ NoReport
              /\ \E a \in {"failed", "rolled_back"} :
                    patcher' = [patcher EXCEPT !.pc = "write", !.want = patcher.old, !.after = a]
    BY <1>4 DEF PatchVerify, PatchOk, Outcomes
  <2>2. ASSUME NEW a \in {"failed", "rolled_back"},
               patcher' = [patcher EXCEPT !.pc = "write", !.want = patcher.old, !.after = a]
        PROVE  patcher' \in Patchers
    BY <1>k, <2>2 DEF Patchers, WorkSteps
  <2>3. faultsN' \in 0..MaxMishaps /\ rules' \subseteq Patches BY <2>1, FaultTypes DEF HostTypeOK
  <2> QED BY <2>1, <2>2, <2>3, <1>d, <1>n, <1>r, <1>u DEF HostTypeOK
<1> QED BY <1>1, <1>2, <1>3, <1>4 DEF PatchStep

LEMMA ChangeTypes == HostTypeOK /\ [HostNext]_hostVars => HostTypeOK'
<1> SUFFICES ASSUME HostTypeOK, [HostNext]_hostVars PROVE HostTypeOK'
  OBVIOUS
<1> USE DEF hostVars, hostConst, configFiles, servers
<1>1. ASSUME NEW x \in Changes \cup Perms, Request(x) PROVE HostTypeOK'
  BY <1>1, Distinct DEF HostTypeOK, Request
<1>2. ASSUME NEW s \in Services, OwnerReloads(s) PROVE HostTypeOK'
  <2>1. loaded' \in [Services -> SUBSET Changes] /\ putBack' \subseteq Patches
    BY <1>2, LoadTypes DEF OwnerReloads, HostTypeOK
  <2> QED BY <1>2, <2>1 DEF HostTypeOK, OwnerReloads
<1>3. ASSUME NEW x \in Perms, FixPerm(x) PROVE HostTypeOK'
  BY <1>3 DEF HostTypeOK, FixPerm, Answer
<1>4. ASSUME NEW x \in Fixes, FixBegin(x) PROVE HostTypeOK'
  <2>1. x \in Changes /\ "failed" \in Outcomes BY Distinct DEF Outcomes
  <2>2. CASE FixRefused(x)
    <3>1. HostFault /\ Report(x, "failed") /\ UNCHANGED fixer BY <2>2 DEF FixRefused
    <3> QED BY <1>4, <2>1, <3>1, ReportTypes, FaultTypes DEF HostTypeOK, FixBegin
  <2>3. CASE ~FixRefused(x)
    <3> DEFINE fine == SitesOK
               set  == request[x] = "apply"
    <3>a. fine \in BOOLEAN /\ set \in BOOLEAN BY DEF SitesOK
    <3>b. /\ fixer' = [pc |-> "write", x |-> x, set |-> set, old |-> {},
                         before |-> fine, undoing |-> FALSE]
          /\ done' = done \cup {x} /\ dropped' = dropped /\ blind' = (blind \/ ~fine)
      BY <1>4, <2>3 DEF FixBegin
    <3> HIDE DEF fine, set
    <3>1. fixer' \in Fixers /\ done' \subseteq Changes \cup Perms /\ dropped' \subseteq done' /\ blind' \in BOOLEAN
      BY <2>1, <3>a, <3>b DEF Fixers, HostTypeOK
    <3>2. UNCHANGED <<request, outcome, faultsN>>
      BY <1>4, <2>3 DEF FixBegin, NoHostFault
    <3> QED BY <1>4, <3>1, <3>2 DEF HostTypeOK, FixBegin
  <2> QED BY <2>2, <2>3
<1>5. ASSUME NEW x \in Patches, PatchBegin(x) PROVE HostTypeOK'
  <2>1. x \in Changes /\ "failed" \in Outcomes BY Distinct DEF Outcomes
  <2>2. CASE PatchRefused(x)
    <3>1. HostFault /\ Report(x, "failed") /\ UNCHANGED patcher BY <2>2 DEF PatchRefused
    <3> QED BY <1>5, <2>1, <3>1, ReportTypes, FaultTypes DEF HostTypeOK, PatchBegin
  <2>3. CASE ~PatchRefused(x)
    <3> DEFINE fine == SitesOK
               set  == request[x] = "apply"
    <3>a. fine \in BOOLEAN /\ set \in BOOLEAN BY DEF SitesOK
    <3>b. /\ patcher' = [pc |-> "write", x |-> x, set |-> set, old |-> {},
                           want |-> IF set THEN rules \cup {x} ELSE rules \ {x},
                           before |-> fine, after |-> "none"]
          /\ done' = done \cup {x} /\ dropped' = dropped /\ blind' = (blind \/ ~fine)
      BY <1>5, <2>3 DEF PatchBegin
    <3> HIDE DEF fine, set
    <3>1. patcher' \in Patchers /\ done' \subseteq Changes \cup Perms /\ dropped' \subseteq done' /\ blind' \in BOOLEAN
      BY <2>1, <3>a, <3>b DEF Patchers, HostTypeOK
    <3>2. UNCHANGED <<request, outcome, faultsN>>
      BY <1>5, <2>3 DEF PatchBegin, NoHostFault
    <3> QED BY <1>5, <3>1, <3>2 DEF HostTypeOK, PatchBegin
  <2> QED BY <2>2, <2>3
<1>6. CASE AgentCrash
  BY <1>6, Distinct DEF HostTypeOK, AgentCrash, Fixers, Patchers
<1>7. CASE UNCHANGED hostVars
  BY <1>7 DEF HostTypeOK
<1> QED BY <1>1, <1>2, <1>3, <1>4, <1>5, <1>6, <1>7, FixTypes, PatchTypes DEF HostNext

\* A server runs with what it ran with or with its files as they are now, and
\* what is wrong of a behaviour stays wrong.
LEMMA Loads ==
    ASSUME HostTypeOK, [HostNext]_hostVars
    PROVE  /\ bad' = bad /\ harmful' = harmful /\ (torn => torn') /\ (blind => blind')
           /\ faultsN # 0 => faultsN' # 0
           /\ \A s \in Services : loaded'[s] = loaded[s] \/ loaded'[s] = Config(s, dropIn', rules')
           /\ \A x \in rules' : x \in loaded["apache"] \cup putBack => x \in loaded'["apache"] \cup putBack'
<1> DEFINE Goal ==
      /\ bad' = bad /\ harmful' = harmful /\ (torn => torn') /\ (blind => blind')
      /\ faultsN # 0 => faultsN' # 0
      /\ \A s \in Services : loaded'[s] = loaded[s] \/ loaded'[s] = Config(s, dropIn', rules')
      /\ \A x \in rules' : x \in loaded["apache"] \cup putBack => x \in loaded'["apache"] \cup putBack'
<1>0. HostTypeOK' BY ChangeTypes
<1>k. "apache" \in Services /\ rules' \subseteq Patches /\ Fixes \cap Patches = {} /\ loaded \in [Services -> SUBSET Changes]
      /\ dropIn' \in [Services -> SUBSET Fixes]
  BY <1>0, Distinct DEF HostTypeOK
<1>h. faultsN \in Nat /\ (HostFault \/ NoHostFault => (faultsN # 0 => faultsN' # 0))
  BY Distinct DEF HostTypeOK, HostFault, NoHostFault
<1>l. ASSUME NEW s \in Services, Load(s, dropIn', rules')
      PROVE  /\ \A t \in Services : loaded'[t] = loaded[t] \/ loaded'[t] = Config(t, dropIn', rules')
             /\ \A x \in rules' : x \in loaded["apache"] \cup putBack => x \in loaded'["apache"] \cup putBack'
  BY <1>k, <1>l DEF Load, Config
<1>s. UNCHANGED servers =>
             /\ \A t \in Services : loaded'[t] = loaded[t] \/ loaded'[t] = Config(t, dropIn', rules')
             /\ \A x \in rules' : x \in loaded["apache"] \cup putBack => x \in loaded'["apache"] \cup putBack'
  BY DEF servers
<1>b. PatchBack /\ UNCHANGED loaded =>
             /\ \A t \in Services : loaded'[t] = loaded[t] \/ loaded'[t] = Config(t, dropIn', rules')
             /\ \A x \in rules' : x \in loaded["apache"] \cup putBack => x \in loaded'["apache"] \cup putBack'
  BY DEF PatchBack
<1>r. /\ NoReport => (blind => blind')
      /\ \A x, what : Report(x, what) => (blind => blind')
  BY DEF NoReport, Report
<1>c. hostConst' = hostConst => bad' = bad /\ harmful' = harmful BY DEF hostConst
<1>1. ASSUME NEW x \in Changes \cup Perms, Request(x) PROVE Goal
  BY <1>1, <1>s, <1>c DEF Request
<1>2. ASSUME NEW s \in Services, OwnerReloads(s) PROVE Goal
  <2>1. dropIn' = dropIn /\ rules' = rules BY <1>2 DEF OwnerReloads, configFiles
  <2> QED BY <1>2, <2>1, <1>l, <1>c DEF OwnerReloads
<1>3. ASSUME NEW x \in Perms, FixPerm(x) PROVE Goal
  BY <1>3, <1>s, <1>c DEF FixPerm
<1>4. ASSUME NEW x \in Fixes, FixBegin(x) PROVE Goal
  BY <1>4, <1>s, <1>c, <1>h, <1>r DEF FixBegin, FixRefused
<1>5. ASSUME NEW x \in Patches, PatchBegin(x) PROVE Goal
  BY <1>5, <1>s, <1>c, <1>h, <1>r DEF PatchBegin, PatchRefused
<1>6. CASE FixWrite
  BY <1>6, <1>s, <1>c, <1>h, <1>r DEF FixWrite, FixFrame, FixFailed, FixDone
<1>7. CASE FixTest
  BY <1>7, <1>s, <1>c, <1>h, <1>r DEF FixTest, FixFrame, FixFailed, FixDone, FixNext
<1>8. CASE FixReload
  <2>1. rules' = rules /\ FixOf \in Services
    BY <1>8, FixerAt DEF FixReload, FixFrame, WorkSteps, AtRest
  <2>2. Load(FixOf, dropIn', rules') \/ UNCHANGED servers
    BY <1>8, <2>1 DEF FixReload, LoadIfParses
  <2> QED BY <1>8, <2>1, <2>2, <1>l, <1>s, <1>c, <1>h, <1>r DEF FixReload, FixFrame, FixFailed, FixDone, FixNext
<1>9. CASE FixVerify
  BY <1>9, <1>s, <1>c, <1>h, <1>r DEF FixVerify, FixFrame, FixDone, servers
<1>10. CASE PatchWrite
  BY <1>10, <1>s, <1>c, <1>h, <1>r DEF PatchWrite, PatchFrame, PatchFailed, PatchDone
<1>11. CASE PatchTest
  <2>1. UNCHANGED servers \/ (PatchBack /\ UNCHANGED loaded) BY <1>11 DEF PatchTest, servers
  <2> QED BY <1>11, <2>1, <1>s, <1>b, <1>c, <1>h, <1>r DEF PatchTest, PatchFrame, PatchFailed, PatchDone, PatchNext
<1>12. CASE PatchReload
  <2>1. dropIn' = dropIn BY <1>12 DEF PatchReload, PatchFrame
  <2>2. Load("apache", dropIn', rules') \/ (PatchBack /\ UNCHANGED loaded)
    BY <1>12, <2>1 DEF PatchReload
  <2> QED BY <1>12, <2>2, <1>k, <1>l, <1>b, <1>c, <1>h, <1>r DEF PatchReload, PatchFrame, PatchFailed, PatchDone, PatchNext
<1>13. CASE PatchVerify
  BY <1>13, <1>s, <1>c, <1>h, <1>r DEF PatchVerify, PatchFrame, PatchDone, servers
<1>14. CASE AgentCrash
  BY <1>14, <1>s, <1>c DEF AgentCrash
<1>15. CASE UNCHANGED hostVars
  BY <1>15, <1>s, <1>c DEF hostVars
<1> QED BY <1>1, <1>2, <1>3, <1>4, <1>5, <1>6, <1>7, <1>8, <1>9, <1>10, <1>11, <1>12, <1>13, <1>14, <1>15
        DEF HostNext, FixStep, PatchStep

\* Who writes which file.
LEMMA Writers ==
    ASSUME HostTypeOK, [HostNext]_hostVars
    PROVE  /\ \/ dropIn' = dropIn /\ fixer' = fixer
              \/ \E x \in Fixes : FixBegin(x)
              \/ FixStep
              \/ dropIn' = dropIn /\ fixer' = AtRest /\ (fixer # AtRest => torn')
           /\ \/ rules' = rules /\ patcher' = patcher
              \/ \E x \in Patches : PatchBegin(x)
              \/ PatchStep
              \/ rules' = rules /\ patcher' = AtRest /\ (patcher # AtRest => torn')
<1> USE DEF hostVars, configFiles
<1>1. ASSUME NEW x \in Changes \cup Perms, Request(x) PROVE UNCHANGED <<dropIn, fixer, rules, patcher>>
  BY <1>1 DEF Request
<1>2. ASSUME NEW s \in Services, OwnerReloads(s) PROVE UNCHANGED <<dropIn, fixer, rules, patcher>>
  BY <1>2 DEF OwnerReloads
<1>3. ASSUME NEW x \in Perms, FixPerm(x) PROVE UNCHANGED <<dropIn, fixer, rules, patcher>>
  BY <1>3 DEF FixPerm
<1>4. ASSUME NEW x \in Fixes, FixBegin(x)
      PROVE  UNCHANGED <<rules, patcher>>
  BY <1>4 DEF FixBegin
<1>5. ASSUME NEW x \in Patches, PatchBegin(x) PROVE UNCHANGED <<dropIn, fixer>>
  BY <1>5 DEF PatchBegin
<1>6. FixStep => UNCHANGED <<rules, patcher>>
  BY DEF FixStep, FixWrite, FixTest, FixReload, FixVerify, FixFrame
<1>7. PatchStep => UNCHANGED <<dropIn, fixer>>
  BY DEF PatchStep, PatchWrite, PatchTest, PatchReload, PatchVerify, PatchFrame
<1>8. AgentCrash => /\ UNCHANGED <<dropIn, rules>> /\ fixer' = AtRest /\ patcher' = AtRest
                    /\ (fixer # AtRest \/ patcher # AtRest => torn')
  BY DEF AgentCrash
<1> QED BY <1>1, <1>2, <1>3, <1>4, <1>5, <1>6, <1>7, <1>8 DEF HostNext

\* What a step of the fixer leaves of its own record.
LEMMA FixMoves ==
    ASSUME HostTypeOK, FixStep
    PROVE  /\ fixer # AtRest /\ Fix \in Fixes /\ FixOf \in Services
           /\ \A s \in Services : s # FixOf => dropIn'[s] = dropIn[s]
           /\ fixer' # AtRest =>
                /\ Fix' = Fix /\ FixOf' = FixOf /\ fixer'.before = fixer.before /\ NoReport
                /\ fixer'.pc \in WorkSteps
                /\ fixer.pc # "verify" => fixer'.set = fixer.set /\ fixer'.undoing = fixer.undoing
           /\ FixWrite /\ fixer' # AtRest =>
                /\ fixer'.pc = "test" /\ fixer'.old = dropIn[FixOf]
                /\ dropIn'[FixOf] = IF fixer.set THEN dropIn[FixOf] \cup {Fix} ELSE dropIn[FixOf] \ {Fix}
           /\ FixTest /\ fixer' # AtRest => fixer'.pc = "reload" /\ fixer'.old = fixer.old /\ dropIn' = dropIn
           /\ FixReload /\ fixer' # AtRest => fixer'.pc = "verify" /\ fixer'.old = fixer.old /\ dropIn' = dropIn
           /\ FixVerify /\ fixer' # AtRest =>
                /\ fixer'.pc = "write" /\ fixer'.old = fixer.old /\ dropIn' = dropIn
                /\ fixer'.set = ~fixer.set /\ fixer'.undoing = TRUE
<1>f. fixer # AtRest
  BY FixerAt DEF FixStep, FixWrite, FixTest, FixReload, FixVerify
<1>k. /\ Fix \in Fixes /\ FixOf \in Services /\ fixer.set \in BOOLEAN
      /\ fixer \in [pc : WorkSteps, x : Fixes, set : BOOLEAN,
                    old : SUBSET Fixes, before : BOOLEAN, undoing : BOOLEAN]
  BY <1>f, FixerAt
<1>t. dropIn \in [Services -> SUBSET Fixes] BY DEF HostTypeOK
<1>a. \A what : FixDone(what) => fixer' = AtRest BY DEF FixDone
<1>b. FixFailed => fixer' = AtRest BY <1>a DEF FixFailed
<1>c. \A c : PutDropIn(c) => /\ dropIn'[FixOf] = c
                             /\ \A s \in Services : s # FixOf => dropIn'[s] = dropIn[s]
  BY <1>k, <1>t DEF PutDropIn
<1>d. AtRest.pc = "idle" BY DEF AtRest
<1>e. ASSUME NEW n, NEW pc \in WorkSteps, fixer' = [fixer EXCEPT !.pc = pc, !.old = n]
      PROVE  /\ Fix' = Fix /\ FixOf' = FixOf /\ fixer'.before = fixer.before /\ fixer'.pc = pc
             /\ fixer'.set = fixer.set /\ fixer'.undoing = fixer.undoing /\ fixer'.old = n
  BY <1>k, <1>e DEF Fix, FixOf
<1>g. ASSUME NEW pc \in WorkSteps, fixer' = [fixer EXCEPT !.pc = pc]
      PROVE  /\ Fix' = Fix /\ FixOf' = FixOf /\ fixer'.before = fixer.before /\ fixer'.pc = pc
             /\ fixer'.set = fixer.set /\ fixer'.undoing = fixer.undoing /\ fixer'.old = fixer.old
  BY <1>k, <1>g DEF Fix, FixOf
<1>h. ASSUME fixer' = [fixer EXCEPT !.pc = "write", !.set = ~@, !.undoing = TRUE]
      PROVE  /\ Fix' = Fix /\ FixOf' = FixOf /\ fixer'.before = fixer.before /\ fixer'.pc = "write"
             /\ fixer'.set = ~fixer.set /\ fixer'.undoing = TRUE /\ fixer'.old = fixer.old
  BY <1>k, <1>h DEF Fix, FixOf
<1>1. CASE FixWrite
  <2>1. /\ fixer.pc = "write"
        /\ \/ UNCHANGED dropIn /\ fixer' = AtRest
           \/ /\ PutDropIn(IF fixer.set THEN dropIn[FixOf] \cup {Fix} ELSE dropIn[FixOf] \ {Fix})
              /\ NoReport /\ fixer' = [fixer EXCEPT !.pc = "test", !.old = dropIn[FixOf]]
    BY <1>1, <1>a, <1>b DEF FixWrite
  <2>2. ~FixTest /\ ~FixReload /\ ~FixVerify BY <2>1 DEF FixTest, FixReload, FixVerify
  <2>3. CASE UNCHANGED dropIn /\ fixer' = AtRest BY <1>f, <1>k, <2>2, <2>3
  <2>4. CASE /\ PutDropIn(IF fixer.set THEN dropIn[FixOf] \cup {Fix} ELSE dropIn[FixOf] \ {Fix})
             /\ NoReport /\ fixer' = [fixer EXCEPT !.pc = "test", !.old = dropIn[FixOf]]
    BY <1>f, <1>k, <1>c, <1>e, <2>2, <2>4 DEF WorkSteps
  <2> QED BY <2>1, <2>3, <2>4
<1>2. CASE FixTest
  <2>1. /\ fixer.pc = "test"
        /\ \/ UNCHANGED dropIn /\ NoReport /\ fixer' = [fixer EXCEPT !.pc = "reload"]
           \/ PutDropIn(fixer.old) /\ fixer' = AtRest
    BY <1>2, <1>b DEF FixTest, FixNext
  <2>2. ~FixWrite /\ ~FixReload /\ ~FixVerify BY <2>1 DEF FixWrite, FixReload, FixVerify
  <2> QED BY <1>f, <1>k, <1>c, <1>g, <2>1, <2>2 DEF WorkSteps
<1>3. CASE FixReload
  <2>1. /\ fixer.pc = "reload"
        /\ \/ UNCHANGED dropIn /\ (fixer' = AtRest \/ (NoReport /\ fixer' = [fixer EXCEPT !.pc = "verify"]))
           \/ dropIn' = [dropIn EXCEPT ![FixOf] = fixer.old] /\ fixer' = AtRest
    BY <1>3, <1>a, <1>b DEF FixReload, FixNext
  <2>2. ~FixWrite /\ ~FixTest /\ ~FixVerify BY <2>1 DEF FixWrite, FixTest, FixVerify
  <2> QED BY <1>f, <1>k, <1>t, <1>g, <2>1, <2>2 DEF WorkSteps
<1>4. CASE FixVerify
  <2>1. /\ fixer.pc = "verify" /\ UNCHANGED dropIn
        /\ \/ fixer' = AtRest
           \/ NoReport /\ fixer' = [fixer EXCEPT !.pc = "write", !.set = ~@, !.undoing = TRUE]
    BY <1>4, <1>a DEF FixVerify
  <2>2. ~FixWrite /\ ~FixTest /\ ~FixReload BY <2>1 DEF FixWrite, FixTest, FixReload
  <2>3. CASE fixer' = AtRest BY <1>f, <1>k, <2>1, <2>2, <2>3
  <2>4. CASE NoReport /\ fixer' = [fixer EXCEPT !.pc = "write", !.set = ~@, !.undoing = TRUE]
    BY <1>f, <1>k, <1>h, <2>1, <2>2, <2>4 DEF WorkSteps
  <2> QED BY <2>1, <2>3, <2>4
<1> QED BY <1>1, <1>2, <1>3, <1>4 DEF FixStep

LEMMA FixBegins ==
    ASSUME NEW x \in Fixes, FixBegin(x), fixer' # AtRest
    PROVE  /\ dropIn' = dropIn /\ fixer = AtRest
           /\ fixer'.pc = "write" /\ Fix' = x /\ fixer'.old = {} /\ ~fixer'.undoing
           /\ fixer'.set = (request[x] = "apply") /\ fixer'.before = SitesOK
           /\ UNCHANGED <<request, outcome>> /\ blind' = (blind \/ ~SitesOK)
<1> DEFINE fine == SitesOK
           set  == request[x] = "apply"
<1>1. /\ dropIn' = dropIn /\ fixer = AtRest /\ UNCHANGED <<request, outcome>> /\ blind' = (blind \/ ~fine)
      /\ fixer' = [pc |-> "write", x |-> x, set |-> set, old |-> {}, before |-> fine, undoing |-> FALSE]
  BY DEF FixBegin, FixRefused, configFiles
<1>2. fine \in BOOLEAN /\ set \in BOOLEAN BY DEF SitesOK
<1> HIDE DEF fine, set
<1>3. /\ dropIn' = dropIn /\ fixer = AtRest /\ UNCHANGED <<request, outcome>> /\ blind' = (blind \/ ~fine)
      /\ fixer'.pc = "write" /\ Fix' = x /\ fixer'.old = {} /\ ~fixer'.undoing
      /\ fixer'.set = set /\ fixer'.before = fine
  BY <1>1, <1>2 DEF Fix
<1> QED BY <1>3 DEF fine, set

LEMMA FixShapeKept == HostTypeOK /\ FixShape /\ [HostNext]_hostVars => FixShape'
<1> SUFFICES ASSUME HostTypeOK, FixShape, [HostNext]_hostVars, fixer' # AtRest PROVE FixShape'
  BY DEF FixShape
<1>l. \A s \in Services : loaded'[s] = loaded[s] \/ loaded'[s] = Config(s, dropIn', rules')
  BY Loads
<1>1. CASE dropIn' = dropIn /\ fixer' = fixer
  <2>1. FixOf \in Services /\ FixOf' = FixOf /\ Fix' = Fix BY <1>1, FixerAt DEF Fix, FixOf
  <2> QED BY <1>l, <1>1, <2>1 DEF FixShape, Config
<1>2. CASE fixer'.pc = "write"
  BY <1>2 DEF FixShape
<1>4. CASE \E x \in Fixes : FixBegin(x)
  BY <1>2, <1>4, FixBegins
<1>3. CASE FixStep
  <2>1. CASE FixWrite BY <2>1, <1>3, FixMoves DEF FixShape, FixWrite
  <2>2. CASE FixTest BY <2>2, <1>3, FixMoves DEF FixShape, FixTest
  <2>3. CASE FixReload
    <3>1. loaded'[FixOf] = Config(FixOf, dropIn, rules) /\ ~fixer.undoing
      <4>1. Load(FixOf, dropIn, rules) /\ ~fixer.undoing
        BY <2>3 DEF FixReload, FixDone, FixFailed
      <4> QED BY <4>1, <1>3, FixMoves DEF Load, HostTypeOK
    <3> QED BY <2>3, <3>1, <1>3, FixMoves DEF FixShape, FixReload, Config
  <2>4. CASE FixVerify BY <2>4, <1>3, <1>2, FixMoves
  <2> QED BY <1>3, <2>1, <2>2, <2>3, <2>4 DEF FixStep
<1> QED BY <1>1, <1>3, <1>4, Writers

LEMMA PatchMoves ==
    ASSUME HostTypeOK, PatchStep
    PROVE  /\ patcher # AtRest /\ patcher.x \in Patches
           /\ patcher' # AtRest =>
                /\ patcher'.x = patcher.x /\ patcher'.set = patcher.set /\ patcher'.before = patcher.before
                /\ NoReport /\ patcher'.pc \in WorkSteps
           /\ PatchWrite /\ patcher' # AtRest =>
                /\ patcher'.pc = "test" /\ patcher'.old = rules /\ patcher'.want = patcher.want
                /\ rules' = patcher.want /\ Undoing' = Undoing
           /\ PatchTest /\ patcher' # AtRest =>
                /\ patcher'.pc = "reload" /\ patcher'.old = patcher.old /\ patcher'.want = patcher.want
                /\ rules' = rules /\ Undoing' = Undoing
           /\ PatchReload /\ patcher' # AtRest =>
                /\ patcher'.pc = "verify" /\ patcher'.old = patcher.old /\ patcher'.want = patcher.want
                /\ rules' = rules /\ Undoing' = Undoing /\ ~Undoing
           /\ PatchVerify /\ patcher' # AtRest =>
                /\ patcher'.pc = "write" /\ patcher'.old = patcher.old /\ patcher'.want = patcher.old
                /\ rules' = rules /\ Undoing'
<1>f. patcher # AtRest
  BY PatcherAt DEF PatchStep, PatchWrite, PatchTest, PatchReload, PatchVerify
<1>k. /\ patcher.x \in Patches
      /\ patcher \in [pc : WorkSteps, x : Patches, set : BOOLEAN, old : SUBSET Patches,
                      want : SUBSET Patches, before : BOOLEAN, after : {"none", "failed", "rolled_back"}]
  BY <1>f, PatcherAt
<1>a. \A what : PatchDone(what) => patcher' = AtRest BY DEF PatchDone
<1>b. PatchFailed => patcher' = AtRest BY <1>a DEF PatchFailed
<1>e. ASSUME NEW n, NEW pc \in WorkSteps, patcher' = [patcher EXCEPT !.pc = pc, !.old = n]
      PROVE  /\ patcher'.x = patcher.x /\ patcher'.set = patcher.set /\ patcher'.before = patcher.before
             /\ patcher'.pc = pc /\ patcher'.old = n /\ patcher'.want = patcher.want /\ Undoing' = Undoing
  BY <1>k, <1>e DEF Undoing
<1>g. ASSUME NEW pc \in WorkSteps, patcher' = [patcher EXCEPT !.pc = pc]
      PROVE  /\ patcher'.x = patcher.x /\ patcher'.set = patcher.set /\ patcher'.before = patcher.before
             /\ patcher'.pc = pc /\ patcher'.old = patcher.old /\ patcher'.want = patcher.want /\ Undoing' = Undoing
  BY <1>k, <1>g DEF Undoing
<1>h. ASSUME NEW a \in {"failed", "rolled_back"},
             patcher' = [patcher EXCEPT !.pc = "write", !.want = patcher.old, !.after = a]
      PROVE  /\ patcher'.x = patcher.x /\ patcher'.set = patcher.set /\ patcher'.before = patcher.before
             /\ patcher'.pc = "write" /\ patcher'.old = patcher.old /\ patcher'.want = patcher.old /\ Undoing'
  BY <1>k, <1>h DEF Undoing
<1>1. CASE PatchWrite
  <2>1. /\ patcher.pc = "write"
        /\ \/ patcher' = AtRest
           \/ NoReport /\ rules' = patcher.want /\ patcher' = [patcher EXCEPT !.pc = "test", !.old = rules]
    BY <1>1, <1>a, <1>b DEF PatchWrite
  <2>2. ~PatchTest /\ ~PatchReload /\ ~PatchVerify BY <2>1 DEF PatchTest, PatchReload, PatchVerify
  <2> QED BY <1>f, <1>k, <1>e, <2>1, <2>2 DEF WorkSteps
<1>2. CASE PatchTest
  <2>1. /\ patcher.pc = "test"
        /\ \/ patcher' = AtRest
           \/ NoReport /\ rules' = rules /\ patcher' = [patcher EXCEPT !.pc = "reload"]
    BY <1>2, <1>b DEF PatchTest, PatchNext
  <2>2. ~PatchWrite /\ ~PatchReload /\ ~PatchVerify BY <2>1 DEF PatchWrite, PatchReload, PatchVerify
  <2> QED BY <1>f, <1>k, <1>g, <2>1, <2>2 DEF WorkSteps
<1>3. CASE PatchReload
  <2>1. /\ patcher.pc = "reload"
        /\ \/ patcher' = AtRest
           \/ NoReport /\ rules' = rules /\ patcher' = [patcher EXCEPT !.pc = "verify"] /\ ~Undoing
    BY <1>3, <1>a, <1>b DEF PatchReload, PatchNext
  <2>2. ~PatchWrite /\ ~PatchTest /\ ~PatchVerify BY <2>1 DEF PatchWrite, PatchTest, PatchVerify
  <2> QED BY <1>f, <1>k, <1>g, <2>1, <2>2 DEF WorkSteps
<1>4. CASE PatchVerify
  <2>1. /\ patcher.pc = "verify" /\ UNCHANGED rules
        /\ \/ patcher' = AtRest
           \/ /\ NoReport
              /\ \E a \in {"failed", "rolled_back"} :
                    patcher' = [patcher EXCEPT !.pc = "write", !.want = patcher.old, !.after = a]
    BY <1>4, <1>a DEF PatchVerify
  <2>2. ~PatchWrite /\ ~PatchTest /\ ~PatchReload BY <2>1 DEF PatchWrite, PatchTest, PatchReload
  <2> QED BY <1>f, <1>k, <1>h, <2>1, <2>2 DEF WorkSteps
<1> QED BY <1>1, <1>2, <1>3, <1>4 DEF PatchStep

LEMMA PatchBegins ==
    ASSUME NEW x \in Patches, PatchBegin(x), patcher' # AtRest
    PROVE  /\ rules' = rules /\ patcher = AtRest
           /\ patcher'.pc = "write" /\ patcher'.x = x /\ patcher'.old = {} /\ ~Undoing'
           /\ patcher'.set <=> x \in patcher'.want
           /\ patcher'.set = (request[x] = "apply")
           /\ patcher'.want \ {x} = rules \ {x} /\ patcher'.want \subseteq rules \cup {x}
           /\ patcher'.before = SitesOK /\ UNCHANGED <<request, outcome>> /\ blind' = (blind \/ ~SitesOK)
<1> DEFINE fine == SitesOK
           set  == request[x] = "apply"
<1>1. /\ rules' = rules /\ patcher = AtRest /\ UNCHANGED <<request, outcome>> /\ blind' = (blind \/ ~fine)
      /\ patcher' = [pc |-> "write", x |-> x, set |-> set, old |-> {},
                     want |-> IF set THEN rules \cup {x} ELSE rules \ {x}, before |-> fine, after |-> "none"]
  BY DEF PatchBegin, PatchRefused, configFiles
<1>2. fine \in BOOLEAN /\ set \in BOOLEAN BY DEF SitesOK
<1> HIDE DEF fine, set
<1>3. /\ rules' = rules /\ patcher = AtRest /\ UNCHANGED <<request, outcome>> /\ blind' = (blind \/ ~fine)
      /\ patcher'.pc = "write" /\ patcher'.x = x /\ patcher'.old = {} /\ ~Undoing'
      /\ patcher'.set <=> x \in patcher'.want
      /\ patcher'.set = set /\ patcher'.before = fine
      /\ patcher'.want \ {x} = rules \ {x} /\ patcher'.want \subseteq rules \cup {x}
  BY <1>1, <1>2 DEF Undoing
<1> QED BY <1>3 DEF fine, set

LEMMA PatchShapeKept == HostTypeOK /\ PatchShape /\ [HostNext]_hostVars => PatchShape'
<1> SUFFICES ASSUME HostTypeOK, PatchShape, [HostNext]_hostVars, patcher' # AtRest PROVE PatchShape'
  BY DEF PatchShape
<1>l. \A s \in Services : loaded'[s] = loaded[s] \/ loaded'[s] = Config(s, dropIn', rules')
  BY Loads
<1>1. CASE rules' = rules /\ patcher' = patcher
  <2>1. Undoing' = Undoing /\ "apache" \in Services BY <1>1, Distinct DEF Undoing
  <2> QED BY <1>l, <1>1, <2>1 DEF PatchShape, Config
<1>2. CASE \E x \in Patches : PatchBegin(x)
  BY <1>2, PatchBegins DEF PatchShape
<1>3. CASE PatchStep
  <2>1. CASE PatchWrite BY <2>1, <1>3, PatchMoves DEF PatchShape, PatchWrite
  <2>2. CASE PatchTest BY <2>2, <1>3, PatchMoves DEF PatchShape, PatchTest
  <2>3. CASE PatchReload
    <3>1. loaded'["apache"] = Config("apache", dropIn, rules)
      <4>1. Load("apache", dropIn, rules) BY <2>3 DEF PatchReload, PatchDone, PatchFailed
      <4> QED BY <4>1, Distinct DEF Load, HostTypeOK
    <3> QED BY <2>3, <3>1, <1>3, PatchMoves DEF PatchShape, PatchReload, Config
  <2>4. CASE PatchVerify BY <2>4, <1>3, PatchMoves DEF PatchShape, PatchVerify
  <2> QED BY <1>3, <2>1, <2>2, <2>3, <2>4 DEF PatchStep
<1> QED BY <1>1, <1>2, <1>3, Writers

LEMMA BadTestedKept == HostTypeOK /\ BadTested /\ [HostNext]_hostVars => BadTested'
<1> SUFFICES ASSUME HostTypeOK, BadTested, [HostNext]_hostVars, ~torn' PROVE BadTested'
  BY DEF BadTested
<1>l. ~torn /\ bad' = bad BY Loads
<1>h. HostTypeOK' BY ChangeTypes
<1>f. /\ fixer' # AtRest => fixer'.old \cap bad' = {}
      /\ \A s \in Services : dropIn'[s] \cap bad' # {} => fixer'.pc = "test" /\ s = FixOf'
  <2>1. CASE dropIn' = dropIn /\ fixer' = fixer
    <3>1. FixOf' = FixOf BY <2>1 DEF FixOf, Fix
    <3> QED BY <1>l, <2>1, <3>1 DEF BadTested
  <2>2. CASE \E x \in Fixes : FixBegin(x)
    <3>1. dropIn' = dropIn /\ fixer.pc = "idle" BY <2>2 DEF FixBegin, configFiles, AtRest
    <3> QED BY <1>l, <2>2, <3>1, FixBegins DEF BadTested
  <2>3. CASE dropIn' = dropIn /\ fixer' = AtRest /\ (fixer # AtRest => torn')
    BY <1>l, <2>3 DEF BadTested, AtRest
  <2>4. CASE FixStep
    <3>k. /\ fixer # AtRest /\ FixOf \in Services /\ fixer.old \cap bad = {}
          /\ \A s \in Services : s # FixOf => dropIn'[s] = dropIn[s] /\ dropIn[s] \cap bad = {}
          /\ (fixer.pc # "test" => dropIn[FixOf] \cap bad = {})
          /\ dropIn \in [Services -> SUBSET Fixes]
      BY <1>l, <2>4, FixMoves DEF BadTested, HostTypeOK
    <3>1. CASE FixWrite
      <4>1. fixer' = AtRest => dropIn' = dropIn
        <5>1. dropIn' = dropIn \/ fixer' = [fixer EXCEPT !.pc = "test", !.old = dropIn[FixOf]]
          BY <3>1 DEF FixWrite
        <5>2. fixer' = [fixer EXCEPT !.pc = "test", !.old = dropIn[FixOf]] => fixer'.pc = "test"
          BY <3>k, FixerAt
        <5> QED BY <5>1, <5>2 DEF AtRest
      <4> QED BY <1>l, <2>4, <3>1, <3>k, <4>1, FixMoves DEF FixWrite
    <3>2. CASE FixTest
      <4>1. CASE Parses(FixOf, dropIn, rules) /\ dropIn' = dropIn
        <5>1. dropIn[FixOf] \cap bad = {} BY <4>1 DEF Parses, Config
        <5>2. \A s \in Services : dropIn'[s] \cap bad' = {} BY <1>l, <3>k, <4>1, <5>1
        <5> QED BY <1>l, <2>4, <3>2, <3>k, <5>2, FixMoves
      <4>2. CASE PutDropIn(fixer.old) /\ fixer' = AtRest
        <5>1. \A s \in Services : dropIn'[s] \cap bad' = {} BY <1>l, <3>k, <4>2 DEF PutDropIn
        <5> QED BY <4>2, <5>1
      <4> QED BY <3>2, <4>1, <4>2 DEF FixTest, FixFailed, FixDone
    <3>3. CASE FixReload
      <4>1. dropIn' = dropIn \/ dropIn' = [dropIn EXCEPT ![FixOf] = fixer.old]
        BY <3>3 DEF FixReload
      <4>2. \A s \in Services : dropIn'[s] \cap bad' = {} BY <1>l, <3>3, <3>k, <4>1 DEF FixReload
      <4> QED BY <1>l, <2>4, <3>3, <3>k, <4>2, FixMoves
    <3>4. CASE FixVerify
      <4>1. \A s \in Services : dropIn'[s] \cap bad' = {} BY <1>l, <3>4, <3>k DEF FixVerify
      <4> QED BY <1>l, <2>4, <3>4, <3>k, <4>1, FixMoves
    <3> QED BY <2>4, <3>1, <3>2, <3>3, <3>4 DEF FixStep
  <2> QED BY <2>1, <2>2, <2>3, <2>4, Writers
<1>p. /\ patcher' # AtRest => patcher'.old \cap bad' = {}
      /\ rules' \cap bad' # {} => patcher'.pc = "test"
  <2>1. CASE rules' = rules /\ patcher' = patcher
    BY <1>l, <2>1 DEF BadTested
  <2>2. CASE \E x \in Patches : PatchBegin(x)
    <3>1. rules' = rules /\ patcher.pc = "idle" BY <2>2 DEF PatchBegin, configFiles, AtRest
    <3> QED BY <1>l, <2>2, <3>1, PatchBegins DEF BadTested
  <2>3. CASE rules' = rules /\ patcher' = AtRest /\ (patcher # AtRest => torn')
    BY <1>l, <2>3 DEF BadTested, AtRest
  <2>4. CASE PatchStep
    <3>k. patcher # AtRest /\ patcher.old \cap bad = {} /\ (patcher.pc # "test" => rules \cap bad = {})
      BY <1>l, <2>4, PatchMoves DEF BadTested
    <3>1. CASE PatchWrite
      <4>1. patcher' = AtRest => rules' = rules
        <5>1. rules' = rules \/ patcher' = [patcher EXCEPT !.pc = "test", !.old = rules]
          BY <3>1 DEF PatchWrite
        <5>2. patcher' = [patcher EXCEPT !.pc = "test", !.old = rules] => patcher'.pc = "test"
          BY <3>k, PatcherAt
        <5> QED BY <5>1, <5>2 DEF AtRest
      <4> QED BY <1>l, <2>4, <3>1, <3>k, <4>1, PatchMoves DEF PatchWrite
    <3>2. CASE PatchTest
      <4>1. rules' \cap bad' = {}
        BY <1>l, <3>2, <3>k DEF PatchTest, Parses, Config
      <4> QED BY <1>l, <2>4, <3>2, <3>k, <4>1, PatchMoves
    <3>3. CASE PatchReload
      <4>1. rules' \cap bad' = {} BY <1>l, <3>3, <3>k DEF PatchReload
      <4> QED BY <1>l, <2>4, <3>3, <3>k, <4>1, PatchMoves
    <3>4. CASE PatchVerify
      <4>1. rules' \cap bad' = {} BY <1>l, <3>4, <3>k DEF PatchVerify
      <4> QED BY <1>l, <2>4, <3>4, <3>k, <4>1, PatchMoves
    <3> QED BY <2>4, <3>1, <3>2, <3>3, <3>4 DEF PatchStep
  <2> QED BY <2>1, <2>2, <2>3, <2>4, Writers
<1> QED BY <1>f, <1>p DEF BadTested

LEMMA ReportIs ==
    ASSUME HostTypeOK, NEW x \in Changes, NEW what, Report(x, what)
    PROVE  /\ \A y \in Changes : outcome'[y] = IF y = x THEN what ELSE outcome[y]
           /\ \A y \in Changes \cup Perms : request'[y] \in {"none", request[y]}
           /\ what = "rollback_failed" => blind'
BY DEF HostTypeOK, Report, Answer

LEMMA NoFaultThen ==
    ASSUME HostTypeOK, faultsN' = 0
    PROVE  ~HostFault
BY Distinct DEF HostTypeOK, HostFault

\* How a fix ends when no command failed.
LEMMA FixEnds ==
    ASSUME HostTypeOK, FixStep, fixer' = AtRest, faultsN' = 0
    PROVE  /\ FixWrite =>
                /\ FixOf = "php" /\ dropIn' = dropIn /\ UNCHANGED servers
                /\ dropIn[FixOf] = IF fixer.set THEN dropIn[FixOf] \cup {Fix} ELSE dropIn[FixOf] \ {Fix}
                /\ Report(Fix, IF fixer.undoing THEN "rolled_back" ELSE IF fixer.set THEN "applied" ELSE "removed")
           /\ FixTest =>
                /\ dropIn'[FixOf] = fixer.old /\ UNCHANGED servers /\ ~Parses(FixOf, dropIn, rules)
                /\ Report(Fix, IF fixer.undoing THEN "rollback_failed" ELSE "failed")
           /\ FixReload =>
                \/ /\ dropIn' = dropIn /\ Load(FixOf, dropIn, rules) /\ fixer.undoing
                   /\ Report(Fix, "rolled_back")
                \/ /\ dropIn'[FixOf] = fixer.old /\ ~Parses(FixOf, dropIn, rules)
                   /\ Report(Fix, IF fixer.undoing THEN "rollback_failed" ELSE "failed")
                   /\ FixOf # "php" => UNCHANGED servers
           /\ FixVerify =>
                /\ dropIn' = dropIn /\ UNCHANGED servers /\ (SitesOK \/ ~fixer.before)
                /\ Report(Fix, IF fixer.set THEN "applied" ELSE "removed")
<1>f. /\ ~HostFault /\ fixer # AtRest /\ FixOf \in Services
      /\ fixer \in [pc : WorkSteps, x : Fixes, set : BOOLEAN,
                    old : SUBSET Fixes, before : BOOLEAN, undoing : BOOLEAN]
      /\ dropIn \in [Services -> SUBSET Fixes] /\ AtRest.pc = "idle"
  BY NoFaultThen, FixMoves, FixerAt DEF HostTypeOK, AtRest
<1>g. \A pc \in WorkSteps : fixer' # [fixer EXCEPT !.pc = pc]
  BY <1>f DEF WorkSteps
<1>h. /\ fixer' # [fixer EXCEPT !.pc = "test", !.old = dropIn[FixOf]]
      /\ fixer' # [fixer EXCEPT !.pc = "write", !.set = ~@, !.undoing = TRUE]
  <2>1. fixer' = [fixer EXCEPT !.pc = "test", !.old = dropIn[FixOf]] => fixer'.pc = "test"
    BY <1>f
  <2>2. fixer' = [fixer EXCEPT !.pc = "write", !.set = ~@, !.undoing = TRUE] => fixer'.pc = "write"
    BY <1>f
  <2> QED BY <1>f, <2>1, <2>2
<1>p. PutDropIn(fixer.old) => dropIn'[FixOf] = fixer.old
  BY <1>f DEF PutDropIn
<1>1. CASE FixWrite
  <2>1. fixer.pc = "write" BY <1>1 DEF FixWrite
  <2>2. ~FixTest /\ ~FixReload /\ ~FixVerify BY <2>1 DEF FixTest, FixReload, FixVerify
  <2> QED BY <1>1, <1>f, <1>h, <2>2 DEF FixWrite, FixDone
<1>2. CASE FixTest
  <2>1. fixer.pc = "test" BY <1>2 DEF FixTest
  <2>2. ~FixWrite /\ ~FixReload /\ ~FixVerify BY <2>1 DEF FixWrite, FixReload, FixVerify
  <2> QED BY <1>2, <1>f, <1>g, <1>p, <2>2 DEF FixTest, FixDone, FixFailed, FixNext, WorkSteps
<1>3. CASE FixReload
  <2>1. fixer.pc = "reload" BY <1>3 DEF FixReload
  <2>2. ~FixWrite /\ ~FixTest /\ ~FixVerify BY <2>1 DEF FixWrite, FixTest, FixVerify
  <2>3. CASE Parses(FixOf, dropIn, rules) /\ dropIn' = dropIn /\ Load(FixOf, dropIn, rules)
             /\ IF fixer.undoing THEN FixDone("rolled_back") ELSE FixNext("verify")
    BY <1>g, <2>2, <2>3 DEF FixDone, FixNext, WorkSteps
  <2>4. CASE /\ ~Parses(FixOf, dropIn, rules) /\ dropIn' = [dropIn EXCEPT ![FixOf] = fixer.old]
             /\ FixFailed /\ (FixOf # "php" => UNCHANGED servers)
    BY <1>f, <2>2, <2>4 DEF FixDone, FixFailed
  <2> QED BY <1>3, <1>f, <2>3, <2>4 DEF FixReload
<1>4. CASE FixVerify
  <2>1. fixer.pc = "verify" BY <1>4 DEF FixVerify
  <2>2. ~FixWrite /\ ~FixTest /\ ~FixReload BY <2>1 DEF FixWrite, FixTest, FixReload
  <2> QED BY <1>4, <1>h, <2>2 DEF FixVerify, FixDone
<1> QED BY <1>1, <1>2, <1>3, <1>4 DEF FixStep

LEMMA PatchEnds ==
    ASSUME HostTypeOK, PatchStep, patcher' = AtRest, faultsN' = 0
    PROVE  /\ PatchWrite =>
                /\ ~Undoing /\ patcher.want = rules /\ rules' = rules /\ UNCHANGED servers
                /\ Report(patcher.x, IF patcher.set /\ ~Enforced THEN "failed" ELSE PatchOk)
           /\ PatchTest =>
                /\ rules' = patcher.old /\ PatchBack /\ UNCHANGED loaded
                /\ Report(patcher.x, IF Undoing THEN "rollback_failed" ELSE "failed")
           /\ PatchReload =>
                \/ rules' = rules /\ Load("apache", dropIn, rules) /\ Undoing /\ Report(patcher.x, patcher.after)
                \/ /\ rules' = patcher.old /\ Report(patcher.x, IF Undoing THEN "rollback_failed" ELSE "failed")
                   /\ Load("apache", dropIn, patcher.old) \/ (PatchBack /\ UNCHANGED loaded)
           /\ PatchVerify =>
                /\ rules' = rules /\ UNCHANGED servers /\ (SitesOK \/ ~patcher.before)
                /\ Report(patcher.x, PatchOk)
<1>f. /\ ~HostFault /\ patcher # AtRest /\ AtRest.pc = "idle"
      /\ patcher \in [pc : WorkSteps, x : Patches, set : BOOLEAN, old : SUBSET Patches,
                      want : SUBSET Patches, before : BOOLEAN, after : {"none", "failed", "rolled_back"}]
  BY NoFaultThen, PatchMoves, PatcherAt DEF AtRest
<1>g. \A pc \in WorkSteps : patcher' # [patcher EXCEPT !.pc = pc]
  BY <1>f DEF WorkSteps
<1>h. /\ patcher' # [patcher EXCEPT !.pc = "test", !.old = rules]
      /\ \A a : patcher' # [patcher EXCEPT !.pc = "write", !.want = patcher.old, !.after = a]
  <2>1. patcher' = [patcher EXCEPT !.pc = "test", !.old = rules] => patcher'.pc = "test"
    BY <1>f
  <2>2. ASSUME NEW a, patcher' = [patcher EXCEPT !.pc = "write", !.want = patcher.old, !.after = a]
        PROVE  patcher'.pc = "write"
    BY <1>f, <2>2
  <2> QED BY <1>f, <2>1, <2>2
<1>1. CASE PatchWrite
  <2>1. patcher.pc = "write" BY <1>1 DEF PatchWrite
  <2>2. ~PatchTest /\ ~PatchReload /\ ~PatchVerify BY <2>1 DEF PatchTest, PatchReload, PatchVerify
  <2> QED BY <1>1, <1>f, <1>h, <2>2 DEF PatchWrite, PatchDone
<1>2. CASE PatchTest
  <2>1. patcher.pc = "test" BY <1>2 DEF PatchTest
  <2>2. ~PatchWrite /\ ~PatchReload /\ ~PatchVerify BY <2>1 DEF PatchWrite, PatchReload, PatchVerify
  <2> QED BY <1>2, <1>f, <1>g, <2>2 DEF PatchTest, PatchDone, PatchFailed, PatchNext, WorkSteps
<1>3. CASE PatchReload
  <2>1. patcher.pc = "reload" BY <1>3 DEF PatchReload
  <2>2. ~PatchWrite /\ ~PatchTest /\ ~PatchVerify BY <2>1 DEF PatchWrite, PatchTest, PatchVerify
  <2>3. CASE rules' = rules /\ Load("apache", dropIn, rules)
             /\ IF Undoing THEN PatchDone(patcher.after) ELSE PatchNext("verify")
    BY <1>g, <2>2, <2>3 DEF PatchDone, PatchNext, WorkSteps
  <2>4. CASE /\ rules' = patcher.old /\ PatchFailed
             /\ Load("apache", dropIn, patcher.old) \/ (PatchBack /\ UNCHANGED loaded)
    BY <2>2, <2>4 DEF PatchDone, PatchFailed
  <2> QED BY <1>3, <1>f, <2>3, <2>4 DEF PatchReload
<1>4. CASE PatchVerify
  <2>1. patcher.pc = "verify" BY <1>4 DEF PatchVerify
  <2>2. ~PatchWrite /\ ~PatchTest /\ ~PatchReload BY <2>1 DEF PatchWrite, PatchTest, PatchReload
  <2> QED BY <1>4, <1>h, <2>2 DEF PatchVerify, PatchDone
<1> QED BY <1>1, <1>2, <1>3, <1>4 DEF PatchStep

LEMMA HarmlessKeeps ==
    HostTypeOK /\ FixShape /\ PatchShape /\ HarmlessKept /\ [HostNext]_hostVars => HarmlessKept'
<1> SUFFICES ASSUME HostTypeOK, FixShape, PatchShape, HarmlessKept, [HostNext]_hostVars, Careful', ~blind'
             PROVE  HarmlessKept'
  BY DEF HarmlessKept
<1>c. Careful /\ ~blind /\ bad' = bad /\ harmful' = harmful /\ faultsN' = 0 /\ ~torn'
  BY Loads DEF Careful
<1>h. ~HostFault BY <1>c, NoFaultThen
<1>k. Fixes \subseteq Changes /\ Patches \subseteq Changes /\ harmful \subseteq Changes /\ "apache" \in Services
  BY Distinct DEF HostTypeOK
<1>a. \A x \in harmful : outcome[x] # "applied" /\ request[x] # "remove"
  BY <1>c DEF HarmlessKept
<1>f. fixer = AtRest => \A s \in Services : dropIn[s] \cap harmful = {}
  BY <1>c DEF HarmlessKept
<1>g. fixer # AtRest =>
           /\ fixer.before /\ (Fix \in harmful => (fixer.set <=> ~fixer.undoing))
           /\ \A s \in Services : dropIn[s] \cap harmful \subseteq IF s = FixOf THEN {Fix} ELSE {}
           /\ ~fixer.undoing /\ fixer.pc = "write" => dropIn[FixOf] \cap harmful = {}
           /\ ~fixer.undoing /\ fixer.pc \in {"test", "reload"} => fixer.old \cap harmful = {}
  BY <1>c DEF HarmlessKept
<1>p. patcher = AtRest => rules \cap harmful = {}
  BY <1>c DEF HarmlessKept
<1>q. patcher # AtRest =>
           /\ patcher.before /\ (patcher.x \in harmful => patcher.set)
           /\ Undoing => patcher.want \cap harmful = {}
           /\ ~Undoing =>
                /\ patcher.want \cap harmful \subseteq {patcher.x}
                /\ patcher.pc = "write" => rules \cap harmful = {}
                /\ patcher.pc # "write" => patcher.old \cap harmful = {}
  BY <1>c DEF HarmlessKept
\* A site is down, and the one who looks sees it.
<1>v. FixVerify /\ SitesOK => Fix \notin harmful
  <2>1. FixVerify => FixOf \in Services /\ fixer # AtRest /\ fixer.pc = "verify"
    BY FixerAt DEF FixVerify, AtRest
  <2> QED BY <1>g, <2>1 DEF FixShape, SitesOK
<1>w. PatchVerify /\ SitesOK => patcher.x \notin harmful
  <2>1. PatchVerify => patcher # AtRest /\ patcher.pc = "verify" BY DEF PatchVerify, AtRest
  <2> QED BY <1>q, <1>k, <2>1 DEF PatchShape, SitesOK
<1>1. \A x \in harmful : outcome'[x] # "applied" /\ request'[x] # "remove"
  <2>1. CASE UNCHANGED <<outcome, request>> BY <1>a, <2>1
  <2>2. ASSUME NEW x \in Changes \cup Perms, Request(x) PROVE \A y \in harmful : outcome'[y] # "applied" /\ request'[y] # "remove"
    <3>1. PICK what \in {"apply"} \cup (IF x \in Applied THEN {"remove"} ELSE {}) :
                 request' = [request EXCEPT ![x] = what]
      BY <2>2 DEF Request
    <3>2. outcome' = outcome BY <2>2 DEF Request
    <3> QED BY <1>a, <1>k, <3>1, <3>2 DEF HostTypeOK, Applied
  <2>3. ASSUME NEW x \in Perms, FixPerm(x) PROVE \A y \in harmful : outcome'[y] # "applied" /\ request'[y] # "remove"
    BY <1>a, <1>k, <2>3 DEF FixPerm, Answer, HostTypeOK
  <2>4. ASSUME NEW x \in Fixes, FixBegin(x) PROVE UNCHANGED <<outcome, request>>
    BY <1>h, <2>4 DEF FixBegin, FixRefused
  <2>5. ASSUME NEW x \in Patches, PatchBegin(x) PROVE UNCHANGED <<outcome, request>>
    BY <1>h, <2>5 DEF PatchBegin, PatchRefused
  <2>6. CASE FixStep
    <3>1. CASE fixer' # AtRest BY <2>1, <2>6, <3>1, FixMoves DEF NoReport
    <3>2. CASE fixer' = AtRest
      <4>k. fixer # AtRest /\ Fix \in Changes /\ FixOf \in Services BY <1>k, <2>6, FixMoves
      <4>0. ASSUME NEW what, Report(Fix, what), what = "applied" => Fix \notin harmful
            PROVE  \A y \in harmful : outcome'[y] # "applied" /\ request'[y] # "remove"
        BY <1>a, <1>k, <4>k, <4>0, ReportIs
      <4>1. CASE FixWrite
        <5>1. fixer.set /\ ~fixer.undoing => Fix \notin harmful
          BY <1>c, <1>g, <2>6, <3>2, <4>k, <4>1, FixEnds DEF FixWrite
        <5> QED BY <1>c, <2>6, <3>2, <4>0, <4>1, <5>1, FixEnds
      <4>2. CASE FixTest BY <1>c, <2>6, <3>2, <4>0, <4>2, FixEnds
      <4>3. CASE FixReload BY <1>c, <2>6, <3>2, <4>0, <4>3, FixEnds
      <4>4. CASE FixVerify BY <1>c, <1>g, <1>v, <2>6, <3>2, <4>k, <4>0, <4>4, FixEnds
      <4> QED BY <2>6, <4>1, <4>2, <4>3, <4>4 DEF FixStep
    <3> QED BY <3>1, <3>2
  <2>7. CASE PatchStep
    <3>1. CASE patcher' # AtRest BY <2>1, <2>7, <3>1, PatchMoves DEF NoReport
    <3>2. CASE patcher' = AtRest
      <4>k. patcher # AtRest /\ patcher.x \in Changes BY <1>k, <2>7, PatchMoves
      <4>0. ASSUME NEW what, Report(patcher.x, what), what = "applied" => patcher.x \notin harmful
            PROVE  \A y \in harmful : outcome'[y] # "applied" /\ request'[y] # "remove"
        BY <1>a, <1>k, <4>k, <4>0, ReportIs
      <4>1. CASE PatchWrite
        <5>1. patcher.set => patcher.x \notin harmful
          BY <1>c, <1>q, <2>7, <3>2, <4>k, <4>1, PatchEnds DEF PatchWrite, PatchShape
        <5> QED BY <1>c, <2>7, <3>2, <4>0, <4>1, <5>1, PatchEnds DEF PatchOk
      <4>2. CASE PatchTest BY <1>c, <2>7, <3>2, <4>0, <4>2, PatchEnds
      <4>3. CASE PatchReload
        <5>1. patcher.after # "applied" BY <4>k, PatcherAt
        <5> QED BY <1>c, <2>7, <3>2, <4>0, <4>3, <5>1, PatchEnds
      <4>4. CASE PatchVerify BY <1>c, <1>q, <1>w, <2>7, <3>2, <4>k, <4>0, <4>4, PatchEnds
      <4> QED BY <2>7, <4>1, <4>2, <4>3, <4>4 DEF PatchStep
    <3> QED BY <3>1, <3>2
  <2>8. (AgentCrash \/ (\E s \in Services : OwnerReloads(s)) \/ UNCHANGED hostVars) => UNCHANGED <<outcome, request>>
    BY DEF AgentCrash, OwnerReloads, hostVars
  <2> QED BY <2>1, <2>2, <2>3, <2>4, <2>5, <2>6, <2>7, <2>8 DEF HostNext
<1>2. IF fixer' = AtRest THEN \A s \in Services : dropIn'[s] \cap harmful = {}
      ELSE /\ fixer'.before /\ (Fix' \in harmful => (fixer'.set <=> ~fixer'.undoing))
           /\ \A s \in Services : dropIn'[s] \cap harmful \subseteq IF s = FixOf' THEN {Fix'} ELSE {}
           /\ ~fixer'.undoing /\ fixer'.pc = "write" => dropIn'[FixOf'] \cap harmful = {}
           /\ ~fixer'.undoing /\ fixer'.pc \in {"test", "reload"} => fixer'.old \cap harmful = {}
  <2>1. CASE dropIn' = dropIn /\ fixer' = fixer
    <3>1. FixOf' = FixOf /\ Fix' = Fix BY <2>1 DEF FixOf, Fix
    <3> QED BY <1>f, <1>g, <2>1, <3>1
  <2>2. CASE \E x \in Fixes : FixBegin(x)
    <3>1. PICK x \in Fixes : FixBegin(x) BY <2>2
    <3>2. dropIn' = dropIn /\ fixer = AtRest BY <3>1 DEF FixBegin, configFiles
    <3>3. CASE fixer' = AtRest BY <1>f, <3>2, <3>3
    <3>4. CASE fixer' # AtRest
      <4>1. fixer'.before /\ ~fixer'.undoing /\ fixer'.pc = "write" /\ fixer'.set = (request[x] = "apply") /\ Fix' = x
        BY <3>1, <3>4, FixBegins
      <4>2. FixOf' \in Services
        <5>1. FixOf' = ServiceOf[x] BY <4>1 DEF FixOf
        <5> QED BY <5>1, Distinct
      <4>3. x \in harmful => request[x] = "apply"
        BY <1>a, <3>1, Distinct DEF FixBegin, HostTypeOK
      <4> QED BY <1>f, <3>2, <3>4, <4>1, <4>2, <4>3
    <3> QED BY <3>3, <3>4
  <2>3. CASE dropIn' = dropIn /\ fixer' = AtRest /\ (fixer # AtRest => torn')
    BY <1>c, <1>f, <2>3
  <2>4. CASE FixStep
    <3>k. /\ fixer # AtRest /\ FixOf \in Services /\ fixer.set \in BOOLEAN /\ fixer.undoing \in BOOLEAN
          /\ \A s \in Services : s # FixOf => dropIn'[s] = dropIn[s] /\ dropIn[s] \cap harmful = {}
          /\ dropIn[FixOf] \cap harmful \subseteq {Fix}
      BY <1>g, <2>4, FixMoves, FixerAt
    <3>1. CASE fixer' # AtRest
      <4>1. CASE FixWrite BY <1>g, <2>4, <3>k, <3>1, <4>1, FixMoves DEF FixWrite
      <4>2. CASE FixTest BY <1>g, <2>4, <3>k, <3>1, <4>2, FixMoves DEF FixTest
      <4>3. CASE FixReload BY <1>g, <2>4, <3>k, <3>1, <4>3, FixMoves DEF FixReload
      <4>4. CASE FixVerify
        <5>1. ~fixer.undoing BY <3>k, <4>4 DEF FixShape, FixVerify
        <5> QED BY <1>g, <2>4, <3>k, <3>1, <4>4, <5>1, FixMoves
      <4> QED BY <2>4, <4>1, <4>2, <4>3, <4>4 DEF FixStep
    <3>2. CASE fixer' = AtRest
      <4>0. SUFFICES dropIn'[FixOf] \cap harmful = {}
        BY <3>k, <3>2
      <4>u. \A what : Report(Fix, what) => what # "rollback_failed"
        BY <1>k, <2>4, FixMoves, ReportIs
      <4>1. CASE FixWrite
        <5>1. dropIn' = dropIn /\ (~fixer.set => Fix \notin dropIn[FixOf]) /\ fixer.pc = "write"
          BY <1>c, <2>4, <3>2, <4>1, FixEnds DEF FixWrite
        <5> QED BY <1>g, <3>k, <5>1
      <4>2. CASE FixTest
        <5>1. dropIn'[FixOf] = fixer.old /\ ~fixer.undoing /\ fixer.pc = "test"
          BY <1>c, <2>4, <3>2, <4>2, <4>u, FixEnds DEF FixTest
        <5> QED BY <1>g, <3>k, <5>1
      <4>3. CASE FixReload
        <5>1. /\ fixer.pc = "reload"
              /\ (dropIn' = dropIn /\ fixer.undoing) \/ (dropIn'[FixOf] = fixer.old /\ ~fixer.undoing)
          BY <1>c, <2>4, <3>2, <4>3, <4>u, FixEnds DEF FixReload
        <5> QED BY <1>g, <3>k, <5>1 DEF FixShape
      <4>4. CASE FixVerify
        <5>1. dropIn' = dropIn /\ SitesOK BY <1>c, <1>g, <2>4, <3>k, <3>2, <4>4, FixEnds
        <5> QED BY <1>v, <3>k, <4>4, <5>1
      <4> QED BY <2>4, <4>1, <4>2, <4>3, <4>4 DEF FixStep
    <3> QED BY <3>1, <3>2
  <2> QED BY <2>1, <2>2, <2>3, <2>4, Writers
<1>3. IF patcher' = AtRest THEN rules' \cap harmful = {}
      ELSE /\ patcher'.before /\ (patcher'.x \in harmful => patcher'.set)
           /\ IF Undoing' THEN patcher'.want \cap harmful = {}
              ELSE /\ patcher'.want \cap harmful \subseteq {patcher'.x}
                   /\ patcher'.pc = "write" => rules' \cap harmful = {}
                   /\ patcher'.pc # "write" => patcher'.old \cap harmful = {}
  <2>1. CASE rules' = rules /\ patcher' = patcher
    <3>1. Undoing' = Undoing BY <2>1 DEF Undoing
    <3> QED BY <1>p, <1>q, <2>1, <3>1
  <2>2. CASE \E x \in Patches : PatchBegin(x)
    <3>1. PICK x \in Patches : PatchBegin(x) BY <2>2
    <3>2. rules' = rules /\ patcher = AtRest BY <3>1 DEF PatchBegin, configFiles
    <3>3. CASE patcher' = AtRest BY <1>p, <3>2, <3>3
    <3>4. CASE patcher' # AtRest
      <4>3. x \in harmful => request[x] = "apply"
        BY <1>a, <3>1, Distinct DEF PatchBegin, HostTypeOK
      <4> QED BY <1>p, <3>1, <3>2, <3>4, <4>3, PatchBegins
    <3> QED BY <3>3, <3>4
  <2>3. CASE rules' = rules /\ patcher' = AtRest /\ (patcher # AtRest => torn')
    BY <1>c, <1>p, <2>3
  <2>4. CASE PatchStep
    <3>k. patcher # AtRest /\ patcher.set \in BOOLEAN BY <2>4, PatchMoves, PatcherAt
    <3>1. CASE patcher' # AtRest
      <4>1. CASE PatchWrite BY <1>q, <2>4, <3>k, <3>1, <4>1, PatchMoves DEF PatchWrite
      <4>2. CASE PatchTest BY <1>q, <2>4, <3>k, <3>1, <4>2, PatchMoves DEF PatchTest
      <4>3. CASE PatchReload BY <1>q, <2>4, <3>k, <3>1, <4>3, PatchMoves DEF PatchReload
      <4>4. CASE PatchVerify
        <5>1. ~Undoing BY <3>k, <4>4 DEF PatchShape, PatchVerify
        <5> QED BY <1>q, <2>4, <3>k, <3>1, <4>4, <5>1, PatchMoves DEF PatchVerify
      <4> QED BY <2>4, <4>1, <4>2, <4>3, <4>4 DEF PatchStep
    <3>2. CASE patcher' = AtRest
      <4>0. SUFFICES rules' \cap harmful = {}
        BY <3>2
      <4>u. \A what : Report(patcher.x, what) => what # "rollback_failed"
        BY <1>k, <2>4, PatchMoves, ReportIs
      <4>1. CASE PatchWrite
        <5>1. rules' = rules /\ ~Undoing /\ patcher.pc = "write"
          BY <1>c, <2>4, <3>2, <4>1, PatchEnds DEF PatchWrite
        <5> QED BY <1>q, <3>k, <5>1
      <4>2. CASE PatchTest
        <5>1. rules' = patcher.old /\ ~Undoing /\ patcher.pc = "test"
          BY <1>c, <2>4, <3>2, <4>2, <4>u, PatchEnds DEF PatchTest
        <5> QED BY <1>q, <3>k, <5>1
      <4>3. CASE PatchReload
        <5>1. /\ patcher.pc = "reload"
              /\ (rules' = rules /\ Undoing) \/ (rules' = patcher.old /\ ~Undoing)
          BY <1>c, <2>4, <3>2, <4>3, <4>u, PatchEnds DEF PatchReload
        <5> QED BY <1>q, <3>k, <5>1 DEF PatchShape
      <4>4. CASE PatchVerify
        <5>1. rules' = rules /\ SitesOK BY <1>c, <1>q, <2>4, <3>k, <3>2, <4>4, PatchEnds
        <5>2. ~Undoing /\ rules = patcher.want BY <3>k, <4>4 DEF PatchShape, PatchVerify
        <5> QED BY <1>q, <1>w, <3>k, <4>4, <5>1, <5>2
      <4> QED BY <2>4, <4>1, <4>2, <4>3, <4>4 DEF PatchStep
    <3> QED BY <3>1, <3>2
  <2> QED BY <2>1, <2>2, <2>3, <2>4, Writers
<1> QED BY <1>c, <1>1, <1>2, <1>3 DEF HarmlessKept

LEMMA AppliedKeeps ==
    /\ HostTypeOK /\ FixShape /\ PatchShape /\ BadTested /\ AppliedKept /\ [HostNext]_hostVars
    => AppliedKept'
<1> SUFFICES ASSUME HostTypeOK, FixShape, PatchShape, BadTested, AppliedKept, [HostNext]_hostVars, Careful'
             PROVE  AppliedKept'
  BY DEF AppliedKept
<1>c. Careful /\ ~torn /\ ~torn' /\ faultsN' = 0
  BY Loads DEF Careful
<1>h. ~HostFault BY <1>c, NoFaultThen
<1>k. /\ Changes = Fixes \cup Patches /\ Fixes \cap Patches = {} /\ "apache" \in Services
      /\ \A f \in Fixes : ServiceOf[f] \in Services
  BY Distinct
<1>l. \A s \in Services : loaded'[s] = loaded[s] \/ dropIn'[s] \subseteq loaded'[s]
  BY Loads DEF Config
<1>m. \A x \in rules' : x \in loaded["apache"] \cup putBack => x \in loaded'["apache"] \cup putBack'
  BY Loads
<1>s. FixShape' /\ PatchShape' BY FixShapeKept, PatchShapeKept
<1>a. \A f \in Fixes : outcome[f] = "applied" /\ (fixer # AtRest => Fix # f) =>
          f \in dropIn[ServiceOf[f]] /\ f \in loaded[ServiceOf[f]]
  BY <1>c DEF AppliedKept
<1>b. "php" \in Services =>
          IF fixer # AtRest /\ FixOf = "php" /\ fixer.pc \in {"test", "reload"}
          THEN fixer.set => fixer.old \subseteq loaded["php"]
          ELSE dropIn["php"] \subseteq loaded["php"]
  BY <1>c DEF AppliedKept
<1>d. \A x \in Patches : outcome[x] = "applied" /\ (patcher # AtRest => patcher.x # x) => x \in rules
  BY <1>c DEF AppliedKept
<1>e. IF patcher # AtRest /\ patcher.pc \in {"test", "reload"}
      THEN rules \ {patcher.x} \subseteq loaded["apache"] \cup putBack
      ELSE rules \subseteq loaded["apache"] \cup putBack
  BY <1>c DEF AppliedKept
\* Who reports about what.
<1>f. FixStep => /\ fixer' # AtRest => outcome' = outcome
                 /\ \A x \in Changes : x # Fix => outcome'[x] = outcome[x]
  <2>1. ASSUME NEW what, Report(Fix, what), Fix \in Fixes
        PROVE  \A x \in Changes : x # Fix => outcome'[x] = outcome[x]
    BY <1>k, <2>1, ReportIs
  <2>2. FixStep /\ fixer' = AtRest => \E what : Report(Fix, what)
    BY <1>c, FixEnds DEF FixStep
  <2> QED BY <2>1, <2>2, FixMoves DEF NoReport
<1>g. PatchStep => /\ patcher' # AtRest => outcome' = outcome
                   /\ \A x \in Changes : x # patcher.x => outcome'[x] = outcome[x]
  <2>1. ASSUME NEW what, Report(patcher.x, what), patcher.x \in Patches
        PROVE  \A x \in Changes : x # patcher.x => outcome'[x] = outcome[x]
    BY <1>k, <2>1, ReportIs
  <2>2. PatchStep /\ patcher' = AtRest => \E what : Report(patcher.x, what)
    BY <1>c, PatchEnds DEF PatchStep
  <2> QED BY <2>1, <2>2, PatchMoves DEF NoReport
<1>o. FixStep \/ PatchStep \/ outcome' = outcome
  <2>1. ASSUME NEW x \in Fixes, FixBegin(x) PROVE outcome' = outcome
    BY <1>h, <2>1 DEF FixBegin, FixRefused
  <2>2. ASSUME NEW x \in Patches, PatchBegin(x) PROVE outcome' = outcome
    BY <1>h, <2>2 DEF PatchBegin, PatchRefused
  <2> QED BY <2>1, <2>2 DEF HostNext, Request, OwnerReloads, FixPerm, AgentCrash, hostVars
<1>1. ASSUME NEW f \in Fixes, outcome'[f] = "applied", fixer' # AtRest => Fix' # f
      PROVE  f \in dropIn'[ServiceOf[f]] /\ f \in loaded'[ServiceOf[f]]
  <2>1. CASE ~FixStep
    <3>1. outcome[f] = "applied" BY <1>1, <1>g, <1>k, <1>o, <2>1, PatchMoves
    <3>2. dropIn' = dropIn /\ (fixer # AtRest => Fix # f)
      <4>1. ASSUME NEW x \in Fixes, FixBegin(x) PROVE dropIn' = dropIn /\ fixer = AtRest
        BY <4>1 DEF FixBegin, configFiles
      <4>2. fixer' = fixer => Fix' = Fix BY DEF Fix
      <4> QED BY <1>1, <1>c, <2>1, <4>1, <4>2, Writers
    <3> QED BY <1>a, <1>k, <1>l, <3>1, <3>2
  <2>2. CASE FixStep
    <3>k. /\ fixer # AtRest /\ Fix \in Fixes /\ FixOf = ServiceOf[Fix] /\ FixOf \in Services
          /\ \A s \in Services : s # FixOf => dropIn'[s] = dropIn[s]
          /\ (fixer' # AtRest => Fix' = Fix)
      BY <2>2, FixMoves DEF FixOf
    <3>1. CASE f # Fix
      <4>1. f \in dropIn[ServiceOf[f]] /\ f \in loaded[ServiceOf[f]]
        BY <1>1, <1>a, <1>f, <1>k, <2>2, <3>1
      <4>2. ServiceOf[f] = FixOf => f \in dropIn'[FixOf]
        <5>1. CASE FixWrite BY <1>c, <2>2, <3>1, <4>1, <5>1, FixMoves, FixEnds
        <5>2. CASE FixTest BY <1>c, <2>2, <3>1, <3>k, <4>1, <5>2, FixMoves, FixEnds DEF FixShape, FixTest
        <5>3. CASE FixReload BY <1>c, <2>2, <3>1, <3>k, <4>1, <5>3, FixMoves, FixEnds DEF FixShape, FixReload
        <5>4. CASE FixVerify BY <1>c, <2>2, <3>1, <4>1, <5>4 DEF FixVerify
        <5> QED BY <2>2, <5>1, <5>2, <5>3, <5>4 DEF FixStep
      <4> QED BY <1>k, <1>l, <3>k, <4>1, <4>2
    <3>2. CASE f = Fix
      <4>1. fixer' = AtRest BY <1>1, <3>k, <3>2
      <4>r. ASSUME NEW what, Report(Fix, what) PROVE what = "applied"
        BY <1>1, <1>k, <3>2, <4>r, ReportIs
      <4>2. CASE FixWrite
        <5>1. fixer.set /\ dropIn' = dropIn /\ Fix \in dropIn[FixOf] /\ FixOf = "php" /\ fixer.pc = "write" /\ UNCHANGED servers
          BY <1>c, <2>2, <4>1, <4>2, <4>r, FixEnds DEF FixWrite
        <5> QED BY <1>b, <3>k, <3>2, <5>1 DEF servers
      <4>3. CASE FixTest BY <1>c, <2>2, <4>1, <4>3, <4>r, FixEnds
      <4>4. CASE FixReload BY <1>c, <2>2, <4>1, <4>4, <4>r, FixEnds
      <4>5. CASE FixVerify
        <5>1. fixer.set /\ dropIn' = dropIn /\ fixer.pc = "verify" /\ UNCHANGED servers
          BY <1>c, <2>2, <4>1, <4>5, <4>r, FixEnds DEF FixVerify
        <5> QED BY <3>k, <3>2, <5>1 DEF FixShape, servers
      <4> QED BY <2>2, <4>2, <4>3, <4>4, <4>5 DEF FixStep
    <3> QED BY <3>1, <3>2
  <2> QED BY <2>1, <2>2
<1>2. ASSUME "php" \in Services
      PROVE  IF fixer' # AtRest /\ FixOf' = "php" /\ fixer'.pc \in {"test", "reload"}
             THEN fixer'.set => fixer'.old \subseteq loaded'["php"]
             ELSE dropIn'["php"] \subseteq loaded'["php"]
  <2>1. CASE dropIn' = dropIn /\ fixer' = fixer
    <3>1. FixOf' = FixOf BY <2>1 DEF FixOf, Fix
    <3>2. fixer # AtRest /\ FixOf = "php" /\ fixer.pc \in {"test", "reload"} /\ fixer.set => fixer.old \subseteq dropIn["php"]
      BY DEF FixShape
    <3> QED BY <1>b, <1>l, <1>2, <2>1, <3>1, <3>2
  <2>2. CASE \E x \in Fixes : FixBegin(x)
    <3>1. PICK x \in Fixes : FixBegin(x) BY <2>2
    <3>2. dropIn' = dropIn /\ fixer = AtRest BY <3>1 DEF FixBegin, configFiles
    <3>3. fixer' # AtRest => fixer'.pc = "write" BY <3>1, FixBegins
    <3> QED BY <1>b, <1>l, <1>2, <3>2, <3>3
  <2>3. CASE dropIn' = dropIn /\ fixer' = AtRest /\ (fixer # AtRest => torn')
    BY <1>b, <1>c, <1>l, <1>2, <2>3
  <2>4. CASE FixStep
    <3>k. /\ fixer # AtRest /\ FixOf \in Services /\ (fixer' # AtRest => FixOf' = FixOf)
          /\ \A s \in Services : s # FixOf => dropIn'[s] = dropIn[s]
      BY <2>4, FixMoves
    <3>1. CASE FixOf # "php"
      BY <1>b, <1>l, <1>2, <3>k, <3>1
    <3>2. CASE FixOf = "php"
      <4>1. CASE FixWrite
        <5>1. fixer.pc = "write" /\ loaded' = loaded BY <4>1 DEF FixWrite, servers
        <5> QED BY <1>b, <1>c, <1>2, <2>4, <3>k, <3>2, <4>1, <5>1, FixMoves, FixEnds
      <4>2. CASE FixTest
        <5>1. fixer.pc = "test" /\ loaded' = loaded BY <4>2 DEF FixTest, servers
        <5>2. CASE fixer' # AtRest BY <1>b, <1>2, <2>4, <3>k, <3>2, <4>2, <5>1, <5>2, FixMoves
        <5>3. CASE fixer' = AtRest
          <6>1. dropIn'["php"] = fixer.old /\ dropIn["php"] \cap bad # {}
            BY <1>c, <2>4, <3>2, <4>2, <5>3, FixEnds DEF Parses, Config
          <6>2. fixer.old \cap bad = {} BY <1>c, <3>k DEF BadTested
          <6>3. fixer.set BY <3>k, <3>2, <5>1, <6>1, <6>2 DEF FixShape
          <6> QED BY <1>b, <1>2, <3>k, <3>2, <5>1, <5>3, <6>1, <6>3
        <5> QED BY <5>2, <5>3
      <4>3. CASE FixReload
        <5>1. fixer.pc = "reload" BY <4>3 DEF FixReload
        <5>2. CASE fixer' # AtRest BY <1>s, <2>4, <3>k, <3>2, <4>3, <5>2, FixMoves DEF FixShape
        <5>3. CASE fixer' = AtRest
          <6>1. Parses(FixOf, dropIn, rules)
            BY <1>c, <1>2, <3>2, <5>1 DEF BadTested, Parses, Config
          <6>2. dropIn' = dropIn /\ Load(FixOf, dropIn, rules)
            BY <1>c, <2>4, <4>3, <5>3, <6>1, FixEnds
          <6>3. dropIn["php"] \subseteq loaded'["php"]
            BY <1>2, <3>2, <6>2 DEF Load, Config, HostTypeOK
          <6> QED BY <5>3, <6>2, <6>3
        <5> QED BY <5>2, <5>3
      <4>4. CASE FixVerify
        <5>1. dropIn' = dropIn /\ loaded' = loaded /\ fixer.pc = "verify" BY <4>4 DEF FixVerify, servers
        <5>2. dropIn["php"] \subseteq loaded["php"] BY <1>b, <1>2, <5>1
        <5> QED BY <2>4, <3>k, <4>4, <5>1, <5>2, FixMoves
      <4> QED BY <2>4, <4>1, <4>2, <4>3, <4>4 DEF FixStep
    <3> QED BY <3>1, <3>2
  <2> QED BY <2>1, <2>2, <2>3, <2>4, Writers
<1>3. ASSUME NEW x \in Patches, outcome'[x] = "applied", patcher' # AtRest => patcher'.x # x
      PROVE  x \in rules'
  <2>1. CASE ~PatchStep
    <3>1. outcome[x] = "applied" BY <1>3, <1>f, <1>k, <1>o, <2>1, FixMoves
    <3>2. rules' = rules /\ (patcher # AtRest => patcher.x # x)
      <4>1. ASSUME NEW y \in Patches, PatchBegin(y) PROVE rules' = rules /\ patcher = AtRest
        BY <4>1 DEF PatchBegin, configFiles
      <4> QED BY <1>3, <1>c, <2>1, <4>1, Writers
    <3> QED BY <1>d, <3>1, <3>2
  <2>2. CASE PatchStep
    <3>k. patcher # AtRest /\ patcher.x \in Patches /\ (patcher' # AtRest => patcher'.x = patcher.x)
      BY <2>2, PatchMoves
    <3>1. CASE x # patcher.x
      <4>1. x \in rules BY <1>3, <1>d, <1>g, <1>k, <2>2, <3>1
      <4>2. CASE PatchWrite BY <1>c, <2>2, <3>k, <3>1, <4>1, <4>2, PatchMoves, PatchEnds DEF PatchShape, PatchWrite
      <4>3. CASE PatchTest BY <1>c, <2>2, <3>k, <3>1, <4>1, <4>3, PatchMoves, PatchEnds DEF PatchShape, PatchTest
      <4>4. CASE PatchReload BY <1>c, <2>2, <3>k, <3>1, <4>1, <4>4, PatchMoves, PatchEnds DEF PatchShape, PatchReload
      <4>5. CASE PatchVerify BY <4>1, <4>5 DEF PatchVerify
      <4> QED BY <2>2, <4>2, <4>3, <4>4, <4>5 DEF PatchStep
    <3>2. CASE x = patcher.x
      <4>1. patcher' = AtRest BY <1>3, <3>k, <3>2
      <4>r. ASSUME NEW what, Report(patcher.x, what) PROVE what = "applied"
        BY <1>3, <1>k, <3>2, <4>r, ReportIs
      <4>2. CASE PatchWrite
        <5>1. patcher.set /\ ~Undoing /\ rules' = patcher.want
          BY <1>c, <2>2, <4>1, <4>2, <4>r, PatchEnds DEF PatchOk
        <5> QED BY <3>k, <3>2, <5>1 DEF PatchShape
      <4>3. CASE PatchTest BY <1>c, <2>2, <4>1, <4>3, <4>r, PatchEnds
      <4>4. CASE PatchReload
        <5>1. patcher.after # "applied" BY <3>k, PatcherAt
        <5> QED BY <1>c, <2>2, <4>1, <4>4, <4>r, <5>1, PatchEnds
      <4>5. CASE PatchVerify
        <5>1. patcher.set /\ rules' = rules /\ patcher.pc = "verify"
          BY <1>c, <2>2, <4>1, <4>5, <4>r, PatchEnds DEF PatchOk, PatchVerify
        <5> QED BY <3>k, <3>2, <5>1 DEF PatchShape
      <4> QED BY <2>2, <4>2, <4>3, <4>4, <4>5 DEF PatchStep
    <3> QED BY <3>1, <3>2
  <2> QED BY <2>1, <2>2
<1>4. IF patcher' # AtRest /\ patcher'.pc \in {"test", "reload"}
      THEN rules' \ {patcher'.x} \subseteq loaded'["apache"] \cup putBack'
      ELSE rules' \subseteq loaded'["apache"] \cup putBack'
  <2>1. CASE rules' = rules /\ patcher' = patcher
    BY <1>e, <1>m, <2>1
  <2>2. CASE \E x \in Patches : PatchBegin(x)
    <3>1. PICK x \in Patches : PatchBegin(x) BY <2>2
    <3>2. rules' = rules /\ patcher = AtRest BY <3>1 DEF PatchBegin, configFiles
    <3>3. patcher' # AtRest => patcher'.pc = "write" BY <3>1, PatchBegins
    <3> QED BY <1>e, <1>m, <3>2, <3>3
  <2>3. CASE rules' = rules /\ patcher' = AtRest /\ (patcher # AtRest => torn')
    BY <1>c, <1>e, <1>m, <2>3
  <2>4. CASE PatchStep
    <3>k. patcher # AtRest BY <2>4, PatchMoves
    <3>1. CASE PatchWrite
      <4>1. patcher.pc = "write" BY <3>1 DEF PatchWrite
      <4>2. patcher.want \ {patcher.x} = rules \ {patcher.x} BY <3>k, <4>1 DEF PatchShape
      <4> QED BY <1>c, <1>e, <1>m, <2>4, <3>k, <3>1, <4>1, <4>2, PatchMoves, PatchEnds
    <3>2. CASE PatchTest
      <4>1. patcher.pc = "test" BY <3>2 DEF PatchTest
      <4>2. patcher.old \ {patcher.x} = rules \ {patcher.x} BY <3>k, <4>1 DEF PatchShape
      <4>3. CASE patcher' # AtRest BY <1>e, <1>m, <2>4, <3>k, <3>2, <4>1, <4>3, PatchMoves
      <4>4. CASE patcher' = AtRest
        <5>1. rules' = patcher.old /\ PatchBack /\ loaded' = loaded BY <1>c, <2>4, <3>2, <4>4, PatchEnds
        <5> QED BY <1>e, <1>m, <3>k, <4>1, <4>2, <4>4, <5>1 DEF PatchBack
      <4> QED BY <4>3, <4>4
    <3>3. CASE PatchReload
      <4>1. patcher.pc = "reload" BY <3>3 DEF PatchReload
      <4>2. patcher.old \ {patcher.x} = rules \ {patcher.x} BY <3>k, <4>1 DEF PatchShape
      <4>3. CASE patcher' # AtRest BY <1>s, <2>4, <3>3, <4>3, PatchMoves DEF PatchShape
      <4>4. CASE patcher' = AtRest
        <5>1. ASSUME NEW r, Load("apache", dropIn, r) PROVE r \subseteq loaded'["apache"]
          BY <1>k, <5>1 DEF Load, Config, HostTypeOK
        <5>2. CASE rules' = rules /\ Load("apache", dropIn, rules) BY <4>4, <5>1, <5>2
        <5>3. CASE rules' = patcher.old /\ Load("apache", dropIn, patcher.old) BY <4>4, <5>1, <5>3
        <5>4. CASE rules' = patcher.old /\ PatchBack /\ UNCHANGED loaded
          BY <1>e, <1>m, <3>k, <4>1, <4>2, <4>4, <5>4 DEF PatchBack
        <5> QED BY <1>c, <2>4, <3>3, <4>4, <5>2, <5>3, <5>4, PatchEnds
      <4> QED BY <4>3, <4>4
    <3>4. CASE PatchVerify
      <4>1. patcher.pc = "verify" /\ rules' = rules BY <3>4 DEF PatchVerify
      <4> QED BY <1>e, <1>m, <2>4, <3>k, <3>4, <4>1, PatchMoves
    <3> QED BY <2>4, <3>1, <3>2, <3>3, <3>4 DEF PatchStep
  <2> QED BY <2>1, <2>2, <2>3, <2>4, Writers
<1> QED BY <1>1, <1>2, <1>3, <1>4 DEF AppliedKept

ChangesInv == HostTypeOK /\ FixShape /\ PatchShape /\ BadTested /\ HarmlessKept /\ AppliedKept

LEMMA ChangesNext == ChangesInv /\ [HostNext]_hostVars => ChangesInv'
BY ChangeTypes, FixShapeKept, PatchShapeKept, BadTestedKept, HarmlessKeeps, AppliedKeeps DEF ChangesInv

LEMMA ChangesInit == HostInit => ChangesInv
<1> SUFFICES ASSUME HostInit PROVE ChangesInv
  OBVIOUS
<1>1. HostTypeOK
  <2>1. fixer \in Fixers /\ patcher \in Patchers
    BY DEF HostInit, Fixers, Patchers
  <2>2. /\ dropIn \in [Services -> SUBSET Fixes] /\ loaded \in [Services -> SUBSET Changes]
        /\ request \in [Changes \cup Perms -> {"none", "apply", "remove"}]
        /\ outcome \in [Changes -> Outcomes]
    BY DEF HostInit, Outcomes
  <2>3. /\ bad \subseteq Changes /\ harmful \subseteq Changes /\ engineOn \in BOOLEAN
        /\ rules \subseteq Patches /\ putBack \subseteq Patches
        /\ done \subseteq Changes \cup Perms /\ dropped \subseteq done
        /\ torn \in BOOLEAN /\ blind \in BOOLEAN
    BY DEF HostInit
  <2>4. askedN \in 0..MaxAsked /\ crashesN \in 0..MaxMishaps /\ faultsN \in 0..MaxMishaps
    BY Distinct DEF HostInit
  <2> QED BY <2>1, <2>2, <2>3, <2>4 DEF HostTypeOK
<1>2. fixer = AtRest /\ patcher = AtRest
  BY DEF HostInit
<1>3. BadTested
  BY <1>2 DEF HostInit, BadTested
<1>4. HarmlessKept
  BY <1>1, <1>2, Distinct DEF HostInit, HarmlessKept, HostTypeOK
<1>5. AppliedKept
  BY <1>2, Distinct DEF HostInit, AppliedKept
<1> QED BY <1>1, <1>2, <1>3, <1>4, <1>5 DEF ChangesInv, FixShape, PatchShape

LEMMA ChangesShown == ChangesInv => FilesParse /\ NoHarmLeft /\ AppliedInForce
<1> SUFFICES ASSUME ChangesInv PROVE FilesParse /\ NoHarmLeft /\ AppliedInForce
  OBVIOUS
<1>1. FilesParse
  BY DEF ChangesInv, BadTested, FilesParse, Testing, Parses, Config
<1>2. NoHarmLeft
  BY DEF ChangesInv, HarmlessKept, Careful, NoHarmLeft, Settled, Config
<1>3. AppliedInForce
  <2> SUFFICES ASSUME Settled, NEW x \in Changes, outcome[x] = "applied"
               PROVE  LET s == IF x \in Patches THEN "apache" ELSE ServiceOf[x]
                      IN x \in Config(s, dropIn, rules) /\ x \in loaded[s] \cup putBack
    BY DEF AppliedInForce
  <2>1. CASE x \in Patches
    BY <2>1 DEF ChangesInv, AppliedKept, Careful, Settled, Config
  <2>2. CASE x \notin Patches
    <3>1. x \in Fixes BY <2>2, Distinct
    <3> QED BY <2>2, <3>1 DEF ChangesInv, AppliedKept, Careful, Settled, Config
  <2> QED BY <2>1, <2>2
<1> QED BY <1>1, <1>2, <1>3

\* Whatever is applied, removed, edited or killed in whatever order: a file that is
\* not being tested parses, unless a process died at writing it; no change that takes
\* the sites down stays in its file once it was seen to; and what is reported applied
\* is in its file and in the running server, but for the rules the agent puts back
\* without a reload (internal/fixes, vpatches.go).
THEOREM ChangesSafe == HostSpec => [](FilesParse /\ NoHarmLeft /\ AppliedInForce)
<1>1. HostSpec => []ChangesInv
  BY ChangesInit, ChangesNext, PTL DEF HostSpec
<1> QED BY <1>1, ChangesShown, PTL

----------------------------------------------------------------------------

(***************************************************************************)
(* Theorems about TrustFiles, for any domains, document roots and tokens, any*)
(* number of edits, failures and crashes: what is in the roots, on record  *)
(* and told.                                                               *)
(***************************************************************************)

RootStates == [top : {"dir", "gone"}, wk : {"none", "dir", "link"},
               file : [by : {"nobody", "owner", "agent"}, tokens : SUBSET TrustTokens], more : BOOLEAN]
Statuses == UNION {[D -> TrustReports] : D \in SUBSET Domains}
TrustJobs == {NoTrustJob} \cup
    [pc : {"root", "write", "unlink", "save"}, st : TrustStates, want : [SiteRoots -> SUBSET TrustTokens],
     made : BOOLEAN, seen : {"nobody", "agent"}, status : Statuses, todo : SUBSET SiteRoots]

TrustTypes ==
    /\ TrustTypeOK
    /\ disk \in [SiteRoots -> RootStates]
    /\ trustState \in TrustStates /\ trustJob \in TrustJobs

AtWork == trustJob.pc # "idle"

\* What was told is what the state file of the job has, but for the reports it lost.
ToldInv ==
    /\ \A d \in Domains \ unsaid : told[d] = (IF trustJob.pc = "save" THEN trustJob.st ELSE trustState).reported[d]
    /\ AtWork /\ trustJob.pc # "save" => trustJob.st.reported = trustState.reported

RecordedInv ==
    /\ Unknown(IF AtWork THEN trustJob.st ELSE trustState) \subseteq unrecorded
    /\ trustJob.pc = "unlink" /\ trustJob.seen = "nobody" =>
          \A r \in SiteRoots : At(r, "unlink") => disk[r].file.by # "agent"
    /\ \A r \in SiteRoots : At(r, "unlink") => trustJob.want[r] = {}

\* What is reported of a domain fits what is recorded of the roots.
Fits(st) == \A d \in Domains : /\ st.reported[d] = NotTold => ~Served(st, d)
                               /\ st.reported[d].root # 0 => Served(st, d)
JobFits ==
    AtWork /\ trustJob.pc # "save" =>
        /\ \A r \in SiteRoots : DomainsOf(trustJob.want[r]) \subseteq DOMAIN trustJob.status
        /\ \A d \in Domains \ DOMAIN trustJob.status : Served(trustJob.st, d) => Served(trustState, d)
        /\ \A d \in DOMAIN trustJob.status : trustJob.status[d] # NotTold
        /\ \A d \in DOMAIN trustJob.status : LET r == trustJob.status[d].root IN
              r # 0 => /\ r \in SiteRoots
                       /\ d \in DomainsOf(IF r \in trustJob.todo THEN trustJob.want[r] ELSE trustJob.st.roots[r].tokens)
StateFits == Fits(trustState) /\ (trustJob.pc = "save" => Fits(trustJob.st))

TrustInv == TrustTypes /\ ToldInv /\ RecordedInv /\ JobFits /\ StateFits /\ ToldOnce /\ ForeignKept

LEMMA JobIs ==
    ASSUME TrustTypes, AtWork
    PROVE  /\ trustJob \in [pc : {"root", "write", "unlink", "save"}, st : TrustStates,
                            want : [SiteRoots -> SUBSET TrustTokens], made : BOOLEAN,
                            seen : {"nobody", "agent"}, status : Statuses, todo : SUBSET SiteRoots]
           /\ trustJob.st \in TrustStates /\ trustJob.want \in [SiteRoots -> SUBSET TrustTokens]
           /\ trustJob.todo \subseteq SiteRoots /\ trustJob.made \in BOOLEAN
           /\ DOMAIN trustJob.status \subseteq Domains
           /\ \A d \in DOMAIN trustJob.status : trustJob.status[d] \in TrustReports
           /\ trustJob.status \in Statuses
BY DEF TrustTypes, AtWork, TrustJobs, NoTrustJob, Statuses

LEMMA StateIs ==
    ASSUME NEW st \in TrustStates
    PROVE  /\ st.roots \in [SiteRoots -> [made : BOOLEAN, tokens : SUBSET TrustTokens]]
           /\ st.reported \in [Domains -> TrustReports]
           /\ \A r \in SiteRoots : st.roots[r].tokens \subseteq TrustTokens /\ st.roots[r].made \in BOOLEAN
           /\ \A d \in Domains : st.reported[d] \in TrustReports
BY DEF TrustStates

LEMMA DomainsAre ==
    ASSUME NEW T \in SUBSET TrustTokens
    PROVE  DomainsOf(T) \subseteq Domains
BY DEF DomainsOf, TrustTokens

LEMMA BoundsAre ==
    /\ IsFiniteSet(Domains) /\ LastSite \in Nat /\ MaxTokens \in Nat \ {0}
    /\ MaxTrustEvents \in Nat /\ MaxTrustCrashes \in Nat /\ MaxTrustFaults \in Nat
BY TrustConstants

\* A root done with.
LEMMA RootDoneIs ==
    ASSUME TrustTypes, AtWork, NEW r \in SiteRoots,
           NEW record \in [made : BOOLEAN, tokens : SUBSET TrustTokens], NEW result,
           \A d \in DOMAIN result : result[d] \in TrustReports,
           RootDone(r, record, result)
    PROVE  /\ trustJob'.pc = "root" /\ trustJob'.want = trustJob.want /\ trustJob'.seen = "nobody"
           /\ trustJob'.todo = trustJob.todo \ {r}
           /\ trustJob'.st.reported = trustJob.st.reported
           /\ trustJob'.st.roots = [trustJob.st.roots EXCEPT ![r] = record]
           /\ trustJob'.st.roots[r] = record
           /\ \A s \in SiteRoots \ {r} : trustJob'.st.roots[s] = trustJob.st.roots[s]
           /\ DOMAIN trustJob'.status = DOMAIN trustJob.status
           /\ \A d \in DOMAIN trustJob.status :
                 trustJob'.status[d] = IF d \in DOMAIN result THEN result[d] ELSE trustJob.status[d]
           /\ trustJob' \in TrustJobs
<1> DEFINE rec == [pc : {"root", "write", "unlink", "save"}, st : TrustStates,
                   want : [SiteRoots -> SUBSET TrustTokens], made : BOOLEAN,
                   seen : {"nobody", "agent"}, status : Statuses, todo : SUBSET SiteRoots]
           st     == [trustJob.st EXCEPT !.roots[r] = record]
           status == [d \in DOMAIN trustJob.status |-> IF d \in DOMAIN result THEN result[d] ELSE trustJob.status[d]]
<1>1. trustJob \in rec /\ trustJob.st \in TrustStates /\ trustJob.todo \subseteq SiteRoots
      /\ DOMAIN trustJob.status \subseteq Domains
      /\ \A d \in DOMAIN trustJob.status : trustJob.status[d] \in TrustReports
  BY JobIs
<1>2. /\ st \in TrustStates /\ st.reported = trustJob.st.reported
      /\ st.roots = [trustJob.st.roots EXCEPT ![r] = record] /\ st.roots[r] = record
      /\ \A s \in SiteRoots \ {r} : st.roots[s] = trustJob.st.roots[s]
  BY <1>1 DEF TrustStates
<1>3. /\ status \in [DOMAIN trustJob.status -> TrustReports] /\ DOMAIN status = DOMAIN trustJob.status
      /\ \A d \in DOMAIN trustJob.status : status[d] = IF d \in DOMAIN result THEN result[d] ELSE trustJob.status[d]
  BY <1>1
<1>4. status \in Statuses
  BY <1>1, <1>3 DEF Statuses
<1>5. trustJob' = [trustJob EXCEPT !.pc = "root", !.made = FALSE, !.seen = "nobody", !.todo = trustJob.todo \ {r},
                      !.st = st, !.status = status]
  BY DEF RootDone
<1> HIDE DEF st, status
<1>6. /\ trustJob'.pc = "root" /\ trustJob'.want = trustJob.want /\ trustJob'.seen = "nobody"
      /\ trustJob'.todo = trustJob.todo \ {r} /\ trustJob'.st = st /\ trustJob'.status = status
      /\ trustJob' \in rec
  BY <1>1, <1>2, <1>4, <1>5
<1> QED BY <1>2, <1>3, <1>6 DEF TrustJobs

Reasons == {"no root", "many roots", "unsafe", "write failed", "file exists"}

LEMMA ReportsAre ==
    /\ NotTold \in TrustReports /\ NotTold.root = 0 /\ NotTold.reason = "none"
    /\ \A r \in SiteRoots : Placed(r) \in TrustReports /\ Placed(r).root = r /\ Placed(r) # NotTold /\ r # 0
    /\ \A x \in Reasons : Failed(x) \in TrustReports /\ Failed(x).root = 0 /\ Failed(x) # NotTold
<1>1. NotTold \in TrustReports /\ NotTold.root = 0 /\ NotTold.reason = "none"
  BY DEF TrustReports, NotTold
<1>2. ASSUME NEW r \in SiteRoots
      PROVE  Placed(r) \in TrustReports /\ Placed(r).root = r /\ Placed(r) # NotTold /\ r # 0
  <2>1. Placed(r) \in TrustReports BY DEF TrustReports
  <2>2. Placed(r).root = r /\ Placed(r).reason = "placed" BY DEF Placed
  <2>3. r # 0 BY BoundsAre DEF SiteRoots
  <2> QED BY <1>1, <2>1, <2>2, <2>3
<1>3. ASSUME NEW x \in Reasons
      PROVE  Failed(x) \in TrustReports /\ Failed(x).root = 0 /\ Failed(x) # NotTold
  <2>1. Failed(x) \in TrustReports BY DEF TrustReports, Reasons
  <2>2. Failed(x).root = 0 /\ Failed(x).reason = x /\ x # "none" BY DEF Failed, Reasons
  <2> QED BY <1>1, <2>1, <2>2
<1> QED BY <1>1, <1>2, <1>3

LEMMA PlaceDoneIs ==
    ASSUME TrustTypes, AtWork, NEW r \in SiteRoots, NEW made \in BOOLEAN, PlaceDone(r, made)
    PROVE  \E record \in [made : BOOLEAN, tokens : SUBSET TrustTokens] :
              /\ record.tokens = trustJob.want[r]
              /\ RootDone(r, record, [d \in DomainsOf(trustJob.want[r]) |-> Placed(r)])
              /\ \A d \in DomainsOf(trustJob.want[r]) : Placed(r) \in TrustReports
<1> DEFINE record == [made |-> RecordOf(r).made \/ made, tokens |-> trustJob.want[r]]
<1>1. trustJob.want[r] \in SUBSET TrustTokens /\ (RecordOf(r).made \/ made) \in BOOLEAN
  BY JobIs
<1>2. record \in [made : BOOLEAN, tokens : SUBSET TrustTokens] /\ record.tokens = trustJob.want[r]
  BY <1>1
<1>3. RootDone(r, record, [d \in DomainsOf(trustJob.want[r]) |-> Placed(r)])
  BY DEF PlaceDone
<1> QED BY <1>2, <1>3, ReportsAre

\* What PlaceFails says of a domain.
FailedAt(r, reason, d) ==
    IF /\ {t \in trustJob.want[r] : t[1] = d} \subseteq RecordOf(r).tokens
       /\ trustJob.st.reported[d] = Placed(r)
    THEN Placed(r) ELSE Failed(reason)

LEMMA PlaceFailsIs ==
    ASSUME TrustTypes, AtWork, NEW r \in SiteRoots, NEW reason \in Reasons, PlaceFails(r, reason)
    PROVE  /\ RecordOf(r) \in [made : BOOLEAN, tokens : SUBSET TrustTokens]
           /\ RootDone(r, RecordOf(r), [d \in DomainsOf(trustJob.want[r]) |-> FailedAt(r, reason, d)])
           /\ \A d \in DomainsOf(trustJob.want[r]) : FailedAt(r, reason, d) \in TrustReports \ {NotTold}
<1>1. RecordOf(r) \in [made : BOOLEAN, tokens : SUBSET TrustTokens]
  BY JobIs, StateIs DEF RecordOf
<1>2. RootDone(r, RecordOf(r), [d \in DomainsOf(trustJob.want[r]) |-> FailedAt(r, reason, d)])
  BY DEF PlaceFails, FailedAt
<1>3. \A d \in DomainsOf(trustJob.want[r]) : FailedAt(r, reason, d) \in TrustReports \ {NotTold}
  BY ReportsAre DEF FailedAt
<1> QED BY <1>1, <1>2, <1>3

LEMMA NoRecordIs ==
    /\ NoRecord \in [made : BOOLEAN, tokens : SUBSET TrustTokens] /\ NoRecord.tokens = {}
    /\ DOMAIN <<>> = {}
BY DEF NoRecord

\* What TrustTypeOK says of the next state, from the types of the parts.
LEMMA TypesSuffice ==
    ASSUME trustListed' \in [Domains -> 0..MaxTokens], homes' \in [Domains -> Homes], trustOff' \in BOOLEAN,
           disk' \in [SiteRoots -> RootStates], trustState' \in TrustStates, trustJob' \in TrustJobs,
           \A r \in SiteRoots :
              /\ disk'[r].file \in {NoTokens, Foreign, OurFile(disk'[r].file.tokens)}
              /\ disk'[r].wk # "dir" => disk'[r].file = NoTokens /\ ~disk'[r].more,
           told' \in [Domains -> TrustReports],
           unrecorded' \subseteq SiteRoots, unsaid' \subseteq Domains, retold' \in BOOLEAN, harmed' \in BOOLEAN,
           trustEventsN' \in 0..MaxTrustEvents, trustCrashesN' \in 0..MaxTrustCrashes,
           trustFaultsN' \in 0..MaxTrustFaults
    PROVE  TrustTypes'
<1>1. \A st \in {trustState'} \cup (IF trustJob'.pc = "idle" THEN {} ELSE {trustJob'.st}) :
         /\ \A r \in SiteRoots : st.roots[r].tokens \subseteq TrustTokens /\ st.roots[r].made \in BOOLEAN
         /\ \A d \in Domains : st.reported[d] \in TrustReports
  <2>1. trustJob'.pc # "idle" => trustJob'.st \in TrustStates
    BY DEF TrustJobs, NoTrustJob
  <2> QED BY <2>1, StateIs
<1>2. \A r \in SiteRoots :
         /\ disk'[r].top \in {"dir", "gone"} /\ disk'[r].wk \in {"none", "dir", "link"} /\ disk'[r].more \in BOOLEAN
         /\ disk'[r].file.tokens \subseteq TrustTokens
  BY DEF RootStates
<1> QED BY <1>1, <1>2 DEF TrustTypes, TrustTypeOK

LEMMA FaultIs ==
    ASSUME TrustTypes, TrustFault \/ NoFault
    PROVE  trustFaultsN' \in 0..MaxTrustFaults
BY BoundsAre DEF TrustTypes, TrustTypeOK, TrustFault, NoFault

\* A document root as it may be.
RootFine(x) ==
    /\ x \in RootStates
    /\ x.file \in {NoTokens, Foreign, OurFile(x.file.tokens)}
    /\ x.wk # "dir" => x.file = NoTokens /\ ~x.more

LEMMA FilesAre ==
    ASSUME NEW x, RootFine(x)
    PROVE  /\ x.file.by \in {"nobody", "owner", "agent"}
           /\ x.file # Foreign <=> x.file.by # "owner"
           /\ x.file.by # "agent" => x.file.tokens = {}
           /\ x.wk # "dir" => x.file.by = "nobody"
BY DEF RootFine, RootStates, NoTokens, Foreign, OurFile

LEMMA RootsFine ==
    /\ RootFine(EmptyRoot) /\ RootFine(GoneRoot) /\ RootFine([EmptyRoot EXCEPT !.wk = "link"])
    /\ RootFine([EmptyRoot EXCEPT !.wk = "dir", !.file = Foreign])
    /\ EmptyRoot.file.by # "agent" /\ GoneRoot.file.by # "agent"
    /\ [EmptyRoot EXCEPT !.wk = "link"].file.by # "agent"
    /\ [EmptyRoot EXCEPT !.wk = "dir", !.file = Foreign].file.by # "agent"
    /\ \A x : RootFine(x) =>
         /\ RootFine([x EXCEPT !.wk = "dir"]) /\ [x EXCEPT !.wk = "dir"].file = x.file
         /\ RootFine(Emptied(x)) /\ Emptied(x).file = x.file
         /\ RootFine([x EXCEPT !.file = NoTokens]) /\ [x EXCEPT !.file = NoTokens].file.by = "nobody"
         /\ x.wk = "dir" => /\ RootFine([x EXCEPT !.more = TRUE]) /\ [x EXCEPT !.more = TRUE].file = x.file
                            /\ \A T \in SUBSET TrustTokens :
                                  /\ RootFine([x EXCEPT !.file = OurFile(T)])
                                  /\ [x EXCEPT !.file = OurFile(T)].file = OurFile(T)
<1>2. /\ RootFine(EmptyRoot) /\ RootFine(GoneRoot) /\ RootFine([EmptyRoot EXCEPT !.wk = "link"])
      /\ EmptyRoot.file.by # "agent" /\ GoneRoot.file.by # "agent"
      /\ [EmptyRoot EXCEPT !.wk = "link"].file.by # "agent"
  BY DEF EmptyRoot, GoneRoot, RootFine, RootStates, NoTokens, Foreign
<1>3. /\ RootFine([EmptyRoot EXCEPT !.wk = "dir", !.file = Foreign])
      /\ [EmptyRoot EXCEPT !.wk = "dir", !.file = Foreign].file.by # "agent"
  BY DEF EmptyRoot, RootFine, RootStates, NoTokens, Foreign
<1>4. ASSUME NEW x, RootFine(x)
      PROVE  /\ RootFine([x EXCEPT !.wk = "dir"]) /\ [x EXCEPT !.wk = "dir"].file = x.file
             /\ RootFine(Emptied(x)) /\ Emptied(x).file = x.file
             /\ RootFine([x EXCEPT !.file = NoTokens]) /\ [x EXCEPT !.file = NoTokens].file.by = "nobody"
             /\ x.wk = "dir" => /\ RootFine([x EXCEPT !.more = TRUE]) /\ [x EXCEPT !.more = TRUE].file = x.file
                                /\ \A T \in SUBSET TrustTokens :
                                      /\ RootFine([x EXCEPT !.file = OurFile(T)])
                                      /\ [x EXCEPT !.file = OurFile(T)].file = OurFile(T)
  <2>1. RootFine([x EXCEPT !.wk = "dir"]) /\ [x EXCEPT !.wk = "dir"].file = x.file
    BY <1>4 DEF RootFine, RootStates
  <2>2. RootFine(Emptied(x)) /\ Emptied(x).file = x.file
    BY <1>4 DEF RootFine, RootStates, Emptied, Foreign, OurFile, NoTokens
  <2>3. RootFine([x EXCEPT !.file = NoTokens]) /\ [x EXCEPT !.file = NoTokens].file.by = "nobody"
    BY <1>4 DEF RootFine, RootStates, NoTokens
  <2>4. ASSUME x.wk = "dir"
        PROVE  RootFine([x EXCEPT !.more = TRUE]) /\ [x EXCEPT !.more = TRUE].file = x.file
    BY <1>4, <2>4 DEF RootFine, RootStates
  <2>5. ASSUME x.wk = "dir", NEW T \in SUBSET TrustTokens
        PROVE  RootFine([x EXCEPT !.file = OurFile(T)]) /\ [x EXCEPT !.file = OurFile(T)].file = OurFile(T)
    BY <1>4, <2>5 DEF RootFine, RootStates, OurFile
  <2> QED BY <2>1, <2>2, <2>3, <2>4, <2>5
<1> QED BY <1>2, <1>3, <1>4

\* What one step at root r does to it, and to the job.
StepAt(r, x) ==
    \/ /\ x.file = disk[r].file /\ trustJob.pc = "root"
       /\ \E made \in BOOLEAN, seen \in {"nobody", "agent"} :
             trustJob' = [trustJob EXCEPT !.pc = "write", !.made = made, !.seen = seen]
    \/ /\ x = disk[r] /\ trustJob.want[r] = {} /\ disk[r].file.by \in {"nobody", "agent"}
       /\ At(r, "root") /\ trustJob' = [trustJob EXCEPT !.pc = "unlink", !.seen = disk[r].file.by]
    \/ x.file = OurFile(trustJob.want[r]) /\ \E made \in BOOLEAN : PlaceDone(r, made)
    \/ x.file = disk[r].file /\ \E reason \in Reasons : PlaceFails(r, reason)
    \/ x.file.by # "agent" /\ trustJob.want[r] = {} /\ RootDone(r, NoRecord, <<>>)
    \/ x.file = disk[r].file /\ trustJob.want[r] = {} /\ RootDone(r, RecordOf(r), <<>>)

LEMMA RootSteps ==
    ASSUME TrustTypes, RecordedInv, NEW r \in SiteRoots,
           PlaceCheck(r) \/ PlaceWrite(r) \/ RemoveCheck(r) \/ Unlink(r)
    PROVE  /\ AtWork /\ trustJob.pc # "save" /\ r \in trustJob.todo
           /\ UNCHANGED <<trustWorld, trustState, told, unrecorded, unsaid, retold, trustCrashesN, harmed>>
           /\ trustFaultsN' \in 0..MaxTrustFaults
           /\ \E x : RootFine(x) /\ disk' = [disk EXCEPT ![r] = x] /\ StepAt(r, x)
<1>1. /\ AtWork /\ trustJob.pc # "save" /\ r \in trustJob.todo
      /\ UNCHANGED <<trustWorld, trustState, told, unrecorded, unsaid, retold, trustCrashesN>>
      /\ trustFaultsN' \in 0..MaxTrustFaults
  BY FaultIs DEF PlaceCheck, PlaceWrite, RemoveCheck, Unlink, RootFrame, At, AtWork
<1>2. /\ disk \in [SiteRoots -> RootStates] /\ RootFine(disk[r]) /\ disk = [disk EXCEPT ![r] = disk[r]]
      /\ trustJob.want[r] \in SUBSET TrustTokens /\ trustJob.seen \in {"nobody", "agent"} /\ trustJob.made \in BOOLEAN
      /\ harmed \in BOOLEAN
  BY <1>1, JobIs DEF TrustTypes, TrustTypeOK, RootFine
<1>3. /\ disk[r].file.by \in {"nobody", "owner", "agent"}
      /\ disk[r].file # Foreign <=> disk[r].file.by # "owner"
      /\ disk[r].wk # "dir" => disk[r].file.by = "nobody"
  BY <1>2, FilesAre
<1>w. /\ RootFine([disk[r] EXCEPT !.wk = "dir"]) /\ [disk[r] EXCEPT !.wk = "dir"].file = disk[r].file
      /\ RootFine(Emptied(disk[r])) /\ Emptied(disk[r]).file = disk[r].file
      /\ RootFine([disk[r] EXCEPT !.file = NoTokens]) /\ [disk[r] EXCEPT !.file = NoTokens].file.by = "nobody"
      /\ disk[r].wk = "dir" => /\ RootFine([disk[r] EXCEPT !.file = OurFile(trustJob.want[r])])
                               /\ [disk[r] EXCEPT !.file = OurFile(trustJob.want[r])].file = OurFile(trustJob.want[r])
  BY <1>2, RootsFine
<1> DEFINE Goal == UNCHANGED harmed /\ \E x : RootFine(x) /\ disk' = [disk EXCEPT ![r] = x] /\ StepAt(r, x)
<1>s. ASSUME UNCHANGED harmed, UNCHANGED disk, StepAt(r, disk[r]) PROVE Goal
  BY <1>2, <1>s
<1>4. ASSUME PlaceCheck(r) PROVE Goal
  <2>0. UNCHANGED harmed /\ trustJob.pc = "root" BY <1>4 DEF PlaceCheck, At
  <2>1. ASSUME NEW reason \in Reasons, PlaceFails(r, reason), UNCHANGED disk PROVE Goal
    BY <1>s, <2>0, <2>1 DEF StepAt
  <2>2. ASSUME disk' = [disk EXCEPT ![r].wk = "dir"],
               LET made == disk[r].wk = "none"
               IN  CASE disk[r].file = Foreign -> PlaceFails(r, "file exists")
                     [] disk[r].file = OurFile(trustJob.want[r]) -> PlaceDone(r, made)
                     [] OTHER -> trustJob' = [trustJob EXCEPT !.pc = "write", !.made = made, !.seen = disk[r].file.by]
        PROVE  Goal
    <3> DEFINE x == [disk[r] EXCEPT !.wk = "dir"]
               made == disk[r].wk = "none"
    <3>1. RootFine(x) /\ x.file = disk[r].file /\ disk' = [disk EXCEPT ![r] = x]
      BY <1>w, <2>2
    <3>2. made \in BOOLEAN OBVIOUS
    <3> HIDE DEF made
    <3>3. \/ PlaceFails(r, "file exists")
          \/ disk[r].file = OurFile(trustJob.want[r]) /\ PlaceDone(r, made)
          \/ disk[r].file # Foreign /\ trustJob' = [trustJob EXCEPT !.pc = "write", !.made = made, !.seen = disk[r].file.by]
      BY <2>2, Zenon DEF made, OurFile, Foreign
    <3>4. StepAt(r, x)
      BY <1>3, <2>0, <3>1, <3>2, <3>3 DEF StepAt, Reasons
    <3> QED BY <2>0, <3>1, <3>4
  <2>3. CASE (\E reason \in Reasons : PlaceFails(r, reason)) /\ UNCHANGED disk
    BY <2>1, <2>3
  <2>4. \/ PlaceFails(r, "no root") /\ UNCHANGED disk
        \/ PlaceFails(r, "unsafe") /\ UNCHANGED disk
        \/ PlaceFails(r, "write failed") /\ UNCHANGED disk
        \/ /\ disk' = [disk EXCEPT ![r].wk = "dir"]
           /\ LET made == disk[r].wk = "none"
              IN  CASE disk[r].file = Foreign -> PlaceFails(r, "file exists")
                    [] disk[r].file = OurFile(trustJob.want[r]) -> PlaceDone(r, made)
                    [] OTHER -> trustJob' = [trustJob EXCEPT !.pc = "write", !.made = made, !.seen = disk[r].file.by]
    BY <1>4, Zenon DEF PlaceCheck
  <2>5. {"no root", "unsafe", "write failed"} \subseteq Reasons BY DEF Reasons
  <2> QED BY <2>2, <2>3, <2>4, <2>5
<1>5. ASSUME PlaceWrite(r) PROVE Goal
  <2>1. CASE /\ disk[r].wk = "dir" /\ disk' = [disk EXCEPT ![r].file = OurFile(trustJob.want[r])]
             /\ harmed' = (harmed \/ (disk[r].file = Foreign /\ trustJob.seen = "owner"))
             /\ PlaceDone(r, trustJob.made)
    <3> DEFINE x == [disk[r] EXCEPT !.file = OurFile(trustJob.want[r])]
    <3>1. RootFine(x) /\ x.file = OurFile(trustJob.want[r]) /\ disk' = [disk EXCEPT ![r] = x]
      BY <1>w, <2>1
    <3>2. harmed' = harmed BY <1>2, <2>1
    <3>3. StepAt(r, x) BY <1>2, <2>1, <3>1 DEF StepAt
    <3> QED BY <3>1, <3>2, <3>3
  <2>2. CASE disk' = disk /\ UNCHANGED harmed /\ PlaceFails(r, "write failed")
    BY <1>s, <2>2 DEF StepAt, Reasons
  <2>3. CASE disk' = [disk EXCEPT ![r] = Emptied(@)] /\ UNCHANGED harmed /\ PlaceFails(r, "write failed")
    <3>1. StepAt(r, Emptied(disk[r])) BY <1>w, <2>3 DEF StepAt, Reasons
    <3> QED BY <1>w, <2>3, <3>1
  <2> QED BY <1>5, <2>1, <2>2, <2>3 DEF PlaceWrite
<1>6. ASSUME RemoveCheck(r) PROVE Goal
  <2>0. UNCHANGED <<disk, harmed>> /\ trustJob.want[r] = {} /\ At(r, "root") BY <1>6 DEF RemoveCheck
  <2>1. CASE RootDone(r, NoRecord, <<>>) /\ disk[r].file.by # "agent"
    BY <1>s, <2>0, <2>1 DEF StepAt
  <2>2. CASE RootDone(r, RecordOf(r), <<>>)
    BY <1>s, <2>0, <2>2 DEF StepAt
  <2>3. CASE disk[r].file # Foreign /\ trustJob' = [trustJob EXCEPT !.pc = "unlink", !.seen = disk[r].file.by]
    BY <1>3, <1>s, <2>0, <2>3 DEF StepAt
  <2>4. disk[r].file = Foreign => disk[r].file.by # "agent" BY <1>3
  <2> QED BY <1>3, <1>6, <2>1, <2>2, <2>3, <2>4 DEF RemoveCheck
<1>7. ASSUME Unlink(r) PROVE Goal
  <2>0. trustJob.want[r] = {} /\ At(r, "unlink") /\ (trustJob.seen = "nobody" => disk[r].file.by # "agent")
    BY <1>7 DEF RecordedInv, Unlink, At
  <2>1. CASE RootDone(r, RecordOf(r), <<>>) /\ UNCHANGED <<disk, harmed>>
    BY <1>s, <2>0, <2>1 DEF StepAt
  <2>2. CASE /\ LET left == IF trustJob.seen = "agent" THEN [disk[r] EXCEPT !.file = NoTokens] ELSE disk[r]
                IN  disk' = [disk EXCEPT ![r] = IF RecordOf(r).made THEN Emptied(left) ELSE left]
             /\ harmed' = (harmed \/ (disk[r].file = Foreign /\ trustJob.seen = "owner"))
             /\ RootDone(r, NoRecord, <<>>)
    <3> DEFINE left == IF trustJob.seen = "agent" THEN [disk[r] EXCEPT !.file = NoTokens] ELSE disk[r]
               x    == IF RecordOf(r).made THEN Emptied(left) ELSE left
    <3>1. RootFine(left) /\ left.file.by # "agent"
      BY <1>2, <1>w, <2>0
    <3>2. RootFine(x) /\ x.file.by # "agent"
      <4> HIDE DEF left
      <4> QED BY <3>1, RootsFine
    <3>3. disk' = [disk EXCEPT ![r] = x] BY <2>2
    <3>4. harmed' = harmed BY <1>2, <2>2
    <3> HIDE DEF x
    <3>5. StepAt(r, x) BY <2>0, <2>2, <3>2 DEF StepAt
    <3> QED BY <3>2, <3>3, <3>4, <3>5
  <2> QED BY <1>7, <2>1, <2>2 DEF Unlink
<1> QED BY <1>1, <1>4, <1>5, <1>6, <1>7

\* The job goes on at root r: to write, or to remove, what it just looked at.
GoesOn(r, x) ==
    /\ trustJob'.todo = trustJob.todo /\ trustJob'.st = trustJob.st /\ trustJob'.status = trustJob.status
    /\ x.file = disk[r].file
    /\ trustJob'.pc = "unlink" => /\ trustJob'.seen = disk[r].file.by /\ trustJob.want[r] = {}
                                  /\ \A s \in trustJob.todo : r <= s
    /\ trustJob'.pc # "root"
\* The job is done with root r: it wrote the file, or could not, or there is none.
Finishes(r) ==
    /\ trustJob'.pc = "root" /\ trustJob'.todo = trustJob.todo \ {r}
    /\ \A d \in DOMAIN trustJob.status \ DomainsOf(trustJob.want[r]) : trustJob'.status[d] = trustJob.status[d]
Done(r, x) ==
    /\ x.file = OurFile(trustJob.want[r]) /\ trustJob'.st.roots[r].tokens = trustJob.want[r]
    /\ \A d \in DOMAIN trustJob.status \cap DomainsOf(trustJob.want[r]) : trustJob'.status[d] = Placed(r)
Fails(r, x) ==
    /\ x.file = disk[r].file /\ trustJob'.st.roots[r].tokens = trustJob.st.roots[r].tokens
    /\ \A d \in DOMAIN trustJob.status \cap DomainsOf(trustJob.want[r]) :
         /\ trustJob'.status[d] # NotTold
         /\ \/ trustJob'.status[d].root = 0
            \/ /\ trustJob'.status[d].root = r
               /\ {t \in trustJob.want[r] : t[1] = d} \subseteq trustJob.st.roots[r].tokens
Forgets(r, x) ==
    x.file.by # "agent" /\ trustJob.want[r] = {} /\ trustJob'.st.roots[r].tokens = {}

\* What any step at root r means to the job.
LEMMA StepIs ==
    ASSUME TrustTypes, AtWork, NEW r \in SiteRoots, r \in trustJob.todo, NEW x, RootFine(x), StepAt(r, x)
    PROVE  /\ trustJob' \in TrustJobs /\ trustJob'.pc \in {"root", "write", "unlink"}
           /\ trustJob'.want = trustJob.want /\ trustJob'.st.reported = trustJob.st.reported
           /\ \A s \in SiteRoots \ {r} : trustJob'.st.roots[s] = trustJob.st.roots[s]
           /\ DOMAIN trustJob'.status = DOMAIN trustJob.status
           /\ \/ GoesOn(r, x)
              \/ Finishes(r) /\ (Done(r, x) \/ Fails(r, x) \/ Forgets(r, x))
<1> DEFINE Same == /\ trustJob' \in TrustJobs /\ trustJob'.pc \in {"root", "write", "unlink"}
                   /\ trustJob'.want = trustJob.want /\ trustJob'.st.reported = trustJob.st.reported
                   /\ \A s \in SiteRoots \ {r} : trustJob'.st.roots[s] = trustJob.st.roots[s]
                   /\ DOMAIN trustJob'.status = DOMAIN trustJob.status
           rec  == [pc : {"root", "write", "unlink", "save"}, st : TrustStates,
                    want : [SiteRoots -> SUBSET TrustTokens], made : BOOLEAN,
                    seen : {"nobody", "agent"}, status : Statuses, todo : SUBSET SiteRoots]
           Goal == Same /\ (GoesOn(r, x) \/ (Finishes(r) /\ (Done(r, x) \/ Fails(r, x) \/ Forgets(r, x))))
<1>1. trustJob \in rec BY JobIs
<1>2. DomainsOf({}) = {} /\ trustJob.want[r] \in SUBSET TrustTokens
  BY JobIs DEF DomainsOf
<1>3. ASSUME NEW made \in BOOLEAN, NEW seen \in {"nobody", "agent"}, x.file = disk[r].file,
             trustJob' = [trustJob EXCEPT !.pc = "write", !.made = made, !.seen = seen]
      PROVE  Goal
  BY <1>1, <1>3 DEF GoesOn, TrustJobs
<1>4. ASSUME x = disk[r], trustJob.want[r] = {}, disk[r].file.by \in {"nobody", "agent"}, At(r, "root"),
             trustJob' = [trustJob EXCEPT !.pc = "unlink", !.seen = disk[r].file.by]
      PROVE  Goal
  <2>1. /\ trustJob' \in rec /\ trustJob'.pc = "unlink" /\ trustJob'.seen = disk[r].file.by
        /\ trustJob'.want = trustJob.want /\ trustJob'.st = trustJob.st /\ trustJob'.todo = trustJob.todo
        /\ trustJob'.status = trustJob.status
    BY <1>1, <1>4
  <2> QED BY <1>4, <2>1 DEF GoesOn, TrustJobs, At
<1>5. ASSUME NEW made \in BOOLEAN, x.file = OurFile(trustJob.want[r]), PlaceDone(r, made) PROVE Goal
  <2> DEFINE result == [d \in DomainsOf(trustJob.want[r]) |-> Placed(r)]
  <2>1. PICK record \in [made : BOOLEAN, tokens : SUBSET TrustTokens] :
           /\ record.tokens = trustJob.want[r] /\ RootDone(r, record, result)
           /\ \A d \in DomainsOf(trustJob.want[r]) : Placed(r) \in TrustReports
    BY <1>5, PlaceDoneIs
  <2>2. /\ DOMAIN result = DomainsOf(trustJob.want[r])
        /\ \A d \in DOMAIN result : result[d] = Placed(r) /\ result[d] \in TrustReports
    BY <2>1
  <2> HIDE DEF result
  <2>r. /\ trustJob'.pc = "root" /\ trustJob'.want = trustJob.want /\ trustJob'.seen = "nobody"
        /\ trustJob'.todo = trustJob.todo \ {r} /\ trustJob'.st.reported = trustJob.st.reported
        /\ trustJob'.st.roots[r] = record
        /\ \A s \in SiteRoots \ {r} : trustJob'.st.roots[s] = trustJob.st.roots[s]
        /\ DOMAIN trustJob'.status = DOMAIN trustJob.status
        /\ \A d \in DOMAIN trustJob.status :
              trustJob'.status[d] = IF d \in DOMAIN result THEN result[d] ELSE trustJob.status[d]
        /\ trustJob' \in TrustJobs
    BY <2>1, <2>2, RootDoneIs
  <2>3. Same /\ Finishes(r) /\ trustJob'.st.roots[r] = record
        /\ \A d \in DOMAIN trustJob.status \cap DomainsOf(trustJob.want[r]) : trustJob'.status[d] = Placed(r)
    BY <2>r, <2>2 DEF Finishes
  <2> QED BY <1>5, <2>1, <2>3 DEF Done
<1>6. ASSUME NEW reason \in Reasons, x.file = disk[r].file, PlaceFails(r, reason) PROVE Goal
  <2> DEFINE result == [d \in DomainsOf(trustJob.want[r]) |-> FailedAt(r, reason, d)]
  <2>1. /\ RecordOf(r) \in [made : BOOLEAN, tokens : SUBSET TrustTokens]
        /\ RootDone(r, RecordOf(r), result)
        /\ \A d \in DomainsOf(trustJob.want[r]) : FailedAt(r, reason, d) \in TrustReports \ {NotTold}
    BY <1>6, PlaceFailsIs
  <2>2. /\ DOMAIN result = DomainsOf(trustJob.want[r])
        /\ \A d \in DOMAIN result : result[d] = FailedAt(r, reason, d) /\ result[d] \in TrustReports
    BY <2>1
  <2> HIDE DEF result
  <2>r. /\ trustJob'.pc = "root" /\ trustJob'.want = trustJob.want /\ trustJob'.seen = "nobody"
        /\ trustJob'.todo = trustJob.todo \ {r} /\ trustJob'.st.reported = trustJob.st.reported
        /\ trustJob'.st.roots[r] = RecordOf(r)
        /\ \A s \in SiteRoots \ {r} : trustJob'.st.roots[s] = trustJob.st.roots[s]
        /\ DOMAIN trustJob'.status = DOMAIN trustJob.status
        /\ \A d \in DOMAIN trustJob.status :
              trustJob'.status[d] = IF d \in DOMAIN result THEN result[d] ELSE trustJob.status[d]
        /\ trustJob' \in TrustJobs
    BY <2>1, <2>2, RootDoneIs
  <2>3. Same /\ Finishes(r) /\ trustJob'.st.roots[r] = RecordOf(r)
        /\ \A d \in DOMAIN trustJob.status \cap DomainsOf(trustJob.want[r]) : trustJob'.status[d] = FailedAt(r, reason, d)
    BY <2>r, <2>2 DEF Finishes
  <2>4. \A d : \/ FailedAt(r, reason, d).root = 0
               \/ /\ FailedAt(r, reason, d).root = r
                  /\ {t \in trustJob.want[r] : t[1] = d} \subseteq trustJob.st.roots[r].tokens
    BY ReportsAre DEF FailedAt, RecordOf
  <2> QED BY <1>6, <2>1, <2>3, <2>4 DEF Fails, RecordOf
<1>7. ASSUME x.file.by # "agent", trustJob.want[r] = {}, RootDone(r, NoRecord, <<>>) PROVE Goal
  <2> DEFINE result == <<>>
  <2>a. DOMAIN result = {} /\ RootDone(r, NoRecord, result) BY <1>7, NoRecordIs
  <2> HIDE DEF result
  <2>1. /\ trustJob'.pc = "root" /\ trustJob'.want = trustJob.want /\ trustJob'.todo = trustJob.todo \ {r}
        /\ trustJob'.st.reported = trustJob.st.reported /\ trustJob'.st.roots[r] = NoRecord
        /\ \A s \in SiteRoots \ {r} : trustJob'.st.roots[s] = trustJob.st.roots[s]
        /\ DOMAIN trustJob'.status = DOMAIN trustJob.status
        /\ \A d \in DOMAIN trustJob.status : trustJob'.status[d] = trustJob.status[d]
        /\ trustJob' \in TrustJobs
    <3> DEFINE record == NoRecord
    <3>1. /\ record \in [made : BOOLEAN, tokens : SUBSET TrustTokens] /\ RootDone(r, record, result)
          /\ \A d \in DOMAIN result : result[d] \in TrustReports
      BY <2>a, NoRecordIs
    <3> HIDE DEF record
    <3>2. /\ trustJob'.pc = "root" /\ trustJob'.want = trustJob.want /\ trustJob'.todo = trustJob.todo \ {r}
          /\ trustJob'.st.reported = trustJob.st.reported /\ trustJob'.st.roots[r] = record
          /\ \A s \in SiteRoots \ {r} : trustJob'.st.roots[s] = trustJob.st.roots[s]
          /\ DOMAIN trustJob'.status = DOMAIN trustJob.status
          /\ \A d \in DOMAIN trustJob.status :
                trustJob'.status[d] = IF d \in DOMAIN result THEN result[d] ELSE trustJob.status[d]
          /\ trustJob' \in TrustJobs
      BY <3>1, RootDoneIs, Zenon
    <3> QED BY <2>a, <3>2 DEF record
  <2> QED BY <1>7, <2>1, NoRecordIs DEF Finishes, Forgets
<1>8. ASSUME x.file = disk[r].file, trustJob.want[r] = {}, RootDone(r, RecordOf(r), <<>>) PROVE Goal
  <2> DEFINE result == <<>>
  <2>a. DOMAIN result = {} /\ RootDone(r, RecordOf(r), result) BY <1>8, NoRecordIs
  <2> HIDE DEF result
  <2>1. RecordOf(r) \in [made : BOOLEAN, tokens : SUBSET TrustTokens]
    BY JobIs, StateIs DEF RecordOf
  <2>2. /\ trustJob'.pc = "root" /\ trustJob'.want = trustJob.want /\ trustJob'.todo = trustJob.todo \ {r}
        /\ trustJob'.st.reported = trustJob.st.reported /\ trustJob'.st.roots[r] = RecordOf(r)
        /\ \A s \in SiteRoots \ {r} : trustJob'.st.roots[s] = trustJob.st.roots[s]
        /\ DOMAIN trustJob'.status = DOMAIN trustJob.status
        /\ \A d \in DOMAIN trustJob.status : trustJob'.status[d] = trustJob.status[d]
        /\ trustJob' \in TrustJobs
    BY <2>1, <2>a, RootDoneIs
  <2> QED BY <1>2, <1>8, <2>2 DEF Finishes, Fails, RecordOf
<1> QED BY <1>3, <1>4, <1>5, <1>6, <1>7, <1>8 DEF StepAt

\* A step at a root keeps all of it.
LEMMA StepKeeps ==
    ASSUME TrustInv, NEW r \in SiteRoots,
           PlaceCheck(r) \/ PlaceWrite(r) \/ RemoveCheck(r) \/ Unlink(r)
    PROVE  TrustInv'
<1>1. /\ TrustTypes /\ RecordedInv
      /\ AtWork /\ trustJob.pc # "save" /\ r \in trustJob.todo
      /\ UNCHANGED <<trustWorld, trustState, told, unrecorded, unsaid, retold, trustCrashesN, harmed>>
      /\ trustFaultsN' \in 0..MaxTrustFaults
      /\ \E x : RootFine(x) /\ disk' = [disk EXCEPT ![r] = x] /\ StepAt(r, x)
  BY RootSteps DEF TrustInv
<1>2. PICK x : RootFine(x) /\ disk' = [disk EXCEPT ![r] = x] /\ StepAt(r, x)
  BY <1>1
<1> DEFINE Sorts == \/ GoesOn(r, x)
                    \/ Finishes(r) /\ (Done(r, x) \/ Fails(r, x) \/ Forgets(r, x))
<1>3. /\ trustJob' \in TrustJobs /\ trustJob'.pc \in {"root", "write", "unlink"}
      /\ trustJob'.want = trustJob.want /\ trustJob'.st.reported = trustJob.st.reported
      /\ \A s \in SiteRoots \ {r} : trustJob'.st.roots[s] = trustJob.st.roots[s]
      /\ DOMAIN trustJob'.status = DOMAIN trustJob.status
      /\ Sorts
  BY <1>1, <1>2, StepIs
<1>4. /\ disk \in [SiteRoots -> RootStates] /\ disk'[r] = x /\ \A s \in SiteRoots \ {r} : disk'[s] = disk[s]
      /\ x \in RootStates /\ disk' \in [SiteRoots -> RootStates]
      /\ \A s \in SiteRoots : RootFine(disk[s])
  BY <1>1, <1>2 DEF TrustTypes, TrustTypeOK, RootFine
<1>5. AtWork' /\ trustJob'.pc # "save"
  BY <1>3 DEF AtWork
<1>6. TrustTypes'
  <2>1. \A s \in SiteRoots : /\ disk'[s].file \in {NoTokens, Foreign, OurFile(disk'[s].file.tokens)}
                             /\ disk'[s].wk # "dir" => disk'[s].file = NoTokens /\ ~disk'[s].more
    BY <1>2, <1>4 DEF RootFine
  <2> QED BY <1>1, <1>3, <1>4, <2>1, TypesSuffice DEF TrustTypes, TrustTypeOK, trustWorld
<1>7. ToldInv'
  BY <1>1, <1>3, <1>5 DEF TrustInv, ToldInv
<1>8. RecordedInv'
  <2>1. Unknown(trustJob.st) \subseteq unrecorded BY <1>1 DEF RecordedInv
  <2>2. ASSUME NEW s \in SiteRoots, s \in Unknown(trustJob.st)' PROVE s \in unrecorded'
    <3>1. disk'[s].file.by = "agent" /\ disk'[s].file.tokens # trustJob'.st.roots[s].tokens
      BY <2>2 DEF Unknown
    <3>2. CASE s # r
      BY <1>1, <1>3, <1>4, <2>1, <3>1, <3>2 DEF Unknown
    <3>3. ASSUME s = r, x.file = disk[r].file, trustJob'.st.roots[r].tokens = trustJob.st.roots[r].tokens
          PROVE  s \in unrecorded'
      BY <1>1, <1>4, <2>1, <3>1, <3>3 DEF Unknown
    <3>4. OurFile(trustJob.want[r]).tokens = trustJob.want[r] BY DEF OurFile
    <3>5. CASE s = r /\ GoesOn(r, x) BY <3>3, <3>5 DEF GoesOn
    <3>6. CASE s = r /\ Done(r, x) BY <1>4, <3>1, <3>4, <3>6 DEF Done
    <3>7. CASE s = r /\ Fails(r, x) BY <3>3, <3>7 DEF Fails
    <3>8. CASE s = r /\ Forgets(r, x) BY <1>4, <3>1, <3>8 DEF Forgets
    <3> QED BY <1>3, <3>2, <3>5, <3>6, <3>7, <3>8
  <2>3. Unknown(trustJob.st)' \subseteq unrecorded' BY <2>2 DEF Unknown
  <2>4. ASSUME trustJob'.pc = "unlink", NEW s \in SiteRoots, At(s, "unlink")'
        PROVE  trustJob'.want[s] = {} /\ (trustJob'.seen = "nobody" => disk'[s].file.by # "agent")
    <3>1. GoesOn(r, x) BY <1>3, <2>4 DEF Finishes
    <3>2. \A q \in trustJob.todo : r <= q /\ s <= q
      BY <2>4, <3>1 DEF GoesOn, At
    <3>3. s \in trustJob.todo BY <2>4, <3>1 DEF GoesOn, At
    <3>4. s = r BY <1>1, <3>2, <3>3, BoundsAre DEF SiteRoots
    <3> QED BY <1>3, <1>4, <2>4, <3>1, <3>4 DEF GoesOn
  <2>5. \A s \in SiteRoots : At(s, "unlink")' => trustJob'.pc = "unlink" BY DEF At
  <2> QED BY <1>5, <2>3, <2>4, <2>5 DEF RecordedInv
<1>9. JobFits'
  <2> DEFINE D == DomainsOf(trustJob.want[r])
             rec == trustJob'
  <2>1. JobFits /\ D \subseteq DOMAIN trustJob.status /\ D \subseteq Domains
    BY <1>1, JobIs, DomainsAre DEF TrustInv, JobFits
  <2>2. \A s \in SiteRoots : DomainsOf(rec.want[s]) \subseteq DOMAIN rec.status
    BY <1>1, <1>3, <2>1 DEF JobFits
  <2>3. ASSUME NEW d \in Domains \ DOMAIN rec.status, Served(rec.st, d) PROVE Served(trustState', d)
    <3>1. PICK s \in SiteRoots : d \in DomainsOf(rec.st.roots[s].tokens) BY <2>3 DEF Served
    <3>2. d \notin D /\ d \in Domains \ DOMAIN trustJob.status BY <1>3, <2>1, <2>3
    <3>3. DomainsOf({}) = {} BY DEF DomainsOf
    <3>4. d \in DomainsOf(trustJob.st.roots[s].tokens)
      BY <1>3, <3>1, <3>2, <3>3 DEF GoesOn, Done, Fails, Forgets
    <3> QED BY <1>1, <2>1, <3>2, <3>4 DEF JobFits, Served
  <2>4. ASSUME NEW d \in DOMAIN rec.status
        PROVE  /\ rec.status[d] # NotTold
               /\ LET q == rec.status[d].root IN
                  q # 0 => /\ q \in SiteRoots
                           /\ d \in DomainsOf(IF q \in rec.todo THEN rec.want[q] ELSE rec.st.roots[q].tokens)
    <3> DEFINE Right == /\ rec.status[d] # NotTold
                        /\ LET q == rec.status[d].root IN
                           q # 0 => /\ q \in SiteRoots
                                    /\ d \in DomainsOf(IF q \in rec.todo THEN rec.want[q] ELSE rec.st.roots[q].tokens)
    <3>1. /\ d \in DOMAIN trustJob.status /\ trustJob.status[d] # NotTold
          /\ LET q == trustJob.status[d].root IN
             q # 0 => /\ q \in SiteRoots
                      /\ d \in DomainsOf(IF q \in trustJob.todo THEN trustJob.want[q] ELSE trustJob.st.roots[q].tokens)
      BY <1>1, <1>3, <2>1 DEF JobFits
    <3>2. CASE GoesOn(r, x) BY <1>3, <3>1, <3>2 DEF GoesOn
    <3>3. CASE Finishes(r) /\ d \notin D
      <4>1. rec.status[d] = trustJob.status[d] /\ rec.todo = trustJob.todo \ {r}
        BY <3>1, <3>3 DEF Finishes
      <4>2. trustJob.status[d].root # r BY <1>1, <3>1, <3>3, ReportsAre
      <4> QED BY <1>3, <3>1, <4>1, <4>2
    <3>4. CASE Finishes(r) /\ Done(r, x) /\ d \in D
      BY <1>3, <3>1, <3>4, ReportsAre DEF Finishes, Done
    <3>5. CASE Finishes(r) /\ Fails(r, x) /\ d \in D
      <4>1. /\ rec.status[d] # NotTold /\ rec.st.roots[r].tokens = trustJob.st.roots[r].tokens
            /\ rec.todo = trustJob.todo \ {r}
            /\ rec.status[d].root = 0 \/ /\ rec.status[d].root = r
                                         /\ {t \in trustJob.want[r] : t[1] = d} \subseteq trustJob.st.roots[r].tokens
        BY <3>1, <3>5 DEF Finishes, Fails
      <4>2. PICK t \in trustJob.want[r] : d = t[1] BY <3>5 DEF DomainsOf
      <4>3. rec.status[d].root = 0 \/ d \in DomainsOf(trustJob.st.roots[r].tokens)
        BY <4>1, <4>2 DEF DomainsOf
      <4> QED BY <4>1, <4>3
    <3>6. DomainsOf({}) = {} BY DEF DomainsOf
    <3>7. CASE Forgets(r, x) /\ d \in D BY <3>6, <3>7 DEF Forgets
    <3> QED BY <1>3, <3>2, <3>3, <3>4, <3>5, <3>7
  <2> QED BY <2>2, <2>3, <2>4 DEF JobFits
<1>10. StateFits' /\ ToldOnce' /\ ForeignKept'
  BY <1>1, <1>5 DEF TrustInv, StateFits, ToldOnce, ForeignKept, Fits, Served
<1> QED BY <1>6, <1>7, <1>8, <1>9, <1>10 DEF TrustInv

\* The dashboard, the owners of the sites and the switch.
LEMMA OutsideStepKeeps ==
    ASSUME TrustInv, TrustEvent, JobFrame,
           trustListed' \in [Domains -> 0..MaxTokens], homes' \in [Domains -> Homes], trustOff' \in BOOLEAN,
           \A r \in SiteRoots : RootFine(disk'[r]) /\ (disk'[r].file = disk[r].file \/ disk'[r].file.by # "agent"),
           disk' \in [SiteRoots -> RootStates]
    PROVE  TrustInv'
<1>1. TrustTypes'
  <2>1. \A s \in SiteRoots : /\ disk'[s].file \in {NoTokens, Foreign, OurFile(disk'[s].file.tokens)}
                             /\ disk'[s].wk # "dir" => disk'[s].file = NoTokens /\ ~disk'[s].more
    BY DEF RootFine
  <2>2. trustEventsN' \in 0..MaxTrustEvents
    BY BoundsAre DEF TrustInv, TrustTypes, TrustTypeOK, TrustEvent
  <2> QED BY <2>1, <2>2, TypesSuffice DEF TrustInv, TrustTypes, TrustTypeOK, JobFrame
<1>2. /\ UNCHANGED <<trustState, trustJob, told, unrecorded, unsaid, retold, harmed>>
      /\ AtWork' = AtWork
  BY DEF JobFrame, AtWork
<1>3. ToldInv' BY <1>2 DEF TrustInv, ToldInv
<1>4. RecordedInv'
  <2> DEFINE st == IF AtWork THEN trustJob.st ELSE trustState
  <2>1. Unknown(st) \subseteq unrecorded /\ st' = st BY <1>2 DEF TrustInv, RecordedInv
  <2> HIDE DEF st
  <2>2. Unknown(st)' \subseteq Unknown(st) BY <2>1 DEF Unknown
  <2>3. \A r : At(r, "unlink")' <=> At(r, "unlink") BY <1>2 DEF At
  <2>4. trustJob'.pc = "unlink" /\ trustJob'.seen = "nobody" =>
          \A r \in SiteRoots : At(r, "unlink")' => disk'[r].file.by # "agent"
    BY <1>2, <2>3 DEF TrustInv, RecordedInv
  <2>5. \A r \in SiteRoots : At(r, "unlink")' => trustJob'.want[r] = {}
    BY <1>2, <2>3 DEF TrustInv, RecordedInv
  <2>6. Unknown(st)' \subseteq unrecorded' BY <1>2, <2>1, <2>2
  <2> QED BY <2>4, <2>5, <2>6 DEF RecordedInv, st
<1>5. JobFits' BY <1>2 DEF TrustInv, JobFits, Served
<1>6. StateFits' /\ ToldOnce' /\ ForeignKept'
  BY <1>2 DEF TrustInv, StateFits, ToldOnce, ForeignKept, Fits, Served
<1> QED BY <1>1, <1>3, <1>4, <1>5, <1>6 DEF TrustInv

LEMMA EventKeeps ==
    ASSUME TrustInv,
           \/ \E d \in Domains : \/ \E n \in 0..MaxTokens : EditTokens(d, n)
                                 \/ \E h \in Homes : MoveDomain(d, h)
           \/ \E r \in SiteRoots : OwnerChanges(r)
           \/ SwitchTrust
    PROVE  TrustInv'
<1>1. /\ trustListed \in [Domains -> 0..MaxTokens] /\ homes \in [Domains -> Homes] /\ trustOff \in BOOLEAN
      /\ disk \in [SiteRoots -> RootStates] /\ \A r \in SiteRoots : RootFine(disk[r])
  BY DEF TrustInv, TrustTypes, TrustTypeOK, RootFine
<1>2. ASSUME NEW d \in Domains, NEW n \in 0..MaxTokens, EditTokens(d, n) PROVE TrustInv'
  BY <1>1, <1>2, OutsideStepKeeps DEF EditTokens
<1>3. ASSUME NEW d \in Domains, NEW h \in Homes, MoveDomain(d, h) PROVE TrustInv'
  BY <1>1, <1>3, OutsideStepKeeps DEF MoveDomain
<1>4. ASSUME NEW r \in SiteRoots, OwnerChanges(r) PROVE TrustInv'
  <2>1. PICK x \in {GoneRoot, EmptyRoot, [EmptyRoot EXCEPT !.wk = "link"],
                    [EmptyRoot EXCEPT !.wk = "dir", !.file = Foreign]}
                   \cup (IF disk[r].wk = "dir"
                         THEN {[disk[r] EXCEPT !.more = TRUE], [disk[r] EXCEPT !.file = NoTokens]} ELSE {}) :
           disk' = [disk EXCEPT ![r] = x]
    BY <1>4 DEF OwnerChanges
  <2>2. RootFine(x) /\ (x.file = disk[r].file \/ x.file.by # "agent")
    BY <1>1, <2>1, RootsFine
  <2>3. /\ disk' \in [SiteRoots -> RootStates]
        /\ \A s \in SiteRoots : RootFine(disk'[s]) /\ (disk'[s].file = disk[s].file \/ disk'[s].file.by # "agent")
    BY <1>1, <2>1, <2>2 DEF RootFine
  <2> QED BY <1>1, <1>4, <2>3, OutsideStepKeeps DEF OwnerChanges
<1>5. CASE SwitchTrust
  BY <1>1, <1>5, OutsideStepKeeps DEF SwitchTrust
<1> QED BY <1>2, <1>3, <1>4, <1>5

\* What a sync says of a domain, and of a root.
LEMMA MatchIs ==
    ASSUME TrustTypes, NEW d \in Domains
    PROVE  /\ Match(d) \in TrustReports /\ Match(d) # NotTold
           /\ Match(d).root # 0 => Match(d).root \in SiteRoots
<1> DEFINE sites == detectTrustSites[d]
           S     == IF sites.own # {} THEN sites.own ELSE sites.www
           r     == CHOOSE q \in S : TRUE
<1>1. S \subseteq SiteRoots
  <2>1. homes[d] \in Homes BY DEF TrustTypes, TrustTypeOK
  <2> QED BY <2>1, TrustConstants DEF detectTrustSites
<1>2. Cardinality(S) = 1 => S # {} BY FS_EmptySet
<1>3. S # {} => r \in SiteRoots BY <1>1
<1>4. Match(d) = IF Cardinality(S) = 1 THEN Placed(r)
                 ELSE Failed(IF S = {} THEN "no root" ELSE "many roots")
  BY DEF Match, Placed
<1> HIDE DEF S, r
<1>5. {"no root", "many roots"} \subseteq Reasons BY DEF Reasons
<1> QED BY <1>2, <1>3, <1>4, <1>5, ReportsAre

LEMMA WantIs ==
    ASSUME TrustTypes
    PROVE  /\ Want \in [SiteRoots -> SUBSET TrustTokens] /\ ListedNow \subseteq Domains
           /\ \A r \in SiteRoots : DomainsOf(Want[r]) = {d \in ListedNow : Match(d).root = r}
<1>1. trustListed \in [Domains -> 0..MaxTokens] BY DEF TrustTypes, TrustTypeOK
<1>2. ListedNow \subseteq Domains /\ \A d \in ListedNow : trustListed[d] \in 1..MaxTokens
  BY <1>1, BoundsAre DEF ListedNow
<1>3. Want \in [SiteRoots -> SUBSET TrustTokens] BY <1>2 DEF Want, TrustTokens
<1>4. ASSUME NEW r \in SiteRoots PROVE DomainsOf(Want[r]) = {d \in ListedNow : Match(d).root = r}
  <2>1. Want[r] = {<<d, trustListed[d]>> : d \in {e \in ListedNow : Match(e).root = r}}
    BY DEF Want
  <2>2. ASSUME NEW d \in DomainsOf(Want[r]) PROVE d \in ListedNow /\ Match(d).root = r
    <3>1. PICK t \in Want[r] : d = t[1] BY DEF DomainsOf
    <3>2. PICK e \in ListedNow : Match(e).root = r /\ t = <<e, trustListed[e]>> BY <2>1, <3>1
    <3> QED BY <3>1, <3>2
  <2>3. ASSUME NEW d \in ListedNow, Match(d).root = r PROVE d \in DomainsOf(Want[r])
    <3>1. <<d, trustListed[d]>> \in Want[r] /\ <<d, trustListed[d]>>[1] = d BY <2>1, <2>3
    <3> QED BY <3>1 DEF DomainsOf
  <2> QED BY <2>2, <2>3
<1> QED BY <1>2, <1>3, <1>4

LEMMA SyncKeeps ==
    ASSUME TrustInv, TrustSync
    PROVE  TrustInv'
<1> DEFINE rec == [pc |-> "root", st |-> trustState, want |-> Want, made |-> FALSE, seen |-> "nobody",
                   status |-> [d \in ListedNow |-> Match(d)],
                   todo |-> {r \in SiteRoots : Want[r] # {} \/ trustState.roots[r] # NoRecord}]
<1>1. /\ TrustTypes /\ trustJob.pc = "idle" /\ ~AtWork /\ trustJob' = rec
      /\ UNCHANGED <<trustWorld, disk, trustState, told, unrecorded, unsaid, retold, harmed, trustCrashesN, trustFaultsN>>
  BY DEF TrustInv, TrustSync, AtWork
<1>2. trustState \in TrustStates BY <1>1 DEF TrustTypes
<1>3. /\ Want \in [SiteRoots -> SUBSET TrustTokens] /\ ListedNow \subseteq Domains
      /\ \A r \in SiteRoots : DomainsOf(Want[r]) = {d \in ListedNow : Match(d).root = r}
      /\ \A d \in ListedNow : /\ Match(d) \in TrustReports /\ Match(d) # NotTold
                              /\ Match(d).root # 0 => Match(d).root \in SiteRoots
  BY <1>1, WantIs, MatchIs
<1>4. /\ rec.pc = "root" /\ rec.st = trustState /\ rec.want = Want /\ rec.seen = "nobody" /\ rec.made = FALSE
      /\ DOMAIN rec.status = ListedNow /\ \A d \in ListedNow : rec.status[d] = Match(d)
      /\ rec.todo = {r \in SiteRoots : Want[r] # {} \/ trustState.roots[r] # NoRecord}
      /\ rec.status \in [ListedNow -> TrustReports]
  BY <1>3
<1>5. rec.status \in Statuses BY <1>3, <1>4 DEF Statuses
<1>6. rec \in TrustJobs BY <1>2, <1>3, <1>4, <1>5 DEF TrustJobs
<1> HIDE DEF rec
<1>7. AtWork' /\ trustJob'.pc = "root" BY <1>1, <1>4 DEF AtWork
<1>8. TrustTypes'
  BY <1>1, <1>6, TypesSuffice DEF TrustTypes, TrustTypeOK, trustWorld
<1>9. ToldInv' BY <1>1, <1>4, <1>7 DEF TrustInv, ToldInv
<1>10. RecordedInv'
  <2>1. Unknown(trustState)' \subseteq unrecorded' BY <1>1 DEF TrustInv, RecordedInv, Unknown
  <2>2. trustJob'.st = trustState' BY <1>1, <1>4
  <2>3. \A r : ~At(r, "unlink")' BY <1>7 DEF At
  <2> QED BY <1>7, <2>1, <2>2, <2>3 DEF RecordedInv
<1>11. JobFits'
  <2>1. \A r \in SiteRoots : DomainsOf(trustJob'.want[r]) \subseteq DOMAIN trustJob'.status
    BY <1>1, <1>3, <1>4
  <2>2. \A d : Served(trustJob.st, d)' => Served(trustState, d)'
    BY <1>1, <1>4 DEF Served
  <2>3. \A d \in DOMAIN trustJob'.status : trustJob'.status[d] # NotTold
    BY <1>1, <1>3, <1>4
  <2>4. ASSUME NEW d \in DOMAIN trustJob'.status, trustJob'.status[d].root # 0
        PROVE  LET r == trustJob'.status[d].root
               IN  r \in SiteRoots /\ r \in trustJob'.todo /\ d \in DomainsOf(trustJob'.want[r])
    <3>1. /\ d \in ListedNow /\ trustJob'.status[d] = Match(d) /\ Match(d).root \in SiteRoots
          /\ d \in DomainsOf(Want[Match(d).root])
      BY <1>1, <1>3, <1>4, <2>4
    <3>2. Want[Match(d).root] # {} BY <3>1 DEF DomainsOf
    <3> QED BY <1>1, <1>4, <3>1, <3>2
  <2> QED BY <2>1, <2>2, <2>3, <2>4 DEF JobFits
<1>12. StateFits' /\ ToldOnce' /\ ForeignKept'
  BY <1>1, <1>7 DEF TrustInv, StateFits, ToldOnce, ForeignKept, Fits, Served
<1> QED BY <1>8, <1>9, <1>10, <1>11, <1>12 DEF TrustInv

\* The reports, as the job has them once it reported: what fits the roots.
NewReports(old) ==
    [d \in Domains |-> IF d \in Said(trustJob) THEN trustJob.status[d]
                       ELSE IF d \in Dropped(trustJob) THEN NotTold ELSE old[d]]

LEMMA NewReportsFit ==
    ASSUME TrustInv, trustJob.pc = "root", trustJob.todo = {}, NEW st,
           st.roots = trustJob.st.roots, st.reported = NewReports(trustJob.st.reported)
    PROVE  Fits(st)
<1> DEFINE said == Said(trustJob)
           gone == Dropped(trustJob)
<1>1. AtWork /\ trustJob.pc # "save" /\ TrustTypes BY DEF AtWork, TrustInv
<1>2. \A d \in Domains : Served(st, d) <=> Served(trustJob.st, d) BY DEF Served
<1>3. ASSUME NEW d \in Domains
      PROVE  /\ st.reported[d] = NotTold => ~Served(st, d)
             /\ st.reported[d].root # 0 => Served(st, d)
  <2>1. st.reported[d] = IF d \in said THEN trustJob.status[d] ELSE IF d \in gone THEN NotTold ELSE trustJob.st.reported[d]
    BY DEF NewReports
  <2>2. CASE d \in DOMAIN trustJob.status
    <3>1. d \notin gone /\ (d \notin said => trustJob.st.reported[d] = trustJob.status[d])
      BY <2>2 DEF Dropped, Said
    <3>2. st.reported[d] = trustJob.status[d] BY <2>1, <3>1
    <3>3. /\ trustJob.status[d] # NotTold
          /\ LET r == trustJob.status[d].root IN
             r # 0 => r \in SiteRoots /\ d \in DomainsOf(trustJob.st.roots[r].tokens)
      BY <1>1, <2>2 DEF TrustInv, JobFits
    <3> QED BY <1>2, <3>2, <3>3 DEF Served
  <2>3. CASE d \in gone
    <3>1. d \notin said /\ ~Served(trustJob.st, d) BY <2>3 DEF Dropped, Said
    <3> QED BY <1>2, <2>1, <2>3, <3>1, ReportsAre
  <2>4. CASE d \notin DOMAIN trustJob.status /\ d \notin gone
    <3>1. st.reported[d] = trustJob.st.reported[d] BY <2>1, <2>4 DEF Said
    <3>2. trustJob.st.reported[d] = NotTold \/ Served(trustJob.st, d) BY <2>4 DEF Dropped
    <3>3. trustJob.st.reported = trustState.reported BY <1>1 DEF TrustInv, ToldInv
    <3>4. Served(trustJob.st, d) => Served(trustState, d) BY <1>1, <2>4 DEF TrustInv, JobFits
    <3>5. trustState.reported[d] = NotTold => ~Served(trustState, d)
      BY DEF TrustInv, StateFits, Fits
    <3> QED BY <1>2, <3>1, <3>2, <3>3, <3>4, <3>5, ReportsAre
  <2> QED BY <2>2, <2>3, <2>4
<1> QED BY <1>3 DEF Fits

LEMMA ReportKeeps ==
    ASSUME TrustInv, ReportTrust
    PROVE  TrustInv'
<1> DEFINE said == Said(trustJob)
<1>st. PICK st : st = [trustJob.st EXCEPT !.reported = NewReports(@)] OBVIOUS
<1>1. /\ TrustTypes /\ AtWork /\ trustJob.pc = "root" /\ trustJob.todo = {}
      /\ told' = NewReports(told)
      /\ retold' = (retold \/ \E d \in said \ unsaid : told[d] = trustJob.status[d])
      /\ trustJob' = IF st = trustState THEN NoTrustJob ELSE [trustJob EXCEPT !.pc = "save", !.st = st]
      /\ UNCHANGED <<trustWorld, disk, trustState, unrecorded, unsaid, harmed, trustCrashesN, trustFaultsN>>
  BY <1>st DEF ReportTrust, TrustInv, AtWork, NewReports
<1>2. /\ trustJob \in [pc : {"root", "write", "unlink", "save"}, st : TrustStates,
                       want : [SiteRoots -> SUBSET TrustTokens], made : BOOLEAN,
                       seen : {"nobody", "agent"}, status : Statuses, todo : SUBSET SiteRoots]
      /\ trustJob.st \in TrustStates /\ trustState \in TrustStates
      /\ \A d \in DOMAIN trustJob.status : trustJob.status[d] \in TrustReports
      /\ told \in [Domains -> TrustReports]
  BY <1>1, JobIs DEF TrustTypes, TrustTypeOK
<1>3. /\ trustJob.st.reported = trustState.reported
      /\ \A d \in Domains \ unsaid : told[d] = trustState.reported[d]
      /\ Unknown(trustJob.st) \subseteq unrecorded /\ Fits(trustState)
  BY <1>1 DEF TrustInv, ToldInv, RecordedInv, StateFits
<1>4. \A old \in [Domains -> TrustReports] : NewReports(old) \in [Domains -> TrustReports]
  BY <1>2, ReportsAre DEF NewReports, Said
<1>5. /\ st \in TrustStates /\ st.roots = trustJob.st.roots
      /\ st.reported = NewReports(trustJob.st.reported)
  BY <1>2, <1>4, <1>st DEF TrustStates
<1>6. Fits(st) BY <1>1, <1>5, NewReportsFit
<1>7. \A d \in Domains \ unsaid : told'[d] = st.reported[d]
  BY <1>1, <1>3, <1>5 DEF NewReports
<1>8. Unknown(st) \subseteq unrecorded BY <1>3, <1>5 DEF Unknown
<1>9. retold' = retold
  <2>1. \A d \in said \ unsaid : d \in Domains /\ told[d] # trustJob.status[d]
    BY <1>1, <1>3, JobIs DEF Said
  <2> QED BY <1>1, <2>1 DEF TrustTypes, TrustTypeOK
<1>10. \/ st = trustState /\ trustJob' = NoTrustJob /\ trustJob'.pc = "idle"
       \/ trustJob' = [trustJob EXCEPT !.pc = "save", !.st = st] /\ trustJob'.pc = "save" /\ trustJob'.st = st
  BY <1>1, <1>2 DEF NoTrustJob
<1>11. trustJob' \in TrustJobs BY <1>2, <1>5, <1>10 DEF TrustJobs
<1>12. TrustTypes'
  BY <1>1, <1>2, <1>4, <1>9, <1>11, TypesSuffice DEF TrustTypes, TrustTypeOK, trustWorld
<1>13. ToldInv' BY <1>1, <1>7, <1>10 DEF ToldInv, AtWork
<1>14. RecordedInv'
  <2>1. \A r : ~At(r, "unlink")' BY <1>10 DEF At
  <2>2. Unknown(st)' \subseteq unrecorded'
    BY <1>1, <1>8 DEF Unknown
  <2>3. CASE trustJob'.pc = "save" /\ trustJob'.st = st BY <2>1, <2>2, <2>3 DEF RecordedInv, AtWork, Unknown
  <2>4. CASE trustJob'.pc = "idle" /\ trustState' = st BY <2>1, <2>2, <2>4 DEF RecordedInv, AtWork, Unknown
  <2> QED BY <1>1, <1>10, <2>3, <2>4
<1>15. JobFits' BY <1>10 DEF JobFits, AtWork
<1>16. StateFits'
  BY <1>1, <1>3, <1>6, <1>10 DEF StateFits, Fits, Served
<1>17. ToldOnce' /\ ForeignKept' BY <1>1, <1>9 DEF TrustInv, ToldOnce, ForeignKept
<1> QED BY <1>12, <1>13, <1>14, <1>15, <1>16, <1>17 DEF TrustInv

\* The state file is replaced.
LEMMA SaveKeeps ==
    ASSUME TrustInv, SaveTrustState
    PROVE  TrustInv'
<1>1. /\ TrustTypes /\ AtWork /\ trustJob.pc = "save" /\ trustJob' = NoTrustJob /\ trustJob'.pc = "idle"
      /\ trustState' = trustJob.st
      /\ unrecorded' = unrecorded \cap Unknown(trustJob.st) /\ unsaid' = unsaid \cap Untold(trustJob.st)
      /\ UNCHANGED <<trustWorld, disk, told, retold, harmed, trustCrashesN, trustFaultsN>>
  BY DEF TrustInv, SaveTrustState, AtWork, NoTrustJob
<1>2. ~AtWork' BY <1>1 DEF AtWork
<1>3. TrustTypes'
  BY <1>1, JobIs, TypesSuffice DEF TrustTypes, TrustTypeOK, trustWorld, TrustJobs
<1>4. ToldInv' BY <1>1, <1>2 DEF TrustInv, ToldInv, Untold
<1>5. RecordedInv'
  <2>1. Unknown(trustJob.st) \subseteq unrecorded BY <1>1 DEF TrustInv, RecordedInv
  <2>2. Unknown(trustState)' = Unknown(trustJob.st) BY <1>1 DEF Unknown
  <2>3. \A r : ~At(r, "unlink")' BY <1>1 DEF At
  <2> QED BY <1>1, <1>2, <2>1, <2>2, <2>3 DEF RecordedInv
<1>6. JobFits' /\ StateFits' /\ ToldOnce' /\ ForeignKept'
  BY <1>1, <1>2 DEF TrustInv, JobFits, StateFits, Fits, Served, ToldOnce, ForeignKept
<1> QED BY <1>3, <1>4, <1>5, <1>6 DEF TrustInv

\* The job ends, and what it did is not in the state file.
LEMMA LossKeeps ==
    ASSUME TrustInv, JobLost, trustCrashesN' \in 0..MaxTrustCrashes, trustFaultsN' \in 0..MaxTrustFaults
    PROVE  TrustInv'
<1>1. /\ TrustTypes /\ trustJob' = NoTrustJob /\ trustJob'.pc = "idle"
      /\ unrecorded' = unrecorded \cup Unknown(trustState) /\ unsaid' = unsaid \cup Untold(trustState)
      /\ UNCHANGED <<trustWorld, disk, trustState, told, retold, harmed>>
  BY DEF TrustInv, JobLost, NoTrustJob
<1>2. ~AtWork' BY <1>1 DEF AtWork
<1>3. TrustTypes'
  <2>1. unrecorded' \subseteq SiteRoots /\ unsaid' \subseteq Domains
    BY <1>1 DEF TrustTypes, TrustTypeOK, Unknown, Untold
  <2> QED BY <1>1, <2>1, TypesSuffice DEF TrustTypes, TrustTypeOK, trustWorld, TrustJobs
<1>4. ToldInv' BY <1>1, <1>2 DEF TrustInv, ToldInv, Untold
<1>5. RecordedInv'
  <2>1. Unknown(trustState)' = Unknown(trustState) BY <1>1 DEF Unknown
  <2>2. \A r : ~At(r, "unlink")' BY <1>1 DEF At
  <2> QED BY <1>1, <1>2, <2>1, <2>2 DEF RecordedInv
<1>6. JobFits' /\ StateFits' /\ ToldOnce' /\ ForeignKept'
  BY <1>1, <1>2 DEF TrustInv, JobFits, StateFits, Fits, Served, ToldOnce, ForeignKept
<1> QED BY <1>3, <1>4, <1>5, <1>6 DEF TrustInv

LEMMA TrustStarts == TrustInit => TrustInv
<1> SUFFICES ASSUME TrustInit PROVE TrustInv OBVIOUS
<1>1. trustJob.pc = "idle" /\ ~AtWork /\ trustJob = NoTrustJob BY DEF TrustInit, NoTrustJob, AtWork
<1>2. \A r \in SiteRoots : disk[r] = EmptyRoot /\ trustState.roots[r] = NoRecord
  BY DEF TrustInit
<1>3. /\ trustState \in TrustStates /\ \A d \in Domains : trustState.reported[d] = NotTold
      /\ trustState.roots \in [SiteRoots -> [made : BOOLEAN, tokens : SUBSET TrustTokens]]
      /\ told \in [Domains -> TrustReports] /\ \A d \in Domains : told[d] = NotTold
  BY ReportsAre, NoRecordIs DEF TrustInit, TrustStates
<1>4. disk \in [SiteRoots -> RootStates] /\ \A r \in SiteRoots : RootFine(disk[r]) /\ disk[r].file.by # "agent"
  BY RootsFine, <1>2 DEF TrustInit, RootFine
<1>5. TrustTypes
  <2>1. \A st \in {trustState} \cup (IF trustJob.pc = "idle" THEN {} ELSE {trustJob.st}) :
           /\ \A r \in SiteRoots : st.roots[r].tokens \subseteq TrustTokens /\ st.roots[r].made \in BOOLEAN
           /\ \A d \in Domains : st.reported[d] \in TrustReports
    BY <1>1, <1>3, StateIs
  <2>2. \A r \in SiteRoots :
           /\ disk[r].top \in {"dir", "gone"} /\ disk[r].wk \in {"none", "dir", "link"} /\ disk[r].more \in BOOLEAN
           /\ disk[r].file \in {NoTokens, Foreign, OurFile(disk[r].file.tokens)} /\ disk[r].file.tokens \subseteq TrustTokens
           /\ disk[r].wk # "dir" => disk[r].file = NoTokens /\ ~disk[r].more
    BY <1>4 DEF RootFine, RootStates
  <2>3. /\ trustListed \in [Domains -> 0..MaxTokens] /\ homes \in [Domains -> Homes] /\ trustOff \in BOOLEAN
        /\ unrecorded \subseteq SiteRoots /\ unsaid \subseteq Domains /\ retold \in BOOLEAN /\ harmed \in BOOLEAN
        /\ trustEventsN \in 0..MaxTrustEvents /\ trustCrashesN \in 0..MaxTrustCrashes
        /\ trustFaultsN \in 0..MaxTrustFaults
    <3>1. 1 \in 0..MaxTokens /\ 0 \in 0..MaxTrustEvents /\ 0 \in 0..MaxTrustCrashes /\ 0 \in 0..MaxTrustFaults
      BY BoundsAre
    <3>2. trustListed \in [Domains -> 0..MaxTokens] BY <3>1 DEF TrustInit
    <3>3. homes \in [Domains -> Homes] BY DEF TrustInit
    <3> QED BY <3>1, <3>2, <3>3 DEF TrustInit
  <2> QED BY <1>1, <1>3, <1>4, <2>1, <2>2, <2>3 DEF TrustTypes, TrustTypeOK, TrustJobs
<1>6. ToldInv BY <1>1, <1>3 DEF ToldInv
<1>7. RecordedInv BY <1>1, <1>4 DEF RecordedInv, Unknown, At
<1>8. StateFits
  <2>1. \A d \in Domains : ~Served(trustState, d) BY <1>2, NoRecordIs DEF Served, DomainsOf
  <2> QED BY <1>1, <1>3, <2>1, ReportsAre DEF StateFits, Fits
<1>9. JobFits /\ ToldOnce /\ ForeignKept BY <1>1 DEF JobFits, ToldOnce, ForeignKept, TrustInit
<1> QED BY <1>5, <1>6, <1>7, <1>8, <1>9 DEF TrustInv

LEMMA TrustKeeps == TrustInv /\ [TrustNext]_trustVars => TrustInv'
<1> SUFFICES ASSUME TrustInv, [TrustNext]_trustVars PROVE TrustInv' OBVIOUS
<1>1. CASE UNCHANGED trustVars
  BY <1>1 DEF trustVars, trustWorld, TrustInv, TrustTypes, TrustTypeOK, ToldInv, RecordedInv, JobFits, StateFits,
     Fits, Served, ToldOnce, ForeignKept, Unknown, At, AtWork
<1>2. CASE \/ \E d \in Domains : \/ \E n \in 0..MaxTokens : EditTokens(d, n)
                                 \/ \E h \in Homes : MoveDomain(d, h)
           \/ \E r \in SiteRoots : OwnerChanges(r)
           \/ SwitchTrust
  BY <1>2, EventKeeps
<1>3. CASE TrustSync BY <1>3, SyncKeeps
<1>4. CASE \E r \in SiteRoots : PlaceCheck(r) \/ PlaceWrite(r) \/ RemoveCheck(r) \/ Unlink(r)
  BY <1>4, StepKeeps
<1>5. CASE ReportTrust BY <1>5, ReportKeeps
<1>6. CASE SaveTrustState BY <1>6, SaveKeeps
<1>7. CASE SaveFails
  BY <1>7, LossKeeps, FaultIs DEF SaveFails, TrustInv, TrustTypes, TrustTypeOK
<1>8. CASE TrustCrash
  BY <1>8, LossKeeps, BoundsAre DEF TrustCrash, TrustInv, TrustTypes, TrustTypeOK
<1> QED BY <1>1, <1>2, <1>3, <1>4, <1>5, <1>6, <1>7, <1>8 DEF TrustNext, TrustStep

LEMMA TrustTells == TrustInv => FilesRecorded /\ ToldAsIs /\ ToldOnce /\ ForeignKept
<1> SUFFICES ASSUME TrustInv PROVE FilesRecorded /\ ToldAsIs BY DEF TrustInv
<1>1. FilesRecorded BY DEF TrustInv, RecordedInv, FilesRecorded, AtWork
<1>2. ASSUME trustJob.pc = "idle", NEW d \in Domains \ unsaid
      PROVE  /\ told[d] = NotTold => \A r \in SiteRoots \ unrecorded : d \notin DomainsOf(disk[r].file.tokens)
             /\ told[d].root # 0 => Served(trustState, d)
  <2>1. told[d] = trustState.reported[d] BY <1>2 DEF TrustInv, ToldInv
  <2>2. /\ trustState.reported[d] = NotTold => ~Served(trustState, d)
        /\ trustState.reported[d].root # 0 => Served(trustState, d)
    BY DEF TrustInv, StateFits, Fits
  <2>3. ASSUME told[d] = NotTold, NEW r \in SiteRoots \ unrecorded PROVE d \notin DomainsOf(disk[r].file.tokens)
    <3>1. r \notin Unknown(trustState) BY <1>1, <1>2 DEF FilesRecorded
    <3>2. RootFine(disk[r]) BY DEF TrustInv, TrustTypes, TrustTypeOK, RootFine
    <3>3. disk[r].file.tokens = {} \/ disk[r].file.tokens = trustState.roots[r].tokens
      BY <3>1, <3>2, FilesAre DEF Unknown
    <3>4. DomainsOf({}) = {} BY DEF DomainsOf
    <3> QED BY <2>1, <2>2, <2>3, <3>3, <3>4 DEF Served
  <2> QED BY <2>1, <2>2, <2>3
<1> QED BY <1>1, <1>2 DEF ToldAsIs

\* Whatever fails, whatever the owners of the sites do, and wherever the process
\* ends: between two syncs the state file knows every file the agent has put into a
\* document root, unless the process ended between; what the dashboard was told of a
\* domain fits the files, a result is told once, and no file of someone else is
\* replaced or removed (trust.go applyTrustTokens, trust.Place and Remove).
THEOREM BadgesSafe ==
    TrustInit /\ [][TrustNext]_trustVars => [](FilesRecorded /\ ToldAsIs /\ ToldOnce /\ ForeignKept)
<1>1. TrustInit /\ [][TrustNext]_trustVars => []TrustInv BY TrustStarts, TrustKeeps, PTL
<1> QED BY <1>1, TrustTells, PTL

----------------------------------------------------------------------------

(***************************************************************************)
(* Theorems about Sessions, for any processes, accounts and lines of the log,*)
(* any rotations and any pass of the tail: a login is told of once, and with*)
(* no more than was run; and for any logins and restarts, that one said to be*)
(* scheduled is one of a series.                                          *)
(***************************************************************************)

(* The sessions.                                                           *)

Accounts == {Owner[p] : p \in Pids}
Lines == [kind : {"login", "command", "logout"}, pid : Pids, login : Logins, times : {0, 1}]
Tally == [login : 0..loginsN, cmds : Nat, old : BOOLEAN]

\* The types; what is in the log is of a login there was.
SessionTypes ==
    /\ loginsN \in 0..MaxLogins /\ written \in 0..MaxLines
    /\ sshd \in [Pids -> 0..loginsN]
    /\ auditLog \in Seq(Lines) /\ Len(auditLog) <= written
    /\ \A i \in DOMAIN auditLog : auditLog[i].login <= loginsN
    /\ offset \in 0..MaxLines /\ pass \in [to : Nat, at : Nat] /\ active \in BOOLEAN
    /\ sessions \in [Pids -> Tally] /\ \A p \in Pids : sessions[p].old => sessions[p].login # 0
    /\ closing \subseteq [by : {"logout", "timeout"}, s : Tally] /\ \A c \in closing : c.s.login # 0
    /\ reports \in [Logins -> Nat] /\ \A l \in Logins : l > loginsN => reports[l] = 0
    /\ ran \in [Logins -> [by : SUBSET Accounts, cmds : Nat]] /\ \A l \in Logins : ran[l].cmds <= written

\* Where the tail is: what it has passed it has read, in order; of a file that is
\* shorter than it, nothing.
TailInv ==
    /\ pass # NoPass => pass.to <= Len(auditLog) /\ offset < pass.to /\ offset <= pass.at /\ pass.at <= Len(auditLog)
    /\ \A i \in DOMAIN auditLog : offset < i /\ i <= pass.at => auditLog[i].times = 1
    /\ \A i, j \in DOMAIN auditLog : offset < i /\ i < j /\ auditLog[j].times = 1 => auditLog[i].times = 1
    /\ Len(auditLog) < offset => \A i \in DOMAIN auditLog : auditLog[i].times = 0

LoginLine(i, l) == auditLog[i].kind = "login" /\ auditLog[i].login = l
OfAccount(i, l) == auditLog[i].kind = "command" /\ Owner[auditLog[i].pid] \in ran[l].by
\* The commands in the log that the account of a login ran since, and the unread ones.
After(l) == {i \in DOMAIN auditLog : OfAccount(i, l) /\ \A j \in DOMAIN auditLog : LoginLine(j, l) => j < i}
Due(l) == {i \in After(l) : auditLog[i].times = 0}

\* A login has one line, with its account; what its account ran is counted.
LoginsInv ==
    /\ \A i, j \in DOMAIN auditLog, l \in Logins : LoginLine(i, l) /\ LoginLine(j, l) => i = j
    /\ \A i \in DOMAIN auditLog, l \in Logins :
         LoginLine(i, l) => ran[l].by = {Owner[auditLog[i].pid]} /\ Cardinality(After(l)) <= ran[l].cmds

\* A login is open once, or leaving once, or reported once, and its line was read.
Taken(l) == reports[l] > 0 \/ (\E p \in Pids : sessions[p].login = l) \/ \E c \in closing : c.s.login = l
OnceInv(l) ==
    /\ reports[l] <= 1
    /\ reports[l] > 0 => (\A p \in Pids : sessions[p].login # l) /\ \A c \in closing : c.s.login # l
    /\ \A p \in Pids : sessions[p].login = l => \A c \in closing : c.s.login # l
    /\ \A p, q \in Pids : sessions[p].login = l /\ sessions[q].login = l => p = q
    /\ \A c, d \in closing : c.s.login = l /\ d.s.login = l => c = d
    /\ Taken(l) => \A i \in DOMAIN auditLog : LoginLine(i, l) => auditLog[i].times = 1

\* A session is credited with what its account ran, and may be with what is unread.
CreditInv(l) ==
    \A p \in Pids : sessions[p].login = l =>
        ran[l].by = {Owner[p]} /\ sessions[p].cmds + Cardinality(Due(l)) <= ran[l].cmds

SessionInv == SessionTypes /\ TailInv /\ LoginsInv /\ \A l \in Logins \ seenTwice : OnceInv(l) /\ CreditInv(l)

LEMMA SessionConstants ==
    /\ MaxLogins \in Nat /\ MaxLines \in Nat /\ Logins = 1..MaxLogins
    /\ NoPass \in [to : Nat, at : Nat] /\ NoPass.at = 0 /\ NoPass.to = 0
    /\ Nobody.login = 0 /\ Nobody.cmds = 0 /\ ~Nobody.old
BY SessionBounds DEF Logins, NoPass, Nobody

LEMMA LogIs ==
    ASSUME SessionTypes
    PROVE  /\ DOMAIN auditLog = 1..Len(auditLog) /\ Len(auditLog) \in Nat
           /\ \A i \in DOMAIN auditLog : auditLog[i] \in Lines
           /\ \A l : IsFiniteSet(After(l)) /\ IsFiniteSet(Due(l))
                     /\ Cardinality(After(l)) \in Nat /\ Cardinality(Due(l)) \in Nat
                     /\ Cardinality(Due(l)) <= Cardinality(After(l))
<1>1. DOMAIN auditLog = 1..Len(auditLog) /\ Len(auditLog) \in Nat
  BY DEF SessionTypes
<1>2. \A i \in DOMAIN auditLog : auditLog[i] \in Lines
  BY DEF SessionTypes
<1>3. ASSUME NEW l
      PROVE  /\ IsFiniteSet(After(l)) /\ IsFiniteSet(Due(l))
             /\ Cardinality(After(l)) \in Nat /\ Cardinality(Due(l)) \in Nat
             /\ Cardinality(Due(l)) <= Cardinality(After(l))
  <2>1. IsFiniteSet(1..Len(auditLog)) BY <1>1, FS_Interval
  <2>2. IsFiniteSet(After(l)) BY <1>1, <2>1, FS_Subset DEF After
  <2>3. Due(l) \subseteq After(l) BY DEF Due
  <2> QED BY <2>2, <2>3, FS_Subset, FS_CardinalityType
<1> QED BY <1>1, <1>2, <1>3

\* What a line that is written changes.
LEMMA AppendIs ==
    ASSUME SessionTypes, NEW e \in {"login", "command", "logout"}, NEW p \in Pids, NEW l \in Logins,
           Write(e, p, l)
    PROVE  /\ written' = written + 1 /\ written' \in 0..MaxLines
           /\ auditLog' \in Seq(Lines) /\ Len(auditLog') = Len(auditLog) + 1
           /\ DOMAIN auditLog = 1..Len(auditLog) /\ DOMAIN auditLog' = 1..(Len(auditLog) + 1)
           /\ \A i \in DOMAIN auditLog : auditLog'[i] = auditLog[i]
           /\ auditLog'[Len(auditLog) + 1] = [kind |-> e, pid |-> p, login |-> l, times |-> 0]
<1>1. [kind |-> e, pid |-> p, login |-> l, times |-> 0] \in Lines
  BY DEF Lines
<1>2. auditLog \in Seq(Lines) /\ written < MaxLines /\ written \in 0..MaxLines
  BY DEF SessionTypes, Write
<1> QED BY <1>1, <1>2, SessionConstants DEF Write

LEMMA TailAppends ==
    ASSUME SessionTypes, TailInv, NEW e \in {"login", "command", "logout"}, NEW p \in Pids, NEW l \in Logins,
           Write(e, p, l), UNCHANGED reading
    PROVE  TailInv'
<1>1. UNCHANGED <<offset, pass>> /\ offset \in Nat /\ pass \in [to : Nat, at : Nat] /\ pass.at \in Nat /\ pass.to \in Nat
  BY SessionConstants DEF reading, SessionTypes
<1>2. Len(auditLog) \in Nat
  BY LogIs
<1>3. ASSUME pass = NoPass \/ pass.at <= Len(auditLog)
      PROVE  pass.at <= Len(auditLog)
  BY <1>2, <1>3, SessionConstants
<1>4. pass.at <= Len(auditLog) BY <1>3 DEF TailInv
<1> DEFINE n == Len(auditLog)
<1>5. /\ DOMAIN auditLog = 1..n /\ DOMAIN auditLog' = 1..(n + 1) /\ Len(auditLog') = n + 1
      /\ \A i \in 1..n : auditLog'[i] = auditLog[i]
      /\ auditLog'[n + 1].times = 0
  <2>1. DOMAIN auditLog = 1..n /\ DOMAIN auditLog' = 1..(n + 1) /\ Len(auditLog') = n + 1 BY AppendIs
  <2>2. \A i \in 1..n : auditLog'[i] = auditLog[i] BY AppendIs
  <2>3. auditLog'[n + 1] = [kind |-> e, pid |-> p, login |-> l, times |-> 0] BY AppendIs
  <2> QED BY <2>1, <2>2, <2>3
<1> HIDE DEF n
<1>6. (pass # NoPass => pass.to <= Len(auditLog) /\ offset < pass.to /\ offset <= pass.at /\ pass.at <= Len(auditLog))'
  BY <1>1, <1>2, <1>5 DEF TailInv, n
<1>7. (\A i \in DOMAIN auditLog : offset < i /\ i <= pass.at => auditLog[i].times = 1)'
  BY <1>1, <1>2, <1>4, <1>5 DEF TailInv, n
<1>8. (\A i, j \in DOMAIN auditLog : offset < i /\ i < j /\ auditLog[j].times = 1 => auditLog[i].times = 1)'
  <2> SUFFICES ASSUME NEW i \in 1..(n + 1), NEW j \in 1..(n + 1), offset < i, i < j, auditLog'[j].times = 1
               PROVE  auditLog'[i].times = 1
    BY <1>1, <1>5
  <2>1. n \in Nat BY <1>2 DEF n
  <2>2. j # n + 1 BY <1>5
  <2>3. i \in 1..n /\ j \in 1..n BY <2>1, <2>2
  <2> QED BY <1>5, <2>3 DEF TailInv
<1>9. (Len(auditLog) < offset => \A i \in DOMAIN auditLog : auditLog[i].times = 0)'
  BY <1>1, <1>2, <1>5 DEF TailInv, n
<1> QED BY <1>6, <1>7, <1>8, <1>9 DEF TailInv

\* The steps that leave the log and what was run alone, or mark lines as read.
SameLines ==
    /\ Len(auditLog') = Len(auditLog) /\ DOMAIN auditLog' = DOMAIN auditLog
    /\ \A i \in DOMAIN auditLog : /\ auditLog'[i].kind = auditLog[i].kind /\ auditLog'[i].pid = auditLog[i].pid
                                  /\ auditLog'[i].login = auditLog[i].login
    /\ UNCHANGED ran
LEMMA LoginsStay ==
    ASSUME SessionTypes, LoginsInv, SameLines
    PROVE  LoginsInv' /\ \A l \in Logins : After(l)' = After(l)
<1>1. \A i \in DOMAIN auditLog : \A l : (LoginLine(i, l)' <=> LoginLine(i, l)) /\ (OfAccount(i, l)' <=> OfAccount(i, l))
  BY DEF SameLines, LoginLine, OfAccount
<1>2. \A l : After(l)' = After(l)
  BY <1>1 DEF SameLines, After
<1> QED BY <1>1, <1>2 DEF LoginsInv, SameLines

\* A login, not there before, is written.
LEMMA LoginWritten ==
    ASSUME SessionInv, NEW p \in Pids, LogIn(p)
    PROVE  LoginsInv' /\ \A l \in Logins \ seenTwice : (OnceInv(l) /\ CreditInv(l))'
<1>0. PICK n \in Nat, m \in Nat : n = Len(auditLog) /\ m = loginsN + 1
  BY SessionConstants, LogIs DEF SessionInv, SessionTypes
<1>1. /\ SessionTypes /\ LoginsInv /\ \A l \in Logins \ seenTwice : OnceInv(l) /\ CreditInv(l)
  BY DEF SessionInv
<1>2. /\ loginsN' = m /\ m \in Logins /\ loginsN \in Nat /\ loginsN < m
      /\ UNCHANGED <<reading, active, sessions, closing, reports, seenTwice, rest>>
      /\ ran' = [ran EXCEPT ![m].by = {Owner[p]}]
      /\ Write("login", p, m)
  BY <1>0, <1>1, SessionConstants DEF LogIn, SessionTypes
<1>3. /\ DOMAIN auditLog = 1..n /\ DOMAIN auditLog' = 1..(n + 1) /\ Len(auditLog') = n + 1 /\ n \in Nat
      /\ \A i \in 1..n : auditLog'[i] = auditLog[i]
      /\ auditLog'[n + 1] = [kind |-> "login", pid |-> p, login |-> m, times |-> 0]
      /\ \A i \in 1..n : auditLog[i].login # m
  <2>1. DOMAIN auditLog = 1..n /\ n \in Nat BY <1>0, <1>1, LogIs
  <2>2. \A i \in 1..n : auditLog[i].login <= loginsN /\ auditLog[i] \in Lines
    BY <1>1, <2>1, LogIs DEF SessionTypes
  <2>3. \A i \in 1..n : auditLog[i].login # m
    BY <1>2, <2>2, SessionConstants DEF Lines
  <2>4. DOMAIN auditLog' = 1..(n + 1) /\ Len(auditLog') = n + 1 BY <1>0, <1>1, <1>2, AppendIs
  <2>5. \A i \in 1..n : auditLog'[i] = auditLog[i] BY <1>1, <1>2, <2>1, AppendIs
  <2>6. auditLog'[n + 1] = [kind |-> "login", pid |-> p, login |-> m, times |-> 0] BY <1>0, <1>1, <1>2, AppendIs
  <2> QED BY <2>1, <2>3, <2>4, <2>5, <2>6
<1>4. /\ ran'[m].by = {Owner[p]} /\ \A l \in Logins : l # m => ran'[l] = ran[l]
      /\ \A l \in Logins : ran'[l].cmds = ran[l].cmds /\ ran[l].cmds \in Nat
  BY <1>1, <1>2 DEF SessionTypes
<1>5. ASSUME NEW l \in Logins, l # m
      PROVE  /\ \A i \in 1..n : (LoginLine(i, l)' <=> LoginLine(i, l)) /\ (OfAccount(i, l)' <=> OfAccount(i, l))
             /\ ~LoginLine(n + 1, l)' /\ ~OfAccount(n + 1, l)'
             /\ After(l)' = After(l) /\ Due(l)' = Due(l)
  <2>1. /\ \A i \in 1..n : (LoginLine(i, l)' <=> LoginLine(i, l)) /\ (OfAccount(i, l)' <=> OfAccount(i, l))
        /\ ~LoginLine(n + 1, l)' /\ ~OfAccount(n + 1, l)'
    BY <1>3, <1>4, <1>5 DEF LoginLine, OfAccount
  <2>2. 1..(n + 1) = 1..n \cup {n + 1} /\ n + 1 \notin 1..n BY <1>3
  <2>3. After(l)' = After(l) BY <1>3, <2>1, <2>2 DEF After
  <2>4. Due(l)' = Due(l)
    <3>1. \A i \in After(l) : i \in 1..n BY <1>3 DEF After
    <3> QED BY <1>3, <2>3, <3>1 DEF Due
  <2> QED BY <2>1, <2>3, <2>4
<1>6. LoginLine(n + 1, m)' /\ (\A i \in 1..n : ~LoginLine(i, m)' /\ ~LoginLine(i, m)) /\ After(m)' = {}
  <2>1. LoginLine(n + 1, m)' /\ (\A i \in 1..n : ~LoginLine(i, m)' /\ ~LoginLine(i, m)) /\ ~OfAccount(n + 1, m)'
    BY <1>3 DEF LoginLine, OfAccount
  <2>2. After(m)' = {} 
    BY <1>3, <2>1 DEF After
  <2> QED BY <2>1, <2>2
<1>7. 1..(n + 1) = 1..n \cup {n + 1} /\ n + 1 \notin 1..n BY <1>3
<1>8. LoginsInv'
  <2>1. (\A i, j \in DOMAIN auditLog, l \in Logins : LoginLine(i, l) /\ LoginLine(j, l) => i = j)'
    <3> SUFFICES ASSUME NEW i \in 1..(n + 1), NEW j \in 1..(n + 1), NEW l \in Logins, LoginLine(i, l)', LoginLine(j, l)'
                 PROVE  i = j
      BY <1>3 DEF Logins
    <3>1. CASE l = m BY <1>6, <1>7, <3>1
    <3>2. CASE l # m BY <1>1, <1>3, <1>5, <1>7, <3>2 DEF LoginsInv
    <3> QED BY <3>1, <3>2
  <2>2. (\A i \in DOMAIN auditLog, l \in Logins :
           LoginLine(i, l) => ran[l].by = {Owner[auditLog[i].pid]} /\ Cardinality(After(l)) <= ran[l].cmds)'
    <3> SUFFICES ASSUME NEW i \in 1..(n + 1), NEW l \in Logins, LoginLine(i, l)'
                 PROVE  ran'[l].by = {Owner[auditLog'[i].pid]} /\ Cardinality(After(l)') <= ran'[l].cmds
      BY <1>3 DEF Logins
    <3>1. CASE l = m
      <4>1. i = n + 1 /\ auditLog'[n + 1].pid = p BY <1>3, <1>6, <1>7, <3>1
      <4>2. Cardinality(After(l)') = 0 BY <1>6, <3>1, FS_EmptySet
      <4> QED BY <1>2, <1>4, <3>1, <4>1, <4>2
    <3>2. CASE l # m BY <1>1, <1>3, <1>4, <1>5, <1>7, <3>2 DEF LoginsInv
    <3> QED BY <3>1, <3>2
  <2> QED BY <2>1, <2>2 DEF LoginsInv
<1>9. ASSUME NEW l \in Logins \ seenTwice PROVE OnceInv(l)' /\ CreditInv(l)'
  <2>1. OnceInv(l) /\ CreditInv(l) BY <1>1
  <2>2. CASE l # m
    BY <1>2, <1>3, <1>4, <1>5, <1>7, <2>1, <2>2 DEF OnceInv, CreditInv, Taken
  <2>3. CASE l = m
    <3>1. (\A q \in Pids : sessions[q].login # l) /\ (\A c \in closing : c.s.login # l) /\ reports[l] = 0
      <4>1. loginsN \in Nat /\ loginsN < l /\ l \in Logins
        BY <1>2, <2>3
      <4>2. (\A q \in Pids : sessions[q].login \in 0..loginsN) /\ \A c \in closing : c.s.login \in 0..loginsN
        <5>1. \A q \in Pids : sessions[q] \in Tally
          BY <1>1 DEF SessionTypes
        <5>2. \A c \in closing : c.s \in Tally
          BY <1>1 DEF SessionTypes
        <5>3. \A t \in Tally : t.login \in 0..loginsN
          BY DEF Tally
        <5> QED BY <5>1, <5>2, <5>3
      <4>3. reports[l] = 0
        <5>1. \A k \in Logins : k > loginsN => reports[k] = 0
          BY <1>1 DEF SessionTypes
        <5> QED BY <4>1, <5>1
      <4> QED BY <4>1, <4>2, <4>3
    <3> QED BY <1>2, <2>1, <2>3, <3>1 DEF OnceInv, CreditInv, Taken
  <2> QED BY <2>2, <2>3
<1> QED BY <1>2, <1>8, <1>9 DEF Logins

\* A command, or a logout, is written.
LEMMA CommandWritten ==
    ASSUME SessionInv, NEW p \in Pids, Command(p)
    PROVE  LoginsInv' /\ \A l \in Logins \ seenTwice : (OnceInv(l) /\ CreditInv(l))'
<1>0. PICK n \in Nat, m \in Nat : n = Len(auditLog) /\ m = sshd[p]
  BY SessionConstants, LogIs DEF SessionInv, SessionTypes
<1>1. /\ SessionTypes /\ LoginsInv /\ \A l \in Logins \ seenTwice : OnceInv(l) /\ CreditInv(l)
  BY DEF SessionInv
<1>2. /\ m \in Logins /\ Write("command", p, m)
      /\ UNCHANGED <<sshd, loginsN, reading, active, sessions, closing, reports, seenTwice, rest>>
      /\ ran' = [l \in Logins |-> IF Owner[p] \in ran[l].by THEN [ran[l] EXCEPT !.cmds = @ + 1] ELSE ran[l]]
  BY <1>0, <1>1, SessionConstants DEF Command, SessionTypes
<1>3. /\ DOMAIN auditLog = 1..n /\ DOMAIN auditLog' = 1..(n + 1) /\ Len(auditLog') = n + 1
      /\ \A i \in 1..n : auditLog'[i] = auditLog[i]
      /\ auditLog'[n + 1] = [kind |-> "command", pid |-> p, login |-> m, times |-> 0]
  <2>1. DOMAIN auditLog = 1..n BY <1>0, <1>1, LogIs
  <2>4. DOMAIN auditLog' = 1..(n + 1) /\ Len(auditLog') = n + 1 BY <1>0, <1>1, <1>2, AppendIs
  <2>5. \A i \in 1..n : auditLog'[i] = auditLog[i] BY <1>1, <1>2, <2>1, AppendIs
  <2>6. auditLog'[n + 1] = [kind |-> "command", pid |-> p, login |-> m, times |-> 0] BY <1>0, <1>1, <1>2, AppendIs
  <2> QED BY <2>1, <2>4, <2>5, <2>6
<1>4. \A l \in Logins : /\ ran'[l].by = ran[l].by /\ ran[l].cmds \in Nat
                        /\ Owner[p] \in ran[l].by => ran'[l].cmds = ran[l].cmds + 1
                        /\ Owner[p] \notin ran[l].by => ran'[l].cmds = ran[l].cmds
  BY <1>1, <1>2 DEF SessionTypes
<1>5. 1..(n + 1) = 1..n \cup {n + 1} /\ n + 1 \notin 1..n
  OBVIOUS
<1>6. ASSUME NEW l \in Logins
      PROVE  /\ \A i \in 1..n : LoginLine(i, l)' <=> LoginLine(i, l)
             /\ ~LoginLine(n + 1, l)'
             /\ Cardinality(After(l))' - ran'[l].cmds <= Cardinality(After(l)) - ran[l].cmds
             /\ Cardinality(Due(l))' - ran'[l].cmds <= Cardinality(Due(l)) - ran[l].cmds
             /\ Cardinality(After(l))' \in Nat /\ Cardinality(Due(l))' \in Nat
  <2>1. /\ \A i \in 1..n : (LoginLine(i, l)' <=> LoginLine(i, l)) /\ (OfAccount(i, l)' <=> OfAccount(i, l))
        /\ ~LoginLine(n + 1, l)' /\ (OfAccount(n + 1, l)' <=> Owner[p] \in ran[l].by)
        /\ auditLog'[n + 1].times = 0
    BY <1>3, <1>4 DEF LoginLine, OfAccount
  <2> DEFINE new == IF Owner[p] \in ran[l].by THEN {n + 1} ELSE {}
  <2>2. After(l)' = After(l) \cup new BY <1>3, <1>5, <2>1 DEF After
  <2>3. Due(l)' = Due(l) \cup new
    <3>1. \A i \in After(l) : i \in 1..n BY <1>3 DEF After
    <3> QED BY <1>3, <1>5, <2>1, <2>2, <3>1 DEF Due
  <2>4. /\ IsFiniteSet(After(l)) /\ IsFiniteSet(Due(l)) /\ n + 1 \notin After(l) /\ n + 1 \notin Due(l)
        /\ Cardinality(After(l)) \in Nat /\ Cardinality(Due(l)) \in Nat
    BY <1>1, <1>3, <1>5, LogIs DEF After, Due
  <2>5. CASE Owner[p] \in ran[l].by
    <3>1. After(l)' = After(l) \cup {n + 1} /\ Due(l)' = Due(l) \cup {n + 1} BY <2>2, <2>3, <2>5
    <3>2. Cardinality(After(l)') = Cardinality(After(l)) + 1 /\ Cardinality(Due(l)') = Cardinality(Due(l)) + 1
      BY <2>4, <3>1, FS_AddElement
    <3> QED BY <1>4, <2>1, <2>4, <2>5, <3>2
  <2>6. CASE Owner[p] \notin ran[l].by
    <3>1. After(l)' = After(l) /\ Due(l)' = Due(l) BY <2>2, <2>3, <2>6
    <3> QED BY <1>4, <2>1, <2>4, <2>6, <3>1
  <2> QED BY <2>5, <2>6
<1>7. LoginsInv'
  <2>1. (\A i, j \in DOMAIN auditLog, l \in Logins : LoginLine(i, l) /\ LoginLine(j, l) => i = j)'
    BY <1>1, <1>3, <1>5, <1>6 DEF LoginsInv, Logins
  <2>2. (\A i \in DOMAIN auditLog, l \in Logins :
           LoginLine(i, l) => ran[l].by = {Owner[auditLog[i].pid]} /\ Cardinality(After(l)) <= ran[l].cmds)'
    <3> SUFFICES ASSUME NEW i \in 1..(n + 1), NEW l \in Logins, LoginLine(i, l)'
                 PROVE  ran'[l].by = {Owner[auditLog'[i].pid]} /\ Cardinality(After(l))' <= ran'[l].cmds
      BY <1>3 DEF Logins
    <3>1. i \in 1..n /\ LoginLine(i, l) BY <1>5, <1>6
    <3>2. ran[l].by = {Owner[auditLog[i].pid]} /\ Cardinality(After(l)) <= ran[l].cmds
      BY <1>1, <1>3, <3>1 DEF LoginsInv
    <3>3. Cardinality(After(l)) \in Nat /\ ran'[l].cmds \in Nat BY <1>1, <1>4, LogIs
    <3>4. Cardinality(After(l))' <= ran'[l].cmds BY <1>1, <1>4, <1>6, <3>2, <3>3
    <3> QED BY <1>3, <1>4, <3>1, <3>2, <3>4
  <2> QED BY <2>1, <2>2 DEF LoginsInv
<1>8. ASSUME NEW l \in Logins \ seenTwice PROVE OnceInv(l)' /\ CreditInv(l)'
  <2>1. OnceInv(l) /\ CreditInv(l) BY <1>1
  <2>2. OnceInv(l)' BY <1>2, <1>3, <1>5, <1>6, <2>1 DEF OnceInv, Taken
  <2>3. CreditInv(l)'
    <3> SUFFICES ASSUME NEW q \in Pids, sessions[q].login = l
                 PROVE  ran'[l].by = {Owner[q]} /\ sessions[q].cmds + Cardinality(Due(l))' <= ran'[l].cmds
      BY <1>2 DEF CreditInv
    <3>1. ran[l].by = {Owner[q]} /\ sessions[q].cmds + Cardinality(Due(l)) <= ran[l].cmds
      BY <2>1 DEF CreditInv
    <3>2. sessions[q].cmds \in Nat /\ Cardinality(Due(l)) \in Nat /\ ran'[l].cmds \in Nat
      <4>1. sessions[q].cmds \in Nat
        BY <1>1 DEF SessionTypes, Tally
      <4>2. Cardinality(Due(l)) \in Nat
        BY <1>1, LogIs
      <4>3. ran[l].cmds \in Nat /\ (ran'[l].cmds = ran[l].cmds \/ ran'[l].cmds = ran[l].cmds + 1)
        BY <1>4
      <4> QED BY <4>1, <4>2, <4>3
    <3> QED BY <1>4, <1>6, <3>1, <3>2
  <2> QED BY <2>2, <2>3
<1> QED BY <1>2, <1>7, <1>8 DEF Logins

\* What is neither a login nor a command changes nothing of what was run.
LEMMA LogoutWritten ==
    ASSUME SessionInv, NEW p \in Pids, LogOut(p)
    PROVE  LoginsInv' /\ \A l \in Logins \ seenTwice : (OnceInv(l) /\ CreditInv(l))'
<1>0. PICK n \in Nat, m \in Nat : n = Len(auditLog) /\ m = sshd[p]
  BY SessionConstants, LogIs DEF SessionInv, SessionTypes
<1>1. /\ SessionTypes /\ LoginsInv /\ \A l \in Logins \ seenTwice : OnceInv(l) /\ CreditInv(l)
  BY DEF SessionInv
<1>2. /\ m \in Logins /\ Write("logout", p, m)
      /\ UNCHANGED <<ran, loginsN, reading, active, sessions, closing, reports, seenTwice, rest>>
  <2>1. loginsN \in 0..MaxLogins /\ sshd[p] \in 0..loginsN
    BY <1>1 DEF SessionTypes
  <2>2. /\ sshd[p] # 0 /\ Write("logout", p, sshd[p])
        /\ UNCHANGED <<ran, loginsN, reading, active, sessions, closing, reports, seenTwice, rest>>
    BY DEF LogOut
  <2>3. sshd[p] \in 1..MaxLogins
    BY <2>1, <2>2, SessionConstants
  <2> QED BY <1>0, <2>2, <2>3, SessionConstants
<1>3. /\ DOMAIN auditLog = 1..n /\ DOMAIN auditLog' = 1..(n + 1)
      /\ \A i \in 1..n : auditLog'[i] = auditLog[i]
      /\ auditLog'[n + 1].kind = "logout"
  <2>1. DOMAIN auditLog = 1..n BY <1>0, <1>1, LogIs
  <2>4. DOMAIN auditLog' = 1..(n + 1) BY <1>0, <1>1, <1>2, AppendIs
  <2>5. \A i \in 1..n : auditLog'[i] = auditLog[i] BY <1>1, <1>2, <2>1, AppendIs
  <2>6. auditLog'[n + 1] = [kind |-> "logout", pid |-> p, login |-> m, times |-> 0] BY <1>0, <1>1, <1>2, AppendIs
  <2> QED BY <2>1, <2>4, <2>5, <2>6
<1>4. 1..(n + 1) = 1..n \cup {n + 1} /\ n + 1 \notin 1..n
  OBVIOUS
<1>5. ASSUME NEW l \in Logins
      PROVE  /\ \A i \in 1..n : LoginLine(i, l)' <=> LoginLine(i, l)
             /\ ~LoginLine(n + 1, l)' /\ After(l)' = After(l) /\ Due(l)' = Due(l)
  <2>1. /\ \A i \in 1..n : (LoginLine(i, l)' <=> LoginLine(i, l)) /\ (OfAccount(i, l)' <=> OfAccount(i, l))
        /\ ~LoginLine(n + 1, l)' /\ ~OfAccount(n + 1, l)'
    BY <1>2, <1>3 DEF LoginLine, OfAccount
  <2>2. After(l)' = After(l) BY <1>3, <1>4, <2>1 DEF After
  <2>3. \A i \in After(l) : i \in 1..n BY <1>3 DEF After
  <2>4. Due(l)' = Due(l) BY <1>3, <2>2, <2>3 DEF Due
  <2> QED BY <2>1, <2>2, <2>4
<1>6. LoginsInv'
  BY <1>1, <1>2, <1>3, <1>4, <1>5 DEF LoginsInv, Logins
<1>7. ASSUME NEW l \in Logins \ seenTwice PROVE OnceInv(l)' /\ CreditInv(l)'
  <2>1. OnceInv(l) /\ CreditInv(l) BY <1>1
  <2>2. OnceInv(l)' BY <1>2, <1>3, <1>4, <1>5, <2>1 DEF OnceInv, Taken
  <2>3. CreditInv(l)' BY <1>2, <1>5, <2>1 DEF CreditInv
  <2> QED BY <2>2, <2>3
<1> QED BY <1>2, <1>6, <1>7 DEF Logins

LEMMA HostWrites ==
    ASSUME SessionInv, NEW p \in Pids, LogIn(p) \/ Command(p) \/ LogOut(p)
    PROVE  SessionInv'
<1>1. SessionTypes /\ TailInv /\ seenTwice' = seenTwice /\ UNCHANGED <<reading, active, sessions, closing, reports>>
  BY DEF SessionInv, LogIn, Command, LogOut
<1>2. LoginsInv' /\ \A l \in Logins \ seenTwice : (OnceInv(l) /\ CreditInv(l))'
  BY LoginWritten, CommandWritten, LogoutWritten
<1>3. PICK e \in {"login", "command", "logout"}, m \in Logins :
         /\ Write(e, p, m) /\ loginsN' \in 0..MaxLogins /\ loginsN <= loginsN' /\ m <= loginsN'
         /\ sshd' \in [Pids -> 0..loginsN']
         /\ ran' \in [Logins -> [by : SUBSET Accounts, cmds : Nat]]
         /\ \A l \in Logins : ran'[l].cmds <= written + 1
  <2>1. loginsN \in 0..MaxLogins /\ sshd \in [Pids -> 0..loginsN] /\ written \in Nat
        /\ ran \in [Logins -> [by : SUBSET Accounts, cmds : Nat]] /\ \A l \in Logins : ran[l].cmds <= written
        /\ Owner[p] \in Accounts
    BY <1>1, SessionConstants DEF SessionTypes, Accounts
  <2>2. CASE LogIn(p)
    <3> DEFINE m == loginsN + 1
    <3>1. /\ m \in Logins /\ Write("login", p, m) /\ loginsN' = m
          /\ sshd' = [sshd EXCEPT ![p] = m] /\ ran' = [ran EXCEPT ![m].by = {Owner[p]}]
      BY <2>1, <2>2, SessionConstants DEF LogIn
    <3>2. sshd' \in [Pids -> 0..loginsN'] BY <2>1, <3>1, SessionConstants
    <3>3. ran' \in [Logins -> [by : SUBSET Accounts, cmds : Nat]] /\ \A l \in Logins : ran'[l].cmds <= written + 1
      BY <2>1, <3>1
    <3>4. loginsN' \in 0..MaxLogins /\ loginsN <= loginsN' /\ m <= loginsN' BY <2>1, <3>1, SessionConstants
    <3> QED BY <3>1, <3>2, <3>3, <3>4
  <2>3. CASE Command(p)
    <3>1. /\ sshd[p] \in Logins /\ sshd[p] <= loginsN /\ Write("command", p, sshd[p]) /\ loginsN' = loginsN
          /\ sshd' = sshd
          /\ ran' = [l \in Logins |-> IF Owner[p] \in ran[l].by THEN [ran[l] EXCEPT !.cmds = @ + 1] ELSE ran[l]]
      BY <2>1, <2>3, SessionConstants DEF Command
    <3>2. ran' \in [Logins -> [by : SUBSET Accounts, cmds : Nat]] /\ \A l \in Logins : ran'[l].cmds <= written + 1
      BY <2>1, <3>1
    <3>3. loginsN' \in 0..MaxLogins /\ loginsN <= loginsN' /\ sshd' \in [Pids -> 0..loginsN']
      BY <2>1, <3>1, SessionConstants
    <3>4. PICK m \in Logins : m <= loginsN' /\ Write("command", p, m)
      BY <3>1
    <3> QED BY <3>2, <3>3, <3>4
  <2>4. CASE LogOut(p)
    <3>1. /\ sshd[p] \in Logins /\ sshd[p] <= loginsN /\ Write("logout", p, sshd[p]) /\ loginsN' = loginsN
          /\ sshd' = [sshd EXCEPT ![p] = 0] /\ ran' = ran
      BY <2>1, <2>4, SessionConstants DEF LogOut
    <3>2. ran' \in [Logins -> [by : SUBSET Accounts, cmds : Nat]] /\ \A l \in Logins : ran'[l].cmds <= written + 1
      BY <2>1, <3>1
    <3> QED BY <2>1, <3>1, <3>2, SessionConstants
  <2> QED BY <2>2, <2>3, <2>4
<1>4. TailInv' BY <1>1, <1>3, TailAppends
<1>5. SessionTypes'
  <2> DEFINE n == Len(auditLog)
  <2>1. /\ written' = written + 1 /\ written' \in 0..MaxLines /\ auditLog' \in Seq(Lines)
        /\ Len(auditLog') = n + 1 /\ DOMAIN auditLog = 1..n /\ DOMAIN auditLog' = 1..(n + 1)
        /\ \A i \in DOMAIN auditLog : auditLog'[i] = auditLog[i]
    BY <1>1, <1>3, AppendIs
  <2>2. auditLog'[n + 1].login = m
    <3>1. auditLog'[n + 1] = [kind |-> e, pid |-> p, login |-> m, times |-> 0] BY <1>1, <1>3, AppendIs
    <3> QED BY <3>1
  <2>3. \A i \in DOMAIN auditLog' : auditLog'[i].login <= loginsN'
    <3> SUFFICES ASSUME NEW i \in 1..(n + 1) PROVE auditLog'[i].login <= loginsN'
      BY <2>1
    <3>0. n \in Nat BY <1>1, LogIs
    <3>1. CASE i = n + 1 BY <1>3, <2>2, <3>1
    <3>2. CASE i # n + 1
      <4>1. i \in DOMAIN auditLog BY <2>1, <3>0, <3>2
      <4>2. auditLog[i] \in Lines /\ auditLog[i].login <= loginsN BY <1>1, <4>1, LogIs DEF SessionTypes
      <4>3. auditLog[i].login \in Nat BY <4>2, SessionConstants DEF Lines
      <4>4. auditLog'[i] = auditLog[i] BY <2>1, <4>1
      <4>5. loginsN \in Nat /\ loginsN' \in Nat BY <1>1, <1>3, SessionConstants DEF SessionTypes
      <4> QED BY <1>3, <4>2, <4>3, <4>4, <4>5
    <3> QED BY <3>1, <3>2
  <2>4. sessions' \in [Pids -> Tally'] /\ closing' \subseteq [by : {"logout", "timeout"}, s : Tally']
    <3>1. Tally \subseteq Tally' BY <1>1, <1>3, SessionConstants DEF Tally, SessionTypes
    <3> HIDE DEF Tally
    <3> QED BY <1>1, <3>1 DEF SessionTypes
  <2>5. \A l \in Logins : l > loginsN' => reports'[l] = 0
    BY <1>1, <1>3, SessionConstants DEF SessionTypes
  <2>6. Len(auditLog') <= written' /\ \A l \in Logins : ran'[l].cmds <= written'
    BY <1>1, <1>3, <2>1, LogIs DEF SessionTypes
  <2>7. offset' \in 0..MaxLines /\ pass' \in [to : Nat, at : Nat] /\ active' \in BOOLEAN
        /\ (\A q \in Pids : sessions'[q].old => sessions'[q].login # 0)
        /\ (\A c \in closing' : c.s.login # 0) /\ reports' \in [Logins -> Nat]
    BY <1>1 DEF SessionTypes, reading
  <2> QED BY <1>3, <2>1, <2>3, <2>4, <2>5, <2>6, <2>7 DEF SessionTypes
<1> QED BY <1>1, <1>2, <1>4, <1>5 DEF SessionInv

\* A file that is replaced has no lines; the tail finds that out, or passes over it.
LEMMA TailMoves ==
    ASSUME SessionInv, Rotate \/ Stat \/ PassEnd
    PROVE  SessionInv'
<1>1. SessionTypes /\ TailInv /\ LoginsInv /\ \A l \in Logins \ seenTwice : OnceInv(l) /\ CreditInv(l)
  BY DEF SessionInv
<1>2. DOMAIN auditLog = 1..Len(auditLog) /\ Len(auditLog) \in Nat /\ offset \in Nat
      /\ pass \in [to : Nat, at : Nat] /\ written \in Nat
  BY <1>1, LogIs, SessionConstants DEF SessionTypes
<1>3. CASE Rotate
  <2>1. /\ UNCHANGED <<sshd, written, ran, loginsN, offset, pass, active, sessions, closing, reports, seenTwice>>
        /\ pass = NoPass /\ auditLog' = <<>>
    BY <1>3 DEF Rotate, reading
  <2>2. DOMAIN auditLog' = {} /\ Len(auditLog') = 0 /\ auditLog' \in Seq(Lines) BY <2>1
  <2>3. SessionTypes'
    BY <1>1, <1>2, <2>1, <2>2 DEF SessionTypes, Tally
  <2>4. TailInv' BY <2>1, <2>2 DEF TailInv
  <2>5. LoginsInv' BY <2>2 DEF LoginsInv
  <2>6. ASSUME NEW l \in Logins \ seenTwice PROVE OnceInv(l)' /\ CreditInv(l)'
    <3>1. OnceInv(l) /\ CreditInv(l) BY <1>1
    <3>2. Due(l)' = {} BY <2>2 DEF Due, After
    <3>3. OnceInv(l)' BY <2>1, <2>2, <3>1 DEF OnceInv, Taken
    <3>4. CreditInv(l)'
      <4> SUFFICES ASSUME NEW q \in Pids, sessions[q].login = l
                   PROVE  ran[l].by = {Owner[q]} /\ sessions[q].cmds + Cardinality(Due(l)') <= ran[l].cmds
        BY <2>1 DEF CreditInv
      <4>1. ran[l].by = {Owner[q]} /\ sessions[q].cmds + Cardinality(Due(l)) <= ran[l].cmds
        BY <3>1 DEF CreditInv
      <4>2. sessions[q].cmds \in Nat /\ Cardinality(Due(l)) \in Nat /\ ran[l].cmds \in Nat
        BY <1>1, LogIs DEF SessionTypes, Tally
      <4>3. Cardinality(Due(l)') = 0 BY <3>2, FS_EmptySet
      <4> QED BY <4>1, <4>2, <4>3
    <3> QED BY <3>3, <3>4
  <2> QED BY <2>1, <2>3, <2>4, <2>5, <2>6 DEF SessionInv, Logins
<1>4. CASE Stat \/ PassEnd
  <2>1. UNCHANGED <<sshd, auditLog, written, ran, loginsN, active, sessions, closing, reports, seenTwice>>
    BY <1>4 DEF Stat, PassEnd, host
  <2>2. /\ offset' \in 0..MaxLines /\ pass' \in [to : Nat, at : Nat] /\ TailInv'
    <3>1. CASE Stat /\ pass' # pass
      <4>1. Len(auditLog) > offset /\ pass' = [to |-> Len(auditLog), at |-> offset] /\ offset' = offset
        BY <3>1 DEF Stat
      <4> QED BY <1>1, <1>2, <2>1, <4>1 DEF TailInv, SessionTypes
    <3>2. CASE Stat /\ pass' = pass
      <4>1. pass = NoPass BY <3>2 DEF Stat
      <4>2. CASE Len(auditLog) > offset /\ pass' = [to |-> Len(auditLog), at |-> offset]
        BY <1>2, <3>2, <4>1, <4>2 DEF NoPass
      <4>3. CASE Len(auditLog) < offset /\ offset' = 0
        BY <1>1, <1>2, <2>1, <3>2, <4>1, <4>3, SessionConstants DEF TailInv, SessionTypes
      <4> QED BY <3>2, <4>2, <4>3 DEF Stat
    <3>3. CASE PassEnd
      <4>1. pass # NoPass /\ pass.at = Len(auditLog) /\ offset' = pass.to /\ pass' = NoPass
        BY <3>3 DEF PassEnd
      <4>2. pass.to <= Len(auditLog) /\ offset < pass.to /\ pass.to \in Nat BY <1>1, <1>2, <4>1 DEF TailInv
      <4>3. offset' \in 0..MaxLines
        BY <1>1, <1>2, <4>1, <4>2, SessionConstants DEF SessionTypes
      <4> QED BY <1>1, <1>2, <2>1, <4>1, <4>2, <4>3, SessionConstants DEF TailInv
    <3> QED BY <1>4, <3>1, <3>2, <3>3
  <2>3. SessionTypes' BY <1>1, <2>1, <2>2 DEF SessionTypes, Tally
  <2>4. \A l : After(l)' = After(l) /\ Due(l)' = Due(l)
    BY <2>1 DEF After, Due, LoginLine, OfAccount
  <2>5. LoginsInv' BY <1>1, <2>1, <2>4 DEF LoginsInv, LoginLine
  <2>6. ASSUME NEW l \in Logins \ seenTwice PROVE OnceInv(l)' /\ CreditInv(l)'
    <3>1. OnceInv(l) /\ CreditInv(l) BY <1>1
    <3>2. OnceInv(l)' BY <2>1, <3>1 DEF OnceInv, Taken, LoginLine
    <3>3. CreditInv(l)' BY <2>1, <2>4, <3>1 DEF CreditInv
    <3> QED BY <3>2, <3>3
  <2> QED BY <2>1, <2>2, <2>3, <2>5, <2>6 DEF SessionInv, Logins
<1> QED BY <1>3, <1>4

\* What does not touch the log: reports, time, the cleanup, the switch.
LEMMA SessionsMove ==
    ASSUME SessionInv, UNCHANGED <<host, reading, seenTwice>>,
           sessions' \in [Pids -> Tally] /\ \A p \in Pids : sessions'[p].old => sessions'[p].login # 0,
           closing' \subseteq [by : {"logout", "timeout"}, s : Tally] /\ \A c \in closing' : c.s.login # 0,
           reports' \in [Logins -> Nat] /\ \A l \in Logins : l > loginsN => reports'[l] = 0,
           active' \in BOOLEAN,
           \A l \in Logins \ seenTwice :
               /\ OnceInv(l)'
               /\ \A p \in Pids : sessions'[p].login = l => sessions[p].login = l /\ sessions'[p].cmds = sessions[p].cmds
    PROVE  SessionInv'
<1>1. SessionTypes /\ TailInv /\ LoginsInv /\ \A l \in Logins \ seenTwice : OnceInv(l) /\ CreditInv(l)
  BY DEF SessionInv
<1>2. UNCHANGED <<sshd, auditLog, written, ran, loginsN, offset, pass, seenTwice>>
  BY DEF host, reading
<1>3. SessionTypes' BY <1>1, <1>2 DEF SessionTypes, Tally
<1>4. TailInv' BY <1>1, <1>2 DEF TailInv
<1>5. \A l : After(l)' = After(l) /\ Due(l)' = Due(l)
  BY <1>2 DEF After, Due, LoginLine, OfAccount
<1>6. LoginsInv' BY <1>1, <1>2, <1>5 DEF LoginsInv, LoginLine
<1>7. \A l \in Logins \ seenTwice : CreditInv(l)'
  BY <1>1, <1>2, <1>5 DEF CreditInv
<1> QED BY <1>2, <1>3, <1>4, <1>6, <1>7 DEF SessionInv, Logins

LEMMA ReportsAndTime ==
    ASSUME SessionInv,
           \/ \E c \in closing : ReportSession(c)
           \/ \E p \in Pids : DayOld(p)
           \/ Cleanup \/ Toggle
    PROVE  SessionInv'
<1>1. SessionTypes /\ \A l \in Logins \ seenTwice : OnceInv(l) /\ CreditInv(l)
  BY DEF SessionInv
<1>2. /\ sessions \in [Pids -> Tally] /\ closing \subseteq [by : {"logout", "timeout"}, s : Tally]
      /\ (\A c \in closing : c.s.login # 0) /\ (\A p \in Pids : sessions[p].old => sessions[p].login # 0)
      /\ reports \in [Logins -> Nat] /\ (\A l \in Logins : l > loginsN => reports[l] = 0)
      /\ loginsN \in 0..MaxLogins /\ active \in BOOLEAN
      /\ Nobody \in Tally
  BY <1>1, SessionConstants DEF SessionTypes, Tally, Nobody
<1>3. UNCHANGED <<host, reading, seenTwice, auditLog>>
  BY DEF ReportSession, DayOld, Cleanup, Toggle, host
<1>4. CASE \E c \in closing : ReportSession(c)
  <2>1. PICK c \in closing : ReportSession(c) BY <1>4
  <2>2. /\ UNCHANGED <<sessions, active>> /\ closing' = closing \ {c}
        /\ \/ reports' = [reports EXCEPT ![c.s.login] = @ + 1]
           \/ reports' = reports
    BY <2>1 DEF ReportSession
  <2>3. c.s.login \in Logins /\ c.s.login <= loginsN BY <1>2, SessionConstants DEF Tally
  <2>4. /\ reports' \in [Logins -> Nat]
        /\ \A l \in Logins : l # c.s.login => reports'[l] = reports[l]
        /\ reports'[c.s.login] <= reports[c.s.login] + 1
    BY <1>2, <2>2, <2>3
  <2>5. \A l \in Logins : l > loginsN => reports'[l] = 0
    BY <1>2, <2>3, <2>4, SessionConstants
  <2>6. ASSUME NEW l \in Logins \ seenTwice PROVE OnceInv(l)'
    <3>1. OnceInv(l) BY <1>1
    <3>2. CASE l # c.s.login BY <1>3, <2>2, <2>4, <3>1, <3>2 DEF OnceInv, Taken, LoginLine
    <3>3. CASE l = c.s.login
      <4>1. reports[l] = 0 /\ (\A p \in Pids : sessions[p].login # l) /\ (\A d \in closing' : d.s.login # l)
            /\ \A i \in DOMAIN auditLog : LoginLine(i, l) => auditLog[i].times = 1
        BY <1>2, <2>2, <3>1, <3>3 DEF OnceInv, Taken
      <4>2. reports'[l] \in Nat /\ reports'[l] <= 1 BY <2>4, <3>3, <4>1
      <4> QED BY <1>3, <2>2, <4>1, <4>2 DEF OnceInv, LoginLine
    <3> QED BY <3>2, <3>3
  <2> QED BY <1>2, <1>3, <2>2, <2>4, <2>5, <2>6, SessionsMove
<1>5. CASE \E p \in Pids : DayOld(p)
  <2>1. PICK p \in Pids : DayOld(p) BY <1>5
  <2>2. /\ UNCHANGED <<active, closing, reports>> /\ sessions' = [sessions EXCEPT ![p].old = TRUE]
        /\ sessions[p].login # 0
    BY <2>1 DEF DayOld
  <2>3. sessions' \in [Pids -> Tally] BY <1>2, <2>2 DEF Tally
  <2>4. \A q \in Pids : /\ sessions'[q].login = sessions[q].login /\ sessions'[q].cmds = sessions[q].cmds
                        /\ q # p => sessions'[q].old = sessions[q].old
    BY <1>2, <2>2 DEF Tally
  <2>5. \A l \in Logins \ seenTwice : OnceInv(l)' BY <1>1, <1>3, <2>2, <2>4 DEF OnceInv, Taken, LoginLine
  <2> QED BY <1>2, <1>3, <2>2, <2>3, <2>4, <2>5, SessionsMove
<1>6. CASE Cleanup
  <2> DEFINE stale == {p \in Pids : sessions[p].old}
  <2>1. /\ UNCHANGED <<active, reports>>
        /\ sessions' = [p \in Pids |-> IF p \in stale THEN Nobody ELSE sessions[p]]
        /\ closing' = closing \cup {[by |-> "timeout", s |-> sessions[p]] : p \in stale}
    BY <1>6 DEF Cleanup
  <2>2. /\ sessions' \in [Pids -> Tally] /\ closing' \subseteq [by : {"logout", "timeout"}, s : Tally]
        /\ \A c \in closing' : c.s.login # 0
    BY <1>2, <2>1
  <2>3. \A p \in Pids : /\ sessions'[p].old => sessions'[p].login # 0
                        /\ sessions'[p].login # 0 => p \notin stale /\ sessions'[p] = sessions[p]
    BY <1>2, <2>1, SessionConstants
  <2>4. \A c \in closing' : c \in closing \/ \E p \in stale : c = [by |-> "timeout", s |-> sessions[p]]
    BY <2>1
  <2> HIDE DEF stale
  <2>5. ASSUME NEW l \in Logins \ seenTwice PROVE OnceInv(l)'
    <3>1. OnceInv(l) /\ l # 0 BY <1>1, SessionConstants
    <3>2. \A p \in Pids : sessions'[p].login = l => sessions[p].login = l /\ p \notin stale BY <2>3, <3>1
    <3>3. \A c \in closing' : c.s.login = l => \/ c \in closing
                                               \/ \E p \in stale : /\ c = [by |-> "timeout", s |-> sessions[p]]
                                                                   /\ sessions[p].login = l
      BY <2>4
    <3>4. stale \subseteq Pids BY DEF stale
    <3>5. \A p, q \in Pids : sessions[p].login = l /\ sessions[q].login = l => p = q BY <3>1 DEF OnceInv
    <3>6. \A p \in Pids : sessions[p].login = l => \A c \in closing : c.s.login # l BY <3>1 DEF OnceInv
    <3>7. \A c, d \in closing' : c.s.login = l /\ d.s.login = l => c = d
      <4> SUFFICES ASSUME NEW c \in closing', NEW d \in closing', c.s.login = l, d.s.login = l PROVE c = d
        OBVIOUS
      <4>1. CASE c \in closing /\ d \in closing BY <3>1, <4>1 DEF OnceInv
      <4>2. CASE ~(c \in closing /\ d \in closing) BY <3>3, <3>4, <3>5, <3>6, <4>2
      <4> QED BY <4>1, <4>2
    <3>8. \A p \in Pids : sessions'[p].login = l => \A c \in closing' : c.s.login # l
      BY <3>2, <3>3, <3>4, <3>5, <3>6
    <3>9. Taken(l)' => Taken(l) BY <2>1, <3>2, <3>3, <3>4 DEF Taken
    <3>10. reports[l] > 0 => (\A p \in Pids : sessions'[p].login # l) /\ \A c \in closing' : c.s.login # l
      BY <3>1, <3>2, <3>3, <3>4 DEF OnceInv
    <3> QED BY <1>3, <2>1, <3>1, <3>2, <3>5, <3>7, <3>8, <3>9, <3>10 DEF OnceInv, LoginLine
  <2>6. \A l \in Logins, p \in Pids : sessions'[p].login = l => sessions'[p] = sessions[p]
    BY <2>3, SessionConstants
  <2> QED BY <1>2, <1>3, <2>1, <2>2, <2>3, <2>5, <2>6, SessionsMove
<1>7. CASE Toggle
  <2>1. UNCHANGED <<sessions, closing, reports>> /\ active' \in BOOLEAN BY <1>2, <1>7 DEF Toggle
  <2>2. \A l \in Logins \ seenTwice : OnceInv(l)' BY <1>1, <1>3, <2>1 DEF OnceInv, Taken, LoginLine
  <2> QED BY <1>2, <1>3, <2>1, <2>2, SessionsMove
<1> QED BY <1>4, <1>5, <1>6, <1>7

\* A line is read: marked so in the log, and every unread line but it still is.
LEMMA ReadMarks ==
    ASSUME SessionInv, ReadLine
    PROVE  /\ pass.at + 1 \in DOMAIN auditLog /\ auditLog[pass.at + 1] \in Lines
           /\ SameLines /\ TailInv' /\ auditLog' \in Seq(Lines)
           /\ pass' \in [to : Nat, at : Nat]
           /\ auditLog'[pass.at + 1].times = 1
           /\ \A i \in DOMAIN auditLog : i # pass.at + 1 => auditLog'[i] = auditLog[i]
           /\ offset < pass.at + 1
<1>1. SessionTypes /\ TailInv
  BY DEF SessionInv
<1>2. /\ pass # NoPass /\ pass.at < Len(auditLog) /\ offset' = offset
      /\ pass' = [pass EXCEPT !.at = @ + 1]
      /\ auditLog' = [auditLog EXCEPT ![pass.at + 1].times = 1]
  BY DEF ReadLine
<1>3. PICK n \in Nat, i \in Nat : n = Len(auditLog) /\ i = pass.at + 1
  BY <1>1, LogIs DEF SessionTypes
<1>4. /\ DOMAIN auditLog = 1..n /\ offset \in Nat /\ pass.at \in Nat /\ pass.to \in Nat
      /\ pass \in [to : Nat, at : Nat] /\ \A j \in 1..n : auditLog[j] \in Lines
      /\ auditLog \in Seq(Lines)
  BY <1>1, <1>3, LogIs, SessionConstants DEF SessionTypes
<1>5. i \in 1..n /\ auditLog[i] \in Lines BY <1>2, <1>3, <1>4
<1>6. [auditLog[i] EXCEPT !.times = 1] \in Lines /\ [auditLog[i] EXCEPT !.times = 1].times = 1
      /\ [auditLog[i] EXCEPT !.times = 1].kind = auditLog[i].kind
      /\ [auditLog[i] EXCEPT !.times = 1].pid = auditLog[i].pid
      /\ [auditLog[i] EXCEPT !.times = 1].login = auditLog[i].login
  BY <1>5 DEF Lines
<1>7. auditLog' = [auditLog EXCEPT ![i] = [auditLog[i] EXCEPT !.times = 1]] BY <1>2, <1>3
<1>8. auditLog' \in Seq(Lines) /\ Len(auditLog') = n /\ DOMAIN auditLog' = 1..n
  BY <1>3, <1>4, <1>5, <1>6, <1>7
<1>9. auditLog'[i] = [auditLog[i] EXCEPT !.times = 1] /\ \A j \in 1..n : j # i => auditLog'[j] = auditLog[j]
  BY <1>4, <1>5, <1>7
<1>10. SameLines
  BY <1>3, <1>4, <1>6, <1>8, <1>9 DEF SameLines, ReadLine
<1>11. pass' \in [to : Nat, at : Nat] /\ pass'.at = i /\ pass'.to = pass.to BY <1>2, <1>3, <1>4
<1>12. pass.to <= n /\ offset < pass.to /\ offset <= pass.at /\ pass.at <= n BY <1>1, <1>2, <1>3 DEF TailInv
<1>13. auditLog'[i].times = 1 BY <1>6, <1>9
<1>14. TailInv'
  <2>1. (pass # NoPass => pass.to <= Len(auditLog) /\ offset < pass.to /\ offset <= pass.at /\ pass.at <= Len(auditLog))'
    BY <1>2, <1>3, <1>4, <1>5, <1>8, <1>11, <1>12
  <2>2. (\A j \in DOMAIN auditLog : offset < j /\ j <= pass.at => auditLog[j].times = 1)'
    BY <1>1, <1>2, <1>3, <1>4, <1>5, <1>8, <1>9, <1>11, <1>13 DEF TailInv
  <2>3. (\A j, k \in DOMAIN auditLog : offset < j /\ j < k /\ auditLog[k].times = 1 => auditLog[j].times = 1)'
    <3> SUFFICES ASSUME NEW j \in 1..n, NEW k \in 1..n, offset < j, j < k, auditLog'[k].times = 1
                 PROVE  auditLog'[j].times = 1
      BY <1>2, <1>8
    <3>1. CASE j = i BY <1>13, <3>1
    <3>2. CASE j # i /\ k = i BY <1>1, <1>3, <1>4, <1>9, <3>2 DEF TailInv
    <3>3. CASE j # i /\ k # i BY <1>1, <1>4, <1>9, <3>3 DEF TailInv
    <3> QED BY <3>1, <3>2, <3>3
  <2>4. (Len(auditLog) < offset => \A j \in DOMAIN auditLog : auditLog[j].times = 0)'
    BY <1>2, <1>3, <1>4, <1>8, <1>12
  <2> QED BY <2>1, <2>2, <2>3, <2>4 DEF TailInv
<1> QED BY <1>3, <1>4, <1>5, <1>8, <1>9, <1>10, <1>11, <1>12, <1>13, <1>14

LEMMA ReadKeepsSessions ==
    ASSUME SessionInv, ReadLine
    PROVE  SessionInv'
<1>1. SessionTypes /\ TailInv /\ LoginsInv /\ \A l \in Logins \ seenTwice : OnceInv(l) /\ CreditInv(l)
  BY DEF SessionInv
<1>2. PICK i \in DOMAIN auditLog, line \in Lines :
         /\ i = pass.at + 1 /\ line = auditLog[i] /\ i \in Nat /\ offset < i /\ offset \in Nat
         /\ SameLines /\ TailInv' /\ auditLog' \in Seq(Lines) /\ pass' \in [to : Nat, at : Nat]
         /\ auditLog'[i].times = 1
         /\ \A j \in DOMAIN auditLog : j # i => auditLog'[j] = auditLog[j]
  <2>1. offset \in Nat /\ pass.at \in Nat
    BY <1>1, SessionConstants DEF SessionTypes
  <2>2. PICK i \in Nat : i = pass.at + 1
    BY <2>1
  <2>3. /\ i \in DOMAIN auditLog /\ auditLog[i] \in Lines /\ offset < i
        /\ SameLines /\ TailInv' /\ auditLog' \in Seq(Lines) /\ pass' \in [to : Nat, at : Nat]
        /\ auditLog'[i].times = 1
        /\ \A j \in DOMAIN auditLog : j # i => auditLog'[j] = auditLog[j]
    BY <2>2, ReadMarks
  <2> QED BY <2>1, <2>2, <2>3
<1>3. /\ UNCHANGED <<sshd, written, ran, loginsN, offset, active, reports>>
      /\ seenTwice \subseteq seenTwice'
      /\ line.times = 1 => line.login \in seenTwice'
      /\ line.times = 1 => \A p \in Pids : Owner[p] = Owner[line.pid] => sessions[p].login \in seenTwice'
      /\ \/ ~active /\ UNCHANGED <<sessions, closing>>
         \/ active /\ line.kind = "login" /\ Opened(line)
         \/ active /\ line.kind = "command" /\ Credited(line)
         \/ active /\ line.kind = "logout" /\ Closed(line)
  BY <1>2 DEF ReadLine
<1>4. /\ sessions \in [Pids -> Tally] /\ closing \subseteq [by : {"logout", "timeout"}, s : Tally]
      /\ (\A c \in closing : c.s.login # 0) /\ (\A p \in Pids : sessions[p].old => sessions[p].login # 0)
      /\ loginsN \in 0..MaxLogins /\ Nobody \in Tally
      /\ line.pid \in Pids /\ line.login \in Logins /\ line.login <= loginsN /\ line.times \in {0, 1}
  <2>1. line.login <= loginsN BY <1>1, <1>2 DEF SessionTypes
  <2>2. Nobody \in Tally BY <1>1, SessionConstants DEF SessionTypes, Tally, Nobody
  <2>3. line.pid \in Pids /\ line.login \in Logins /\ line.times \in {0, 1} BY DEF Lines
  <2>4. /\ sessions \in [Pids -> Tally] /\ closing \subseteq [by : {"logout", "timeout"}, s : Tally]
        /\ (\A c \in closing : c.s.login # 0) /\ (\A p \in Pids : sessions[p].old => sessions[p].login # 0)
        /\ loginsN \in 0..MaxLogins
    BY <1>1 DEF SessionTypes
  <2> QED BY <2>1, <2>2, <2>3, <2>4
<1>5. LoginsInv' /\ (\A l \in Logins : After(l)' = After(l)) /\ DOMAIN auditLog' = DOMAIN auditLog
      /\ \A j \in DOMAIN auditLog, l \in Logins : LoginLine(j, l)' <=> LoginLine(j, l)
  BY <1>1, <1>2, LoginsStay DEF SameLines, LoginLine
<1>6. \A j \in DOMAIN auditLog : auditLog[j].times = 1 => auditLog'[j].times = 1
  BY <1>2
<1>7. ASSUME NEW l \in Logins
      PROVE  /\ Due(l)' = Due(l) \ {i} /\ IsFiniteSet(Due(l)) /\ IsFiniteSet(After(l))
             /\ Cardinality(Due(l)) \in Nat /\ Cardinality(After(l)) \in Nat
             /\ Cardinality(Due(l)) <= Cardinality(After(l))
             /\ Cardinality(Due(l)') \in Nat /\ Cardinality(Due(l)') <= Cardinality(Due(l))
             /\ i \in Due(l) => Cardinality(Due(l)') = Cardinality(Due(l)) - 1
  <2>1. \A j \in After(l) : j \in DOMAIN auditLog BY DEF After
  <2>2. Due(l)' = Due(l) \ {i} BY <1>2, <1>5, <2>1 DEF Due
  <2>3. /\ IsFiniteSet(Due(l)) /\ IsFiniteSet(After(l)) /\ Cardinality(Due(l)) \in Nat /\ Cardinality(After(l)) \in Nat
        /\ Cardinality(Due(l)) <= Cardinality(After(l))
    BY <1>1, LogIs
  <2>4. Cardinality(Due(l) \ {i}) = IF i \in Due(l) THEN Cardinality(Due(l)) - 1 ELSE Cardinality(Due(l))
    BY <2>3, FS_RemoveElement
  <2>5. IsFiniteSet(Due(l) \ {i}) /\ Cardinality(Due(l) \ {i}) \in Nat
    BY <2>3, FS_RemoveElement, FS_CardinalityType
  <2> QED BY <2>2, <2>3, <2>4, <2>5
<1>8. ASSUME sessions' \in [Pids -> Tally] /\ \A p \in Pids : sessions'[p].old => sessions'[p].login # 0,
             closing' \subseteq [by : {"logout", "timeout"}, s : Tally] /\ \A c \in closing' : c.s.login # 0,
             \A l \in Logins \ seenTwice' : OnceInv(l)' /\ CreditInv(l)'
      PROVE  SessionInv'
  <2>1. \A j \in DOMAIN auditLog' : auditLog'[j].login <= loginsN'
    BY <1>1, <1>2, <1>3 DEF SessionTypes, SameLines
  <2>2. Len(auditLog') = Len(auditLog) BY <1>2 DEF SameLines
  <2>3. SessionTypes' BY <1>1, <1>2, <1>3, <1>8, <2>1, <2>2 DEF SessionTypes, Tally
  <2> QED BY <1>2, <1>5, <1>8, <2>3 DEF SessionInv, Logins
\* Of a login whose sessions are as they were, or fewer.
<1>9. ASSUME NEW l \in Logins \ seenTwice', UNCHANGED closing,
             \A p \in Pids : sessions'[p].login = l => sessions'[p] = sessions[p]
      PROVE  OnceInv(l)' /\ CreditInv(l)'
  <2>1. OnceInv(l) /\ CreditInv(l) BY <1>1, <1>3, <1>9
  <2>2. OnceInv(l)' BY <1>3, <1>5, <1>6, <1>9, <2>1 DEF OnceInv, Taken
  <2>3. CreditInv(l)'
    <3> SUFFICES ASSUME NEW p \in Pids, sessions'[p].login = l
                 PROVE  ran[l].by = {Owner[p]} /\ sessions'[p].cmds + Cardinality(Due(l)') <= ran[l].cmds
      BY <1>3 DEF CreditInv
    <3>1. sessions'[p] = sessions[p] /\ ran[l].by = {Owner[p]} /\ sessions[p].cmds + Cardinality(Due(l)) <= ran[l].cmds
      BY <1>9, <2>1 DEF CreditInv
    <3>2. sessions[p].cmds \in Nat /\ ran[l].cmds \in Nat BY <1>1, <1>4 DEF Tally, SessionTypes
    <3> QED BY <1>7, <3>1, <3>2
  <2> QED BY <2>2, <2>3
<1>10. CASE ~active /\ UNCHANGED <<sessions, closing>>
  BY <1>3, <1>4, <1>8, <1>9, <1>10
<1>11. CASE active /\ line.kind = "login" /\ Opened(line)
  <2>1. UNCHANGED closing /\ sessions' = [sessions EXCEPT ![line.pid] = [Nobody EXCEPT !.login = line.login]]
    BY <1>11 DEF Opened
  <2>2. PICK s \in Tally : /\ s.login = line.login /\ s.cmds = 0 /\ ~s.old
                             /\ sessions'[line.pid] = s /\ \A p \in Pids : p # line.pid => sessions'[p] = sessions[p]
    <3>1. line.login \in 0..loginsN BY <1>4, SessionConstants
    <3>2. PICK s : s = [Nobody EXCEPT !.login = line.login] OBVIOUS
    <3>3. s \in Tally /\ s.login = line.login /\ s.cmds = 0 /\ ~s.old
      BY <1>4, <3>1, <3>2, SessionConstants DEF Tally
    <3>4. sessions'[line.pid] = s /\ \A p \in Pids : p # line.pid => sessions'[p] = sessions[p]
      BY <1>4, <2>1, <3>2
    <3> QED BY <3>3, <3>4
  <2>3. sessions' \in [Pids -> Tally] BY <1>4, <2>1, <2>2
  <2>4. \A p \in Pids : sessions'[p].old => sessions'[p].login # 0 BY <1>4, <2>2
  <2>5. ASSUME NEW l \in Logins \ seenTwice', l = line.login PROVE OnceInv(l)' /\ CreditInv(l)'
    <3>1. OnceInv(l) /\ CreditInv(l) BY <1>1, <1>3
    <3>2. LoginLine(i, l) /\ auditLog[i].times = 0 BY <1>2, <1>3, <1>4, <1>11, <2>5 DEF LoginLine
    <3>3. ~Taken(l) BY <3>1, <3>2 DEF OnceInv
    <3>4. \A p \in Pids : sessions'[p].login = l => p = line.pid BY <2>2, <3>3 DEF Taken
    <3>5. \A c \in closing' : c.s.login # l BY <2>1, <3>3 DEF Taken
    <3>6. ~(reports[l] > 0) BY <3>3 DEF Taken
    <3>7. \A j \in DOMAIN auditLog : LoginLine(j, l) => j = i BY <1>1, <3>2 DEF LoginsInv
    <3>8. OnceInv(l)' BY <1>2, <1>3, <1>5, <3>1, <3>4, <3>5, <3>6, <3>7 DEF OnceInv, Taken
    <3>9. ran[l].by = {Owner[line.pid]} /\ Cardinality(After(l)) <= ran[l].cmds
      BY <1>1, <1>2, <3>2 DEF LoginsInv
    <3>10. CreditInv(l)'
      <4> SUFFICES ASSUME NEW p \in Pids, sessions'[p].login = l
                   PROVE  ran[l].by = {Owner[p]} /\ sessions'[p].cmds + Cardinality(Due(l)') <= ran[l].cmds
        BY <1>3 DEF CreditInv
      <4>1. p = line.pid /\ sessions'[p].cmds = 0 BY <2>2, <3>4
      <4>2. ran[l].cmds \in Nat BY <1>1 DEF SessionTypes
      <4>3. 0 + Cardinality(Due(l)') <= ran[l].cmds BY <1>7, <3>9, <4>2
      <4> QED BY <3>9, <4>1, <4>3
    <3> QED BY <3>8, <3>10
  <2>6. ASSUME NEW l \in Logins \ seenTwice', l # line.login PROVE OnceInv(l)' /\ CreditInv(l)'
    <3>1. \A p \in Pids : sessions'[p].login = l => sessions'[p] = sessions[p] BY <2>2, <2>6
    <3> QED BY <1>9, <2>1, <3>1
  <2> QED BY <1>4, <1>8, <2>1, <2>3, <2>4, <2>5, <2>6
<1>12. CASE active /\ line.kind = "command" /\ Credited(line)
  <2>1. UNCHANGED closing
        /\ sessions' = [p \in Pids |-> IF sessions[p].login # 0 /\ Owner[p] = Owner[line.pid]
                                       THEN [sessions[p] EXCEPT !.cmds = @ + 1] ELSE sessions[p]]
    BY <1>12 DEF Credited
  <2>2. /\ sessions' \in [Pids -> Tally]
        /\ \A p \in Pids : /\ sessions'[p].login = sessions[p].login /\ sessions'[p].old = sessions[p].old
                           /\ sessions[p].login # 0 /\ Owner[p] = Owner[line.pid]
                                => sessions'[p].cmds = sessions[p].cmds + 1
                           /\ ~(sessions[p].login # 0 /\ Owner[p] = Owner[line.pid]) => sessions'[p] = sessions[p]
    BY <1>4, <2>1 DEF Tally
  <2>3. ASSUME NEW l \in Logins \ seenTwice' PROVE OnceInv(l)' /\ CreditInv(l)'
    <3>1. OnceInv(l) /\ CreditInv(l) BY <1>1, <1>3
    <3>2. OnceInv(l)' BY <1>3, <1>5, <1>6, <2>1, <2>2, <3>1 DEF OnceInv, Taken
    <3>3. CreditInv(l)'
      <4> SUFFICES ASSUME NEW p \in Pids, sessions'[p].login = l
                   PROVE  ran[l].by = {Owner[p]} /\ sessions'[p].cmds + Cardinality(Due(l)') <= ran[l].cmds
        BY <1>3 DEF CreditInv
      <4>1. sessions[p].login = l /\ ran[l].by = {Owner[p]} /\ sessions[p].cmds + Cardinality(Due(l)) <= ran[l].cmds
        BY <2>2, <3>1 DEF CreditInv
      <4>2. sessions[p].cmds \in Nat /\ ran[l].cmds \in Nat BY <1>1, <1>4 DEF Tally, SessionTypes
      <4>3. CASE Owner[p] = Owner[line.pid]
        <5>1. line.times = 0 BY <1>3, <1>4, <4>1, <4>3
        <5>2. OfAccount(i, l) BY <1>2, <1>12, <4>1, <4>3 DEF OfAccount
        <5>3. ASSUME NEW j \in DOMAIN auditLog, LoginLine(j, l) PROVE j < i
          <6>1. auditLog[j].times = 1 BY <3>1, <4>1, <5>3 DEF OnceInv, Taken
          <6>2. j # i BY <1>2, <1>12, <5>3 DEF LoginLine
          <6>3. ~(i < j) BY <1>1, <1>2, <5>1, <6>1 DEF TailInv
          <6>4. j \in Nat BY <1>1, LogIs
          <6> QED BY <1>2, <6>2, <6>3, <6>4
        <5>4. i \in Due(l) BY <1>2, <5>1, <5>2, <5>3 DEF Due, After
        <5>5. sessions'[p].cmds = sessions[p].cmds + 1 BY <2>2, <4>1, <4>3, SessionConstants
        <5>6. Cardinality(Due(l)') = Cardinality(Due(l)) - 1 /\ Cardinality(Due(l)) \in Nat BY <1>7, <5>4
        <5> QED BY <4>1, <4>2, <5>5, <5>6
      <4>4. CASE Owner[p] # Owner[line.pid]
        <5>1. sessions'[p].cmds = sessions[p].cmds BY <2>2, <4>4
        <5> QED BY <1>7, <4>1, <4>2, <5>1
      <4> QED BY <4>3, <4>4
    <3> QED BY <3>2, <3>3
  <2> QED BY <1>4, <1>8, <2>1, <2>2, <2>3
<1>13. CASE active /\ line.kind = "logout" /\ Closed(line)
  <2> DEFINE gone == [by |-> "logout", s |-> sessions[line.pid]]
  <2>1. /\ sessions' = [sessions EXCEPT ![line.pid] = Nobody]
        /\ closing' = IF sessions[line.pid].login = 0 THEN closing ELSE closing \cup {gone}
    BY <1>13 DEF Closed
  <2>2. /\ sessions' \in [Pids -> Tally] /\ closing' \subseteq [by : {"logout", "timeout"}, s : Tally]
        /\ \A c \in closing' : c.s.login # 0
    BY <1>4, <2>1
  <2>3. \A p \in Pids : /\ sessions'[p].old => sessions'[p].login # 0
                        /\ sessions'[p].login # 0 => p # line.pid /\ sessions'[p] = sessions[p]
    BY <1>4, <2>1, SessionConstants
  <2>4. \A c \in closing' : c \in closing \/ c = gone
    BY <2>1
  <2>5. gone.s = sessions[line.pid] OBVIOUS
  <2> HIDE DEF gone
  <2>6. ASSUME NEW l \in Logins \ seenTwice' PROVE OnceInv(l)' /\ CreditInv(l)'
    <3>1. OnceInv(l) /\ CreditInv(l) /\ l # 0 BY <1>1, <1>3, SessionConstants
    <3>2. \A p \in Pids : sessions'[p].login = l => sessions[p].login = l /\ p # line.pid /\ sessions'[p] = sessions[p]
      BY <2>3, <3>1
    <3>3. \A c \in closing' : c.s.login = l => \/ c \in closing
                                               \/ c = gone /\ sessions[line.pid].login = l
      BY <2>4, <2>5
    <3>4. \A p, q \in Pids : sessions[p].login = l /\ sessions[q].login = l => p = q BY <3>1 DEF OnceInv
    <3>5. \A p \in Pids : sessions[p].login = l => \A c \in closing : c.s.login # l BY <3>1 DEF OnceInv
    <3>6. \A c, d \in closing' : c.s.login = l /\ d.s.login = l => c = d
      BY <1>4, <3>1, <3>3, <3>5 DEF OnceInv
    <3>7. \A p \in Pids : sessions'[p].login = l => \A c \in closing' : c.s.login # l
      BY <1>4, <3>2, <3>3, <3>4, <3>5
    <3>8. Taken(l)' => Taken(l) BY <1>3, <1>4, <3>2, <3>3 DEF Taken
    <3>9. reports[l] > 0 => (\A p \in Pids : sessions'[p].login # l) /\ \A c \in closing' : c.s.login # l
      BY <1>4, <3>1, <3>2, <3>3 DEF OnceInv
    <3>10. OnceInv(l)' BY <1>3, <1>5, <1>6, <3>1, <3>2, <3>4, <3>6, <3>7, <3>8, <3>9 DEF OnceInv
    <3>11. CreditInv(l)'
      <4> SUFFICES ASSUME NEW p \in Pids, sessions'[p].login = l
                   PROVE  ran[l].by = {Owner[p]} /\ sessions'[p].cmds + Cardinality(Due(l)') <= ran[l].cmds
        BY <1>3 DEF CreditInv
      <4>1. sessions'[p] = sessions[p] /\ ran[l].by = {Owner[p]} /\ sessions[p].cmds + Cardinality(Due(l)) <= ran[l].cmds
        BY <3>1, <3>2 DEF CreditInv
      <4>2. sessions[p].cmds \in Nat /\ ran[l].cmds \in Nat BY <1>1, <1>4 DEF Tally, SessionTypes
      <4> QED BY <1>7, <4>1, <4>2
    <3> QED BY <3>10, <3>11
  <2> QED BY <1>8, <2>2, <2>3, <2>6
<1> QED BY <1>3, <1>10, <1>11, <1>12, <1>13

LEMMA SessionsStart == SessionInit => SessionInv
<1> SUFFICES ASSUME SessionInit PROVE SessionInv OBVIOUS
<1>1. /\ sshd = [p \in Pids |-> 0] /\ auditLog = <<>> /\ written = 0
      /\ offset = 0 /\ pass = NoPass /\ active = TRUE
      /\ sessions = [p \in Pids |-> Nobody] /\ closing = {}
      /\ reports = [l \in Logins |-> 0] /\ ran = [l \in Logins |-> Unused] /\ loginsN = 0
  BY DEF SessionInit
<1>2. DOMAIN auditLog = {} /\ Len(auditLog) = 0 /\ auditLog \in Seq(Lines) BY <1>1
<1>3. [p \in Pids |-> Nobody] \in [Pids -> Tally] BY <1>1 DEF Tally, Nobody
<1>4. SessionTypes
  <2>1. ran \in [Logins -> [by : SUBSET Accounts, cmds : Nat]] /\ \A l \in Logins : ran[l].cmds <= written
    BY <1>1 DEF Unused
  <2> QED BY <1>1, <1>2, <1>3, <2>1, SessionConstants DEF SessionTypes
<1>5. TailInv BY <1>1, <1>2 DEF TailInv
<1>6. LoginsInv BY <1>2 DEF LoginsInv
<1>7. ASSUME NEW l \in Logins PROVE OnceInv(l) /\ CreditInv(l)
  <2>1. reports[l] = 0 /\ l # 0 /\ \A p \in Pids : sessions[p].login # l BY <1>1, SessionConstants
  <2> QED BY <1>1, <1>2, <2>1 DEF OnceInv, CreditInv
<1> QED BY <1>4, <1>5, <1>6, <1>7 DEF SessionInv

LEMMA SessionsKeep == SessionInv /\ [SessionNext]_sessionVars => SessionInv'
<1> SUFFICES ASSUME SessionInv, [SessionNext]_sessionVars PROVE SessionInv' OBVIOUS
<1>1. CASE UNCHANGED sessionVars
  <2>1. UNCHANGED <<host, reading, seenTwice, sessions, closing, reports, active, auditLog>>
    BY <1>1 DEF sessionVars, host, reading
  <2>2. SessionTypes /\ \A l \in Logins \ seenTwice : OnceInv(l) BY DEF SessionInv
  <2>3. \A l \in Logins \ seenTwice : OnceInv(l)' BY <2>1, <2>2 DEF OnceInv, Taken, LoginLine
  <2> QED BY <2>1, <2>2, <2>3, SessionsMove DEF SessionTypes
<1>2. CASE \E p \in Pids : LogIn(p) \/ Command(p) \/ LogOut(p) BY <1>2, HostWrites
<1>3. CASE Rotate \/ Stat \/ PassEnd BY <1>3, TailMoves
<1>4. CASE \/ \E c \in closing : ReportSession(c)
           \/ \E p \in Pids : DayOld(p)
           \/ Cleanup \/ Toggle
  BY <1>4, ReportsAndTime
<1>5. CASE ReadLine BY <1>5, ReadKeepsSessions
<1> QED BY <1>1, <1>2, <1>3, <1>4, <1>5 DEF SessionNext

LEMMA OnceMeans == SessionInv => ReportedOnce
<1> SUFFICES ASSUME SessionInv, NEW l \in Logins \ seenTwice
             PROVE  /\ reports[l] + Cardinality({c \in closing : c.s.login = l}) <= 1
                    /\ \A p \in Pids : sessions[p].login = l => reports[l] = 0 /\ sessions[p].cmds <= ran[l].cmds
  BY DEF ReportedOnce
<1>1. SessionTypes /\ OnceInv(l) /\ CreditInv(l) BY DEF SessionInv
<1>2. reports[l] \in Nat BY <1>1 DEF SessionTypes
<1> DEFINE L == {c \in closing : c.s.login = l}
<1>3. reports[l] + Cardinality(L) <= 1
  <2>1. CASE L = {}
    <3>1. Cardinality(L) = 0 BY <2>1, FS_EmptySet
    <3> QED BY <1>1, <1>2, <3>1 DEF OnceInv
  <2>2. CASE L # {}
    <3>1. PICK c \in closing : c.s.login = l BY <2>2
    <3>2. L = {c} BY <1>1, <3>1 DEF OnceInv
    <3>3. Cardinality(L) = 1 BY <3>2, FS_Singleton
    <3>4. reports[l] = 0 BY <1>1, <1>2, <3>1 DEF OnceInv
    <3> QED BY <3>3, <3>4
  <2> QED BY <2>1, <2>2
<1>4. ASSUME NEW p \in Pids, sessions[p].login = l
      PROVE  reports[l] = 0 /\ sessions[p].cmds <= ran[l].cmds
  <2>1. sessions[p].cmds + Cardinality(Due(l)) <= ran[l].cmds BY <1>1, <1>4 DEF CreditInv
  <2>2. sessions[p].cmds \in Nat /\ Cardinality(Due(l)) \in Nat /\ ran[l].cmds \in Nat
    BY <1>1, LogIs DEF SessionTypes, Tally
  <2>3. reports[l] = 0 BY <1>1, <1>2, <1>4 DEF OnceInv
  <2> QED BY <2>1, <2>2, <2>3
<1> QED BY <1>3, <1>4

LEMMA SessionTypesSuffice == SessionInv => SessionTypeOK
<1> SUFFICES ASSUME SessionInv PROVE SessionTypeOK OBVIOUS
<1>1. SessionTypes /\ TailInv BY DEF SessionInv
<1>2. Len(auditLog) \in Nat /\ pass.at \in Nat /\ pass.to \in Nat BY <1>1, LogIs DEF SessionTypes
<1>3. pass.at \in 0..Len(auditLog) /\ pass.to <= Len(auditLog)
  <2>1. CASE pass = NoPass BY <1>2, <2>1, SessionConstants
  <2>2. CASE pass # NoPass BY <1>1, <1>2, <2>2 DEF TailInv
  <2> QED BY <2>1, <2>2
<1>4. sshd \in [Pids -> 0..MaxLogins] BY <1>1, SessionConstants DEF SessionTypes
<1> QED BY <1>1, <1>3, <1>4 DEF SessionTypeOK, SessionTypes, Tally

\* A login none of whose lines was read twice is reported once, and with no more commands
\* than its account ran since, however the log is rotated and whether its logout or the
\* cleanup closes it (session.go processLine, closeSession and cleanupSessions, tail).
THEOREM SessionsReportedOnce == SessionSpec => [](SessionTypeOK /\ ReportedOnce)
<1>1. SessionSpec => []SessionInv BY SessionsStart, SessionsKeep, PTL DEF SessionSpec
<1> QED BY <1>1, OnceMeans, SessionTypesSuffice, PTL

----------------------------------------------------------------------------
(* The scheduled logins.  What record computes in its loop is found by an   *)
(* induction over the sets of numbers.                                      *)

\* A set of numbers has a least one; what holds of 0 and of the next holds of all.
LEMMA LeastOf ==
    ASSUME NEW T, T \subseteq Nat, T # {}
    PROVE  \E x \in T : \A y \in T : x <= y
<1>1. IsWellFoundedOn(Less, Nat)
  BY NatLessThanWellFounded DEF OpToRel, Less
<1>2. PICK x \in T : \A y \in T : ~(<<y, x>> \in Less) BY <1>1, WFMin
<1>3. \A y \in T : ~(y < x) BY <1>2 DEF Less
<1> QED BY <1>3

LEMMA NatSet ==
    ASSUME NEW S, 0 \in S, \A n \in Nat : n \in S => n + 1 \in S
    PROVE  Nat \subseteq S
<1> DEFINE T == Nat \ S
<1> SUFFICES ASSUME T # {} PROVE FALSE OBVIOUS
<1>2. PICK x \in T : \A y \in T : x <= y
  <2>1. T \subseteq Nat OBVIOUS
  <2> HIDE DEF T
  <2> QED BY <2>1, LeastOf
<1>3. x \in Nat /\ x # 0 /\ x \notin S OBVIOUS
<1>4. x - 1 \in Nat BY <1>3
<1>5. x - 1 \notin S
   <2>1. x - 1 \in S => (x - 1) + 1 \in S BY <1>4
   <2>2. (x - 1) + 1 = x BY <1>3
   <2> QED BY <1>3, <2>1, <2>2
<1> QED BY <1>2, <1>3, <1>4, <1>5

\* The loop of record.
RecentLoop(g, s, n) ==
    g = [i \in 0..n |->
            IF i = 0 THEN <<>> ELSE IF InWindow(s[i]) THEN Append(g[i - 1], s[i]) ELSE g[i - 1]]
LEMMA RecentRuns ==
    ASSUME NEW s \in Seq(Nat)
    PROVE  \E g : RecentLoop(g, s, Len(s)) /\ Recent(s) = g[Len(s)]
<1> DEFINE S == {n \in Nat : \E g : RecentLoop(g, s, n)}
<1>1. 0 \in S
  <2>1. RecentLoop([i \in 0..0 |-> <<>>], s, 0) BY DEF RecentLoop
  <2> QED BY <2>1
<1>2. ASSUME NEW n \in Nat, n \in S PROVE n + 1 \in S
  <2>1. PICK g : RecentLoop(g, s, n) BY <1>2
  <2> DEFINE h == [i \in 0..(n + 1) |-> IF i <= n THEN g[i]
                     ELSE IF InWindow(s[i]) THEN Append(g[i - 1], s[i]) ELSE g[i - 1]]
  <2>2. RecentLoop(h, s, n + 1)
    <3> SUFFICES ASSUME NEW i \in 0..(n + 1)
                 PROVE  h[i] = IF i = 0 THEN <<>> ELSE IF InWindow(s[i]) THEN Append(h[i - 1], s[i]) ELSE h[i - 1]
      BY DEF RecentLoop
    <3>0. \A j \in 0..n : h[j] = g[j] OBVIOUS
    <3>1. CASE i <= n
      <4>1. g[i] = IF i = 0 THEN <<>> ELSE IF InWindow(s[i]) THEN Append(g[i - 1], s[i]) ELSE g[i - 1]
        <5>1. i \in 0..n BY <3>1
        <5> QED BY <2>1, <5>1 DEF RecentLoop
      <4>2. i # 0 => i - 1 \in 0..n BY <3>1
      <4> QED BY <3>0, <3>1, <4>1, <4>2
    <3>2. CASE i = n + 1
      <4>1. h[i] = IF InWindow(s[i]) THEN Append(g[i - 1], s[i]) ELSE g[i - 1] BY <3>2
      <4>2. i # 0 /\ i - 1 \in 0..n BY <3>2
      <4>3. h[i - 1] = g[i - 1] BY <3>0, <4>2
      <4> HIDE DEF h
      <4> QED BY <4>1, <4>2, <4>3
    <3> QED BY <3>1, <3>2
  <2> QED BY <2>2
<1>3. Len(s) \in S
  <2> HIDE DEF S
  <2>1. Nat \subseteq S BY <1>1, <1>2, NatSet
  <2> QED BY <2>1
<1> DEFINE f == CHOOSE g : RecentLoop(g, s, Len(s))
<1>4. RecentLoop(f, s, Len(s)) BY <1>3
<1>5. Recent(s) = f[Len(s)] BY DEF Recent, RecentLoop
<1> QED BY <1>4, <1>5

\* Logins in their order, and among those there were.
Rising(s) == \A i, j \in 1..Len(s) : i < j => s[i] < s[j]
Chained(from, to, R) == \A t \in from..(to - 1) : \E u \in R : t < u /\ u - t < Window
SeriesFits(s, first, R) ==
    /\ s \in Seq(Nat) /\ Rising(s) /\ \A i \in 1..Len(s) : s[i] \in R
    /\ s # <<>> => first \in R /\ first <= s[1] /\ Chained(first, s[Len(s)], R)

SeriesInv ==
    /\ clock \in Nat /\ clock >= 1
    /\ history \in [Keys -> Seq(Nat)] /\ firsts \in [Keys -> Nat]
    /\ autoFile \in [times : [Keys -> Seq(Nat)], first : [Keys -> Nat]]
    /\ real \in [Keys -> SUBSET (1..clock)]
    /\ \A k \in Keys : /\ SeriesFits(history[k], firsts[k], real[k])
                       /\ SeriesFits(autoFile.times[k], autoFile.first[k], real[k])
    /\ SeriesLasted

LEMMA SeriesConstants ==
    /\ {Window, MinLogins, MinAge} \subseteq Nat /\ Window \in Nat /\ MinLogins \in Nat /\ MinAge \in Nat
    /\ Burst \in Nat /\ Burst >= 1 /\ MaxTimes \in Nat /\ MaxTimes >= 1
BY AutomationAssumption

\* Times in order: the one that stands later is not the earlier.
LEMMA RisingIs ==
    ASSUME NEW s \in Seq(Nat), Rising(s), NEW i \in 1..Len(s), NEW j \in 1..Len(s), i <= j
    PROVE  s[i] \in Nat /\ s[j] \in Nat /\ s[i] <= s[j]
<1>1. s[i] \in Nat /\ s[j] \in Nat OBVIOUS
<1>2. i \in Nat /\ j \in Nat /\ (i = j \/ i < j) OBVIOUS
<1> QED BY <1>1, <1>2 DEF Rising

\* What the loop keeps is in order and of the window.
LEMMA RecentIs ==
    ASSUME NEW s \in Seq(Nat), Rising(s)
    PROVE  /\ Recent(s) \in Seq(Nat) /\ Rising(Recent(s))
           /\ \A i \in 1..Len(Recent(s)) : InWindow(Recent(s)[i]) /\ \E j \in 1..Len(s) : Recent(s)[i] = s[j]
<1>1. PICK g : RecentLoop(g, s, Len(s)) /\ Recent(s) = g[Len(s)]
  BY RecentRuns
<1> DEFINE P(n) == /\ g[n] \in Seq(Nat) /\ Rising(g[n])
                   /\ \A i \in 1..Len(g[n]) : InWindow(g[n][i]) /\ \E j \in 1..n : g[n][i] = s[j]
           S == {n \in Nat : n <= Len(s) => P(n)}
<1>2. Len(s) \in Nat OBVIOUS
<1>3. 0 \in S
  <2>1. g[0] = <<>> BY <1>1, <1>2 DEF RecentLoop
  <2>2. P(0) BY <2>1 DEF Rising
  <2> HIDE DEF P
  <2> QED BY <2>2
<1>4. ASSUME NEW n \in Nat, n \in S PROVE n + 1 \in S
  <2> SUFFICES ASSUME n + 1 <= Len(s) PROVE P(n + 1) OBVIOUS
  <2>1. P(n) BY <1>2, <1>4
  <2>2. n + 1 \in 1..Len(s) /\ s[n + 1] \in Nat BY <1>2
  <2>3. g[n + 1] = IF InWindow(s[n + 1]) THEN Append(g[n], s[n + 1]) ELSE g[n]
    <3>1. n + 1 \in 0..Len(s) /\ n + 1 # 0 /\ (n + 1) - 1 = n BY <2>2
    <3>2. g[n + 1] = IF InWindow(s[n + 1]) THEN Append(g[(n + 1) - 1], s[n + 1]) ELSE g[(n + 1) - 1]
      BY <1>1, <3>1 DEF RecentLoop
    <3> QED BY <3>1, <3>2
  <2>4. CASE ~InWindow(s[n + 1])
    <3>1. g[n + 1] = g[n] BY <2>3, <2>4
    <3>2. 1..n \subseteq 1..(n + 1) OBVIOUS
    <3> QED BY <2>1, <3>1, <3>2
  <2>5. CASE InWindow(s[n + 1])
    <3>1. g[n + 1] = Append(g[n], s[n + 1]) BY <2>3, <2>5
    <3>2. PICK r \in Seq(Nat) : r = g[n] BY <2>1
    <3>3. PICK q : q = g[n + 1] OBVIOUS
    <3>4. /\ q \in Seq(Nat) /\ Len(q) = Len(r) + 1 /\ Len(r) \in Nat /\ q[Len(r) + 1] = s[n + 1]
          /\ \A i \in 1..Len(r) : q[i] = r[i]
      BY <2>2, <3>1, <3>2, <3>3
    <3>5. \A i \in 1..Len(r) : InWindow(r[i]) /\ \E j \in 1..n : r[i] = s[j] BY <2>1, <3>2
    <3>6. \A i \in 1..Len(r) : r[i] < s[n + 1]
      <4> SUFFICES ASSUME NEW i \in 1..Len(r) PROVE r[i] < s[n + 1] OBVIOUS
      <4>1. PICK j \in 1..n : r[i] = s[j] BY <3>5
      <4>2. j \in 1..Len(s) /\ j < n + 1 BY <1>2, <2>2
      <4> QED BY <2>2, <4>1, <4>2 DEF Rising
    <3>7. Rising(q)
      <4> SUFFICES ASSUME NEW i \in 1..(Len(r) + 1), NEW j \in 1..(Len(r) + 1), i < j PROVE q[i] < q[j]
        BY <3>4 DEF Rising
      <4>1. i \in 1..Len(r) BY <3>4
      <4>2. CASE j = Len(r) + 1 BY <3>4, <3>6, <4>1, <4>2
      <4>3. CASE j # Len(r) + 1
        <5>0. Len(r) \in Nat BY <3>4
        <5>1. j \in 1..Len(r)
          <6>1. PICK m \in Nat : m = Len(r) BY <5>0
          <6>2. j \in 1..(m + 1) /\ j # m + 1 BY <4>3, <6>1
          <6>3. j \in 1..m BY <6>2
          <6> QED BY <6>1, <6>3
        <5>2. r[i] < r[j] BY <2>1, <3>2, <4>1, <5>1 DEF Rising
        <5> QED BY <3>4, <4>1, <5>1, <5>2
      <4> QED BY <4>2, <4>3
    <3>8. \A i \in 1..Len(q) : InWindow(q[i]) /\ \E j \in 1..(n + 1) : q[i] = s[j]
      <4> SUFFICES ASSUME NEW i \in 1..(Len(r) + 1) PROVE InWindow(q[i]) /\ \E j \in 1..(n + 1) : q[i] = s[j]
        BY <3>4
      <4>1. CASE i = Len(r) + 1
        <5>1. q[i] = s[n + 1] BY <3>4, <4>1
        <5>2. n + 1 \in 1..(n + 1) OBVIOUS
        <5>3. InWindow(q[i]) BY <2>5, <5>1
        <5> QED BY <5>1, <5>2, <5>3
      <4>2. CASE i # Len(r) + 1
        <5>1. i \in 1..Len(r) BY <3>4, <4>2
        <5>2. InWindow(r[i]) /\ \E j \in 1..n : r[i] = s[j] BY <3>5, <5>1
        <5>3. q[i] = r[i]
          BY <3>4, <5>1
        <5>4. 1..n \subseteq 1..(n + 1)
          OBVIOUS
        <5> QED BY <5>2, <5>3, <5>4
      <4> QED BY <4>1, <4>2
    <3> QED BY <3>3, <3>4, <3>7, <3>8
  <2> QED BY <2>4, <2>5
<1>5. P(Len(s))
  <2> HIDE DEF P
  <2>1. Len(s) \in S
    <3> HIDE DEF S
    <3>1. Nat \subseteq S BY <1>3, <1>4, NatSet
    <3> QED BY <1>2, <3>1
  <2> QED BY <1>2, <2>1
<1> QED BY <1>1, <1>5

LEMMA LastTimesAre ==
    ASSUME NEW s \in Seq(Nat), Rising(s)
    PROVE  /\ LastTimes(s) \in Seq(Nat) /\ Rising(LastTimes(s))
           /\ Len(LastTimes(s)) \in Nat /\ (s # <<>> => LastTimes(s) # <<>> /\ LastTimes(s)[Len(LastTimes(s))] = s[Len(s)])
           /\ \A i \in 1..Len(LastTimes(s)) : \E j \in 1..Len(s) : LastTimes(s)[i] = s[j]
           /\ (s = <<>> => LastTimes(s) = <<>>)
<1>1. Len(s) \in Nat OBVIOUS
<1>2. CASE Len(s) <= MaxTimes
  <2>1. LastTimes(s) = s BY <1>1, <1>2, SeriesConstants DEF LastTimes
  <2> QED BY <1>1, <2>1
<1>3. CASE Len(s) > MaxTimes
  <2>0. MaxTimes \in Nat /\ MaxTimes >= 1 BY SeriesConstants
  <2>1. PICK d \in Nat : d = Len(s) - MaxTimes /\ d >= 1
    <3>1. Len(s) - MaxTimes \in Nat /\ Len(s) - MaxTimes >= 1 BY <1>1, <1>3, <2>0
    <3> QED BY <3>1
  <2>2. LastTimes(s) = SubSeq(s, d + 1, Len(s)) BY <1>3, <2>1 DEF LastTimes
  <2>3. PICK q : q = SubSeq(s, d + 1, Len(s)) OBVIOUS
  <2>4. q \in Seq(Nat) /\ Len(q) = MaxTimes /\ \A i \in 1..MaxTimes : q[i] = s[d + i] /\ d + i \in 1..Len(s)
    <3>1. d + 1 \in 1..Len(s) /\ Len(s) \in 1..Len(s) /\ Len(s) - (d + 1) + 1 = MaxTimes BY <1>1, <2>0, <2>1
    <3>2. q \in Seq(Nat) BY <2>3, <3>1
    <3>3. Len(q) = MaxTimes BY <2>0, <2>3, <3>1
    <3>4. \A i \in 1..MaxTimes : d + i \in 1..Len(s) BY <1>1, <2>0, <2>1
    <3>5. \A i \in 1..MaxTimes : q[i] = s[(d + 1) + i - 1] BY <1>1, <2>0, <2>1, <2>3, <3>1
    <3>6. \A i \in 1..MaxTimes : (d + 1) + i - 1 = d + i BY <2>0, <2>1
    <3> QED BY <3>2, <3>3, <3>4, <3>5, <3>6
  <2>5. Rising(q)
    <3> SUFFICES ASSUME NEW i \in 1..MaxTimes, NEW j \in 1..MaxTimes, i < j PROVE q[i] < q[j]
      BY <2>4 DEF Rising
    <3>1. d + i < d + j /\ d + i \in 1..Len(s) /\ d + j \in 1..Len(s) BY <2>1, <2>4, SeriesConstants
    <3> QED BY <2>4, <3>1 DEF Rising
  <2>6. q # <<>> /\ q[Len(q)] = s[Len(s)]
    <3>1. MaxTimes \in 1..MaxTimes /\ d + MaxTimes = Len(s) BY <1>1, <2>1, SeriesConstants
    <3> QED BY <2>4, <3>1
  <2>7. \A i \in 1..Len(q) : \E j \in 1..Len(s) : q[i] = s[j] BY <2>4
  <2>8. s # <<>> BY <1>1, <1>3, SeriesConstants
  <2> QED BY <2>2, <2>3, <2>4, <2>5, <2>6, <2>7, <2>8, SeriesConstants
<1> QED BY <1>1, <1>2, <1>3, SeriesConstants

LEMMA ChainGrows ==
    ASSUME NEW R, NEW Q, R \subseteq Q, NEW s, NEW first, SeriesFits(s, first, R)
    PROVE  SeriesFits(s, first, Q)
BY DEF SeriesFits, Chained

\* What is left of a history that fits still does.
LEMMA LoadedFits ==
    ASSUME SeriesInv, NEW k \in Keys
    PROVE  /\ SeriesFits(Loaded(k), autoFile.first[k], real[k]) /\ Loaded(k) \in Seq(Nat)
           /\ Loaded(k) # <<>> => autoFile.first[k] >= 1 /\ autoFile.first[k] <= Head(Loaded(k))
                                  /\ Head(Loaded(k)) \in Nat
<1> DEFINE s == autoFile.times[k]
           f == autoFile.first[k]
           r == Recent(s)
           q == LastTimes(r)
<1>1. s \in Seq(Nat) /\ f \in Nat /\ Rising(s) /\ SeriesFits(s, f, real[k]) /\ real[k] \subseteq 1..clock /\ clock \in Nat
  BY DEF SeriesInv, SeriesFits
<1>2. r \in Seq(Nat) /\ Rising(r) /\ \A i \in 1..Len(r) : \E j \in 1..Len(s) : r[i] = s[j]
  <2> HIDE DEF s, f
  <2> QED BY <1>1, RecentIs
<1>3. /\ q \in Seq(Nat) /\ Rising(q) /\ Len(q) \in Nat
      /\ \A i \in 1..Len(q) : \E j \in 1..Len(r) : q[i] = r[j]
  <2> HIDE DEF r
  <2> QED BY <1>2, LastTimesAre
<1>4. Loaded(k) = q BY DEF Loaded
<1> HIDE DEF q, r, s, f
<1>5. \A i \in 1..Len(q) : \E j \in 1..Len(s) : q[i] = s[j]
  <2> SUFFICES ASSUME NEW i \in 1..Len(q) PROVE \E j \in 1..Len(s) : q[i] = s[j] OBVIOUS
  <2>1. PICK j \in 1..Len(r) : q[i] = r[j] BY <1>3
  <2> QED BY <1>2, <2>1
<1>6. \A i \in 1..Len(q) : q[i] \in real[k] BY <1>1, <1>5 DEF SeriesFits
<1>7. ASSUME q # <<>>
      PROVE  f \in real[k] /\ f >= 1 /\ f <= q[1] /\ Chained(f, q[Len(q)], real[k]) /\ q[1] \in Nat
  <2>1. 1 \in 1..Len(q) /\ Len(q) \in 1..Len(q) BY <1>3, <1>7
  <2>2. PICK a \in 1..Len(s), b \in 1..Len(s) : q[1] = s[a] /\ q[Len(q)] = s[b] BY <1>5, <2>1
  <2>3. Len(s) \in Nat /\ s # <<>> /\ 1 \in 1..Len(s) /\ Len(s) \in 1..Len(s) BY <1>1, <2>2
  <2>4. f \in real[k] /\ f <= s[1] /\ Chained(f, s[Len(s)], real[k]) BY <1>1, <2>3 DEF SeriesFits
  <2>5. s[1] \in Nat /\ s[a] \in Nat /\ s[b] \in Nat /\ s[Len(s)] \in Nat
    <3>1. \A i \in 1..Len(s) : s[i] \in Nat BY <1>1
    <3> QED BY <2>2, <2>3, <3>1
  <2>6. s[1] <= s[a]
    <3>1. 1 <= a BY <2>3
    <3> QED BY <1>1, <2>3, <3>1, RisingIs
  <2>7. s[b] <= s[Len(s)]
    <3>1. b <= Len(s) BY <2>3
    <3> QED BY <1>1, <2>3, <3>1, RisingIs
  <2>8. Chained(f, q[Len(q)], real[k])
    <3>1. f..(q[Len(q)] - 1) \subseteq f..(s[Len(s)] - 1) BY <1>1, <2>2, <2>5, <2>7
    <3> QED BY <2>4, <3>1 DEF Chained
  <2>9. f >= 1 BY <1>1, <2>4
  <2> QED BY <1>1, <2>2, <2>4, <2>5, <2>6, <2>8, <2>9
<1>8. SeriesFits(q, f, real[k]) BY <1>3, <1>6, <1>7 DEF SeriesFits
<1>9. q # <<>> => Head(q) = q[1] BY <1>3
<1> QED BY <1>3, <1>4, <1>7, <1>8, <1>9 DEF f

LEMMA RebootFits ==
    ASSUME SeriesInv, Reboot
    PROVE  SeriesInv'
<1>1. /\ history' = [k \in Keys |-> Loaded(k)]
      /\ firsts' = [k \in Keys |->
                    IF Loaded(k) = <<>> THEN 0
                    ELSE IF autoFile.first[k] > 0 THEN Min({autoFile.first[k], Head(Loaded(k))})
                    ELSE Head(Loaded(k))]
      /\ judged' = NoneJudged /\ UNCHANGED <<clock, autoFile, real>>
  BY DEF Reboot
<1>2. ASSUME NEW k \in Keys
      PROVE  /\ history'[k] \in Seq(Nat) /\ firsts'[k] \in Nat /\ SeriesFits(history'[k], firsts'[k], real[k])
  <2>1. /\ SeriesFits(Loaded(k), autoFile.first[k], real[k]) /\ Loaded(k) \in Seq(Nat)
        /\ Loaded(k) # <<>> => autoFile.first[k] >= 1 /\ autoFile.first[k] <= Head(Loaded(k)) /\ Head(Loaded(k)) \in Nat
        /\ autoFile.first[k] \in Nat
    BY <1>2, LoadedFits DEF SeriesInv
  <2>2. history'[k] = Loaded(k) BY <1>1
  <2>3. CASE Loaded(k) = <<>>
    <3>1. firsts'[k] = 0 BY <1>1, <2>3
    <3> QED BY <2>1, <2>2, <2>3, <3>1 DEF SeriesFits
  <2>4. CASE Loaded(k) # <<>>
    <3>1. Min({autoFile.first[k], Head(Loaded(k))}) = autoFile.first[k]
      <4>1. PICK a \in Nat, b \in Nat : a = autoFile.first[k] /\ b = Head(Loaded(k)) /\ a <= b BY <2>1, <2>4
      <4>2. Min({a, b}) = a BY <4>1 DEF Min
      <4> QED BY <4>1, <4>2
    <3>2. firsts'[k] = autoFile.first[k] BY <1>1, <2>1, <2>4, <3>1
    <3> QED BY <2>1, <2>2, <3>2
  <2> QED BY <2>3, <2>4
<1>3. history' \in [Keys -> Seq(Nat)] /\ firsts' \in [Keys -> Nat] BY <1>1, <1>2
<1>4. SeriesLasted' BY <1>1 DEF SeriesLasted, NoneJudged
<1> QED BY <1>1, <1>2, <1>3, <1>4 DEF SeriesInv

\* What a login makes of the history of its key.
LEMMA RecordFits ==
    ASSUME SeriesInv, NEW k \in Keys,
           NEW kept, kept = Recent(history[k]),
           NEW new \in BOOLEAN, new <=> (kept = <<>> \/ clock - Latest(kept) >= Burst),
           NEW mine, mine = IF new THEN LastTimes(Append(kept, clock)) ELSE kept,
           NEW first, first = First(k, kept)
    PROVE  /\ first \in Nat /\ SeriesFits(mine, first, real[k] \cup {clock})
           /\ mine # <<>> /\ Chained(first, clock, real[k] \cup {clock})
<1> DEFINE R == real[k] \cup {clock}
<1>1. /\ history[k] \in Seq(Nat) /\ firsts[k] \in Nat /\ Rising(history[k]) /\ clock \in Nat /\ clock >= 1
      /\ SeriesFits(history[k], firsts[k], real[k]) /\ real[k] \subseteq 1..clock /\ clock \in R
  BY DEF SeriesInv, SeriesFits
<1>2. PICK s \in Seq(Nat) : s = history[k] BY <1>1
<1>3. /\ kept \in Seq(Nat) /\ Rising(kept) /\ Len(kept) \in Nat
      /\ \A i \in 1..Len(kept) : InWindow(kept[i]) /\ \E j \in 1..Len(s) : kept[i] = s[j]
  <2>1. kept = Recent(s) /\ Rising(s) BY <1>1, <1>2
  <2>2. Recent(s) \in Seq(Nat) /\ Rising(Recent(s)) BY <2>1, RecentIs
  <2>3. \A i \in 1..Len(Recent(s)) : InWindow(Recent(s)[i]) /\ \E j \in 1..Len(s) : Recent(s)[i] = s[j]
    BY <2>1, RecentIs
  <2>4. Len(Recent(s)) \in Nat BY <2>2
  <2> QED BY <2>1, <2>2, <2>3, <2>4
<1>4. \A i \in 1..Len(kept) : kept[i] \in R BY <1>1, <1>2, <1>3 DEF SeriesFits
<1>5. CASE kept = <<>>
  <2>1. new /\ first = clock BY <1>5 DEF First
  <2>2. LastTimes(Append(kept, clock)) = <<clock>>
    <3>1. Append(kept, clock) = <<clock>> BY <1>5
    <3>2. Len(<<clock>>) = 1 OBVIOUS
    <3>3. ~(1 > MaxTimes) BY SeriesConstants
    <3> QED BY <3>1, <3>2, <3>3 DEF LastTimes
  <2>3. mine = <<clock>> BY <2>1, <2>2
  <2>4. mine \in Seq(Nat) /\ Len(mine) = 1 /\ mine[1] = clock /\ mine # <<>>
    <3>1. <<clock>> \in Seq(Nat) BY <1>1
    <3>2. Len(<<clock>>) = 1 /\ <<clock>>[1] = clock OBVIOUS
    <3>3. <<clock>> # <<>> BY <3>2
    <3> QED BY <2>3, <3>1, <3>2, <3>3
  <2>5. Rising(mine) BY <2>4 DEF Rising
  <2>6. Chained(clock, clock, R) BY <1>1 DEF Chained
  <2> QED BY <1>1, <2>1, <2>4, <2>5, <2>6 DEF SeriesFits
<1>6. CASE kept # <<>>
  <2>1. 1 \in 1..Len(kept) /\ Len(kept) \in 1..Len(kept) BY <1>3, <1>6
  <2>2. PICK last \in Nat : last = kept[Len(kept)] BY <1>3, <2>1
  <2>3. last <= clock /\ clock - last < Window BY <1>3, <2>1, <2>2 DEF InWindow
  <2>4. PICK a \in 1..Len(s), b \in 1..Len(s) : kept[1] = s[a] /\ last = s[b] BY <1>3, <2>1, <2>2
  <2>5. Len(s) \in Nat /\ s # <<>> /\ 1 \in 1..Len(s) /\ Len(s) \in 1..Len(s) BY <1>2, <2>4
  <2>6. firsts[k] \in real[k] /\ firsts[k] <= s[1] /\ Chained(firsts[k], s[Len(s)], real[k])
    BY <1>1, <1>2, <2>5 DEF SeriesFits
  <2>7. s[1] \in Nat /\ s[a] \in Nat /\ s[b] \in Nat /\ s[Len(s)] \in Nat
    <3>1. \A i \in 1..Len(s) : s[i] \in Nat BY <1>2
    <3> QED BY <2>5, <3>1
  <2>8. s[1] <= s[a] /\ s[b] <= s[Len(s)]
    <3>1. 1 <= a /\ b <= Len(s) /\ Rising(s) BY <1>1, <1>2, <2>5
    <3>2. s[1] <= s[a] BY <2>5, <3>1, RisingIs
    <3>3. s[b] <= s[Len(s)] BY <2>5, <3>1, RisingIs
    <3> QED BY <3>2, <3>3
  <2>9. firsts[k] >= 1 /\ first = firsts[k] BY <1>1, <1>6, <2>6 DEF First
  <2>10. first \in R /\ first <= kept[1]
    <3>1. first \in R /\ first <= s[1] BY <2>6, <2>9
    <3>2. first \in Nat /\ kept[1] = s[a] BY <1>1, <2>4, <2>9
    <3> QED BY <2>7, <2>8, <3>1, <3>2
  <2>11. \A t \in first..(last - 1) : \E u \in real[k] : t < u /\ u - t < Window
    <3>1. first..(last - 1) \subseteq first..(s[Len(s)] - 1) BY <1>1, <2>4, <2>7, <2>8, <2>9
    <3> QED BY <2>6, <2>9, <3>1 DEF Chained
  <2>12. Chained(first, last, R) BY <2>11 DEF Chained
  <2>13. Chained(first, clock, R)
    <3> SUFFICES ASSUME NEW t \in first..(clock - 1) PROVE \E u \in R : t < u /\ u - t < Window
      BY DEF Chained
    <3>0. t \in Int /\ first <= t /\ t <= clock - 1 /\ first \in Nat BY <1>1, <2>9
    <3>1. CASE t < last
      <4>1. t \in first..(last - 1) BY <2>2, <3>0, <3>1
      <4> QED BY <2>11, <4>1
    <3>2. CASE ~(t < last)
      <4>0. clock \in Nat /\ Window \in Nat /\ last \in Nat BY <1>1, SeriesConstants
      <4>1. t < clock /\ clock - t < Window BY <2>3, <3>0, <3>2, <4>0
      <4> QED BY <4>1
    <3> QED BY <3>1, <3>2
  <2>14. CASE ~new
    <3>1. mine = kept BY <2>14
    <3>2. SeriesFits(mine, first, R) BY <1>3, <1>4, <2>2, <2>10, <2>12, <3>1 DEF SeriesFits
    <3> QED BY <1>1, <1>6, <2>9, <2>13, <3>1, <3>2
  <2>15. CASE new
    <3>1. PICK q : q = Append(kept, clock) OBVIOUS
    <3>2. PICK m \in Nat : m = Len(kept) BY <1>3
    <3>3. q \in Seq(Nat) /\ Len(q) = m + 1 /\ q[m + 1] = clock /\ \A i \in 1..m : q[i] = kept[i]
      BY <1>1, <1>3, <3>1, <3>2
    <3>4. last < clock
      <4>1. Latest(kept) = last BY <1>6, <2>2 DEF Latest, Last
      <4>2. clock - last >= Burst BY <1>6, <2>15, <4>1
      <4> QED BY <1>1, <2>2, <4>2, SeriesConstants
    <3>5. \A i \in 1..m : kept[i] \in Nat /\ kept[i] < clock
      <4> SUFFICES ASSUME NEW i \in 1..m PROVE kept[i] \in Nat /\ kept[i] < clock OBVIOUS
      <4>1. kept[i] \in Nat BY <1>3, <3>2
      <4>2. CASE i = m BY <2>2, <3>2, <3>4, <4>1, <4>2
      <4>3. CASE i # m
        <5>1. i < m /\ m \in 1..Len(kept) /\ i \in 1..Len(kept) BY <3>2, <4>3
        <5>2. kept[i] < kept[m] BY <1>3, <5>1 DEF Rising
        <5> QED BY <1>1, <2>2, <3>2, <3>4, <4>1, <5>2
      <4> QED BY <4>2, <4>3
    <3>6. Rising(q)
      <4> SUFFICES ASSUME NEW i \in 1..(m + 1), NEW j \in 1..(m + 1), i < j PROVE q[i] < q[j]
        BY <3>3 DEF Rising
      <4>1. i \in 1..m BY <3>2
      <4>2. CASE j = m + 1 BY <3>3, <3>5, <4>1, <4>2
      <4>3. CASE j # m + 1
        <5>1. j \in 1..m BY <4>3
        <5>2. kept[i] < kept[j] BY <1>3, <3>2, <4>1, <5>1 DEF Rising
        <5> QED BY <3>3, <4>1, <5>1, <5>2
      <4> QED BY <4>2, <4>3
    <3>7. q # <<>> BY <3>3
    <3>8. mine = LastTimes(q) BY <2>15, <3>1
    <3>9. /\ mine \in Seq(Nat) /\ Rising(mine) /\ Len(mine) \in Nat /\ mine # <<>>
          /\ mine[Len(mine)] = clock
          /\ \A i \in 1..Len(mine) : \E j \in 1..Len(q) : mine[i] = q[j]
      <4>1. q \in Seq(Nat) /\ Rising(q) /\ q # <<>> /\ q[Len(q)] = clock BY <3>3, <3>6, <3>7
      <4>2. /\ LastTimes(q) \in Seq(Nat) /\ Rising(LastTimes(q)) /\ Len(LastTimes(q)) \in Nat
            /\ LastTimes(q) # <<>> /\ LastTimes(q)[Len(LastTimes(q))] = q[Len(q)]
        BY <4>1, LastTimesAre
      <4>3. \A i \in 1..Len(LastTimes(q)) : \E j \in 1..Len(q) : LastTimes(q)[i] = q[j]
        BY <4>1, LastTimesAre
      <4> QED BY <3>8, <4>1, <4>2, <4>3
    <3>10. \A j \in 1..Len(q) : q[j] \in R /\ first <= q[j]
      <4> SUFFICES ASSUME NEW j \in 1..(m + 1) PROVE q[j] \in R /\ first <= q[j]
        BY <3>3
      <4>1. CASE j = m + 1 BY <1>1, <2>4, <2>7, <2>9, <2>10, <3>3, <3>5, <3>2, <2>1, <4>1
      <4>2. CASE j # m + 1
        <5>1. j \in 1..m /\ j \in 1..Len(kept) BY <3>2, <4>2
        <5>2. kept[1] <= kept[j]
          <6>1. 1 <= j /\ Rising(kept) /\ kept \in Seq(Nat) BY <1>3, <5>1
          <6> QED BY <2>1, <5>1, <6>1, RisingIs
        <5>3. kept[1] \in Nat /\ kept[j] \in Nat /\ first \in Nat
          <6>1. \A i \in 1..Len(kept) : kept[i] \in Nat BY <1>3
          <6>2. first \in Nat BY <1>1, <2>9
          <6> QED BY <2>1, <5>1, <6>1, <6>2
        <5>4. q[j] = kept[j] BY <3>3, <5>1
        <5>5. kept[j] \in R BY <1>4, <5>1
        <5>6. first <= kept[j] BY <2>10, <5>2, <5>3
        <5> QED BY <5>4, <5>5, <5>6
      <4> QED BY <4>1, <4>2
    <3>11. \A i \in 1..Len(mine) : mine[i] \in R /\ first <= mine[i] BY <3>9, <3>10
    <3>12. 1 \in 1..Len(mine) BY <3>9
    <3>13. SeriesFits(mine, first, R) BY <2>10, <2>13, <3>9, <3>11, <3>12 DEF SeriesFits
    <3> QED BY <1>1, <2>9, <2>13, <3>9, <3>13
  <2> QED BY <2>14, <2>15
<1> QED BY <1>5, <1>6

\* As many logins there were as a history holds.
LEMMA HistoryCounts ==
    ASSUME NEW s, NEW first \in Nat, NEW c \in Nat, NEW R, R \subseteq 1..c, SeriesFits(s, first, R), s # <<>>
    PROVE  Len(s) <= Cardinality({t \in R : t >= first})
<1> DEFINE T == {t \in R : t >= first}
           n == Len(s)
           f == [i \in 1..n |-> s[i]]
<1>1. s \in Seq(Nat) /\ n \in Nat /\ Rising(s) /\ (\A i \in 1..n : s[i] \in R) /\ first <= s[1] /\ 1 \in 1..n
  BY DEF SeriesFits
<1>2. \A i \in 1..n : s[i] \in T
  <2> SUFFICES ASSUME NEW i \in 1..n PROVE s[i] >= first BY <1>1
  <2>1. s[1] \in Nat /\ s[i] \in Nat BY <1>1
  <2>2. s[1] <= s[i] BY <1>1, <2>1 DEF Rising
  <2> QED BY <1>1, <2>1, <2>2
<1>3. IsFiniteSet(T) /\ Cardinality(T) \in Nat
  <2>1. IsFiniteSet(1..c) BY FS_Interval
  <2>2. IsFiniteSet(T) BY <2>1, FS_Subset
  <2> QED BY <2>2, FS_CardinalityType
<1>4. f \in Injection(1..n, T)
  <2>1. f \in [1..n -> T] BY <1>2
  <2>2. \A i, j \in 1..n : f[i] = f[j] => i = j
    <3> SUFFICES ASSUME NEW i \in 1..n, NEW j \in 1..n, i # j PROVE s[i] # s[j] OBVIOUS
    <3>1. s[i] \in Nat /\ s[j] \in Nat /\ i \in Nat /\ j \in Nat BY <1>1
    <3>2. i < j \/ j < i BY <3>1
    <3> QED BY <1>1, <3>1, <3>2 DEF Rising
  <2> HIDE DEF f
  <2> QED BY <2>1, <2>2 DEF Injection, IsInjective
<1>5. IsFiniteSet(1..n) /\ Cardinality(1..n) = n
  <2>1. IsFiniteSet(1..n) BY <1>1, FS_Interval
  <2>2. Cardinality(1..n) = IF 1 > n THEN 0 ELSE n - 1 + 1 BY <1>1, FS_Interval
  <2> QED BY <1>1, <2>1, <2>2
<1> HIDE DEF T, f, n
<1>6. Cardinality(1..n) <= Cardinality(T) BY <1>3, <1>4, <1>5, FS_Injection
<1> QED BY <1>5, <1>6 DEF T, n

LEMMA RecordKeeps ==
    ASSUME SeriesInv, NEW k \in Keys, Record(k)
    PROVE  SeriesInv'
<1> DEFINE kept == Recent(history[k])
           new == kept = <<>> \/ clock - Latest(kept) >= Burst
           mine == IF new THEN LastTimes(Append(kept, clock)) ELSE kept
           first == First(k, kept)
           R == real[k] \cup {clock}
<1>1. /\ real' = [real EXCEPT ![k] = @ \cup {clock}]
      /\ \E left : 
            /\ history' = [j \in Keys |-> IF j \notin left THEN <<>> ELSE IF j = k THEN mine ELSE history[j]]
            /\ firsts' = [j \in Keys |-> IF j \notin left THEN 0 ELSE IF j = k THEN first ELSE firsts[j]]
      /\ \/ autoFile' = [times |-> history', first |-> firsts']
         \/ autoFile' = autoFile
      /\ judged' = [key |-> {k}, auto |-> clock - first >= MinAge /\ RegularCadence(mine)]
      /\ clock' = clock
  BY DEF Record
<1>2. /\ first \in Nat /\ SeriesFits(mine, first, R) /\ mine # <<>> /\ Chained(first, clock, R)
  BY RecordFits
<1>3. /\ clock \in Nat /\ clock >= 1 /\ real \in [Keys -> SUBSET (1..clock)]
      /\ history \in [Keys -> Seq(Nat)] /\ firsts \in [Keys -> Nat]
      /\ autoFile \in [times : [Keys -> Seq(Nat)], first : [Keys -> Nat]]
      /\ \A j \in Keys : SeriesFits(history[j], firsts[j], real[j]) /\ SeriesFits(autoFile.times[j], autoFile.first[j], real[j])
  BY DEF SeriesInv
<1> HIDE DEF kept, new, mine, first
<1>4. /\ real' \in [Keys -> SUBSET (1..clock)] /\ real'[k] = R
      /\ \A j \in Keys : real[j] \subseteq real'[j]
  <2>1. clock \in 1..clock BY <1>3
  <2> QED BY <1>1, <1>3, <2>1
<1>5. ASSUME NEW j \in Keys
      PROVE  history'[j] \in Seq(Nat) /\ firsts'[j] \in Nat /\ SeriesFits(history'[j], firsts'[j], real'[j])
  <2>1. PICK left :
            /\ history' = [i \in Keys |-> IF i \notin left THEN <<>> ELSE IF i = k THEN mine ELSE history[i]]
            /\ firsts' = [i \in Keys |-> IF i \notin left THEN 0 ELSE IF i = k THEN first ELSE firsts[i]]
    BY <1>1
  <2>2. CASE j \notin left
    <3>1. history'[j] = <<>> /\ firsts'[j] = 0 BY <2>1, <2>2
    <3>2. SeriesFits(<<>>, 0, real'[j]) BY DEF SeriesFits, Rising
    <3> QED BY <3>1, <3>2
  <2>3. CASE j \in left /\ j = k
    <3>1. history'[j] = mine /\ firsts'[j] = first BY <2>1, <2>3
    <3>2. mine \in Seq(Nat) BY <1>2 DEF SeriesFits
    <3> QED BY <1>2, <1>4, <2>3, <3>1, <3>2
  <2>4. CASE j \in left /\ j # k
    <3>1. history'[j] = history[j] /\ firsts'[j] = firsts[j] BY <2>1, <2>4
    <3>2. SeriesFits(history[j], firsts[j], real'[j]) BY <1>3, <1>4, ChainGrows
    <3> QED BY <1>3, <3>1, <3>2
  <2> QED BY <2>2, <2>3, <2>4
<1>6. history' \in [Keys -> Seq(Nat)] /\ firsts' \in [Keys -> Nat]
  <2>1. PICK left :
            /\ history' = [i \in Keys |-> IF i \notin left THEN <<>> ELSE IF i = k THEN mine ELSE history[i]]
            /\ firsts' = [i \in Keys |-> IF i \notin left THEN 0 ELSE IF i = k THEN first ELSE firsts[i]]
    BY <1>1
  <2> QED BY <1>5, <2>1
<1>7. /\ autoFile' \in [times : [Keys -> Seq(Nat)], first : [Keys -> Nat]]
      /\ \A j \in Keys : SeriesFits(autoFile'.times[j], autoFile'.first[j], real'[j])
  <2>1. CASE autoFile' = autoFile
    <3>1. \A j \in Keys : SeriesFits(autoFile.times[j], autoFile.first[j], real'[j]) BY <1>3, <1>4, ChainGrows
    <3> QED BY <1>3, <2>1, <3>1
  <2>2. CASE autoFile' = [times |-> history', first |-> firsts']
    <3>1. autoFile'.times = history' /\ autoFile'.first = firsts' BY <2>2
    <3>2. autoFile' \in [times : [Keys -> Seq(Nat)], first : [Keys -> Nat]] BY <1>6, <2>2
    <3> QED BY <1>5, <3>1, <3>2
  <2> QED BY <1>1, <2>1, <2>2
<1>8. SeriesLasted'
  <2> SUFFICES ASSUME clock - first >= MinAge, RegularCadence(mine)
               PROVE  \E from \in R :
                          /\ clock - from >= MinAge
                          /\ Cardinality({t \in R : t >= from}) >= MinLogins
                          /\ \A t \in from..(clock - 1) : \E u \in R : t < u /\ u - t < Window
    <3>1. judged'.key = {k} /\ (judged'.auto <=> clock - first >= MinAge /\ RegularCadence(mine)) BY <1>1
    <3> HIDE DEF R
    <3> QED BY <1>1, <1>4, <3>1 DEF SeriesLasted
  <2>1. Len(mine) >= MinLogins BY DEF RegularCadence
  <2>2. first \in R
    <3>1. mine \in Seq(Nat) BY <1>2 DEF SeriesFits
    <3> QED BY <1>2 DEF SeriesFits
  <2>3. R \subseteq 1..clock BY <1>3, <1>4
  <2>4. Len(mine) <= Cardinality({t \in R : t >= first})
    <3> HIDE DEF R
    <3> QED BY <1>2, <1>3, <2>3, HistoryCounts
  <2>5. Cardinality({t \in R : t >= first}) \in Nat
    <3>1. IsFiniteSet(1..clock) BY <1>3, FS_Interval
    <3>2. {t \in R : t >= first} \subseteq 1..clock BY <2>3
    <3> HIDE DEF R
    <3> QED BY <3>1, <3>2, FS_Subset, FS_CardinalityType
  <2>6. Len(mine) \in Nat /\ MinLogins \in Nat
    <3>1. mine \in Seq(Nat) BY <1>2 DEF SeriesFits
    <3> QED BY <3>1, SeriesConstants
  <2>7. Cardinality({t \in R : t >= first}) >= MinLogins BY <2>1, <2>4, <2>5, <2>6
  <2>8. \A t \in first..(clock - 1) : \E u \in R : t < u /\ u - t < Window BY <1>2 DEF Chained
  <2> QED BY <2>2, <2>7, <2>8
<1> QED BY <1>1, <1>3, <1>4, <1>5, <1>6, <1>7, <1>8 DEF SeriesInv

LEMMA SeriesStart == AutomationInit => SeriesInv
<1> SUFFICES ASSUME AutomationInit PROVE SeriesInv OBVIOUS
<1>1. /\ clock = 1 /\ history = [k \in Keys |-> <<>>] /\ firsts = [k \in Keys |-> 0]
      /\ autoFile = [times |-> history, first |-> firsts] /\ real = [k \in Keys |-> {}] /\ judged = NoneJudged
  BY DEF AutomationInit, Empty
<1>2. \A R : SeriesFits(<<>>, 0, R) BY DEF SeriesFits, Rising
<1>3. history \in [Keys -> Seq(Nat)] /\ firsts \in [Keys -> Nat] BY <1>1
<1>4. SeriesLasted BY <1>1 DEF SeriesLasted, NoneJudged
<1> QED BY <1>1, <1>2, <1>3, <1>4 DEF SeriesInv

LEMMA SeriesKeep == SeriesInv /\ [AutomationNext]_automationVars => SeriesInv'
<1> SUFFICES ASSUME SeriesInv, [AutomationNext]_automationVars PROVE SeriesInv' OBVIOUS
<1>1. CASE UNCHANGED automationVars
  BY <1>1 DEF automationVars, SeriesInv, SeriesLasted
<1>2. CASE \E k \in Keys : Record(k) BY <1>2, RecordKeeps
<1>3. CASE Reboot BY <1>3, RebootFits
<1>4. CASE Elapse
  <2>1. clock' = clock + 1 /\ judged' = NoneJudged /\ UNCHANGED <<history, firsts, autoFile, real>>
    BY <1>4 DEF Elapse
  <2>2. clock \in Nat /\ clock >= 1 /\ real \in [Keys -> SUBSET (1..clock)] BY DEF SeriesInv
  <2>3. 1..clock \subseteq 1..(clock + 1) BY <2>2
  <2>4. real' \in [Keys -> SUBSET (1..(clock + 1))] BY <2>1, <2>2, <2>3
  <2>5. SeriesLasted' BY <2>1 DEF SeriesLasted, NoneJudged
  <2> QED BY <2>1, <2>2, <2>4, <2>5 DEF SeriesInv
<1> QED BY <1>1, <1>2, <1>3, <1>4 DEF AutomationNext

\* A login is said to be scheduled only after a series of logins without a gap as long
\* as the window, and as old as it must be, whatever was saved, evicted or read again
\* after a restart (automation.go record, regularCadence, evictLocked and load).
THEOREM AutomationEarned == AutomationSpec => []SeriesLasted
<1>1. AutomationSpec => []SeriesInv BY SeriesStart, SeriesKeep, PTL DEF AutomationSpec
<1>2. SeriesInv => SeriesLasted BY DEF SeriesInv
<1> QED BY <1>1, <1>2, PTL

(* The types of the scheduled logins: no more keys than may be, in memory   *)
(* and in the file, each with its newest logins.                            *)

\* The keys that have logins: few enough, in memory and in the file.
Keyed(times) == {k \in Keys : times[k] # <<>>}
FewKeys(times) == IsFiniteSet(Keyed(times)) /\ Cardinality(Keyed(times)) <= MaxKeys
AutomationTypes ==
    /\ SeriesInv
    /\ clock <= Horizon /\ savedAt \in Nat /\ savedAt >= 1 /\ savedAt <= clock /\ dirty \in BOOLEAN
    /\ \A k \in Keys : Len(history[k]) <= MaxTimes /\ (history[k] = <<>> => firsts[k] = 0)
    /\ FewKeys(history) /\ FewKeys(autoFile.times)

LEMMA AutomationConstants == MaxKeys \in Nat /\ MaxTimes \in Nat /\ Horizon \in Nat /\ Horizon >= 1
BY AutomationAssumption

LEMMA RecentShorter ==
    ASSUME NEW s \in Seq(Nat)
    PROVE  Recent(s) \in Seq(Nat) /\ Len(Recent(s)) <= Len(s)
<1>1. PICK g : RecentLoop(g, s, Len(s)) /\ Recent(s) = g[Len(s)] BY RecentRuns
<1>2. PICK N \in Nat : N = Len(s) OBVIOUS
<1> DEFINE P(n) == g[n] \in Seq(Nat) /\ Len(g[n]) <= n
           S == {n \in Nat : n <= N => P(n)}
<1>3. 0 \in S
  <2>1. g[0] = <<>> BY <1>1, <1>2 DEF RecentLoop
  <2>2. P(0) BY <2>1
  <2> HIDE DEF P
  <2> QED BY <2>2
<1>4. ASSUME NEW n \in Nat, n \in S PROVE n + 1 \in S
  <2> SUFFICES ASSUME n + 1 <= N PROVE P(n + 1) OBVIOUS
  <2>1. P(n) BY <1>2, <1>4
  <2>2. n + 1 \in 1..N /\ s[n + 1] \in Nat BY <1>2
  <2>3. g[n + 1] = IF InWindow(s[n + 1]) THEN Append(g[n], s[n + 1]) ELSE g[n]
    <3>1. n + 1 \in 0..N /\ n + 1 # 0 /\ (n + 1) - 1 = n BY <2>2
    <3>2. g[n + 1] = IF InWindow(s[n + 1]) THEN Append(g[(n + 1) - 1], s[n + 1]) ELSE g[(n + 1) - 1]
      BY <1>1, <1>2, <3>1 DEF RecentLoop
    <3> QED BY <3>1, <3>2
  <2>4. PICK r \in Seq(Nat) : r = g[n] BY <2>1
  <2>5. Len(r) \in Nat /\ Len(r) <= n BY <2>1, <2>4
  <2>6. Append(r, s[n + 1]) \in Seq(Nat) /\ Len(Append(r, s[n + 1])) = Len(r) + 1 BY <2>2, <2>4
  <2>7. CASE InWindow(s[n + 1])
    <3>1. g[n + 1] = Append(r, s[n + 1]) BY <2>3, <2>4, <2>7
    <3> QED BY <2>5, <2>6, <3>1
  <2>8. CASE ~InWindow(s[n + 1])
    <3>1. g[n + 1] = r BY <2>3, <2>4, <2>8
    <3> QED BY <2>4, <2>5, <3>1
  <2> QED BY <2>7, <2>8
<1>5. P(N)
  <2> HIDE DEF P
  <2>1. N \in S
    <3> HIDE DEF S
    <3>1. Nat \subseteq S BY <1>3, <1>4, NatSet
    <3> QED BY <3>1
  <2> QED BY <2>1
<1> QED BY <1>1, <1>2, <1>5

LEMMA LastTimesFit ==
    ASSUME NEW s \in Seq(Nat)
    PROVE  Len(LastTimes(s)) <= MaxTimes
<1>1. Len(s) \in Nat /\ MaxTimes \in Nat BY AutomationConstants
<1>2. CASE Len(s) <= MaxTimes BY <1>1, <1>2 DEF LastTimes
<1>3. CASE Len(s) > MaxTimes
  <2>1. LastTimes(s) = SubSeq(s, Len(s) - MaxTimes + 1, Len(s)) BY <1>3 DEF LastTimes
  <2>2. Len(SubSeq(s, Len(s) - MaxTimes + 1, Len(s))) = MaxTimes BY <1>1, <1>3
  <2> QED BY <1>1, <2>1, <2>2
<1> QED BY <1>1, <1>2, <1>3

LEMMA FewFewer ==
    ASSUME NEW times, NEW other, FewKeys(times), \A k \in Keys : other[k] # <<>> => times[k] # <<>>
    PROVE  FewKeys(other)
<1>1. Keyed(other) \subseteq Keyed(times) BY DEF Keyed
<1>2. IsFiniteSet(Keyed(other)) /\ Cardinality(Keyed(other)) <= Cardinality(Keyed(times)) BY <1>1, FS_Subset DEF FewKeys
<1>3. Cardinality(Keyed(other)) \in Nat /\ Cardinality(Keyed(times)) \in Nat BY <1>2, FS_CardinalityType DEF FewKeys
<1> QED BY <1>2, <1>3, AutomationConstants DEF FewKeys

\* evictLocked leaves no more keys than it may.
LEMMA LeftAreFew ==
    ASSUME NEW times, IsFiniteSet(Keyed(times)), NEW left \in KeptKeys(times)
    PROVE  left \subseteq Keyed(times) /\ IsFiniteSet(left) /\ Cardinality(left) <= MaxKeys /\ Cardinality(left) \in Nat
<1>1. CASE Cardinality(Keyed(times)) <= MaxKeys
  <2>1. left = Keyed(times) BY <1>1 DEF KeptKeys, Keyed
  <2> QED BY <1>1, <2>1, FS_CardinalityType
<1>2. CASE ~(Cardinality(Keyed(times)) <= MaxKeys)
  <2>1. left \in kSubset(MaxKeys, Keyed(times)) BY <1>2 DEF KeptKeys, Keyed
  <2>2. left \subseteq Keyed(times) /\ Cardinality(left) = MaxKeys BY <2>1 DEF kSubset
  <2> QED BY <2>2, FS_Subset, AutomationConstants
<1> QED BY <1>1, <1>2

LEMMA AutomationRecords ==
    ASSUME AutomationTypes, NEW k \in Keys, Record(k)
    PROVE  AutomationTypes'
<1> DEFINE kept == Recent(history[k])
           new == kept = <<>> \/ clock - Latest(kept) >= Burst
           mine == IF new THEN LastTimes(Append(kept, clock)) ELSE kept
           first == First(k, kept)
           times == [history EXCEPT ![k] = mine]
<1>0. SeriesInv /\ SeriesInv' BY RecordKeeps DEF AutomationTypes
<1>1. /\ clock \in Nat /\ clock >= 1 /\ history \in [Keys -> Seq(Nat)] BY <1>0 DEF SeriesInv
<1>2. PICK left \in KeptKeys(times) :
            /\ history' = [j \in Keys |-> IF j \notin left THEN <<>> ELSE IF j = k THEN mine ELSE history[j]]
            /\ firsts' = [j \in Keys |-> IF j \notin left THEN 0 ELSE IF j = k THEN first ELSE firsts[j]]
  BY DEF Record
<1>3. /\ clock' = clock
      /\ \/ dirty' = FALSE /\ savedAt' = clock /\ autoFile' = [times |-> history', first |-> firsts']
         \/ dirty' \in BOOLEAN /\ savedAt' = savedAt /\ autoFile' = autoFile
  BY DEF Record
<1>4. Len(mine) <= MaxTimes
  <2>1. kept \in Seq(Nat) /\ Len(kept) <= Len(history[k]) BY <1>1, RecentShorter
  <2>2. Append(kept, clock) \in Seq(Nat) BY <1>1, <2>1
  <2>3. Len(LastTimes(Append(kept, clock))) <= MaxTimes BY <2>2, LastTimesFit
  <2>4. Len(kept) <= MaxTimes
    <3>1. Len(kept) \in Nat /\ Len(history[k]) \in Nat /\ Len(history[k]) <= MaxTimes
      BY <1>1, <2>1 DEF AutomationTypes
    <3> QED BY <2>1, <3>1, AutomationConstants
  <2> QED BY <2>3, <2>4
<1>5. mine # <<>> BY <1>0, RecordFits
<1> HIDE DEF mine, first
<1>6. IsFiniteSet(Keyed(times)) /\ Keyed(times) = Keyed(history) \cup {k}
  <2>1. Keyed(times) = Keyed(history) \cup {k} BY <1>1, <1>5 DEF Keyed
  <2> QED BY <2>1, FS_AddElement DEF AutomationTypes, FewKeys
<1>7. left \subseteq Keyed(times) /\ IsFiniteSet(left) /\ Cardinality(left) <= MaxKeys /\ Cardinality(left) \in Nat
  BY <1>2, <1>6, LeftAreFew
<1>8. FewKeys(history)'
  <2>1. Keyed(history') \subseteq left BY <1>2 DEF Keyed
  <2>2. IsFiniteSet(Keyed(history')) /\ Cardinality(Keyed(history')) <= Cardinality(left)
        /\ Cardinality(Keyed(history')) \in Nat
    BY <1>7, <2>1, FS_Subset, FS_CardinalityType
  <2> QED BY <1>7, <2>2, AutomationConstants DEF FewKeys, Keyed
<1>9. FewKeys(autoFile.times)'
  <2>1. CASE autoFile' = autoFile BY <2>1 DEF AutomationTypes, FewKeys, Keyed
  <2>2. CASE autoFile' = [times |-> history', first |-> firsts']
    <3>1. autoFile'.times = history' BY <2>2
    <3> QED BY <1>8, <3>1 DEF FewKeys, Keyed
  <2> QED BY <1>3, <2>1, <2>2
<1>10. \A j \in Keys : Len(history'[j]) <= MaxTimes /\ (history'[j] = <<>> => firsts'[j] = 0)
  <2> SUFFICES ASSUME NEW j \in Keys
               PROVE  Len(history'[j]) <= MaxTimes /\ (history'[j] = <<>> => firsts'[j] = 0)
    OBVIOUS
  <2>1. CASE j \notin left
    <3>1. history'[j] = <<>> /\ firsts'[j] = 0 BY <1>2, <2>1
    <3> QED BY <3>1, AutomationConstants
  <2>2. CASE j \in left /\ j = k
    <3>1. history'[j] = mine BY <1>2, <2>2
    <3> QED BY <1>4, <1>5, <3>1
  <2>3. CASE j \in left /\ j # k
    <3>1. history'[j] = history[j] /\ firsts'[j] = firsts[j] BY <1>2, <2>3
    <3> QED BY <3>1 DEF AutomationTypes
  <2> QED BY <2>1, <2>2, <2>3
<1>11. clock' <= Horizon /\ savedAt' \in Nat /\ savedAt' >= 1 /\ savedAt' <= clock' /\ dirty' \in BOOLEAN
  <2>1. clock <= Horizon /\ savedAt \in Nat /\ savedAt >= 1 /\ savedAt <= clock BY DEF AutomationTypes
  <2>2. clock' = clock /\ (savedAt' = clock \/ savedAt' = savedAt) BY <1>3
  <2>3. clock' <= Horizon /\ savedAt' \in Nat /\ savedAt' >= 1 /\ savedAt' <= clock' BY <1>1, <2>1, <2>2
  <2>4. dirty' \in BOOLEAN BY <1>3
  <2> QED BY <2>3, <2>4
<1> QED BY <1>0, <1>8, <1>9, <1>10, <1>11 DEF AutomationTypes

LEMMA AutomationReboots == ASSUME AutomationTypes, Reboot PROVE AutomationTypes'
<1>0. SeriesInv /\ SeriesInv' BY RebootFits DEF AutomationTypes
<1>1. clock \in Nat /\ clock >= 1 /\ autoFile \in [times : [Keys -> Seq(Nat)], first : [Keys -> Nat]]
      /\ \A k \in Keys : Rising(autoFile.times[k]) /\ autoFile.times[k] \in Seq(Nat)
  BY <1>0 DEF SeriesInv, SeriesFits
<1>2. /\ history' = [k \in Keys |-> Loaded(k)]
      /\ \A k \in Keys : Loaded(k) = <<>> => firsts'[k] = 0
      /\ dirty' = FALSE /\ savedAt' = clock /\ UNCHANGED <<clock, autoFile>>
  BY DEF Reboot
<1>3. ASSUME NEW k \in Keys
      PROVE  Len(history'[k]) <= MaxTimes /\ (history'[k] = <<>> => firsts'[k] = 0)
             /\ (history'[k] # <<>> => autoFile.times[k] # <<>>)
  <2>1. Recent(autoFile.times[k]) \in Seq(Nat) /\ Len(Recent(autoFile.times[k])) <= Len(autoFile.times[k])
    BY <1>1, RecentShorter
  <2>2. history'[k] = LastTimes(Recent(autoFile.times[k])) BY <1>2 DEF Loaded
  <2>3. Len(history'[k]) <= MaxTimes BY <2>1, <2>2, LastTimesFit
  <2>4. ASSUME autoFile.times[k] = <<>> PROVE history'[k] = <<>>
    <3>1. Len(autoFile.times[k]) = 0 BY <2>4
    <3>2. Recent(autoFile.times[k]) = <<>> BY <2>1, <3>1
    <3>3. LastTimes(<<>>) = <<>> BY AutomationConstants DEF LastTimes
    <3> QED BY <2>2, <3>2, <3>3
  <2> QED BY <1>2, <2>3, <2>4
<1>4. FewKeys(autoFile.times) /\ FewKeys(autoFile.times)' BY <1>2 DEF AutomationTypes, FewKeys, Keyed
<1>5. FewKeys(history')
  BY <1>3, <1>4, FewFewer
<1>6. FewKeys(history)' BY <1>5 DEF FewKeys, Keyed
<1>7. clock' <= Horizon /\ savedAt' \in Nat /\ savedAt' >= 1 /\ savedAt' <= clock' /\ dirty' \in BOOLEAN
  <2>1. clock' = clock /\ savedAt' = clock /\ clock <= Horizon BY <1>2 DEF AutomationTypes
  <2>2. clock' <= Horizon /\ savedAt' \in Nat /\ savedAt' >= 1 /\ savedAt' <= clock' BY <1>1, <2>1
  <2>3. dirty' \in BOOLEAN BY <1>2
  <2> QED BY <2>2, <2>3
<1>8. SeriesInv' BY <1>0
<1> QED BY <1>3, <1>4, <1>6, <1>7, <1>8 DEF AutomationTypes

LEMMA AutomationTypesKeep == ASSUME AutomationTypes, [AutomationNext]_automationVars PROVE AutomationTypes'
<1>0. SeriesInv' BY SeriesKeep DEF AutomationTypes
<1>1. CASE UNCHANGED automationVars BY <1>0, <1>1 DEF automationVars, AutomationTypes, FewKeys, Keyed
<1>2. CASE \E k \in Keys : Record(k) BY <1>2, AutomationRecords
<1>3. CASE Reboot BY <1>3, AutomationReboots
<1>4. CASE Elapse
  <2>1. clock < Horizon /\ clock' = clock + 1 /\ UNCHANGED <<history, firsts, dirty, savedAt, autoFile>>
    BY <1>4 DEF Elapse
  <2>2. clock \in Nat BY DEF AutomationTypes, SeriesInv
  <2>3. clock' <= Horizon /\ savedAt' <= clock' BY <2>1, <2>2, AutomationConstants DEF AutomationTypes
  <2>4. FewKeys(history)' /\ FewKeys(autoFile.times)' BY <2>1 DEF AutomationTypes, FewKeys, Keyed
  <2> QED BY <1>0, <2>1, <2>3, <2>4 DEF AutomationTypes
<1> QED BY <1>1, <1>2, <1>3, <1>4 DEF AutomationNext

LEMMA AutomationTypesStart == AutomationInit => AutomationTypes
<1> SUFFICES ASSUME AutomationInit PROVE AutomationTypes OBVIOUS
<1>1. SeriesInv BY SeriesStart
<1>2. Keyed(history) = {} /\ Keyed(autoFile.times) = {} BY DEF AutomationInit, Empty, Keyed
<1>3. FewKeys(history) /\ FewKeys(autoFile.times) BY <1>2, FS_EmptySet, AutomationConstants DEF FewKeys
<1>4. clock = 1 /\ savedAt = 1 /\ dirty = FALSE /\ \A k \in Keys : history[k] = <<>> /\ firsts[k] = 0
  BY DEF AutomationInit, Empty
<1>5. \A k \in Keys : Len(history[k]) <= MaxTimes BY <1>4, AutomationConstants
<1>6. dirty \in BOOLEAN BY <1>4
<1>7. clock <= Horizon /\ savedAt \in Nat /\ savedAt >= 1 /\ savedAt <= clock BY <1>4, AutomationConstants
<1>8. \A k \in Keys : history[k] = <<>> => firsts[k] = 0 BY <1>4
<1> QED BY <1>1, <1>3, <1>5, <1>6, <1>7, <1>8 DEF AutomationTypes

LEMMA AutomationTypesSuffice == AutomationTypes => AutomationTypeOK
<1> SUFFICES ASSUME AutomationTypes PROVE AutomationTypeOK OBVIOUS
<1>1. clock \in 1..Horizon /\ savedAt \in 1..clock /\ dirty \in BOOLEAN
  BY AutomationConstants DEF AutomationTypes, SeriesInv
<1>2. ASSUME NEW k \in Keys
      PROVE  Len(history[k]) <= MaxTimes /\ firsts[k] <= clock /\ (history[k] = <<>> \/ firsts[k] \in 1..Head(history[k]))
  <2>1. Len(history[k]) <= MaxTimes /\ (history[k] = <<>> => firsts[k] = 0) /\ clock \in Nat
        /\ history[k] \in Seq(Nat) /\ SeriesFits(history[k], firsts[k], real[k]) /\ real[k] \subseteq 1..clock
    BY DEF AutomationTypes, SeriesInv
  <2>2. CASE history[k] = <<>> BY <2>1, <2>2
  <2>3. CASE history[k] # <<>>
    <3>1. firsts[k] \in 1..clock /\ firsts[k] <= history[k][1] BY <2>1, <2>3 DEF SeriesFits
    <3>2. Head(history[k]) = history[k][1] /\ history[k][1] \in Nat BY <2>1, <2>3
    <3> QED BY <2>1, <3>1, <3>2
  <2> QED BY <2>2, <2>3
<1>3. Cardinality({k \in Keys : history[k] # <<>>}) <= MaxKeys BY DEF AutomationTypes, FewKeys, Keyed
<1> QED BY <1>1, <1>2, <1>3 DEF AutomationTypeOK

----------------------------------------------------------------------------

(***************************************************************************)
(* Theorems about the refusals of CutOffChecks, for any peers and ports and *)
(* any number of moves of sshd: what a check has read of a connection is    *)
(* still true of it when it decides, as long as it stays.                   *)
(***************************************************************************)

\* The links, and the check, in full.
Checks == [at : {"idle", "environ", "inbound", "sockets", "titles", "decide", "port"},
           peer : Peers \cup {"none"}, live : BOOLEAN, ssh : SUBSET SSHDPorts,
           environ : SUBSET (Peers \X SSHDPorts), sockets : SUBSET (Peers \X SSHDPorts),
           sessions : SUBSET Peers, seen : BOOLEAN]

RefusalTypes ==
    /\ RefusalsTypeOK /\ check \in Checks
    /\ \A p \in Peers : /\ link[p].stage \in ToSSH => link[p].port \in SSHDPorts
                        /\ link[p].stage = "client" => link[p].port = DBPort
    /\ verdict \in [reason : {"none", "block", "close", "ssh_client", "ssh_login", "established_connection"},
                    peer : Peers \cup {"none"}, live : BOOLEAN]

\* Whoever a check takes for a client of SSH has logged in.
LoggedInv ==
    /\ \A p \in Peers : link[p].stage \in InSession => p \in loggedIn
    /\ \A e \in leftover \cup check.environ : e[1] \in loggedIn
    /\ check.sessions \subseteq loggedIn
    /\ sshServer = "openssh" => check.seen

\* The ports known, when they were read and since, are those of who comes by SSH, but
\* for the port sshd listens on now, as long as it is moved once.
Covered(P) == \A p \in Peers : link[p].stage \in ToSSH => link[p].port \in P \cup {sshdPort}
Checking == check.at \notin {"idle", "port"}
PortsInv ==
    /\ moves = 0 => /\ \A p \in Peers : link[p].stage \in ToSSH => link[p].port = sshdPort
                    /\ portsKnown # {} => sshdPort \in portsKnown
                    /\ Checking => sshdPort \in check.ssh
    /\ sshServer = "openssh" /\ moves <= 1 =>
         /\ portsKnown # {} => Covered(portsKnown)
         /\ Checking => Covered(check.ssh)

\* What the check has read of those in a session since it began.
HeldInv ==
    /\ Checking => \A p \in held : link[p].stage \in InSession
    /\ check.at = "port" => \A p \in held : link[p].stage = "client"
    /\ Checking /\ sshServer = "openssh" =>
         \A p \in held : link[p].port \in check.ssh /\ portsKnown # {} => link[p].port \in portsKnown
    /\ check.at = "titles" => \A p \in held : <<p, link[p].port>> \in check.sockets
    /\ check.at = "decide" =>
         /\ check.seen <=> sshServer = "openssh"
         /\ sshServer = "openssh" => \A p \in held : link[p].port \in check.ssh => p \in check.sessions

RefusalInv == RefusalTypes /\ LoggedInv /\ PortsInv /\ HeldInv /\ SessionsSpared /\ GuessersNotShielded

LEMMA RefusalConstants ==
    /\ MaxMoves \in Nat /\ SSHDPorts # {} /\ DBPort \notin SSHDPorts
    /\ SSHDPorts \subseteq Ports /\ DBPort \in Ports
    /\ InSession \subseteq ToSSH /\ ToSSH \subseteq Stages /\ InSession = {"shell", "tunnel"}
    /\ "client" \notin ToSSH /\ "none" \notin ToSSH /\ "outbound" \notin ToSSH
    /\ {"auth", "long"} \subseteq ToSSH /\ {"none", "client", "outbound"} \subseteq Stages
BY RefusalsAssumption DEF Ports, ToSSH, InSession, Stages

LEMMA LinkIs ==
    ASSUME RefusalTypes
    PROVE  /\ link \in [Peers -> [stage : Stages, port : Ports]] /\ sshdPort \in SSHDPorts
           /\ moves \in 0..MaxMoves /\ held \subseteq Peers
           /\ leftover \subseteq Peers \X SSHDPorts /\ portsKnown \subseteq SSHDPorts
           /\ loggedIn \subseteq Peers /\ inHistory \subseteq loggedIn
BY DEF RefusalTypes, RefusalsTypeOK

\* The ports of SSH, as they are read now.
LEMMA PortsAre ==
    ASSUME RefusalTypes, PortsInv
    PROVE  /\ SSHPorts \subseteq SSHDPorts
           /\ moves = 0 => sshdPort \in SSHPorts
           /\ sshServer = "openssh" /\ moves <= 1 => Covered(SSHPorts)
           /\ sshServer = "openssh" => \A p \in Peers : link[p].stage \in ToSSH =>
                 link[p].port \in SSHPorts \/ (portsKnown # {} /\ link[p].port \notin portsKnown)
           /\ portsKnown # {} => SSHPorts = portsKnown
<1>1. /\ SSHPortsNow \subseteq SSHDPorts /\ sshdPort \in SSHPortsNow
      /\ sshServer = "openssh" => \A p \in Peers : link[p].stage \in ToSSH => link[p].port \in SSHPortsNow
  <2>1. /\ \A e \in leftover : e[2] \in SSHDPorts
        /\ \A p \in Peers : link[p].stage = "shell" => link[p].port \in SSHDPorts
    BY LinkIs, RefusalConstants DEF RefusalTypes
  <2> QED BY <2>1, LinkIs DEF SSHPortsNow, RefusalTypes
<1>2. portsKnown # {} => SSHPorts = portsKnown BY DEF SSHPorts
<1>3. portsKnown = {} => SSHPorts = SSHPortsNow BY DEF SSHPorts
<1> QED BY <1>1, <1>2, <1>3, LinkIs DEF PortsInv, Covered

\* The types of a check that goes on.
LEMMA CheckIs ==
    ASSUME RefusalTypes
    PROVE  /\ check \in Checks /\ check.ssh \subseteq SSHDPorts /\ check.sessions \subseteq Peers
           /\ check.environ \subseteq Peers \X SSHDPorts /\ check.peer \in Peers \cup {"none"} /\ check.live \in BOOLEAN
           /\ IdleCheck \in Checks
           /\ IdleCheck.at = "idle" /\ IdleCheck.environ = {} /\ IdleCheck.sessions = {} /\ IdleCheck.seen
BY DEF RefusalTypes, Checks, IdleCheck

LEMMA TypesFollow ==
    ASSUME sshServer' \in {"openssh", "other"}, sshdPort' \in SSHDPorts, moves' \in 0..MaxMoves,
           link' \in [Peers -> [stage : Stages, port : Ports]],
           leftover' \subseteq Peers \X SSHDPorts, loggedIn' \subseteq Peers, inHistory' \subseteq loggedIn',
           portsKnown' \subseteq SSHDPorts, held' \subseteq Peers, check' \in Checks,
           verdict' \in [reason : {"none", "block", "close", "ssh_client", "ssh_login", "established_connection"},
                         peer : Peers \cup {"none"}, live : BOOLEAN],
           \A p \in Peers : /\ link'[p].stage \in ToSSH => link'[p].port \in SSHDPorts
                            /\ link'[p].stage = "client" => link'[p].port = DBPort
    PROVE  RefusalTypes'
BY DEF RefusalTypes, RefusalsTypeOK, Checks

LEMMA VerdictIs ==
    ASSUME RefusalTypes
    PROVE  /\ verdict \in [reason : {"none", "block", "close", "ssh_client", "ssh_login", "established_connection"},
                           peer : Peers \cup {"none"}, live : BOOLEAN]
           /\ NoVerdict \in [reason : {"none", "block", "close", "ssh_client", "ssh_login", "established_connection"},
                             peer : Peers \cup {"none"}, live : BOOLEAN]
           /\ NoVerdict.reason = "none"
BY DEF RefusalTypes, NoVerdict

\* The host.
LEMMA HostKeeps ==
    ASSUME RefusalInv, UNCHANGED <<check, verdict>>,
           \/ \E p \in Peers : \/ \E stage \in {"auth", "long", "client", "outbound"} : Connect(p, stage)
                               \/ \E stage \in InSession : Login(p, stage)
                               \/ \E survives \in BOOLEAN : Disconnect(p, survives)
           \/ LogRead \/ MoveSSHD \/ PortsAge
    PROVE  RefusalInv'
<1>1. RefusalTypes /\ LoggedInv /\ PortsInv /\ HeldInv /\ SessionsSpared /\ GuessersNotShielded
  BY DEF RefusalInv
<1>2. ASSUME NEW p \in Peers, NEW stage \in {"auth", "long", "client", "outbound"}, Connect(p, stage)
      PROVE  RefusalInv'
  <2>1. /\ link[p].stage = "none"
        /\ \A q \in Peers \ {p} : link'[q] = link[q]
        /\ link'[p].stage = stage /\ link'[p].port = (IF stage = "client" THEN DBPort ELSE sshdPort)
        /\ link' \in [Peers -> [stage : Stages, port : Ports]]
    BY <1>1, <1>2, LinkIs, RefusalConstants DEF Connect
  <2>2. UNCHANGED <<sshServer, sshdPort, moves, leftover, loggedIn, inHistory, portsKnown, check, held, verdict>>
    BY <1>2 DEF Connect
  <2>3. RefusalTypes'
    BY <1>1, <2>1, <2>2, LinkIs, CheckIs, VerdictIs, RefusalConstants, TypesFollow DEF RefusalTypes, RefusalsTypeOK
  <2>4. LoggedInv' BY <1>1, <2>1, <2>2, RefusalConstants DEF LoggedInv
  <2>5. PortsInv' BY <1>1, <2>1, <2>2, RefusalConstants DEF PortsInv, Covered, Checking
  <2>6. HeldInv'
    <3>1. Checking \/ check.at = "port" => p \notin held
      BY <1>1, <2>1, RefusalConstants DEF HeldInv
    <3> QED BY <1>1, <2>1, <2>2, <3>1, LinkIs DEF HeldInv, Checking
  <2>7. SessionsSpared' /\ GuessersNotShielded'
    BY <1>1, <2>2 DEF SessionsSpared, GuessersNotShielded
  <2> QED BY <2>3, <2>4, <2>5, <2>6, <2>7 DEF RefusalInv
<1>3. ASSUME NEW p \in Peers, NEW stage \in InSession, Login(p, stage)
      PROVE  RefusalInv'
  <2>1. /\ link[p].stage \in {"auth", "long"}
        /\ \A q \in Peers \ {p} : link'[q] = link[q]
        /\ link'[p].stage = stage /\ link'[p].port = link[p].port
        /\ link' \in [Peers -> [stage : Stages, port : Ports]]
    BY <1>1, <1>3, LinkIs, RefusalConstants DEF Login
  <2>2. UNCHANGED <<sshServer, sshdPort, moves, leftover, inHistory, portsKnown, check, held, verdict>>
        /\ loggedIn' = loggedIn \cup {p}
    BY <1>3 DEF Login
  <2>3. RefusalTypes'
    BY <1>1, <2>1, <2>2, LinkIs, CheckIs, VerdictIs, RefusalConstants, TypesFollow DEF RefusalTypes, RefusalsTypeOK
  <2>4. LoggedInv' BY <1>1, <2>1, <2>2, RefusalConstants DEF LoggedInv
  <2>5. PortsInv' BY <1>1, <2>1, <2>2, RefusalConstants DEF PortsInv, Covered, Checking
  <2>6. HeldInv'
    <3>1. Checking \/ check.at = "port" => p \notin held
      BY <1>1, <2>1, RefusalConstants DEF HeldInv
    <3> QED BY <1>1, <2>1, <2>2, <3>1, LinkIs DEF HeldInv, Checking
  <2>7. SessionsSpared' /\ GuessersNotShielded'
    BY <1>1, <2>2 DEF SessionsSpared, GuessersNotShielded
  <2> QED BY <2>3, <2>4, <2>5, <2>6, <2>7 DEF RefusalInv
<1>4. ASSUME NEW p \in Peers, NEW survives \in BOOLEAN, Disconnect(p, survives)
      PROVE  RefusalInv'
  <2>1. /\ survives => link[p].stage = "shell"
        /\ \A q \in Peers \ {p} : link'[q] = link[q]
        /\ link'[p].stage = "none" /\ link'[p].port = link[p].port
        /\ link' \in [Peers -> [stage : Stages, port : Ports]]
    BY <1>1, <1>4, LinkIs, RefusalConstants DEF Disconnect
  <2>2. UNCHANGED <<sshServer, sshdPort, moves, loggedIn, inHistory, portsKnown, check, verdict>>
        /\ held' = held \ {p}
        /\ leftover' = IF survives THEN leftover \cup {<<p, link[p].port>>} ELSE leftover
    BY <1>4 DEF Disconnect
  <2>3. leftover' \subseteq Peers \X SSHDPorts /\ \A e \in leftover' : e[1] \in loggedIn
    BY <1>1, <2>1, <2>2, LinkIs, RefusalConstants DEF RefusalTypes, LoggedInv
  <2>4. RefusalTypes'
    BY <1>1, <2>1, <2>2, <2>3, LinkIs, CheckIs, VerdictIs, RefusalConstants, TypesFollow DEF RefusalTypes, RefusalsTypeOK
  <2>5. LoggedInv' BY <1>1, <2>1, <2>2, <2>3, RefusalConstants DEF LoggedInv
  <2>6. PortsInv' BY <1>1, <2>1, <2>2, RefusalConstants DEF PortsInv, Covered, Checking
  <2>7. HeldInv' BY <1>1, <2>1, <2>2, LinkIs DEF HeldInv, Checking
  <2>8. SessionsSpared' /\ GuessersNotShielded'
    BY <1>1, <2>2 DEF SessionsSpared, GuessersNotShielded
  <2> QED BY <2>4, <2>5, <2>6, <2>7, <2>8 DEF RefusalInv
<1>5. CASE LogRead
  <2>1. /\ UNCHANGED <<sshServer, sshdPort, moves, link, leftover, loggedIn, portsKnown, check, held, verdict>>
        /\ inHistory' = loggedIn
    BY <1>5 DEF LogRead
  <2>2. RefusalTypes'
    BY <1>1, <2>1, LinkIs, CheckIs, VerdictIs, TypesFollow DEF RefusalTypes, RefusalsTypeOK
  <2> QED BY <1>1, <2>1, <2>2
       DEF RefusalInv, LoggedInv, PortsInv, Covered, Checking, HeldInv, SessionsSpared, GuessersNotShielded
<1>6. CASE MoveSSHD
  <2>1. /\ UNCHANGED <<sshServer, link, leftover, loggedIn, inHistory, portsKnown, check, held, verdict>>
        /\ moves < MaxMoves /\ moves' = moves + 1 /\ sshdPort' \in SSHDPorts
    BY <1>6 DEF MoveSSHD
  <2>2. moves' \in 0..MaxMoves /\ moves' # 0 /\ (moves' <= 1 => moves = 0)
    BY <1>1, <2>1, LinkIs, RefusalConstants
  <2>3. RefusalTypes'
    BY <1>1, <2>1, <2>2, LinkIs, CheckIs, VerdictIs, TypesFollow DEF RefusalTypes, RefusalsTypeOK
  <2>4. PortsInv' BY <1>1, <2>1, <2>2 DEF PortsInv, Covered, Checking
  <2>5. HeldInv' /\ LoggedInv' BY <1>1, <2>1 DEF HeldInv, LoggedInv, Checking
  <2>6. SessionsSpared' /\ GuessersNotShielded'
    BY <1>1, <2>1, LinkIs, RefusalConstants DEF SessionsSpared, GuessersNotShielded
  <2> QED BY <2>3, <2>4, <2>5, <2>6 DEF RefusalInv
<1>7. CASE PortsAge
  <2>1. UNCHANGED <<worldVars, check, held, verdict>> /\ portsKnown' = {}
    BY <1>7 DEF PortsAge
  <2>2. RefusalTypes'
    BY <1>1, <2>1, LinkIs, CheckIs, VerdictIs, TypesFollow DEF RefusalTypes, RefusalsTypeOK, worldVars
  <2> QED BY <1>1, <2>1, <2>2
       DEF RefusalInv, LoggedInv, PortsInv, Covered, Checking, HeldInv, SessionsSpared, GuessersNotShielded, worldVars
<1> QED BY <1>2, <1>3, <1>4, <1>5, <1>6, <1>7

\* The steps of a check leave the host as it is.
LEMMA StepTypes ==
    ASSUME RefusalTypes, UNCHANGED worldVars, portsKnown' \subseteq SSHDPorts, held' \subseteq Peers, check' \in Checks,
           verdict' \in [reason : {"none", "block", "close", "ssh_client", "ssh_login", "established_connection"},
                         peer : Peers \cup {"none"}, live : BOOLEAN]
    PROVE  RefusalTypes'
BY LinkIs, TypesFollow DEF RefusalTypes, RefusalsTypeOK, worldVars

LEMMA BeginKeeps ==
    ASSUME RefusalInv,
           \/ \E p \in Peers, live \in BOOLEAN : BeginCheck(p, live)
           \/ \E live \in BOOLEAN : BeginPort(live)
    PROVE  RefusalInv'
<1>1. RefusalTypes /\ LoggedInv /\ PortsInv /\ HeldInv
  BY DEF RefusalInv
<1>2. /\ SSHPorts \subseteq SSHDPorts /\ (moves = 0 => sshdPort \in SSHPorts)
      /\ sshServer = "openssh" /\ moves <= 1 => Covered(SSHPorts)
  BY <1>1, PortsAre
<1>3. PICK at \in {"environ", "port"} :
         /\ check' \in Checks /\ check'.at = at /\ check'.ssh = SSHPorts
         /\ check'.environ = {} /\ check'.sessions = {} /\ check'.seen
         /\ held' \subseteq Peers
         /\ at = "environ" => held' = {q \in Peers : link[q].stage \in InSession}
         /\ at = "port" => held' = {q \in Peers : link[q].stage = "client"}
         /\ portsKnown' = SSHPorts /\ verdict' = NoVerdict /\ UNCHANGED worldVars
  <2>1. ASSUME NEW p \in Peers, NEW live \in BOOLEAN, BeginCheck(p, live)
        PROVE  /\ check' \in Checks /\ check'.at = "environ" /\ check'.ssh = SSHPorts
               /\ check'.environ = {} /\ check'.sessions = {} /\ check'.seen
               /\ held' = {q \in Peers : link[q].stage \in InSession}
               /\ portsKnown' = SSHPorts /\ verdict' = NoVerdict /\ UNCHANGED worldVars
    <3>1. check' = [IdleCheck EXCEPT !.at = "environ", !.peer = p, !.live = live, !.ssh = SSHPorts]
      BY <2>1 DEF BeginCheck
    <3>2. /\ check' \in Checks /\ check'.at = "environ" /\ check'.ssh = SSHPorts
          /\ check'.environ = {} /\ check'.sessions = {} /\ check'.seen
      BY <1>2, <3>1 DEF Checks, IdleCheck
    <3> QED BY <2>1, <3>2 DEF BeginCheck
  <2>2. ASSUME NEW live \in BOOLEAN, BeginPort(live)
        PROVE  /\ check' \in Checks /\ check'.at = "port" /\ check'.ssh = SSHPorts
               /\ check'.environ = {} /\ check'.sessions = {} /\ check'.seen
               /\ held' = {q \in Peers : link[q].stage = "client"}
               /\ portsKnown' = SSHPorts /\ verdict' = NoVerdict /\ UNCHANGED worldVars
    <3>1. check' = [IdleCheck EXCEPT !.at = "port", !.live = live, !.ssh = SSHPorts]
      BY <2>2 DEF BeginPort
    <3>2. /\ check' \in Checks /\ check'.at = "port" /\ check'.ssh = SSHPorts
          /\ check'.environ = {} /\ check'.sessions = {} /\ check'.seen
      BY <1>2, <3>1 DEF Checks, IdleCheck
    <3> QED BY <2>2, <3>2 DEF BeginPort
  <2>3. CASE \E p \in Peers, live \in BOOLEAN : BeginCheck(p, live) BY <2>1, <2>3
  <2>4. CASE \E live \in BOOLEAN : BeginPort(live) BY <2>2, <2>4
  <2> QED BY <2>3, <2>4
<1>5. RefusalTypes' BY <1>1, <1>2, <1>3, VerdictIs, StepTypes
<1>6. LoggedInv' BY <1>1, <1>3 DEF LoggedInv, worldVars
<1>7. PortsInv' BY <1>1, <1>2, <1>3 DEF PortsInv, Covered, Checking, worldVars
<1>8. HeldInv' BY <1>3 DEF HeldInv, Checking, worldVars
<1>9. SessionsSpared' /\ GuessersNotShielded'
  BY <1>1, <1>3, VerdictIs DEF SessionsSpared, GuessersNotShielded
<1> QED BY <1>5, <1>6, <1>7, <1>8, <1>9 DEF RefusalInv

LEMMA ReadKeeps ==
    ASSUME RefusalInv, ReadEnviron \/ ReadInbound \/ ReadSockets \/ ReadTitles
    PROVE  RefusalInv'
<1>1. /\ RefusalTypes /\ LoggedInv /\ PortsInv /\ HeldInv /\ SessionsSpared /\ GuessersNotShielded
      /\ check \in Checks
  BY DEF RefusalInv, RefusalTypes
<1>2. UNCHANGED <<worldVars, held, verdict>> /\ Checking
  BY DEF ReadEnviron, ReadInbound, ReadSockets, ReadTitles, Checking
<1>3. SessionsSpared' /\ GuessersNotShielded'
  BY <1>1, <1>2 DEF SessionsSpared, GuessersNotShielded, worldVars
<1>4. \A e \in Environs : e \in Peers \X SSHDPorts /\ e[1] \in loggedIn
  BY <1>1, LinkIs, RefusalConstants DEF Environs, RefusalTypes, LoggedInv
<1>5. ASSUME check' \in Checks, check'.at \notin {"idle", "port", "titles", "decide"}, check'.ssh = check.ssh,
             UNCHANGED portsKnown,
             \A e \in check'.environ : e[1] \in loggedIn, check'.sessions \subseteq loggedIn, check'.seen = check.seen
      PROVE  RefusalInv'
  <2>1. RefusalTypes' BY <1>1, <1>2, <1>5, LinkIs, VerdictIs, StepTypes
  <2>2. LoggedInv' BY <1>1, <1>2, <1>5 DEF LoggedInv, worldVars
  <2>3. PortsInv' BY <1>1, <1>2, <1>5 DEF PortsInv, Covered, Checking, worldVars
  <2>4. HeldInv' BY <1>1, <1>2, <1>5 DEF HeldInv, Checking, worldVars
  <2> QED BY <1>3, <2>1, <2>2, <2>3, <2>4 DEF RefusalInv
<1>6. CASE ReadEnviron
  <2>1. check' = [check EXCEPT !.at = "inbound", !.environ = Environs] /\ UNCHANGED portsKnown
    BY <1>6 DEF ReadEnviron
  <2>2. /\ check' \in Checks /\ check'.at = "inbound" /\ check'.ssh = check.ssh
        /\ check'.environ = Environs /\ check'.sessions = check.sessions /\ check'.seen = check.seen
    BY <1>1, <1>4, <2>1 DEF Checks
  <2> QED BY <1>1, <1>4, <1>5, <2>1, <2>2 DEF LoggedInv
<1>7. CASE ReadInbound
  <2> DEFINE S == {p \in Peers : \E e \in check.environ : e[1] = p /\ p \in PublicInbound(e[2])}
  <2>1. check' = [check EXCEPT !.at = "sockets", !.sessions = S] /\ UNCHANGED portsKnown
    BY <1>7 DEF ReadInbound
  <2>2. S \subseteq Peers /\ S \subseteq loggedIn
    BY <1>1 DEF LoggedInv
  <2> HIDE DEF S
  <2>3. /\ check' \in Checks /\ check'.at = "sockets" /\ check'.ssh = check.ssh
        /\ check'.environ = check.environ /\ check'.sessions = S /\ check'.seen = check.seen
    BY <1>1, <2>1, <2>2 DEF Checks
  <2> QED BY <1>1, <1>5, <2>1, <2>2, <2>3 DEF LoggedInv
<1>8. CASE ReadSockets
  <2> DEFINE S == {<<p, link[p].port>> : p \in {q \in Peers : link[q].stage \in ToSSH}}
  <2>1. check' = [check EXCEPT !.at = "titles", !.sockets = S] /\ UNCHANGED portsKnown
    BY <1>8 DEF ReadSockets
  <2>2. S \subseteq Peers \X SSHDPorts
    BY <1>1 DEF RefusalTypes
  <2>3. \A p \in held : <<p, link[p].port>> \in S
    BY <1>1, <1>2, LinkIs, RefusalConstants DEF HeldInv
  <2> HIDE DEF S
  <2>4. /\ check' \in Checks /\ check'.at = "titles" /\ check'.ssh = check.ssh /\ check'.sockets = S
        /\ check'.environ = check.environ /\ check'.sessions = check.sessions /\ check'.seen = check.seen
    BY <1>1, <2>1, <2>2 DEF Checks
  <2>5. RefusalTypes' BY <1>1, <1>2, <2>1, <2>4, LinkIs, VerdictIs, StepTypes
  <2>6. LoggedInv' BY <1>1, <1>2, <2>4 DEF LoggedInv, worldVars
  <2>7. PortsInv' BY <1>1, <1>2, <2>1, <2>4 DEF PortsInv, Covered, Checking, worldVars
  <2>8. HeldInv' BY <1>1, <1>2, <2>1, <2>3, <2>4 DEF HeldInv, Checking, worldVars
  <2> QED BY <1>3, <2>5, <2>6, <2>7, <2>8 DEF RefusalInv
<1>9. CASE ReadTitles
  <2> DEFINE logged == {p \in Peers : LoggedInTitle(p) /\ \E s \in check.sockets : s[1] = p /\ s[2] \in SSHPorts}
             seen   == sshServer = "openssh"
             S      == check.sessions \cup (IF seen THEN logged ELSE {})
  <2>1. /\ check.at = "titles" /\ portsKnown' = SSHPorts
        /\ check' = [check EXCEPT !.at = "decide", !.seen = seen, !.environ = {}, !.sockets = {}, !.sessions = S]
    BY <1>9 DEF ReadTitles
  <2>2. S \subseteq Peers /\ S \subseteq loggedIn /\ seen \in BOOLEAN
    BY <1>1, CheckIs DEF LoggedInv, LoggedInTitle
  <2>3. /\ SSHPorts \subseteq SSHDPorts /\ (moves = 0 => sshdPort \in SSHPorts)
        /\ sshServer = "openssh" /\ moves <= 1 => Covered(SSHPorts)
        /\ sshServer = "openssh" => \A p \in Peers : link[p].stage \in ToSSH =>
              link[p].port \in SSHPorts \/ (portsKnown # {} /\ link[p].port \notin portsKnown)
    BY <1>1, PortsAre
  <2>4. \A p \in held : /\ p \in Peers /\ link[p].stage \in InSession /\ link[p].stage \in ToSSH
                        /\ <<p, link[p].port>> \in check.sockets
                        /\ sshServer = "openssh" /\ link[p].port \in check.ssh => link[p].port \in SSHPorts
    BY <1>1, <1>2, <2>1, <2>3, LinkIs, RefusalConstants DEF HeldInv
  <2>5. seen => \A p \in held : link[p].port \in check.ssh => p \in S
    BY <2>4 DEF LoggedInTitle
  <2> HIDE DEF S
  <2>6. /\ check' \in Checks /\ check'.at = "decide" /\ check'.ssh = check.ssh
        /\ check'.environ = {} /\ check'.sessions = S /\ check'.seen = seen
    BY <1>1, <2>1, <2>2 DEF Checks
  <2>7. RefusalTypes' BY <1>1, <1>2, <2>1, <2>3, <2>6, LinkIs, VerdictIs, StepTypes
  <2>8. LoggedInv' BY <1>1, <1>2, <2>2, <2>6 DEF LoggedInv, worldVars
  <2>9. PortsInv' BY <1>1, <1>2, <2>1, <2>3, <2>6 DEF PortsInv, Covered, Checking, worldVars
  <2>10. HeldInv' BY <1>1, <1>2, <2>1, <2>4, <2>5, <2>6 DEF HeldInv, Checking, worldVars
  <2> QED BY <1>3, <2>7, <2>8, <2>9, <2>10 DEF RefusalInv
<1> QED BY <1>6, <1>7, <1>8, <1>9

LEMMA DecideKeeps ==
    ASSUME RefusalInv, Decide \/ DecidePort
    PROVE  RefusalInv'
<1>1. /\ RefusalTypes /\ LoggedInv /\ PortsInv /\ HeldInv
  BY DEF RefusalInv
<1>2. UNCHANGED <<worldVars, portsKnown, held>> /\ check' = IdleCheck
  BY DEF Decide, DecidePort
<1>3. /\ check.peer \in Peers \cup {"none"} /\ check.live \in BOOLEAN
      /\ check' \in Checks /\ check'.at = "idle" /\ check'.environ = {} /\ check'.sessions = {} /\ check'.seen
  BY <1>1, <1>2, CheckIs
<1>4. /\ LoggedInv' /\ PortsInv' /\ HeldInv'
  BY <1>1, <1>2, <1>3 DEF LoggedInv, PortsInv, Covered, HeldInv, Checking, worldVars
<1>5. CASE Decide
  <2> DEFINE p == check.peer
             port == link[p].port
             on == IF p \in Established THEN {port} ELSE {}
             inbound == link[p].stage # "outbound"
  <2>1. check.at = "decide" /\ verdict' = [reason |-> EgressRefusal(p), peer |-> p, live |-> check.live]
    BY <1>5 DEF Decide
  <2>2. EgressRefusal(p) =
          CASE p \in check.sessions -> "ssh_client"
            [] ~check.seen /\ inbound /\ on \cap check.ssh # {} -> "ssh_client"
            [] p \in inHistory -> "ssh_login"
            [] check.live /\ inbound /\ (\E q \in on : q \notin check.ssh /\ Listens(q)) -> "established_connection"
            [] OTHER -> "block"
    BY DEF EgressRefusal
  <2>3. EgressRefusal(p) \in {"block", "ssh_client", "ssh_login", "established_connection"}
    BY <2>2
  <2>4. RefusalTypes' BY <1>1, <1>2, <1>3, <2>1, <2>3, LinkIs, StepTypes
  <2>5. GuessersNotShielded'
    <3>1. sshServer = "openssh" => check.seen BY <1>1 DEF LoggedInv
    <3>2. check.sessions \subseteq loggedIn /\ inHistory \subseteq loggedIn BY <1>1, LinkIs DEF LoggedInv
    <3>3. EgressRefusal(p) \in {"ssh_client", "ssh_login"} /\ sshServer = "openssh" => p \in loggedIn
      BY <2>2, <3>1, <3>2
    <3> QED BY <1>2, <2>1, <3>3 DEF GuessersNotShielded, worldVars
  <2>6. ASSUME EgressRefusal(p) = "block", check.live, moves <= (IF sshServer = "openssh" THEN 1 ELSE 0), p \in held
        PROVE  FALSE
    <3>1. /\ p \in Peers /\ link[p].stage \in InSession /\ link[p].stage \in ToSSH
          /\ check.seen <=> sshServer = "openssh"
          /\ sshServer = "openssh" => (port \in check.ssh => p \in check.sessions)
      BY <1>1, <2>1, <2>6, LinkIs, RefusalConstants DEF HeldInv, Checking
    <3>2. inbound /\ on = {port}
      BY <3>1, RefusalConstants DEF Established
    <3>3. CASE sshServer = "openssh"
      <4>1. port \in check.ssh \cup {sshdPort}
        BY <1>1, <2>1, <2>6, <3>1, <3>3 DEF PortsInv, Covered, Checking
      <4>2. port \notin check.ssh BY <2>2, <2>6, <3>1, <3>3
      <4>3. Listens(port) BY <4>1, <4>2 DEF Listens
      <4> QED BY <2>2, <2>6, <3>2, <4>2, <4>3
    <3>4. CASE sshServer # "openssh"
      <4>1. moves = 0 BY <1>1, <2>6, <3>4, LinkIs, RefusalConstants
      <4>2. port = sshdPort /\ sshdPort \in check.ssh
        BY <1>1, <2>1, <3>1, <4>1 DEF PortsInv, Checking
      <4> QED BY <2>2, <2>6, <3>1, <3>2, <3>4, <4>2
    <3> QED BY <3>3, <3>4
  <2>7. SessionsSpared'
    <3>1. verdict'.reason = EgressRefusal(p) /\ verdict'.peer = p /\ verdict'.live = check.live BY <2>1
    <3>2. verdict'.reason # "close" BY <2>3, <3>1
    <3> QED BY <1>2, <2>6, <3>1, <3>2 DEF SessionsSpared, worldVars
  <2> QED BY <1>4, <2>4, <2>5, <2>7 DEF RefusalInv
<1>6. CASE DecidePort
  <2>1. check.at = "port" /\ verdict' = [reason |-> PortRefusal, peer |-> "none", live |-> check.live]
    BY <1>6 DEF DecidePort
  <2>2. PortRefusal = IF check.live /\ PublicInbound(DBPort) # {} THEN "established_connection" ELSE "close"
    BY DEF PortRefusal
  <2>3. RefusalTypes' BY <1>1, <1>2, <1>3, <2>1, <2>2, LinkIs, StepTypes
  <2>4. ASSUME PortRefusal = "close", check.live PROVE held = {}
    <3>1. PublicInbound(DBPort) = {} BY <2>2, <2>4
    <3>2. \A p \in held : p \in Peers /\ link[p].stage = "client" /\ link[p].port = DBPort
      BY <1>1, <2>1, LinkIs DEF HeldInv, RefusalTypes
    <3>3. held \subseteq PublicInbound(DBPort)
      BY <3>2 DEF PublicInbound, Listens, Established
    <3> QED BY <3>1, <3>3
  <2>5. SessionsSpared' /\ GuessersNotShielded'
    BY <1>2, <2>1, <2>2, <2>4 DEF SessionsSpared, GuessersNotShielded
  <2> QED BY <1>4, <2>3, <2>5 DEF RefusalInv
<1> QED BY <1>5, <1>6

LEMMA RefusalsStart == RefusalsInit => RefusalInv
<1> SUFFICES ASSUME RefusalsInit PROVE RefusalInv OBVIOUS
<1>1. /\ sshServer \in {"openssh", "other"} /\ sshdPort \in SSHDPorts /\ moves = 0
      /\ link = [p \in Peers |-> [stage |-> "none", port |-> sshdPort]]
      /\ leftover = {} /\ loggedIn = {} /\ inHistory = {}
      /\ portsKnown = {} /\ check = IdleCheck /\ held = {} /\ verdict = NoVerdict
  BY DEF RefusalsInit
<1>2. /\ \A p \in Peers : link[p].stage = "none"
      /\ link \in [Peers -> [stage : Stages, port : Ports]]
  BY <1>1, RefusalConstants
<1>3. RefusalTypes
  BY <1>1, <1>2, RefusalConstants DEF RefusalTypes, RefusalsTypeOK, Checks, IdleCheck, NoVerdict
<1>4. LoggedInv /\ HeldInv BY <1>1, <1>2, RefusalConstants DEF LoggedInv, HeldInv, Checking, IdleCheck
<1>5. PortsInv BY <1>1, <1>2, RefusalConstants DEF PortsInv, Covered, Checking, IdleCheck
<1>6. SessionsSpared /\ GuessersNotShielded BY <1>1 DEF SessionsSpared, GuessersNotShielded, NoVerdict
<1> QED BY <1>3, <1>4, <1>5, <1>6 DEF RefusalInv

LEMMA RefusalsKeep == RefusalInv /\ [RefusalsNext]_refusalVars => RefusalInv'
<1> SUFFICES ASSUME RefusalInv, [RefusalsNext]_refusalVars PROVE RefusalInv' OBVIOUS
<1>1. CASE UNCHANGED refusalVars
  BY <1>1 DEF refusalVars, worldVars, RefusalInv, RefusalTypes, RefusalsTypeOK, LoggedInv, PortsInv, Covered,
     Checking, HeldInv, SessionsSpared, GuessersNotShielded
<1>2. CASE \/ \E p \in Peers : \/ \E stage \in {"auth", "long", "client", "outbound"} : Connect(p, stage)
                               \/ \E stage \in InSession : Login(p, stage)
                               \/ \E survives \in BOOLEAN : Disconnect(p, survives)
           \/ LogRead \/ MoveSSHD \/ PortsAge
  <2>1. UNCHANGED <<check, verdict>>
    BY <1>2 DEF Connect, Login, Disconnect, LogRead, MoveSSHD, PortsAge
  <2> QED BY <1>2, <2>1, HostKeeps
<1>3. CASE \/ \E p \in Peers, live \in BOOLEAN : BeginCheck(p, live)
           \/ \E live \in BOOLEAN : BeginPort(live)
  BY <1>3, BeginKeeps
<1>4. CASE ReadEnviron \/ ReadInbound \/ ReadSockets \/ ReadTitles BY <1>4, ReadKeeps
<1>5. CASE Decide \/ DecidePort BY <1>5, DecideKeeps
<1> QED BY <1>1, <1>2, <1>3, <1>4, <1>5 DEF RefusalsNext

\* Whoever is in an SSH session for the whole of a check is not blocked by it, and a port
\* is not closed to a client connected to it, as far as the ports of sshd that were known
\* allow; and whoever is spared as a client of SSH has logged in (fwactions.go
\* newFwChecks, egressRefusal and portRefusal, internal/netstate).
THEOREM NobodyShutOut == RefusalsSpec => [](RefusalsTypeOK /\ SessionsSpared /\ GuessersNotShielded)
<1>1. RefusalsSpec => []RefusalInv BY RefusalsStart, RefusalsKeep, PTL DEF RefusalsSpec
<1>2. RefusalInv => RefusalsTypeOK /\ SessionsSpared /\ GuessersNotShielded
  BY DEF RefusalInv, RefusalTypes
<1> QED BY <1>1, <1>2, PTL

----------------------------------------------------------------------------

(***************************************************************************)
(* Theorems about the clients of a database in CutOffChecks, for any addresses,*)
(* any number of days kept and any limits of the log: what may be relied on is*)
(* held, nobody regular is cut off, and the dashboard is told in time.  The*)
(* last assumes of the limits what the code's numbers are: ReportsSuffice.*)
(***************************************************************************)

\* A log that holds no more than it may.
SampleLogs == [Callers -> [DayAges -> 0..MaxSamples]]
Within(log) == log \in SampleLogs /\ Cardinality(HeldAddrs(log)) <= PerPort
\* Two days, or one that is today: nobody is evicted who has them.
TwoDays(log, c) == \E a, b \in DayAges : a # b /\ log[c][a] > 0 /\ log[c][b] > 0
Steady(log, c) == log[c][0] > 0 \/ TwoDays(log, c)

LEMMA ClientConstants ==
    /\ IsFiniteSet(Callers) /\ Cardinality(Callers) \in Nat /\ Callers = 1..Cardinality(Callers) /\ DBClient \in Callers
    /\ {DaysKept, RegularDays, PerPortDay, PerPort, MaxSamples, ReportMax} \subseteq Nat \ {0}
    /\ DaysKept \in Nat /\ DaysKept >= 1 /\ RegularDays \in Nat /\ RegularDays >= 1
    /\ PerPort \in Nat /\ PerPort >= 1 /\ MaxSamples \in Nat /\ MaxSamples >= 1
    /\ ReportMax \in Nat /\ ReportMax >= 1 /\ ReportsADay \in Nat /\ MaxBreaks \in Nat
    /\ DayAges = 0..(DaysKept - 1) /\ 0 \in DayAges /\ DayAges \subseteq Nat /\ IsFiniteSet(DayAges)
<1>1. Cardinality(Callers) \in Nat BY DatabaseClientsAssumption, FS_CardinalityType
<1>2. /\ DaysKept \in Nat /\ DaysKept >= 1 /\ RegularDays \in Nat /\ RegularDays >= 1
      /\ PerPort \in Nat /\ PerPort >= 1 /\ MaxSamples \in Nat /\ MaxSamples >= 1
      /\ ReportMax \in Nat /\ ReportMax >= 1 /\ ReportsADay \in Nat /\ MaxBreaks \in Nat
  BY DatabaseClientsAssumption
<1>3. DayAges = 0..(DaysKept - 1) /\ 0 \in DayAges /\ DayAges \subseteq Nat BY <1>2 DEF DayAges
<1>4. IsFiniteSet(DayAges) BY <1>2, <1>3, FS_Interval
<1> QED BY <1>1, <1>2, <1>3, <1>4, DatabaseClientsAssumption

LEMMA LogsAre ==
    ASSUME NEW log \in SampleLogs, NEW c \in Callers
    PROVE  /\ log[c] \in [DayAges -> 0..MaxSamples] /\ \A a \in DayAges : log[c][a] \in Nat
           /\ IsFiniteSet(DaysOf(log, c)) /\ IsFiniteSet(HeldAddrs(log))
           /\ Cardinality(DaysOf(log, c)) \in Nat /\ Cardinality(HeldAddrs(log)) \in Nat
           /\ Cardinality(DaysOf(log, c)) > 1 => TwoDays(log, c)
           /\ c \in OneDay(log) => ~Steady(log, c) /\ c \in HeldAddrs(log)
<1>1. log[c] \in [DayAges -> 0..MaxSamples] /\ \A a \in DayAges : log[c][a] \in Nat
  BY ClientConstants DEF SampleLogs
<1>2. IsFiniteSet(DaysOf(log, c)) BY ClientConstants, FS_Subset DEF DaysOf
<1>3. IsFiniteSet(HeldAddrs(log)) BY ClientConstants, FS_Subset DEF HeldAddrs
<1>4. Cardinality(DaysOf(log, c)) \in Nat /\ Cardinality(HeldAddrs(log)) \in Nat
  BY <1>2, <1>3, FS_CardinalityType
<1>5. ASSUME Cardinality(DaysOf(log, c)) > 1 PROVE TwoDays(log, c)
  <2>1. DaysOf(log, c) # {} BY <1>5, FS_EmptySet
  <2>2. PICK a \in DaysOf(log, c) : TRUE BY <2>1
  <2>3. DaysOf(log, c) # {a} BY <1>5, FS_Singleton
  <2>4. PICK b \in DaysOf(log, c) : b # a BY <2>2, <2>3
  <2> QED BY <2>2, <2>4 DEF DaysOf, TwoDays
<1>6. ASSUME c \in OneDay(log) PROVE ~Steady(log, c) /\ c \in HeldAddrs(log)
  <2>1. Cardinality(DaysOf(log, c)) = 1 /\ log[c][0] = 0 BY <1>6 DEF OneDay
  <2>2. PICK x : DaysOf(log, c) = {x} BY <1>2, <2>1, FS_Singleton
  <2>3. ~TwoDays(log, c)
    <3> SUFFICES ASSUME NEW a \in DayAges, NEW b \in DayAges, a # b, log[c][a] > 0, log[c][b] > 0 PROVE FALSE
      BY DEF TwoDays
    <3>1. a \in DaysOf(log, c) /\ b \in DaysOf(log, c) BY DEF DaysOf
    <3> QED BY <2>2, <3>1
  <2> QED BY <2>1, <2>2, <2>3 DEF Steady, HeldAddrs
<1> QED BY <1>1, <1>2, <1>3, <1>4, <1>5, <1>6

\* evictLocked: whoever goes was seen on one day, not today.
LEMMA LeastSeenIs ==
    ASSUME NEW log \in SampleLogs, OneDay(log) # {}
    PROVE  LeastSeen(log) \in OneDay(log)
<1> DEFINE of(c) == CHOOSE n \in 1..MaxSamples : \E a \in DayAges : log[c][a] = n
<1>1. ASSUME NEW c \in OneDay(log) PROVE of(c) \in Nat
  <2>1. c \in Callers BY DEF OneDay
  <2>2. c \in HeldAddrs(log) BY <2>1, LogsAre
  <2>3. PICK a \in DayAges : log[c][a] > 0 BY <2>2 DEF HeldAddrs, DaysOf
  <2>4. log[c][a] \in 1..MaxSamples BY <2>1, <2>3, LogsAre, ClientConstants
  <2>5. of(c) \in 1..MaxSamples BY <2>3, <2>4
  <2> HIDE DEF of
  <2> QED BY <2>5, ClientConstants
<1> HIDE DEF of
<1> DEFINE T == {of(c) : c \in OneDay(log)}
<1>2. PICK n \in T : \A m \in T : n <= m
  <2>1. T \subseteq Nat /\ T # {} BY <1>1
  <2> HIDE DEF T
  <2> QED BY <2>1, LeastOf
<1> DEFINE L == {c \in OneDay(log) : of(c) = n}
<1>3. PICK x \in L : \A y \in L : x <= y
  <2>1. L # {} BY <1>2
  <2>2. L \subseteq Nat BY ClientConstants DEF OneDay
  <2> HIDE DEF L
  <2> QED BY <2>1, <2>2, LeastOf
<1>4. \A d \in OneDay(log) : of(x) < of(d) \/ (of(x) = of(d) /\ x <= d)
  <2> SUFFICES ASSUME NEW d \in OneDay(log) PROVE of(x) < of(d) \/ (of(x) = of(d) /\ x <= d) OBVIOUS
  <2>1. of(x) = n /\ n <= of(d) /\ n \in Nat /\ of(d) \in Nat BY <1>1, <1>2, <1>3
  <2>2. of(d) = n => x <= d BY <1>3
  <2> QED BY <2>1, <2>2
<1>5. x \in OneDay(log) BY <1>3
<1>6. LeastSeen(log) = CHOOSE c \in OneDay(log) : \A d \in OneDay(log) : of(c) < of(d) \/ (of(c) = of(d) /\ c <= d)
  BY DEF LeastSeen, of
<1> QED BY <1>4, <1>5, <1>6

LEMMA CountOneIs ==
    ASSUME NEW log, Within(log), NEW c \in Callers
    PROVE  /\ Within(CountOne(log, c)) /\ HeldAddrs(CountOne(log, c)) \subseteq HeldAddrs(log) \cup {c}
           /\ \A d \in Callers, a \in DayAges :
                log[d][a] > 0 /\ (Steady(log, d) \/ Cardinality(HeldAddrs(log) \cup {c}) <= PerPort)
                   => CountOne(log, c)[d][a] > 0
           /\ c \in HeldAddrs(log) => CountOne(log, c)[c][0] > 0
<1>1. log \in SampleLogs /\ Cardinality(HeldAddrs(log)) <= PerPort
      /\ IsFiniteSet(HeldAddrs(log)) /\ Cardinality(HeldAddrs(log)) \in Nat
  BY LogsAre DEF Within
<1>2. CASE Refused(log, c)
  <2>1. CountOne(log, c) = log /\ c \notin HeldAddrs(log) BY <1>2 DEF CountOne, Refused
  <2> QED BY <2>1
<1>3. CASE ~Refused(log, c)
  <2> DEFINE full == c \notin HeldAddrs(log) /\ Cardinality(HeldAddrs(log)) >= PerPort
  <2>1. PICK room : /\ room = IF c \in HeldAddrs(log) THEN log ELSE Evicted(log)
                    /\ CountOne(log, c) = [room EXCEPT ![c][0] = More(@)]
    BY <1>3 DEF CountOne
  <2>2. /\ room \in SampleLogs /\ HeldAddrs(room) \subseteq HeldAddrs(log)
        /\ \A d \in Callers, a \in DayAges : log[d][a] > 0 /\ (Steady(log, d) \/ ~full) => room[d][a] > 0
        /\ full => \E x \in HeldAddrs(log) : HeldAddrs(room) = HeldAddrs(log) \ {x}
        /\ c \in HeldAddrs(log) => room = log
    <3>1. CASE ~full
      <4>1. room = log BY <2>1, <3>1, <1>1, ClientConstants DEF Evicted
      <4> QED BY <1>1, <3>1, <4>1
    <3>2. CASE full
      <4>1. OneDay(log) # {} BY <1>3, <3>2 DEF Refused
      <4>2. PICK x \in OneDay(log) : x = LeastSeen(log) BY <1>1, <4>1, LeastSeenIs
      <4>3. x \in Callers /\ ~Steady(log, x) /\ x \in HeldAddrs(log) BY <1>1, LogsAre DEF OneDay
      <4>4. NoSamples[DBClient] = [a \in DayAges |-> 0] BY ClientConstants DEF NoSamples
      <4>5. room = [log EXCEPT ![x] = [a \in DayAges |-> 0]] BY <2>1, <3>2, <4>2, <4>4 DEF Evicted
      <4>6. [a \in DayAges |-> 0] \in [DayAges -> 0..MaxSamples] BY ClientConstants
      <4>7. room \in SampleLogs /\ room[x] = [a \in DayAges |-> 0] /\ \A d \in Callers : d # x => room[d] = log[d]
        BY <1>1, <4>3, <4>5, <4>6 DEF SampleLogs
      <4>8. DaysOf(room, x) = {} /\ \A d \in Callers : d # x => DaysOf(room, d) = DaysOf(log, d)
        BY <4>7 DEF DaysOf
      <4>9. HeldAddrs(room) = HeldAddrs(log) \ {x} BY <4>3, <4>8 DEF HeldAddrs
      <4> QED BY <3>2, <4>3, <4>7, <4>9
    <3> QED BY <3>1, <3>2
  <2> HIDE DEF full
  <2>3. PICK new : new = CountOne(log, c) OBVIOUS
  <2>4. /\ new \in SampleLogs /\ new[c][0] > 0
        /\ \A d \in Callers, a \in DayAges : room[d][a] > 0 => new[d][a] > 0
        /\ \A d \in Callers : d # c => new[d] = room[d]
    <3>1. room[c] \in [DayAges -> 0..MaxSamples] /\ 0 \in DayAges BY <2>2, LogsAre, ClientConstants
    <3>2. room[c][0] \in 0..MaxSamples BY <3>1
    <3>3. More(room[c][0]) \in 0..MaxSamples /\ More(room[c][0]) > 0 BY <3>2, ClientConstants DEF More
    <3>4. new = [room EXCEPT ![c] = [room[c] EXCEPT ![0] = More(room[c][0])]]
      <4>1. new = [room EXCEPT ![c][0] = More(@)] BY <2>1, <2>3
      <4> QED BY <4>1
    <3>5. [room[c] EXCEPT ![0] = More(room[c][0])] \in [DayAges -> 0..MaxSamples] BY <3>1, <3>3
    <3>6. /\ new \in SampleLogs /\ new[c] = [room[c] EXCEPT ![0] = More(room[c][0])]
          /\ \A d \in Callers : d # c => new[d] = room[d]
      BY <2>2, <3>4, <3>5 DEF SampleLogs
    <3>7. new[c][0] = More(room[c][0]) /\ \A a \in DayAges : a # 0 => new[c][a] = room[c][a] BY <3>1, <3>6
    <3> QED BY <3>3, <3>6, <3>7
  <2>5. HeldAddrs(new) \subseteq HeldAddrs(room) \cup {c}
    <3>1. \A d \in Callers : d # c => DaysOf(new, d) = DaysOf(room, d) BY <2>4 DEF DaysOf
    <3> QED BY <3>1 DEF HeldAddrs
  <2>6. IsFiniteSet(HeldAddrs(room)) /\ Cardinality(HeldAddrs(room)) \in Nat
        /\ IsFiniteSet(HeldAddrs(new)) /\ Cardinality(HeldAddrs(new)) \in Nat
    BY <2>2, <2>4, LogsAre
  <2>7. Cardinality(HeldAddrs(new)) <= PerPort
    <3>1. CASE c \in HeldAddrs(log)
      <4>1. HeldAddrs(new) \subseteq HeldAddrs(log) BY <2>2, <2>5, <3>1
      <4> QED BY <1>1, <2>6, <4>1, FS_Subset, ClientConstants
    <3>2. CASE c \notin HeldAddrs(log)
      <4>1. Cardinality(HeldAddrs(room)) < PerPort
        <5>1. CASE full
          <6>1. PICK x \in HeldAddrs(log) : HeldAddrs(room) = HeldAddrs(log) \ {x} BY <2>2, <5>1
          <6>2. Cardinality(HeldAddrs(room)) = Cardinality(HeldAddrs(log)) - 1 BY <1>1, <6>1, FS_RemoveElement
          <6> QED BY <1>1, <2>6, <6>2, ClientConstants
        <5>2. CASE ~full
          <6>1. Cardinality(HeldAddrs(log)) < PerPort BY <1>1, <3>2, <5>2, ClientConstants DEF full
          <6>2. Cardinality(HeldAddrs(room)) <= Cardinality(HeldAddrs(log)) BY <1>1, <2>2, FS_Subset
          <6> QED BY <1>1, <2>6, <6>1, <6>2, ClientConstants
        <5> QED BY <5>1, <5>2
      <4>2. Cardinality(HeldAddrs(room) \cup {c}) <= Cardinality(HeldAddrs(room)) + 1
            /\ IsFiniteSet(HeldAddrs(room) \cup {c})
        <5>1. PICK S : S = HeldAddrs(room) /\ IsFiniteSet(S) /\ Cardinality(S) \in Nat BY <2>6
        <5>2. IsFiniteSet(S \cup {c}) BY <5>1, FS_AddElement
        <5>3. Cardinality(S \cup {c}) = IF c \in S THEN Cardinality(S) ELSE Cardinality(S) + 1 BY <5>1, FS_AddElement
        <5> QED BY <5>1, <5>2, <5>3
      <4>3. Cardinality(HeldAddrs(new)) <= Cardinality(HeldAddrs(room) \cup {c})
            /\ Cardinality(HeldAddrs(room) \cup {c}) \in Nat
        BY <2>5, <4>2, FS_Subset, FS_CardinalityType
      <4> QED BY <2>6, <4>1, <4>2, <4>3, ClientConstants
    <3> QED BY <3>1, <3>2
  <2>8. full => ~(Cardinality(HeldAddrs(log) \cup {c}) <= PerPort)
    <3> SUFFICES ASSUME full PROVE ~(Cardinality(HeldAddrs(log) \cup {c}) <= PerPort) OBVIOUS
    <3>1. Cardinality(HeldAddrs(log) \cup {c}) = Cardinality(HeldAddrs(log)) + 1
      BY <1>1, FS_AddElement DEF full
    <3> QED BY <1>1, <3>1, ClientConstants DEF full
  <2>9. \A d \in Callers, a \in DayAges :
          log[d][a] > 0 /\ (Steady(log, d) \/ Cardinality(HeldAddrs(log) \cup {c}) <= PerPort) => new[d][a] > 0
    BY <2>2, <2>4, <2>8
  <2> QED BY <2>2, <2>3, <2>4, <2>5, <2>7, <2>9 DEF Within
<1> QED BY <1>2, <1>3

\* The addresses of a sample, one after the other.
CountLoop(g, log, seen, n) ==
    g = [c \in 0..n |-> IF c = 0 THEN log ELSE IF c \in seen THEN CountOne(g[c - 1], c) ELSE g[c - 1]]
LEMMA CountRuns ==
    ASSUME NEW log, NEW seen
    PROVE  \E g : CountLoop(g, log, seen, Cardinality(Callers)) /\ CountAll(log, seen) = g[Cardinality(Callers)]
<1> DEFINE S == {n \in Nat : \E g : CountLoop(g, log, seen, n)}
<1>1. 0 \in S
  <2>1. CountLoop([i \in 0..0 |-> log], log, seen, 0) BY DEF CountLoop
  <2> QED BY <2>1
<1>2. ASSUME NEW n \in Nat, n \in S PROVE n + 1 \in S
  <2>1. PICK g : CountLoop(g, log, seen, n) BY <1>2
  <2> DEFINE h == [i \in 0..(n + 1) |-> IF i <= n THEN g[i] ELSE IF i \in seen THEN CountOne(g[i - 1], i) ELSE g[i - 1]]
  <2>2. CountLoop(h, log, seen, n + 1)
    <3> SUFFICES ASSUME NEW i \in 0..(n + 1)
                 PROVE  h[i] = IF i = 0 THEN log ELSE IF i \in seen THEN CountOne(h[i - 1], i) ELSE h[i - 1]
      BY DEF CountLoop
    <3>0. \A j \in 0..n : h[j] = g[j] OBVIOUS
    <3>1. CASE i <= n
      <4>1. g[i] = IF i = 0 THEN log ELSE IF i \in seen THEN CountOne(g[i - 1], i) ELSE g[i - 1]
        <5>1. i \in 0..n BY <3>1
        <5> QED BY <2>1, <5>1 DEF CountLoop
      <4>2. i # 0 => i - 1 \in 0..n BY <3>1
      <4> QED BY <3>0, <3>1, <4>1, <4>2
    <3>2. CASE i = n + 1
      <4>1. h[i] = IF i \in seen THEN CountOne(g[i - 1], i) ELSE g[i - 1] BY <3>2
      <4>2. i # 0 /\ i - 1 \in 0..n BY <3>2
      <4>3. h[i - 1] = g[i - 1] BY <3>0, <4>2
      <4> HIDE DEF h
      <4> QED BY <4>1, <4>2, <4>3
    <3> QED BY <3>1, <3>2
  <2> QED BY <2>2
<1>3. Cardinality(Callers) \in S
  <2> HIDE DEF S
  <2>1. Nat \subseteq S BY <1>1, <1>2, NatSet
  <2> QED BY <2>1, ClientConstants
<1> DEFINE f == CHOOSE g : CountLoop(g, log, seen, Cardinality(Callers))
<1>4. CountLoop(f, log, seen, Cardinality(Callers)) BY <1>3
<1>5. CountAll(log, seen) = f[Cardinality(Callers)] BY DEF CountAll, CountLoop
<1> QED BY <1>4, <1>5

\* Who may rely on their days when a sample is counted.
Spared(log, seen, d) == Steady(log, d) \/ Cardinality(HeldAddrs(log) \cup seen) <= PerPort
LEMMA CountAllIs ==
    ASSUME NEW log, Within(log), NEW seen \in SUBSET Callers
    PROVE  /\ Within(CountAll(log, seen))
           /\ \A d \in Callers : d \in HeldAddrs(log) /\ Spared(log, seen, d) =>
                /\ \A a \in DayAges : log[d][a] > 0 => CountAll(log, seen)[d][a] > 0
                /\ d \in seen => CountAll(log, seen)[d][0] > 0
<1>1. PICK g : CountLoop(g, log, seen, Cardinality(Callers)) /\ CountAll(log, seen) = g[Cardinality(Callers)]
  BY CountRuns
<1>2. PICK N \in Nat : N = Cardinality(Callers) /\ Callers = 1..N BY ClientConstants
<1>6. Callers = 1..N BY <1>2
<1>7. \A d \in Callers : d <= N BY <1>6
<1> DEFINE Q(n, d) == /\ \A a \in DayAges : log[d][a] > 0 => g[n][d][a] > 0
                      /\ d \in seen /\ d <= n => g[n][d][0] > 0
           P(n) == /\ Within(g[n]) /\ HeldAddrs(g[n]) \subseteq HeldAddrs(log) \cup seen
                   /\ \A d \in Callers : d \in HeldAddrs(log) /\ Spared(log, seen, d) => Q(n, d)
           S == {n \in Nat : n <= N => P(n)}
<1>3. 0 \in S
  <2>1. g[0] = log BY <1>1, <1>2 DEF CountLoop
  <2>2. P(0) BY <1>2, <2>1
  <2> HIDE DEF P
  <2> QED BY <2>2
<1>4. ASSUME NEW n \in Nat, n \in S PROVE n + 1 \in S
  <2> SUFFICES ASSUME n + 1 <= N PROVE P(n + 1) OBVIOUS
  <2>1. P(n) BY <1>2, <1>4
  <2>2. PICK c \in Callers : c = n + 1
    <3>1. n + 1 \in 1..N OBVIOUS
    <3> QED BY <1>6, <3>1
  <2>3. g[c] = IF c \in seen THEN CountOne(g[n], c) ELSE g[n]
    <3>1. c \in 0..N /\ c # 0 /\ c - 1 = n BY <1>2, <2>2
    <3>2. g[c] = IF c \in seen THEN CountOne(g[c - 1], c) ELSE g[c - 1]
      BY <1>1, <1>2, <3>1 DEF CountLoop
    <3> QED BY <3>1, <3>2
  <2>4. CASE c \notin seen
    <3>1. g[c] = g[n] BY <2>3, <2>4
    <3>2. \A d \in Callers : d \in seen /\ d <= c => d <= n BY <1>2, <2>2, <2>4
    <3> QED BY <2>1, <2>2, <3>1, <3>2
  <2>5. CASE c \in seen
    <3>1. PICK old, new : old = g[n] /\ new = g[c] OBVIOUS
    <3>2. Within(old) /\ HeldAddrs(old) \subseteq HeldAddrs(log) \cup seen BY <2>1, <3>1
    <3>3. new = CountOne(old, c) BY <2>3, <2>5, <3>1
    <3>4. /\ Within(new) /\ HeldAddrs(new) \subseteq HeldAddrs(old) \cup {c}
          /\ \A d \in Callers, a \in DayAges :
               old[d][a] > 0 /\ (Steady(old, d) \/ Cardinality(HeldAddrs(old) \cup {c}) <= PerPort) => new[d][a] > 0
          /\ c \in HeldAddrs(old) => new[c][0] > 0
      BY <3>2, <3>3, CountOneIs
    <3>5. ASSUME NEW d \in Callers, d \in HeldAddrs(log), Spared(log, seen, d)
          PROVE  Q(c, d)
      <4>1. Q(n, d) BY <2>1, <3>5
      <4>2. \A a \in DayAges : log[d][a] > 0 => old[d][a] > 0 BY <3>1, <4>1
      <4>3. d \in HeldAddrs(old)
        <5>1. PICK a \in DayAges : log[d][a] > 0 BY <3>5 DEF HeldAddrs, DaysOf
        <5>2. old[d][a] > 0 BY <4>2, <5>1
        <5> QED BY <5>1, <5>2 DEF HeldAddrs, DaysOf
      <4>4. Steady(old, d) \/ Cardinality(HeldAddrs(old) \cup {c}) <= PerPort
        <5>1. CASE Steady(log, d)
          BY <4>2, <5>1, ClientConstants DEF Steady, TwoDays
        <5>2. CASE Cardinality(HeldAddrs(log) \cup seen) <= PerPort
          <6>1. HeldAddrs(old) \cup {c} \subseteq HeldAddrs(log) \cup seen BY <2>5, <3>2
          <6>2. IsFiniteSet(HeldAddrs(log) \cup seen)
            <7>1. HeldAddrs(log) \cup seen \subseteq Callers BY DEF HeldAddrs
            <7> QED BY <7>1, ClientConstants, FS_Subset
          <6>3. Cardinality(HeldAddrs(old) \cup {c}) <= Cardinality(HeldAddrs(log) \cup seen)
            BY <6>1, <6>2, FS_Subset
          <6>4. Cardinality(HeldAddrs(old) \cup {c}) \in Nat /\ Cardinality(HeldAddrs(log) \cup seen) \in Nat
            BY <6>1, <6>2, FS_Subset, FS_CardinalityType
          <6> QED BY <5>2, <6>3, <6>4, ClientConstants
        <5> QED BY <3>5, <5>1, <5>2 DEF Spared
      <4>5. \A a \in DayAges : old[d][a] > 0 => new[d][a] > 0 BY <3>4, <4>4
      <4>6. \A a \in DayAges : log[d][a] > 0 => new[d][a] > 0 BY <4>2, <4>5
      <4>7. ASSUME d \in seen, d <= c PROVE new[d][0] > 0
        <5>1. CASE d = c BY <3>4, <4>3, <5>1
        <5>2. CASE d # c
          <6>1. d <= n BY <1>2, <2>2, <4>7, <5>2
          <6>2. old[d][0] > 0 BY <3>1, <4>1, <4>7, <6>1
          <6> QED BY <4>5, <6>2, ClientConstants
        <5> QED BY <5>1, <5>2
      <4> QED BY <3>1, <4>6, <4>7
    <3>6. HeldAddrs(new) \subseteq HeldAddrs(log) \cup seen BY <2>5, <3>2, <3>4
    <3> HIDE DEF Q
    <3> QED BY <2>2, <3>1, <3>4, <3>5, <3>6
  <2> QED BY <2>4, <2>5
<1>5. P(N)
  <2> HIDE DEF P
  <2>1. N \in S
    <3> HIDE DEF S
    <3>1. Nat \subseteq S BY <1>3, <1>4, NatSet
    <3> QED BY <3>1
  <2> QED BY <2>1
<1> QED BY <1>1, <1>2, <1>5, <1>7

\* What is owed of yesterday, and how it goes down with the reports of the day.
OwedOld == {e \in owed : e[2] = 1}
OwedFits ==
    /\ \A e \in owed : samples[e[1]][e[2]] > 0
    /\ breaks = 0 => /\ \A e \in owed : e[2] <= 1
                     /\ OwedOld = {} \/ Cardinality(OwedOld) + reportsToday * ReportMax <= PerPort
\* The days a client may rely on are kept: two of them, or today.
FirmHolds ==
    /\ firm \subseteq DaysOf(samples, DBClient)
    /\ firm \subseteq {0} \/ TwoDays(samples, DBClient)
ClientTypes ==
    /\ Within(samples) /\ Within(saved)
    /\ owed \subseteq Callers \X DayAges
    /\ reportsToday \in Nat /\ reportsToday <= ReportsADay /\ breaks \in Nat /\ breaks <= MaxBreaks
    /\ answers \in BOOLEAN /\ declared \in {"unread", "yes", "no"} /\ bound \in BOOLEAN /\ cutOff \in BOOLEAN
    /\ firm \subseteq DayAges
BoundMeans == bound => answers /\ declared = "yes"
ClientInv == ClientTypes /\ OwedFits /\ FirmHolds /\ BoundMeans /\ NobodyCutOff

LEMMA OwedFinite ==
    ASSUME owed \subseteq Callers \X DayAges
    PROVE  /\ IsFiniteSet(owed) /\ IsFiniteSet(OwedOld) /\ Cardinality(OwedOld) \in Nat
           /\ \A e \in owed : e[1] \in Callers /\ e[1] \in Nat /\ e[2] \in DayAges /\ e[2] \in Nat /\ e = <<e[1], e[2]>>
<1>1. IsFiniteSet(Callers \X DayAges) BY ClientConstants, FS_Product
<1>2. IsFiniteSet(owed) BY <1>1, FS_Subset
<1>3. IsFiniteSet(OwedOld) BY <1>2, FS_Subset DEF OwedOld
<1>4. \A e \in owed : e[1] \in Callers /\ e[2] \in DayAges /\ e = <<e[1], e[2]>> OBVIOUS
<1>5. Callers \subseteq Nat
  <2>1. PICK n \in Nat : Callers = 1..n BY ClientConstants
  <2> QED BY <2>1
<1> QED BY <1>2, <1>3, <1>4, <1>5, ClientConstants, FS_CardinalityType

\* Pending takes the oldest first: a report leaves none of yesterday, or so many fewer.
LEMMA ReportTakes ==
    ASSUME owed \subseteq Callers \X DayAges, \A e \in owed : e[2] <= 1
    PROVE  LET left == OwedOld \ Pending
           IN  left = {} \/ Cardinality(left) + ReportMax <= Cardinality(OwedOld)
<1> DEFINE L == OwedOld \ Pending
<1> SUFFICES ASSUME L # {} PROVE Cardinality(L) + ReportMax <= Cardinality(OwedOld) OBVIOUS
<1> DEFINE T == {e[1] : e \in L}
<1>1. PICK e \in L : \A f \in L : e[1] <= f[1]
  <2>1. T \subseteq Nat /\ T # {} BY OwedFinite DEF OwedOld
  <2>2. PICK x \in T : \A y \in T : x <= y
    <3> HIDE DEF T
    <3> QED BY <2>1, LeastOf
  <2> QED BY <2>2
<1> DEFINE F == {f \in owed : Before(f, e)}
<1>2. e \in owed /\ e[2] = 1 BY <1>1 DEF OwedOld
<1>3. ~(Cardinality(F) < ReportMax) BY <1>1, <1>2 DEF Pending
<1>4. F \subseteq OwedOld /\ F \cap L = {}
  <2> SUFFICES ASSUME NEW f \in F PROVE f \in OwedOld /\ f \notin L OBVIOUS
  <2>1. f[2] > 1 \/ (f[2] = 1 /\ f[1] < e[1]) BY <1>2 DEF Before
  <2>2. f[2] \in Nat /\ f[2] <= 1 /\ f[1] \in Nat /\ e[1] \in Nat BY <1>2, OwedFinite
  <2>3. f[2] = 1 /\ f[1] < e[1] BY <2>1, <2>2
  <2> QED BY <1>1, <2>2, <2>3 DEF OwedOld
<1>5. IsFiniteSet(F) /\ IsFiniteSet(L) /\ IsFiniteSet(OwedOld)
  BY <1>4, OwedFinite, FS_Subset
<1>6. Cardinality(F) \in Nat /\ Cardinality(L) \in Nat /\ Cardinality(OwedOld) \in Nat BY <1>5, FS_CardinalityType
<1>7. F \cup L \subseteq OwedOld BY <1>4
<1> HIDE DEF F, L
<1>8. Cardinality(F \cup L) = Cardinality(F) + Cardinality(L)
  <2>1. Cardinality(F \cup L) = Cardinality(F) + Cardinality(L) - Cardinality(F \cap L) BY <1>5, FS_Union
  <2>2. Cardinality(F \cap L) = 0 BY <1>4, FS_EmptySet
  <2> QED BY <1>6, <2>1, <2>2
<1>9. Cardinality(F \cup L) <= Cardinality(OwedOld) BY <1>5, <1>7, FS_Subset
<1> QED BY <1>3, <1>6, <1>8, <1>9, ClientConstants DEF L

\* A day later.
LEMMA DayLater ==
    ASSUME NEW log, Within(log)
    PROVE  Within(OneDayOn(log))
           /\ \A c \in Callers, a \in DayAges : a > 0 => a - 1 \in DayAges /\ OneDayOn(log)[c][a] = log[c][a - 1]
<1>1. \A a \in DayAges : a > 0 => a - 1 \in DayAges BY ClientConstants
<1>2. \A c \in Callers, a \in DayAges : OneDayOn(log)[c][a] = IF a = 0 THEN 0 ELSE log[c][a - 1] BY DEF OneDayOn
<1>3. log \in SampleLogs BY DEF Within
<1>4. OneDayOn(log) \in SampleLogs
  <2>1. \A c \in Callers, a \in DayAges : (IF a = 0 THEN 0 ELSE log[c][a - 1]) \in 0..MaxSamples
    <3> SUFFICES ASSUME NEW c \in Callers, NEW a \in DayAges
                 PROVE  (IF a = 0 THEN 0 ELSE log[c][a - 1]) \in 0..MaxSamples OBVIOUS
    <3>1. log[c] \in [DayAges -> 0..MaxSamples] BY <1>3, LogsAre
    <3>2. a # 0 => a > 0 BY ClientConstants
    <3> QED BY <1>1, <3>1, <3>2, ClientConstants
  <2> QED BY <2>1 DEF OneDayOn, SampleLogs
<1>5. HeldAddrs(OneDayOn(log)) \subseteq HeldAddrs(log)
  <2> SUFFICES ASSUME NEW c \in Callers, NEW a \in DayAges, OneDayOn(log)[c][a] > 0 PROVE c \in HeldAddrs(log)
    BY DEF HeldAddrs, DaysOf
  <2>1. a # 0 /\ log[c][a - 1] > 0 BY <1>2
  <2>2. a - 1 \in DayAges BY <1>1, <2>1, ClientConstants
  <2> QED BY <2>1, <2>2 DEF HeldAddrs, DaysOf
<1>6. Cardinality(HeldAddrs(OneDayOn(log))) <= PerPort
  <2>1. IsFiniteSet(HeldAddrs(log)) /\ Cardinality(HeldAddrs(log)) \in Nat
        /\ Cardinality(HeldAddrs(OneDayOn(log))) \in Nat /\ Cardinality(HeldAddrs(log)) <= PerPort
    BY <1>3, <1>4, LogsAre, ClientConstants DEF Within
  <2>2. Cardinality(HeldAddrs(OneDayOn(log))) <= Cardinality(HeldAddrs(log)) BY <1>5, <2>1, FS_Subset
  <2> QED BY <2>1, <2>2, ClientConstants
<1>7. \A c \in Callers, a \in DayAges : a > 0 => OneDayOn(log)[c][a] = log[c][a - 1] BY <1>2
<1> QED BY <1>1, <1>4, <1>6, <1>7 DEF Within

\* What lasts of the days of a client.
LEMMA LastingIs ==
    ASSUME NEW log \in SampleLogs, NEW days
    PROVE  /\ Lasting(log, days) \subseteq DaysOf(log, DBClient) /\ Lasting(log, days) \subseteq DayAges
           /\ Lasting(log, days) \subseteq {0} \/ TwoDays(log, DBClient)
<1>1. Cardinality(DaysOf(log, DBClient)) > 1 => TwoDays(log, DBClient) BY LogsAre, ClientConstants
<1> QED BY <1>1 DEF Lasting, DaysOf

LEMMA ClientsStart == ASSUME ClientsInit PROVE ClientInv
<1>1. \A c \in Callers : DaysOf(NoSamples, c) = {} BY DEF NoSamples, DaysOf
<1>2. HeldAddrs(NoSamples) = {} BY <1>1 DEF HeldAddrs
<1>3. NoSamples \in SampleLogs BY ClientConstants DEF NoSamples, SampleLogs
<1>4. Within(NoSamples) BY <1>2, <1>3, FS_EmptySet, ClientConstants DEF Within
<1>5. ClientTypes
  <2>1. samples = NoSamples /\ saved = NoSamples BY DEF ClientsInit
  <2>2. Within(samples) /\ Within(saved) BY <1>4, <2>1
  <2>3. 0 \in Nat /\ 0 <= ReportsADay /\ 0 <= MaxBreaks BY ClientConstants
  <2> QED BY <2>2, <2>3 DEF ClientsInit, ClientTypes
<1>6. OwedFits /\ FirmHolds /\ BoundMeans /\ NobodyCutOff
  BY <1>1 DEF ClientsInit, OwedFits, OwedOld, FirmHolds, BoundMeans, NobodyCutOff
<1> QED BY <1>5, <1>6 DEF ClientInv

LEMMA ObserveKeeps ==
    ASSUME ClientInv, NEW seen \in SUBSET Callers, Observe(seen)
    PROVE  ClientInv'
<1>1. PICK log : log = CountAll(samples, seen) OBVIOUS
<1>2. /\ samples' = log /\ saved' \in {saved, log}
      /\ owed' = {e \in owed : log[e[1]][e[2]] > 0} \cup {<<c, 0>> : c \in {d \in seen : log[d][0] > 0}}
      /\ firm' = firm \cup Relied(samples, seen)
      /\ UNCHANGED <<reportsToday, declareVars, bound, cutOff, breaks>>
  BY <1>1 DEF Observe
<1>3. /\ Within(log)
      /\ \A d \in Callers : d \in HeldAddrs(samples) /\ Spared(samples, seen, d) =>
                /\ \A a \in DayAges : samples[d][a] > 0 => log[d][a] > 0
                /\ d \in seen => log[d][0] > 0
  BY <1>1, CountAllIs DEF ClientInv, ClientTypes
<1>4. Relied(samples, seen) \subseteq DayAges BY ClientConstants DEF Relied, DaysOf
<1>5. ClientTypes'
  <2>1. Within(samples)' /\ Within(saved)' BY <1>2, <1>3 DEF ClientInv, ClientTypes, Within, HeldAddrs, DaysOf
  <2>2. owed' \subseteq Callers \X DayAges
    BY <1>2, ClientConstants DEF ClientInv, ClientTypes
  <2> QED BY <1>2, <1>4, <2>1, <2>2 DEF ClientInv, ClientTypes, declareVars
<1>6. OwedFits'
  <2>1. \A e \in owed' : samples'[e[1]][e[2]] > 0 BY <1>2
  <2>2. ASSUME breaks' = 0 PROVE \A e \in owed' : e[2] <= 1
    <3>1. \A e \in owed : e[2] <= 1 BY <1>2, <2>2 DEF ClientInv, OwedFits
    <3> QED BY <1>2, <3>1
  <2>3. OwedOld' \subseteq OwedOld
    <3> SUFFICES ASSUME NEW e \in owed', e[2] = 1 PROVE e \in owed BY DEF OwedOld
    <3>1. e \notin {<<c, 0>> : c \in {d \in seen : log[d][0] > 0}} OBVIOUS
    <3> QED BY <1>2, <3>1
  <2>4. IsFiniteSet(OwedOld) /\ Cardinality(OwedOld) \in Nat BY OwedFinite DEF ClientInv, ClientTypes
  <2>5. OwedOld' = {} \/ (OwedOld # {} /\ Cardinality(OwedOld') <= Cardinality(OwedOld) /\ Cardinality(OwedOld') \in Nat)
    BY <2>3, <2>4, FS_Subset, FS_CardinalityType
  <2>6. ASSUME breaks' = 0 PROVE OwedOld' = {} \/ Cardinality(OwedOld') + reportsToday' * ReportMax <= PerPort
    <3>1. OwedOld = {} \/ Cardinality(OwedOld) + reportsToday * ReportMax <= PerPort
      BY <1>2, <2>6 DEF ClientInv, OwedFits
    <3>2. reportsToday' = reportsToday /\ reportsToday * ReportMax \in Nat
      BY <1>2, ClientConstants DEF ClientInv, ClientTypes
    <3> QED BY <2>4, <2>5, <3>1, <3>2, ClientConstants
  <2> QED BY <2>1, <2>2, <2>6 DEF OwedFits
<1>7. FirmHolds'
  <2> DEFINE on == DaysOf(samples, DBClient)
  <2>1. on # {} => DBClient \in HeldAddrs(samples) BY ClientConstants DEF HeldAddrs
  <2>2. Cardinality(on) > 1 => TwoDays(samples, DBClient)
    BY LogsAre, ClientConstants DEF ClientInv, ClientTypes, Within
  <2>3. TwoDays(samples, DBClient) => on # {} BY DEF TwoDays, DaysOf
  <2>4. CASE TwoDays(samples, DBClient)
    <3>1. Spared(samples, seen, DBClient) BY <2>4 DEF Spared, Steady
    <3>2. /\ \A a \in DayAges : samples[DBClient][a] > 0 => log[DBClient][a] > 0
          /\ DBClient \in seen => log[DBClient][0] > 0
      BY <1>3, <2>1, <2>3, <2>4, <3>1, ClientConstants
    <3>3. firm \subseteq DaysOf(log, DBClient) BY <3>2 DEF ClientInv, FirmHolds, DaysOf
    <3>4. Relied(samples, seen) \subseteq DaysOf(log, DBClient)
      <4> SUFFICES ASSUME NEW a \in Relied(samples, seen) PROVE a \in DaysOf(log, DBClient) OBVIOUS
      <4>1. a \in on \/ (a = 0 /\ DBClient \in seen) BY DEF Relied
      <4> QED BY <3>2, <4>1, ClientConstants DEF DaysOf
    <3>5. TwoDays(log, DBClient) BY <2>4, <3>2 DEF TwoDays
    <3> QED BY <1>2, <3>3, <3>4, <3>5 DEF FirmHolds
  <2>5. CASE ~TwoDays(samples, DBClient)
    <3>1. firm \subseteq {0} /\ ~(Cardinality(on) > 1) BY <2>2, <2>5 DEF ClientInv, FirmHolds
    <3>2. 0 \in firm => log[DBClient][0] > 0
      <4> SUFFICES ASSUME 0 \in firm PROVE log[DBClient][0] > 0 OBVIOUS
      <4>1. 0 \in on BY DEF ClientInv, FirmHolds
      <4>2. samples[DBClient][0] > 0 BY <4>1 DEF DaysOf
      <4>3. Spared(samples, seen, DBClient) BY <4>2 DEF Spared, Steady
      <4> QED BY <1>3, <2>1, <4>1, <4>2, <4>3, ClientConstants
    <3>3. Relied(samples, seen) \subseteq {0} BY <3>1 DEF Relied
    <3>4. 0 \in Relied(samples, seen) => log[DBClient][0] > 0
      <4> SUFFICES ASSUME 0 \in Relied(samples, seen) PROVE log[DBClient][0] > 0 OBVIOUS
      <4>1. DBClient \in seen /\ on # {} /\ (0 \in on \/ Cardinality(HeldAddrs(samples) \cup seen) <= PerPort)
        BY <3>1 DEF Relied
      <4>2. Spared(samples, seen, DBClient) BY <4>1 DEF Spared, Steady, DaysOf
      <4> QED BY <1>3, <2>1, <4>1, <4>2, ClientConstants
    <3> QED BY <1>2, <3>1, <3>2, <3>3, <3>4, ClientConstants DEF FirmHolds, DaysOf
  <2> QED BY <2>4, <2>5
<1>8. BoundMeans' /\ NobodyCutOff' BY <1>2 DEF ClientInv, BoundMeans, NobodyCutOff, declareVars
<1> QED BY <1>5, <1>6, <1>7, <1>8 DEF ClientInv

LEMMA DayEndsKeeps == ASSUME ClientInv, DayEnds PROVE ClientInv'
<1>1. /\ reportsToday = ReportsADay /\ reportsToday' = 0
      /\ samples' = OneDayOn(samples) /\ saved' = OneDayOn(saved)
      /\ owed' = {e \in Callers \X DayAges : e[2] > 0 /\ <<e[1], e[2] - 1>> \in owed}
      /\ firm' = Lasting(OneDayOn(samples), Shift(firm))
      /\ UNCHANGED <<declareVars, bound, cutOff, breaks>>
  BY DEF DayEnds
<1>2. PICK log, stored : log = OneDayOn(samples) /\ stored = OneDayOn(saved) OBVIOUS
<1>3. Within(log) /\ Within(stored)
      /\ \A c \in Callers, a \in DayAges : a > 0 => a - 1 \in DayAges /\ log[c][a] = samples[c][a - 1]
  BY <1>2, DayLater DEF ClientInv, ClientTypes
<1>4. log \in SampleLogs BY <1>3 DEF Within
<1>5. /\ Lasting(log, Shift(firm)) \subseteq DaysOf(log, DBClient) /\ Lasting(log, Shift(firm)) \subseteq DayAges
      /\ Lasting(log, Shift(firm)) \subseteq {0} \/ TwoDays(log, DBClient)
  BY <1>4, LastingIs
<1>6. ClientTypes'
  <2>1. Within(samples)' /\ Within(saved)' BY <1>1, <1>2, <1>3 DEF Within, HeldAddrs, DaysOf
  <2> QED BY <1>1, <1>2, <1>5, <2>1, ClientConstants DEF ClientInv, ClientTypes, declareVars
<1>7. FirmHolds' BY <1>1, <1>2, <1>5 DEF FirmHolds, DaysOf, TwoDays
<1>8. OwedFits'
  <2>1. ASSUME NEW e \in owed'
        PROVE  e[1] \in Callers /\ e[2] \in DayAges /\ e[2] > 0 /\ <<e[1], e[2] - 1>> \in owed /\ e = <<e[1], e[2]>>
               /\ samples[e[1]][e[2] - 1] > 0
    <3>1. e[1] \in Callers /\ e[2] \in DayAges /\ e[2] > 0 /\ <<e[1], e[2] - 1>> \in owed /\ e = <<e[1], e[2]>>
      BY <1>1
    <3> QED BY <3>1 DEF ClientInv, OwedFits
  <2>2. \A e \in owed' : samples'[e[1]][e[2]] > 0 BY <1>1, <1>2, <1>3, <2>1
  <2>3. ASSUME breaks' = 0 PROVE \A e \in owed' : e[2] <= 1 /\ samples[e[1]][0] > 0
    <3>1. breaks = 0 BY <1>1, <2>3
    <3>2. OwedOld = {}
      <4> SUFFICES ASSUME OwedOld # {} PROVE FALSE OBVIOUS
      <4>1. Cardinality(OwedOld) + ReportsADay * ReportMax <= PerPort BY <1>1, <3>1 DEF ClientInv, OwedFits
      <4>2. Cardinality(OwedOld) \in Nat /\ Cardinality(OwedOld) # 0
        BY OwedFinite, FS_EmptySet DEF ClientInv, ClientTypes
      <4>3. ReportsADay * ReportMax \in Nat BY ClientConstants
      <4> QED BY <4>1, <4>2, <4>3, ReportsSuffice, ClientConstants
    <3>3. ASSUME NEW f \in owed PROVE f[2] = 0
      <4>1. f[2] <= 1 /\ f[2] # 1 BY <3>1, <3>2 DEF ClientInv, OwedFits, OwedOld
      <4>2. f[2] \in Nat BY OwedFinite DEF ClientInv, ClientTypes
      <4> QED BY <4>1, <4>2
    <3> SUFFICES ASSUME NEW e \in owed' PROVE e[2] <= 1 /\ samples[e[1]][0] > 0 OBVIOUS
    <3>4. e[2] - 1 = 0 /\ samples[e[1]][e[2] - 1] > 0 BY <2>1, <3>3
    <3>5. e[2] \in Nat BY <2>1, ClientConstants
    <3>6. e[2] <= 1 BY <3>4, <3>5
    <3>7. samples[e[1]][0] > 0 BY <3>4
    <3> QED BY <3>6, <3>7
  <2>4. ASSUME breaks' = 0 PROVE Cardinality(OwedOld') + reportsToday' * ReportMax <= PerPort
    <3> DEFINE H == HeldAddrs(samples)
    <3>1. IsFiniteSet(H) /\ Cardinality(H) \in Nat /\ Cardinality(H) <= PerPort
      BY LogsAre, ClientConstants DEF ClientInv, ClientTypes, Within
    <3>2. OwedOld' \subseteq {<<c, 1>> : c \in H}
      <4> SUFFICES ASSUME NEW e \in owed', e[2] = 1 PROVE e \in {<<c, 1>> : c \in H} BY DEF OwedOld
      <4>1. e[1] \in H BY <2>1, <2>3, <2>4, ClientConstants DEF HeldAddrs, DaysOf
      <4> QED BY <2>1, <4>1
    <3>3. IsFiniteSet({<<c, 1>> : c \in H}) /\ Cardinality({<<c, 1>> : c \in H}) <= Cardinality(H)
      <4> DEFINE g == [c \in H |-> <<c, 1>>]
      <4>1. {<<c, 1>> : c \in H} = {g[c] : c \in H} OBVIOUS
      <4>2. g \in Surjection(H, {<<c, 1>> : c \in H}) BY <4>1 DEF Surjection
      <4> HIDE DEF g
      <4> QED BY <3>1, <4>2, FS_Surjection
    <3>4. Cardinality(OwedOld') \in Nat /\ Cardinality(OwedOld') <= Cardinality({<<c, 1>> : c \in H})
          /\ Cardinality({<<c, 1>> : c \in H}) \in Nat
      BY <3>2, <3>3, FS_Subset, FS_CardinalityType
    <3>5. reportsToday' * ReportMax = 0 BY <1>1, ClientConstants
    <3> HIDE DEF H
    <3> QED BY <3>1, <3>3, <3>4, <3>5, ClientConstants
  <2> QED BY <2>2, <2>3, <2>4 DEF OwedFits
<1>9. BoundMeans' /\ NobodyCutOff' BY <1>1 DEF ClientInv, BoundMeans, NobodyCutOff, declareVars
<1> QED BY <1>6, <1>7, <1>8, <1>9 DEF ClientInv

LEMMA ReportClientsKeeps ==
    ASSUME ClientInv, NEW answered \in BOOLEAN, ReportClients(answered)
    PROVE  ClientInv'
<1>1. /\ answered \/ breaks < MaxBreaks
      /\ breaks' = IF answered THEN breaks ELSE breaks + 1
      /\ owed' = IF answered THEN owed \ Pending ELSE owed
      /\ reportsToday' = IF reportsToday < ReportsADay THEN reportsToday + 1 ELSE reportsToday
      /\ UNCHANGED <<samples, saved, declareVars, firm, bound, cutOff>>
  BY DEF ReportClients
<1>2. ClientTypes'
  <2>1. Within(samples)' /\ Within(saved)' BY <1>1 DEF ClientInv, ClientTypes, Within, HeldAddrs, DaysOf
  <2>2. reportsToday' \in Nat /\ reportsToday' <= ReportsADay /\ breaks' \in Nat /\ breaks' <= MaxBreaks
    BY <1>1, ClientConstants DEF ClientInv, ClientTypes
  <2> QED BY <1>1, <2>1, <2>2 DEF ClientInv, ClientTypes, declareVars
<1>3. FirmHolds' /\ BoundMeans' /\ NobodyCutOff'
  BY <1>1 DEF ClientInv, FirmHolds, BoundMeans, NobodyCutOff, declareVars, DaysOf, TwoDays
<1>4. owed' \subseteq owed BY <1>1
<1>5. \A e \in owed' : samples'[e[1]][e[2]] > 0 BY <1>1, <1>4 DEF ClientInv, OwedFits
<1>6. ASSUME breaks' = 0
      PROVE  /\ \A e \in owed' : e[2] <= 1
             /\ OwedOld' = {} \/ Cardinality(OwedOld') + reportsToday' * ReportMax <= PerPort
  <2>1. answered /\ breaks = 0 BY <1>1, <1>6 DEF ClientInv, ClientTypes
  <2>2. \A e \in owed : e[2] <= 1 BY <2>1 DEF ClientInv, OwedFits
  <2>3. PICK left : left = OwedOld \ Pending OBVIOUS
  <2>4. OwedOld' = left BY <1>1, <2>1, <2>3 DEF OwedOld
  <2>5. left = {} \/ Cardinality(left) + ReportMax <= Cardinality(OwedOld)
    BY <2>2, <2>3, ReportTakes DEF ClientInv, ClientTypes
  <2>6. OwedOld = {} \/ Cardinality(OwedOld) + reportsToday * ReportMax <= PerPort
    BY <2>1 DEF ClientInv, OwedFits
  <2>7. IsFiniteSet(OwedOld) /\ Cardinality(OwedOld) \in Nat /\ Cardinality(left) \in Nat
    BY <2>3, OwedFinite, FS_Subset, FS_CardinalityType DEF ClientInv, ClientTypes
  <2>8. ASSUME left # {} PROVE Cardinality(left) + reportsToday' * ReportMax <= PerPort
    <3>1. Cardinality(left) + ReportMax <= Cardinality(OwedOld)
          /\ Cardinality(OwedOld) + reportsToday * ReportMax <= PerPort
      BY <2>3, <2>5, <2>6, <2>8
    <3>2. reportsToday \in Nat /\ ReportMax \in Nat /\ PerPort \in Nat BY ClientConstants DEF ClientInv, ClientTypes
    <3>3. (reportsToday + 1) * ReportMax = reportsToday * ReportMax + ReportMax /\ reportsToday * ReportMax \in Nat
      BY <3>2
    <3>4. reportsToday' = reportsToday + 1 \/ reportsToday' = reportsToday BY <1>1
    <3> QED BY <2>7, <3>1, <3>2, <3>3, <3>4
  <2> QED BY <1>4, <2>2, <2>4, <2>8
<1>7. OwedFits' BY <1>5, <1>6 DEF OwedFits
<1> QED BY <1>2, <1>3, <1>7 DEF ClientInv

LEMMA DeclaredKeeps ==
    ASSUME ClientInv, NEW named \in BOOLEAN, NEW lookups \in BOOLEAN, ReadDeclared(named, lookups)
    PROVE  ClientInv'
<1>1. /\ declared' = IF named /\ (lookups \/ answers) THEN "yes" ELSE "no"
      /\ answers' = (answers \/ (named /\ lookups))
      /\ bound' = (named /\ (bound \/ lookups))
      /\ UNCHANGED <<samples, saved, owed, reportsToday, firm, cutOff, breaks>>
  BY DEF ReadDeclared, countVars
<1>2. ClientTypes'
  <2>1. Within(samples)' /\ Within(saved)' BY <1>1 DEF ClientInv, ClientTypes, Within, HeldAddrs, DaysOf
  <2> QED BY <1>1, <2>1 DEF ClientInv, ClientTypes
<1>3. OwedFits' /\ FirmHolds' /\ NobodyCutOff'
  BY <1>1 DEF ClientInv, OwedFits, OwedOld, FirmHolds, NobodyCutOff, DaysOf, TwoDays
<1>4. BoundMeans' BY <1>1 DEF ClientInv, BoundMeans
<1> QED BY <1>2, <1>3, <1>4 DEF ClientInv

LEMMA CloseKeeps ==
    ASSUME ClientInv, NEW allowed \in BOOLEAN, ClosePort(allowed)
    PROVE  ClientInv'
<1>1. /\ NotAllowed(allowed) = {}
      /\ cutOff' = (cutOff \/ (~allowed /\ (bound \/ Cardinality(firm) >= RegularDays)))
      /\ UNCHANGED <<samples, saved, owed, reportsToday, answers, declared, firm, bound, breaks>>
  BY DEF ClosePort, countVars, declareVars
<1>2. ClientTypes'
  <2>1. Within(samples)' /\ Within(saved)' BY <1>1 DEF ClientInv, ClientTypes, Within, HeldAddrs, DaysOf
  <2>2. cutOff' \in BOOLEAN BY <1>1
  <2> QED BY <1>1, <2>1, <2>2 DEF ClientInv, ClientTypes
<1>3. OwedFits' /\ FirmHolds' /\ BoundMeans'
  BY <1>1 DEF ClientInv, OwedFits, OwedOld, FirmHolds, BoundMeans, DaysOf, TwoDays
<1>4. NobodyCutOff'
  <2> SUFFICES ASSUME ~allowed PROVE ~bound /\ ~(Cardinality(firm) >= RegularDays)
    BY <1>1 DEF ClientInv, NobodyCutOff
  <2>1. declared # "yes" BY <1>1 DEF NotAllowed
  <2>2. ~bound BY <2>1 DEF ClientInv, BoundMeans
  <2>3. ~IsRegularClient(DBClient) BY <1>1, ClientConstants DEF NotAllowed
  <2>4. PICK on : on = DaysOf(samples, DBClient) OBVIOUS
  <2>5. IsFiniteSet(on) /\ Cardinality(on) \in Nat
    BY <2>4, LogsAre, ClientConstants DEF ClientInv, ClientTypes, Within
  <2>6. firm \subseteq on BY <2>4 DEF ClientInv, FirmHolds
  <2>7. Cardinality(firm) <= Cardinality(on) /\ Cardinality(firm) \in Nat
    BY <2>5, <2>6, FS_Subset, FS_CardinalityType
  <2>8. ~(Cardinality(on) >= RegularDays) BY <2>3, <2>4 DEF IsRegularClient
  <2> QED BY <2>2, <2>5, <2>7, <2>8, ClientConstants
<1> QED BY <1>2, <1>3, <1>4 DEF ClientInv

LEMMA ClientsRestartKeeps == ASSUME ClientInv, ClientsRestart PROVE ClientInv'
<1>1. /\ breaks < MaxBreaks /\ breaks' = breaks + 1
      /\ samples' = saved /\ owed' = {e \in Callers \X DayAges : saved[e[1]][e[2]] > 0}
      /\ answers' = FALSE /\ declared' = "unread"
      /\ firm' = Lasting(saved, firm) /\ bound' = FALSE
      /\ UNCHANGED <<saved, reportsToday, cutOff>>
  BY DEF ClientsRestart
<1>2. /\ Lasting(saved, firm) \subseteq DaysOf(saved, DBClient) /\ Lasting(saved, firm) \subseteq DayAges
      /\ Lasting(saved, firm) \subseteq {0} \/ TwoDays(saved, DBClient)
  BY LastingIs DEF ClientInv, ClientTypes, Within
<1>3. ClientTypes'
  <2>1. Within(samples)' /\ Within(saved)' BY <1>1 DEF ClientInv, ClientTypes, Within, HeldAddrs, DaysOf
  <2>2. breaks' \in Nat /\ breaks' <= MaxBreaks BY <1>1, ClientConstants DEF ClientInv, ClientTypes
  <2> QED BY <1>1, <1>2, <2>1, <2>2 DEF ClientInv, ClientTypes
<1>4. FirmHolds' BY <1>1, <1>2 DEF FirmHolds, DaysOf, TwoDays
<1>5. breaks' # 0 BY <1>1 DEF ClientInv, ClientTypes
<1>6. OwedFits' BY <1>1, <1>5 DEF OwedFits
<1>7. BoundMeans' /\ NobodyCutOff' BY <1>1 DEF ClientInv, BoundMeans, NobodyCutOff
<1> QED BY <1>3, <1>4, <1>6, <1>7 DEF ClientInv

LEMMA ClientsKeep == ASSUME ClientInv, [ClientsNext]_clientVars PROVE ClientInv'
<1>1. ASSUME NEW present \in SUBSET Callers, NEW published \in BOOLEAN, NEW withTool \in BOOLEAN,
             Observe(Shown(present, published, withTool))
      PROVE  ClientInv'
  <2>1. Shown(present, published, withTool) \in SUBSET Callers BY DEF Shown
  <2> QED BY <1>1, <2>1, ObserveKeeps
<1>2. CASE DayEnds BY <1>2, DayEndsKeeps
<1>3. ASSUME NEW answered \in BOOLEAN, ReportClients(answered) PROVE ClientInv' BY <1>3, ReportClientsKeeps
<1>4. ASSUME NEW named \in BOOLEAN, NEW lookups \in BOOLEAN, ReadDeclared(named, lookups) PROVE ClientInv'
  BY <1>4, DeclaredKeeps
<1>5. ASSUME NEW allowed \in BOOLEAN, ClosePort(allowed) PROVE ClientInv' BY <1>5, CloseKeeps
<1>6. CASE ClientsRestart BY <1>6, ClientsRestartKeeps
<1>7. CASE UNCHANGED clientVars
  <2>1. UNCHANGED <<samples, saved, owed, reportsToday, answers, declared, firm, bound, cutOff, breaks>>
    BY <1>7 DEF clientVars, countVars, declareVars
  <2>2. ClientTypes' BY <2>1 DEF ClientInv, ClientTypes, Within, HeldAddrs, DaysOf
  <2>3. OwedFits' /\ FirmHolds' /\ BoundMeans' /\ NobodyCutOff'
    BY <2>1 DEF ClientInv, OwedFits, OwedOld, FirmHolds, BoundMeans, NobodyCutOff, DaysOf, TwoDays
  <2> QED BY <2>2, <2>3 DEF ClientInv
<1> QED BY <1>1, <1>2, <1>3, <1>4, <1>5, <1>6, <1>7 DEF ClientsNext

LEMMA ClientInvMeans == ASSUME ClientInv PROVE ClientsTypeOK /\ HeldIsCounted /\ NobodyCutOff /\ ToldInTime
<1>1. /\ samples \in SampleLogs /\ saved \in SampleLogs /\ Cardinality(HeldAddrs(samples)) <= PerPort
      /\ reportsToday \in 0..ReportsADay /\ breaks \in 0..MaxBreaks
  BY ClientConstants DEF ClientInv, ClientTypes, Within
<1>2. ClientsTypeOK BY <1>1 DEF ClientInv, ClientTypes, ClientsTypeOK, SampleLogs, declareVars
<1>3. HeldIsCounted /\ NobodyCutOff /\ ToldInTime
  BY DEF ClientInv, FirmHolds, OwedFits, HeldIsCounted, ToldInTime
<1> QED BY <1>2, <1>3

\* A client with two days, or one and room, is held and counted; a port is not closed to
\* a regular or declared client; and while the reports are answered nothing of a day is
\* owed when the next one ends, if the reports of a day take what a port may hold
\* (dbclients Log, Pending and ParseAccessHosts, dbclients.go of the agent).
THEOREM ClientsKnown == ClientsSpec => [](ClientsTypeOK /\ HeldIsCounted /\ NobodyCutOff /\ ToldInTime)
<1>1. ClientsInit => ClientInv BY ClientsStart
<1>2. ClientInv /\ [ClientsNext]_clientVars => ClientInv' BY ClientsKeep
<1>3. ClientInv => ClientsTypeOK /\ HeldIsCounted /\ NobodyCutOff /\ ToldInTime BY ClientInvMeans
<1> QED BY <1>1, <1>2, <1>3, PTL DEF ClientsSpec

----------------------------------------------------------------------------
(* The types of PanelLifts.                                                 *)

LiftTypes ==
    /\ LiftTypeOK
    /\ lift \in [on : BOOLEAN, ids : SUBSET Ids, adopt : BOOLEAN, age : {"new", "hour", "over"}]
    /\ job \in [step : {"idle", "fetched", "seen", "filtered"}, ids : SUBSET Ids]
    /\ listing \subseteq Ids /\ unused \subseteq Ids /\ view \subseteq Ids

LEMMA LiftTypesKeep == ASSUME LiftTypes, [LiftNext]_liftVars PROVE LiftTypes'
<1> USE DEF LiftTypes, LiftTypeOK, NoLift, NoJob, dash2, counts
<1>1. CASE UNCHANGED liftVars BY <1>1 DEF liftVars
<1>2. CASE OtherBan BY <1>2 DEF OtherBan
<1>3. CASE DashboardLifts BY <1>3 DEF DashboardLifts
<1>4. CASE Detect BY <1>4 DEF Detect
<1>5. CASE NoteLocalBan BY <1>5 DEF NoteLocalBan
<1>6. CASE Reported BY <1>6 DEF Reported
<1>7. CASE Unban
  <2>1. CASE lift' = [on |-> TRUE, ids |-> view, adopt |-> TRUE, age |-> "new"] /\ info' = FALSE /\ unbanning' = TRUE
    BY <1>7, <2>1 DEF Unban
  <2>2. CASE UNCHANGED <<lift, info, unbanning>> BY <1>7, <2>2 DEF Unban
  <2> QED BY <1>7, <2>1, <2>2 DEF Unban
<1>8. CASE UnbanEnd BY <1>8 DEF UnbanEnd
<1>9. ASSUME NEW age \in {"hour", "over"}, Ageing(age) PROVE LiftTypes' BY <1>9 DEF Ageing
<1>10. CASE Fetch BY <1>10 DEF Fetch
<1>11. CASE NoteSync BY <1>11 DEF NoteSync
<1>12. CASE Filter
  <2>1. AfterSync(job.ids) \in [on : BOOLEAN, ids : SUBSET Ids, adopt : BOOLEAN, age : {"new", "hour", "over"}]
        /\ AfterSync(job.ids).ids \subseteq Ids \ unused /\ (~AfterSync(job.ids).on => AfterSync(job.ids) = NoLift)
    BY DEF AfterSync
  <2> QED BY <1>12, <2>1 DEF Filter
<1>13. CASE ApplySynced BY <1>13 DEF ApplySynced
<1>14. CASE RestartPanel BY <1>14 DEF RestartPanel
<1> QED BY <1>1, <1>2, <1>3, <1>4, <1>5, <1>6, <1>7, <1>8, <1>9, <1>10, <1>11, <1>12, <1>13, <1>14 DEF LiftNext

LEMMA LiftTypesStart == LiftInit => LiftTypes
<1> SUFFICES ASSUME LiftInit PROVE LiftTypes OBVIOUS
<1>1. /\ listing = {} /\ view = {} /\ unused = Ids /\ detecting = "idle" /\ lift = NoLift /\ job = NoJob
      /\ inForce = FALSE /\ ownBan = FALSE /\ info = FALSE /\ unbanning = FALSE /\ cut = FALSE
  BY DEF LiftInit
<1>2. NoLift.ids = {} /\ NoLift.on = FALSE /\ NoLift.adopt = FALSE /\ NoLift.age = "new"
      /\ NoJob.ids = {} /\ NoJob.step = "idle"
  BY DEF NoLift, NoJob
<1>3. LiftTypeOK BY <1>1, <1>2 DEF LiftTypeOK
<1> QED BY <1>1, <1>3 DEF LiftTypes, NoLift, NoJob

----------------------------------------------------------------------------

(* The composition.                                                        *)

\* In any behaviour of the composition the changes are as ChangesSafe and the files of
\* the badge as BadgesSafe have it: what ChangesHold says of both (MCHost).
THEOREM ChangesAreRight == HostSideSpec => []ChangesHold
<1>1. HostSideInit => HostInit /\ TrustInit
  BY DEF HostSideInit
<1>2. [HostSideNext]_allVars => [HostNext]_hostVars /\ [TrustNext]_trustVars
  BY DEF HostSideNext, allVars
<1>3. HostInit /\ [][HostNext]_hostVars => [](FilesParse /\ NoHarmLeft /\ AppliedInForce)
  BY ChangesSafe DEF HostSpec
<1>4. TrustInit /\ [][TrustNext]_trustVars => [](FilesRecorded /\ ToldAsIs /\ ToldOnce /\ ForeignKept)
  BY BadgesSafe
<1>5. /\ FilesParse /\ NoHarmLeft /\ AppliedInForce
      /\ FilesRecorded /\ ToldAsIs /\ ToldOnce /\ ForeignKept
      => ChangesHold
  BY DEF ChangesHold
<1> QED BY <1>1, <1>2, <1>3, <1>4, <1>5, PTL DEF HostSideSpec

\* In any behaviour of the composition the logins are told of once, the scheduled ones
\* are of a series, whoever is in a session or a regular client is known and not cut
\* off, and who only guesses is not shielded: what VisitorsKnown says (MCHost).
THEOREM VisitorsAreRight == HostSideSpec => []VisitorsKnown
<1>1. HostSideInit => SessionInit /\ AutomationInit /\ RefusalsInit /\ ClientsInit
  BY DEF HostSideInit
<1>2. [HostSideNext]_allVars =>
        /\ [SessionNext]_sessionVars /\ [AutomationNext]_automationVars
        /\ [RefusalsNext]_refusalVars /\ [ClientsNext]_clientVars
  BY DEF HostSideNext, allVars
<1>3. SessionInit /\ [][SessionNext]_sessionVars => []ReportedOnce
  BY SessionsReportedOnce, PTL DEF SessionSpec
<1>4. AutomationInit /\ [][AutomationNext]_automationVars => []SeriesLasted
  BY AutomationEarned DEF AutomationSpec
<1>5. RefusalsInit /\ [][RefusalsNext]_refusalVars => [](SessionsSpared /\ GuessersNotShielded)
  BY NobodyShutOut, PTL DEF RefusalsSpec
<1>6. ClientsInit /\ [][ClientsNext]_clientVars => [](HeldIsCounted /\ NobodyCutOff /\ ToldInTime)
  BY ClientsKnown, PTL DEF ClientsSpec
<1>7. /\ ReportedOnce /\ SeriesLasted
      /\ SessionsSpared /\ GuessersNotShielded
      /\ HeldIsCounted /\ NobodyCutOff /\ ToldInTime
      => VisitorsKnown
  BY DEF VisitorsKnown
<1> QED BY <1>1, <1>2, <1>3, <1>4, <1>5, <1>6, <1>7, PTL DEF HostSideSpec

\* In any behaviour of the composition every variable of every component keeps its type,
\* the limits of the vault, of the scheduled logins and of the clients' log included.
THEOREM HostSideTypes == HostSideSpec => []TypesOK
<1>1. HostSideInit =>
        /\ Init /\ QuarantineInit /\ HostInit /\ SessionInit /\ AutomationInit /\ LiftInit
        /\ RefusalsInit /\ ClientsInit /\ TrustInit
  BY DEF HostSideInit
<1>2. [HostSideNext]_allVars =>
        /\ [Next]_vars /\ [QuarantineNext]_quarantineVars /\ [HostNext]_hostVars
        /\ [SessionNext]_sessionVars /\ [AutomationNext]_automationVars /\ [LiftNext]_liftVars
        /\ [RefusalsNext]_refusalVars /\ [ClientsNext]_clientVars /\ [TrustNext]_trustVars
  BY DEF HostSideNext, allVars
<1>3. Init /\ [][Next]_vars => []TypeOK BY UpdaterTypes DEF Spec
<1>4. QuarantineInit /\ [][QuarantineNext]_quarantineVars => []QuarantineTypeOK BY VaultTypes DEF QuarantineSpec
<1>5. HostInit /\ [][HostNext]_hostVars => []HostTypeOK
  <2>1. ChangesInv => HostTypeOK BY DEF ChangesInv
  <2> QED BY <2>1, ChangesInit, ChangesNext, PTL
<1>6. SessionInit /\ [][SessionNext]_sessionVars => []SessionTypeOK
  BY SessionsReportedOnce, PTL DEF SessionSpec
<1>7. AutomationInit /\ [][AutomationNext]_automationVars => []AutomationTypeOK
  BY AutomationTypesStart, AutomationTypesKeep, AutomationTypesSuffice, PTL
<1>8. LiftInit /\ [][LiftNext]_liftVars => []LiftTypeOK
  <2>1. LiftTypes => LiftTypeOK BY DEF LiftTypes
  <2> QED BY <2>1, LiftTypesStart, LiftTypesKeep, PTL
<1>9. RefusalsInit /\ [][RefusalsNext]_refusalVars => []RefusalsTypeOK BY NobodyShutOut, PTL DEF RefusalsSpec
<1>10. ClientsInit /\ [][ClientsNext]_clientVars => []ClientsTypeOK BY ClientsKnown, PTL DEF ClientsSpec
<1>11. TrustInit /\ [][TrustNext]_trustVars => []TrustTypeOK
  <2>1. TrustInv => TrustTypeOK BY DEF TrustInv, TrustTypes
  <2> QED BY <2>1, TrustStarts, TrustKeeps, PTL
<1>12. /\ TypeOK /\ QuarantineTypeOK /\ HostTypeOK
       /\ SessionTypeOK /\ AutomationTypeOK /\ LiftTypeOK /\ RefusalsTypeOK /\ ClientsTypeOK
       /\ TrustTypeOK
       => TypesOK
  BY DEF TypesOK
<1> QED BY <1>1, <1>2, <1>3, <1>4, <1>5, <1>6, <1>7, <1>8, <1>9, <1>10, <1>11, <1>12, PTL DEF HostSideSpec
=============================================================================
