---------------------------- MODULE MalwareScans ----------------------------
(* Malware: first the scans, then the watcher of the upload directories.    *)
(* The two parts share no state.                                            *)
(*                                                                          *)
(* The malware scans: asked for by the dashboard, the schedule or a hosting *)
(* panel (cmd/infrafence-agent/main.go, panelscan.go, scheduler.go), run    *)
(* root by root (main.go, malwareScan), watched for a cancellation and the  *)
(* time limit (malwarescan.go), the files checked against the signatures    *)
(* (internal/malware/scanner.go), which a sync replaces meanwhile.          *)
(*                                                                          *)
(* A signature is its priority, 0 for the built-in ones; a root has one     *)
(* file for each of Files, which the signature of that number finds.  A     *)
(* root of BigRoots has more files than the time limit lets it read.        *)
EXTENDS Integers, Sequences, FiniteSets, SequencesExt

CONSTANTS
    LastRoot,   \* the web roots are 1..LastRoot
    BigRoots,
    DynSigs,    \* the signatures the dashboard has
    Files,      \* see above
    MaxKept,    \* signatures of the dashboard that are kept (1000)
    Interval,   \* hours between two scans of the schedule
    MaxScanEvents \* bound on what the dashboard and chance do

ASSUME ScansAssumption ==
    /\ LastRoot \in Nat \ {0} /\ BigRoots \subseteq 1..LastRoot /\ MaxScanEvents \in Nat
    /\ DynSigs \subseteq Nat \ {0} /\ Files \subseteq {0} \cup DynSigs
    /\ {MaxKept, Interval} \subseteq Nat \ {0}

VARIABLES
    dashSigs, dashOn,   \* the dashboard: its signatures, scheduled scans on
    sigs, loader, loadedSigs, \* in force; being loaded; the last ones loaded
    scheduleOn, hours,  \* the scheduler runs; since its last tick
    slot, cancelScan,   \* malwareScanRunning, malwareScanCancel
    scan,               \* the goroutine of the scan
    running, stopped,   \* of the Scanner: running, its channel is closed
    watchdog, ended,       \* the watch of the scan, told to end
    late,               \* the time limit is over
    dashScan,           \* what the dashboard knows of the scan
    afterEnd,           \* history: it was sent something of a scan that had ended
    scanEventsN

scanWorld == <<dashSigs, dashOn, scanEventsN>>
sigsVars  == <<sigs, loader, loadedSigs>>
schedule  == <<scheduleOn, hours>>
scanner   == <<running, stopped>>
watchVars == <<watchdog, ended, late>>
scanVars  == <<scanWorld, sigsVars, schedule, slot, cancelScan, scan, scanner, watchVars,
               dashScan, afterEnd>>

NoScan   == [pc |-> "none"]
NoLoader == <<>>
BuiltIn  == <<0>>

ScansInit ==
    /\ dashSigs = {} /\ dashOn = FALSE /\ scanEventsN = 0
    /\ sigs = BuiltIn /\ loader = NoLoader /\ loadedSigs = <<>>
    /\ scheduleOn = FALSE /\ hours = 0 /\ slot = FALSE /\ cancelScan = FALSE /\ scan = NoScan
    /\ running = FALSE /\ stopped = FALSE /\ watchdog = "off" /\ ended = FALSE /\ late = FALSE
    /\ dashScan = [state |-> "none"] /\ afterEnd = FALSE

----------------------------------------------------------------------------
(* The dashboard, and the process.                                          *)

ScanEvent == scanEventsN < MaxScanEvents /\ scanEventsN' = scanEventsN + 1

EditSignatures(s) ==
    /\ s # dashSigs /\ dashSigs' = s /\ ScanEvent
    /\ UNCHANGED <<dashOn, sigsVars, schedule, slot, cancelScan, scan, scanner, watchVars, dashScan,
                   afterEnd>>
EditSchedule ==
    /\ dashOn' = ~dashOn /\ ScanEvent
    /\ UNCHANGED <<dashSigs, sigsVars, schedule, slot, cancelScan, scan, scanner, watchVars,
                   dashScan, afterEnd>>

\* The process starts again: a crash, an update.  The dashboard tells a scan that
\* was abandoned by its last update.
StartsAgain ==
    /\ sigs' = BuiltIn /\ loader' = NoLoader /\ loadedSigs' = <<>>
    /\ scheduleOn' = FALSE /\ hours' = 0 /\ slot' = FALSE /\ cancelScan' = FALSE
    /\ scan' = NoScan /\ running' = FALSE /\ stopped' = FALSE
    /\ watchdog' = "off" /\ ended' = FALSE /\ late' = FALSE
ScanRestart ==
    /\ ScanEvent /\ StartsAgain
    /\ UNCHANGED <<dashSigs, dashOn, dashScan, afterEnd>>

----------------------------------------------------------------------------
(* Signatures and schedule.                                                 *)

\* selectDynamicSignatures: the highest priorities first, MaxKept of them.
Selected(s) ==
    LET byPriority == SetToSortSeq(s, LAMBDA a, b : a > b)
    IN  SubSeq(byPriority, 1, IF Len(byPriority) < MaxKept THEN Len(byPriority) ELSE MaxKept)

\* UpdateConfig: a schedule that stays the same keeps its ticker.
UpdateConfig ==
    IF dashOn = scheduleOn THEN UNCHANGED schedule
    ELSE scheduleOn' = dashOn /\ hours' = 0

\* What a sync does: a list of signatures without any is not loaded; the
\* signatures that are the same are not compiled again.
ScansSync ==
    /\ loader = NoLoader /\ UpdateConfig
    /\ IF dashSigs # {} /\ Selected(dashSigs) # loadedSigs
       THEN sigs' = BuiltIn /\ loader' = Selected(dashSigs)
       ELSE UNCHANGED <<sigs, loader>>
    /\ UNCHANGED <<loadedSigs, scanWorld, slot, cancelScan, scan, scanner, watchVars, dashScan,
                   afterEnd>>
\* LoadDynamicSignatures: one after the other.
LoadSignature ==
    /\ loader # NoLoader
    /\ sigs' = Append(sigs, Head(loader)) /\ loader' = Tail(loader)
    /\ loadedSigs' = IF loader' = NoLoader THEN Tail(sigs') ELSE loadedSigs
    /\ UNCHANGED <<scanWorld, schedule, slot, cancelScan, scan, scanner, watchVars, dashScan,
                   afterEnd>>

\* The slot of the scan is claimed once; a duplicate request is dropped.
Claim(k) ==
    IF slot THEN UNCHANGED <<slot, scan>>
    ELSE slot' = TRUE /\ scan' = [pc |-> "claimed", kind |-> k]
Hour ==
    /\ scheduleOn /\ hours' = (hours + 1) % Interval
    /\ IF hours' = 0 THEN Claim("server") ELSE UNCHANGED <<slot, scan>>
    /\ UNCHANGED <<scheduleOn, scanWorld, sigsVars, cancelScan, scanner, watchVars, dashScan,
                   afterEnd>>
ScanPcs == {"roots", "next", "open", "file", "check", "walked", "chunk", "rest", "unwatch",
            "watchEnds"}
\* A push of the dashboard; panelScan.
AskScan(k) ==
    /\ ~slot /\ Claim(k) /\ ScanEvent
    /\ UNCHANGED <<dashSigs, dashOn, sigsVars, schedule, cancelScan, scanner, watchVars, dashScan,
                   afterEnd>>
AskCancel ==
    /\ cancelScan' = TRUE /\ ScanEvent
    /\ scan' = IF scan.pc \notin ScanPcs THEN scan
               ELSE [scan EXCEPT !.asked = @ \cup {scan.pc}]
    /\ UNCHANGED <<dashSigs, dashOn, sigsVars, schedule, slot, scanner, watchVars, dashScan,
                   afterEnd>>

----------------------------------------------------------------------------
(* malwareScan.  The scan has its step, its kind, the root it is at, whether *)
(* one was cut short, its status, the roots walked to their end, the files   *)
(* left of this one, the signatures to check a file against and the next     *)
(* one, and (history) the steps at which it was asked to end.              *)

ScanFrame == UNCHANGED <<scanWorld, sigsVars, schedule>>
At(pc)    == scan' = [scan EXCEPT !.pc = pc]
Over      == slot' = FALSE /\ scan' = NoScan

\* The panel's directory is not the one that was checked; otherwise a cancel of
\* the scan before is forgotten, and the dashboard is told.
NotStarted ==
    /\ scan.pc = "claimed" /\ scan.kind = "panel" /\ Over
    /\ ScanFrame /\ UNCHANGED <<cancelScan, scanner, watchVars, dashScan, afterEnd>>
ScanBegins ==
    /\ scan.pc = "claimed" /\ cancelScan' = FALSE
    /\ scan' = [pc |-> "roots", kind |-> scan.kind, at |-> 0, cut |-> FALSE, status |-> "completed",
                walked |-> {}, skipped |-> {}, found |-> {}, left |-> {}, file |-> 0, upTo |-> 0,
                next |-> 0, asked |-> {}]
    /\ dashScan' = [state |-> "open"]
    /\ ScanFrame /\ UNCHANGED <<slot, scanner, watchVars, afterEnd>>

\* A scan of the panel has the one root it is asked for.
RootsOf(s) == IF s.kind = "panel" THEN {1} ELSE 1..LastRoot
\* No web root is found, or the watch begins.
DetectRoots ==
    /\ scan.pc = "roots" /\ ScanFrame /\ UNCHANGED <<cancelScan, scanner, afterEnd>>
    /\ \/ /\ scan.kind = "server" /\ Over /\ UNCHANGED watchVars
          /\ dashScan' = [state |-> "ended", status |-> "no_web_roots", score |-> FALSE,
                         of |-> scan]
       \/ /\ At("next") /\ watchdog' = "on" /\ ended' = FALSE /\ late' = FALSE
          /\ UNCHANGED <<slot, dashScan>>

StopAs(status) ==
    scan' = [scan EXCEPT !.status = status,
                          !.pc = IF status = "cancelled" THEN "unwatch" ELSE "rest"]
NextRoot ==
    /\ scan.pc = "next" /\ ScanFrame
    /\ UNCHANGED <<slot, cancelScan, stopped, watchVars, dashScan, afterEnd>>
    /\ \/ scan.at + 1 \notin RootsOf(scan) /\ At("rest") /\ UNCHANGED running
       \/ /\ scan.at + 1 \in RootsOf(scan) /\ UNCHANGED running
          /\ \/ ~cancelScan /\ late /\ StopAs("timed_out")
             \/ cancelScan /\ StopAs("cancelled")
       \/ /\ scan.at + 1 \in RootsOf(scan) /\ ~cancelScan /\ ~late
          /\ running' = TRUE /\ scan' = [scan EXCEPT !.at = @ + 1, !.pc = "open"]

\* ScanWebRoots: a new channel, and the root is opened, or refused.
OpenRoot ==
    /\ scan.pc = "open" /\ stopped' = FALSE /\ ScanFrame
    /\ UNCHANGED <<slot, cancelScan, running, watchVars, dashScan, afterEnd>>
    /\ \/ scan' = [scan EXCEPT !.pc = "file", !.left = Files]
       \/ scan' = [scan EXCEPT !.pc = "walked", !.skipped = @ \cup {scan.at}]

\* walkRoot: whether the channel is closed, before each file.
WalkFile ==
    /\ scan.pc = "file" /\ ScanFrame
    /\ UNCHANGED <<slot, cancelScan, scanner, watchVars, dashScan, afterEnd>>
    /\ \/ stopped /\ At("walked")
       \/ /\ ~stopped /\ scan.left = {}
          /\ scan' = [scan EXCEPT !.pc = "walked", !.walked = @ \cup {scan.at}]
       \/ /\ ~stopped
          /\ \E f \in scan.left :
                scan' = [scan EXCEPT !.pc = "check", !.file = f, !.upTo = Len(sigs), !.next = 1,
                                     !.left = IF scan.at \in BigRoots THEN @ ELSE @ \ {f}]

\* scanContent: the signatures there were when it began, each read where it is
\* now.
CheckFile ==
    /\ scan.pc = "check" /\ ScanFrame
    /\ UNCHANGED <<slot, cancelScan, scanner, watchVars, dashScan, afterEnd>>
    /\ \/ scan.next > scan.upTo /\ At("file")
       \/ /\ scan.next <= scan.upTo /\ scan.next <= Len(sigs)
          /\ scan' = [scan EXCEPT !.next = @ + 1,
                                  !.found = IF sigs[scan.next] = scan.file
                                            THEN @ \cup {<<scan.at, scan.file>>} ELSE @]
\* There are fewer now: an index out of range ends the process.
SignatureGone ==
    /\ scan.pc = "check" /\ scan.next <= scan.upTo /\ scan.next > Len(sigs)
    /\ StartsAgain /\ UNCHANGED <<scanWorld, dashScan, afterEnd>>

\* What was found so far is sent, also of a root that was cut short.
RootDone ==
    /\ scan.pc = "walked" /\ running' = FALSE /\ ScanFrame
    /\ scan' = [scan EXCEPT !.pc = "chunk", !.cut = @ \/ cancelScan \/ late]
    /\ UNCHANGED <<slot, cancelScan, stopped, watchVars, dashScan, afterEnd>>
Tell == afterEnd' = (afterEnd \/ dashScan.state = "ended")
SendChunk ==
    /\ scan.pc = "chunk" /\ At("next") /\ Tell /\ ScanFrame
    /\ UNCHANGED <<slot, cancelScan, scanner, watchVars, dashScan>>

\* After the roots: a scan whose last root was cut short has not completed.
AfterRoots ==
    /\ scan.pc = "rest" /\ ScanFrame
    /\ UNCHANGED <<slot, cancelScan, scanner, watchVars, dashScan, afterEnd>>
    /\ scan' = [scan EXCEPT !.pc = "unwatch",
                            !.status = IF @ # "completed" \/ ~scan.cut THEN @
                                       ELSE IF cancelScan THEN "cancelled" ELSE "timed_out"]
\* stopWatch: the watch is told to end, and waited for.
EndWatch ==
    /\ scan.pc = "unwatch" /\ ended' = TRUE /\ At("watchEnds") /\ ScanFrame
    /\ UNCHANGED <<slot, cancelScan, scanner, watchdog, late, dashScan, afterEnd>>
CompleteScan ==
    /\ scan.pc = "watchEnds" /\ watchdog = "off" /\ Over /\ Tell /\ ScanFrame
    /\ dashScan' = [state |-> "ended", status |-> scan.status, of |-> scan,
                    score |-> scan.status = "completed" /\ scan.kind = "server"]
    /\ UNCHANGED <<cancelScan, scanner, watchVars>>

----------------------------------------------------------------------------
(* watchMalwareScan, and time.                                              *)

WatchFrame == ScanFrame /\ UNCHANGED <<slot, cancelScan, scan, dashScan>>
SeesStop ==
    /\ watchdog = "on" /\ ~ended /\ (cancelScan \/ late) /\ watchdog' = "stop"
    /\ WatchFrame /\ UNCHANGED <<scanner, ended, late, afterEnd>>
\* Stop: only a scan that runs, and once; after it a heartbeat may be due.
Stop ==
    /\ watchdog = "stop" /\ watchdog' \in {"on", "beat"} /\ stopped' = (stopped \/ running)
    /\ WatchFrame /\ UNCHANGED <<running, ended, late, afterEnd>>
Beat ==
    /\ watchdog = "on" /\ ~ended /\ ~cancelScan /\ ~late /\ watchdog' = "beat"
    /\ WatchFrame /\ UNCHANGED <<scanner, ended, late, afterEnd>>
BeatSent ==
    /\ watchdog = "beat" /\ watchdog' = "on" /\ Tell
    /\ WatchFrame /\ UNCHANGED <<scanner, ended, late>>
WatchEnds ==
    /\ watchdog = "on" /\ ended /\ watchdog' = "off"
    /\ WatchFrame /\ UNCHANGED <<scanner, ended, late, afterEnd>>
TimeLimit ==
    /\ watchdog # "off" /\ ~late /\ late' = TRUE
    /\ WatchFrame /\ UNCHANGED <<scanner, watchdog, ended, afterEnd>>

ScanStep ==
    \/ ScanBegins \/ DetectRoots \/ NextRoot \/ OpenRoot \/ WalkFile \/ CheckFile \/ SignatureGone
    \/ RootDone \/ SendChunk \/ AfterRoots \/ EndWatch \/ CompleteScan
WatchStep == SeesStop \/ Stop \/ BeatSent \/ WatchEnds

ScansNext ==
    \/ \E s \in SUBSET DynSigs : EditSignatures(s)
    \/ EditSchedule \/ ScanRestart \/ ScansSync \/ LoadSignature \/ Hour
    \/ \E k \in {"server", "panel"} : AskScan(k)
    \/ AskCancel \/ NotStarted \/ ScanStep \/ WatchStep \/ Beat \/ TimeLimit

----------------------------------------------------------------------------

Statuses == {"completed", "cancelled", "timed_out"}
ScansTypeOK ==
    /\ dashSigs \subseteq DynSigs /\ scanEventsN \in 0..MaxScanEvents /\ hours \in 0..Interval - 1
    /\ {dashOn, scheduleOn, slot, cancelScan} \subseteq BOOLEAN
    /\ {running, stopped, ended, late, afterEnd} \subseteq BOOLEAN
    /\ sigs \in Seq({0} \cup DynSigs) /\ {loader, loadedSigs} \subseteq Seq(DynSigs)
    /\ watchdog \in {"off", "on", "stop", "beat"}
    /\ scan.pc \in {"none", "claimed"} \cup ScanPcs
    /\ scan.pc \in ScanPcs => scan.status \in Statuses /\ scan.at \in 0..LastRoot
    /\ dashScan.state \in {"none", "open", "ended"}

\* The score of the server comes from a whole scan only: every root was walked to
\* its end, or refused and reported as that, and what the built-in signatures find
\* in it was found, whatever signatures a sync loaded meanwhile ("a partial scan
\* sends no security score", CHANGELOG.md:55).
ScoreIsWhole ==
    dashScan.state = "ended" /\ dashScan.score =>
        LET s == dashScan.of
        IN  /\ s.kind = "server" /\ 1..LastRoot = s.walked \cup s.skipped
            /\ 0 \in Files => \A r \in s.walked : <<r, 0>> \in s.found

\* A scan that is cancelled in the middle of a root ends as that, also when the
\* time limit passes too, and no scan ends as cancelled for what was asked of
\* another (malwarescan.go, main.go).
CancelHeard ==
    dashScan.state = "ended" /\ dashScan.status # "no_web_roots" =>
        /\ {"file", "check"} \cap dashScan.of.asked # {} => dashScan.status = "cancelled"
        /\ dashScan.status = "cancelled" => dashScan.of.asked # {}

\* Nothing of a scan is sent after its completion: a heartbeat in flight lands
\* before (malwarescan.go, stopWatch).
EndIsLast == ~afterEnd

\* The watch and the slot go with the scan: no watch is left to stop the next one.
WatchedScan == (watchdog # "off" => slot) /\ (slot <=> scan # NoScan)

\* A scan ends, however long a root takes, also when Stop came too early and
\* was lost; the schedule goes on as long as it is on, whatever the syncs.  Each
\* comes about again and again.
ScanEnded    == ~slot
ScheduleRuns == dashOn => slot

\* The signatures of the dashboard come in force for good, the most relevant of
\* them, unless it has none.
SigsInForce ==
    dashSigs # {} => /\ Len(sigs) = 1 + Min({Cardinality(dashSigs), MaxKept})
                     /\ \A s \in dashSigs \ Range(sigs), t \in Range(sigs) : t = 0 \/ t > s

----------------------------------------------------------------------------

(* The watcher of the upload directories (internal/malware/realtime.go),    *)
(* switched by the syncs and by the switch-off of protection (cmd/          *)
(* infrafence-agent/main.go, refusal.go): it polls the directories and has  *)
(* each new or modified PHP file scanned (scanner.go).                      *)
(*                                                                          *)
(* A directory has one file at most, which holds malware: its version, and  *)
(* its mtime in seconds.                                                    *)

CONSTANTS
    UploadDirs,
    Loops,           \* goroutines that may run at a time (a bound)
    LastSecond,      \* bound on the clock
    MaxUploadEvents  \* bound on what the owner and the dashboard do

ASSUME UploadsAssumption ==
    /\ IsFiniteSet(UploadDirs) /\ IsFiniteSet(Loops) /\ {LastSecond, MaxUploadEvents} \subseteq Nat

VARIABLES
    second, there, upload, \* the clock, the directories there are, the file of each
    watchOn, off,          \* the dashboard wants scans; protection is off
    detecting,             \* a goroutine of a sync is at DetectWebRoots
    dirs, mtimes,          \* watched; path -> mtime, 0 without
    polling,               \* running: a loop listens on a channel that is open
    poller,                \* what each loop is at
    alerts, alerted,       \* how often, and for which version, each file was reported
    due,                   \* history: files a loop has to report
    lateStart, twice,      \* history: started while off; two loops at a time
    uploadEventsN

uploadWorld == <<second, there, upload, watchOn, off, uploadEventsN>>
watcher     == <<dirs, mtimes, polling, poller>>
alertVars   == <<alerts, alerted>>
uploadVars  == <<uploadWorld, detecting, watcher, alertVars, due, lateStart, twice>>

NoLoop == [pc |-> "off"]
Active == {l \in Loops : poller[l] # NoLoop}

UploadsInit ==
    /\ second = 1 /\ there = {} /\ upload = [d \in UploadDirs |-> [v |-> 0, m |-> 0]]
    /\ watchOn = FALSE /\ off = FALSE /\ uploadEventsN = 0 /\ detecting = FALSE
    /\ dirs = {} /\ mtimes = [d \in UploadDirs |-> 0] /\ polling = FALSE
    /\ poller = [l \in Loops |-> NoLoop] /\ alerts = [d \in UploadDirs |-> 0]
    /\ alerted = [d \in UploadDirs |-> 0] /\ due = {} /\ lateStart = FALSE /\ twice = FALSE

----------------------------------------------------------------------------
(* The owner, the dashboard.                                                *)

UploadEvent == uploadEventsN < MaxUploadEvents /\ uploadEventsN' = uploadEventsN + 1

SecondPasses ==
    /\ second < LastSecond /\ second' = second + 1
    /\ UNCHANGED <<there, upload, watchOn, off, uploadEventsN, detecting, watcher, alertVars, due,
                   lateStart, twice>>
\* A file is written; it is due when a loop watches its directory and it is newer
\* than what the loop knows.  A file that is unpacked keeps an old mtime.
Watching(d) ==
    /\ polling /\ d \in dirs
    /\ \E l \in Active : ~poller[l].initial
    /\ \A l \in Active : ~poller[l].initial
PutFile(d, m) ==
    /\ UploadEvent /\ there' = there \cup {d}
    /\ upload' = [upload EXCEPT ![d] = [v |-> @.v + 1, m |-> m]]
    /\ due' = IF Watching(d) /\ m > mtimes[d] THEN due \cup {d} ELSE due \ {d}
    /\ UNCHANGED <<second, watchOn, off, detecting, watcher, alertVars, lateStart, twice>>
EditScans ==
    /\ watchOn' = ~watchOn /\ UploadEvent
    /\ UNCHANGED <<second, there, upload, off, detecting, watcher, alertVars, due, lateStart,
                   twice>>

----------------------------------------------------------------------------
(* Start, Stop.                                                             *)

\* Stop closes the channel: a loop that waits on it may take a tick first.
StopPolling ==
    /\ polling' = FALSE /\ due' = {}
    /\ poller' = IF ~polling THEN poller
                 ELSE [l \in Loops |-> IF poller[l].pc # "select" THEN poller[l]
                                       ELSE [poller[l] EXCEPT !.pc = "told"]]
\* Nothing when it runs; otherwise a new channel, and a loop that first records
\* the files there are.
StartPolling ==
    IF polling THEN UNCHANGED <<polling, poller, lateStart, twice>>
    ELSE /\ polling' = TRUE /\ lateStart' = off /\ twice' = (twice \/ Active # {})
         /\ \E l \in Loops \ Active :
               poller' = [poller EXCEPT ![l] = [pc |-> "walk", initial |-> TRUE, todo |-> dirs',
                                            at |-> "none", m |-> 0]]

SyncScans ==
    /\ ~off
    /\ IF watchOn THEN detecting' = TRUE /\ UNCHANGED <<polling, poller, due, lateStart>>
       ELSE StopPolling /\ lateStart' = FALSE /\ UNCHANGED detecting
    /\ UNCHANGED <<uploadWorld, dirs, mtimes, alertVars, twice>>
\* The goroutine of the sync: without a web root nothing is started.
RootsDetected ==
    /\ detecting /\ detecting' = FALSE
    /\ IF there = {} THEN UNCHANGED <<dirs, polling, poller, lateStart, twice>>
       ELSE dirs' = there /\ StartPolling
    /\ UNCHANGED <<uploadWorld, mtimes, alertVars, due>>

\* disableProtection; enableProtection comes before a sync.
SwitchScansOff ==
    /\ off' = ~off /\ UploadEvent
    /\ IF off THEN UNCHANGED <<polling, poller, due>> ELSE StopPolling
    /\ lateStart' = FALSE
    /\ UNCHANGED <<second, there, upload, watchOn, detecting, dirs, mtimes, alertVars, twice>>

WatcherRestart ==
    /\ UploadEvent /\ detecting' = FALSE /\ dirs' = {} /\ mtimes' = [d \in UploadDirs |-> 0]
    /\ polling' = FALSE /\ poller' = [l \in Loops |-> NoLoop] /\ due' = {} /\ lateStart' = FALSE
    /\ UNCHANGED <<second, there, upload, watchOn, off, alertVars, twice>>

----------------------------------------------------------------------------
(* The loop.                                                                *)

LoopFrame == UNCHANGED <<uploadWorld, detecting, dirs, polling, due, lateStart, twice>>
\* Walk: the mtime is read first, and what it was before is looked up after.
StatFile(l, d) ==
    /\ poller[l].pc = "walk" /\ d \in poller[l].todo /\ LoopFrame /\ UNCHANGED <<mtimes, alertVars>>
    /\ poller' = [poller EXCEPT ![l].pc = IF upload[d].v = 0 THEN "walk" ELSE "note",
                            ![l].todo = @ \ {d}, ![l].at = d, ![l].m = upload[d].m]
NoteFile(l) ==
    /\ poller[l].pc = "note" /\ LoopFrame /\ UNCHANGED alertVars
    /\ LET d == poller[l].at
       IN  /\ mtimes' = [mtimes EXCEPT ![d] = poller[l].m]
           /\ poller' = [poller EXCEPT ![l].pc = IF ~poller[l].initial /\ poller[l].m > mtimes[d]
                                             THEN "scan" ELSE "walk"]
\* ScanSingleFile reads the file as it is now.
ScanFile(l) ==
    /\ poller[l].pc = "scan" /\ LoopFrame /\ UNCHANGED mtimes
    /\ alerts' = [alerts EXCEPT ![poller[l].at] = @ + 1]
    /\ alerted' = [alerted EXCEPT ![poller[l].at] = upload[poller[l].at].v]
    /\ poller' = [poller EXCEPT ![l].pc = "walk"]
\* At the select the channel of now is listened to, the one of another loop too.
WalkEnds(l) ==
    /\ poller[l].pc = "walk" /\ poller[l].todo = {} /\ LoopFrame /\ UNCHANGED <<mtimes, alertVars>>
    /\ poller' = [poller EXCEPT ![l].pc = IF polling THEN "select" ELSE "told",
                              ![l].initial = FALSE, ![l].at = "none", ![l].m = 0]
Poll(l) ==
    /\ poller[l].pc \in {"select", "told"} /\ LoopFrame /\ UNCHANGED <<mtimes, alertVars>>
    /\ poller' = [poller EXCEPT ![l].pc = "walk", ![l].todo = dirs]
LoopEnds(l) ==
    /\ poller[l].pc = "told" /\ LoopFrame /\ UNCHANGED <<mtimes, alertVars>>
    /\ poller' = [poller EXCEPT ![l] = NoLoop]

LoopStep(l) ==
    \/ \E d \in UploadDirs : StatFile(l, d)
    \/ NoteFile(l) \/ ScanFile(l) \/ WalkEnds(l) \/ Poll(l) \/ LoopEnds(l)

UploadsNext ==
    \/ SecondPasses \/ EditScans \/ SyncScans \/ RootsDetected \/ SwitchScansOff \/ WatcherRestart
    \/ \E d \in UploadDirs, m \in {1, second} : PutFile(d, m)
    \/ \E l \in Loops : LoopStep(l)

----------------------------------------------------------------------------

UploadsTypeOK ==
    /\ second \in 1..LastSecond /\ there \cup dirs \cup due \subseteq UploadDirs
    /\ {watchOn, off, detecting, polling, lateStart, twice} \subseteq BOOLEAN
    /\ uploadEventsN \in 0..MaxUploadEvents
    /\ \A d \in UploadDirs :
          /\ {alerts[d], alerted[d], upload[d].v} \subseteq 0..2 * MaxUploadEvents
          /\ {mtimes[d], upload[d].m} \subseteq 0..LastSecond
    /\ \A l \in Active : /\ poller[l].pc \in {"walk", "note", "scan", "select", "told"}
                         /\ poller[l].todo \subseteq UploadDirs

\* A version of a file is reported once at most, unless a loop outlived a Stop that
\* a Start followed during its walk (realtime.go, scan).
AlertedOnce == \A d \in UploadDirs : twice \/ alerts[d] <= upload[d].v

\* After a Stop without a Start no loop waits for the next tick: a walk that was
\* under way hears of it at its end, also when it listens to another's channel.
LoopsListen == \A l \in Active : poller[l].pc = "select" => polling

\* What is due is reported in the end; the watcher follows the dashboard and the
\* switch-off, except that a sync's goroutine which starts it after the switch-off
\* is not undone before the next one (main.go:1533).
DueReported == \A d \in due : alerted[d] = upload[d].v
WatchFollows ==
    /\ watchOn /\ ~off /\ there # {} => polling /\ Active # {}
    /\ (~watchOn /\ ~off) \/ (off /\ ~lateStart) => Active = {}
=============================================================================
