------------------------------ MODULE Sessions ------------------------------
(***************************************************************************)
(* SSH logins: first the sessions, then the series of automatic logins.    *)
(* The two parts share no state.                                           *)
(*                                                                         *)
(* SSH sessions (internal/session/session.go): the tracker reads the log   *)
(* of sshd, opens a session for a login, credits it with its user's        *)
(* commands, and reports it when it is closed, by the logout or by the     *)
(* cleanup of old sessions, a goroutine of its own.                        *)
(*                                                                         *)
(* A login is a number; its lines carry it beside the PID of its sshd,     *)
(* which is used again.  What a session scores, and the alerts of other    *)
(* detectors that count for it, are left out.                              *)
(*                                                                         *)
(* A definition whose name begins with Mut is the one after it with a      *)
(* mistake planted, to see a property fail.                                *)
(***************************************************************************)
EXTENDS Integers, Sequences, FiniteSets, FiniteSetsExt, SequencesExt

CONSTANTS
    Pids, Owner,    \* the account of a PID: a function
    MaxLogins, MaxLines, MaxToggles, MaxRotations \* bounds

ASSUME SessionBounds ==
    {MaxLogins, MaxLines, MaxToggles, MaxRotations} \subseteq Nat

VARIABLES
    sshd,       \* PID -> the login it serves, 0: none
    auditLog, written, \* the file; lines written in all
    offset, pass,   \* tail: where it is; the pass over a grown file
    active,     \* config.Enabled, once the tracker runs
    sessions,   \* PID -> session
    closing,    \* taken out of sessions, closeSession is about to report it
    reports,    \* login -> ssh_session events
    ran,        \* login -> its account, the commands of it since
    seenTwice,  \* logins a line of which was read twice
    loginsN, togglesN, rotationsN

sessionVars == <<sshd, auditLog, written, offset, pass, active, sessions, closing,
                 reports, ran, seenTwice, loginsN, togglesN, rotationsN>>
host  == <<sshd, auditLog, written, ran, loginsN>>
reading == <<offset, pass>>
rest  == <<togglesN, rotationsN>>

Nobody == [login |-> 0, cmds |-> 0, old |-> FALSE]
NoPass == [to |-> 0, at |-> 0]
Logins == 1..MaxLogins
Unused == [by |-> {}, cmds |-> 0]

SessionInit ==
    /\ sshd = [p \in Pids |-> 0] /\ auditLog = <<>> /\ written = 0
    /\ offset = 0 /\ pass = NoPass /\ active = TRUE
    /\ sessions = [p \in Pids |-> Nobody] /\ closing = {}
    /\ reports = [l \in Logins |-> 0] /\ ran = [l \in Logins |-> Unused] /\ seenTwice = {}
    /\ loginsN = 0 /\ togglesN = 0 /\ rotationsN = 0

----------------------------------------------------------------------------
(* The host.                                                               *)

Write(event, p, login) ==
    /\ written < MaxLines /\ written' = written + 1
    /\ auditLog' = Append(auditLog, [kind |-> event, pid |-> p, login |-> login, times |-> 0])

LogIn(p) ==
    /\ sshd[p] = 0 /\ loginsN < MaxLogins /\ loginsN' = loginsN + 1
    /\ sshd' = [sshd EXCEPT ![p] = loginsN']
    /\ Write("login", p, loginsN')
    /\ ran' = [ran EXCEPT ![loginsN'].by = {Owner[p]}]
    /\ UNCHANGED <<reading, active, sessions, closing, reports, seenTwice, rest>>

\* A command of the account (sudo, crontab, su) while it is logged in.
Command(p) ==
    /\ sshd[p] # 0 /\ Write("command", p, sshd[p])
    /\ ran' = [l \in Logins |-> IF Owner[p] \in ran[l].by THEN [ran[l] EXCEPT !.cmds = @ + 1]
                                  ELSE ran[l]]
    /\ UNCHANGED <<sshd, loginsN, reading, active, sessions, closing, reports,
                   seenTwice, rest>>

LogOut(p) ==
    /\ sshd[p] # 0 /\ sshd' = [sshd EXCEPT ![p] = 0] /\ Write("logout", p, sshd[p])
    /\ UNCHANGED <<ran, loginsN, reading, active, sessions, closing, reports,
                   seenTwice, rest>>

\* logrotate: what was not read yet is lost.
Rotate ==
    /\ rotationsN < MaxRotations /\ rotationsN' = rotationsN + 1 /\ auditLog # <<>>
    /\ pass = NoPass /\ auditLog' = <<>>
    /\ UNCHANGED <<sshd, written, ran, loginsN, reading, active, sessions, closing,
                   reports, seenTwice, togglesN>>

----------------------------------------------------------------------------
(* tail: the size, then everything up to the end of the file.              *)

Stat ==
    /\ pass = NoPass
    /\ \/ Len(auditLog) > offset /\ pass' = [to |-> Len(auditLog), at |-> offset] /\ UNCHANGED offset
       \/ Len(auditLog) < offset /\ offset' = 0 /\ UNCHANGED pass
    /\ UNCHANGED <<host, active, sessions, closing, reports, seenTwice, rest>>

\* What was written after Stat is read now, and again by the next pass.
PassEnd ==
    /\ pass # NoPass /\ pass.at = Len(auditLog)
    /\ offset' = pass.to /\ pass' = NoPass
    /\ UNCHANGED <<host, active, sessions, closing, reports, seenTwice, rest>>

\* A login; one of the same account within two minutes differs in its events.
Opened(line) ==
    /\ sessions' = [sessions EXCEPT ![line.pid] = [Nobody EXCEPT !.login = line.login]]
    /\ UNCHANGED closing

\* appendCommandToUser
Credited(line) ==
    /\ sessions' = [p \in Pids |-> IF sessions[p].login # 0 /\ Owner[p] = Owner[line.pid]
                                    THEN [sessions[p] EXCEPT !.cmds = @ + 1] ELSE sessions[p]]
    /\ UNCHANGED closing

\* A logout; closeSession follows without the lock.
Closed(line) ==
    /\ sessions' = [sessions EXCEPT ![line.pid] = Nobody]
    /\ closing' = IF sessions[line.pid].login = 0 THEN closing
                  ELSE closing \cup {[by |-> "logout", s |-> sessions[line.pid]]}

\* processLine; the goroutine that reads reports what it closed first.
ReadLine ==
    /\ pass # NoPass /\ pass.at < Len(auditLog)
    /\ ~\E c \in closing : c.by = "logout"
    /\ LET line == auditLog[pass.at + 1]
       IN /\ pass' = [pass EXCEPT !.at = @ + 1]
          /\ auditLog' = [auditLog EXCEPT ![pass.at + 1].times = 1]
          /\ seenTwice' = IF line.times = 0 THEN seenTwice
                          ELSE seenTwice \cup {line.login}
                                 \cup {sessions[p].login : p \in {q \in Pids : Owner[q] = Owner[line.pid]}}
          /\ \/ ~active /\ UNCHANGED <<sessions, closing>>
             \/ active /\ line.kind = "login" /\ Opened(line)
             \/ active /\ line.kind = "command" /\ Credited(line)
             \/ active /\ line.kind = "logout" /\ Closed(line)
    /\ UNCHANGED <<sshd, written, ran, loginsN, offset, active, reports, rest>>

\* closeSession: an empty session of a few seconds is not reported.
ReportSession(c) ==
    /\ c \in closing /\ closing' = closing \ {c}
    /\ \/ reports' = [reports EXCEPT ![c.s.login] = @ + 1]
       \/ c.by = "logout" /\ c.s.cmds = 0 /\ UNCHANGED reports
    /\ UNCHANGED <<host, reading, active, sessions, seenTwice, rest>>

----------------------------------------------------------------------------
(* Time, and the other goroutines.                                         *)

DayOld(p) ==
    /\ sessions[p].login # 0 /\ ~sessions[p].old
    /\ sessions' = [sessions EXCEPT ![p].old = TRUE]
    /\ UNCHANGED <<host, reading, active, closing, reports, seenTwice, rest>>

\* cleanupSessions takes what is a day old out of the table, then reports it.
MutCleanup ==
    LET stale == {p \in Pids : sessions[p].old}
    IN /\ stale # {} /\ UNCHANGED sessions
       /\ closing' = closing \cup {[by |-> "timeout", s |-> sessions[p]] : p \in stale}
       /\ UNCHANGED <<host, reading, active, reports, seenTwice, rest>>

Cleanup ==
    LET stale == {p \in Pids : sessions[p].old}
    IN /\ stale # {}
       /\ sessions' = [p \in Pids |-> IF p \in stale THEN Nobody ELSE sessions[p]]
       /\ closing' = closing \cup {[by |-> "timeout", s |-> sessions[p]] : p \in stale}
       /\ UNCHANGED <<host, reading, active, reports, seenTwice, rest>>

\* UpdateConfig, with a sync.
Toggle ==
    /\ togglesN < MaxToggles /\ togglesN' = togglesN + 1 /\ active' = ~active
    /\ UNCHANGED <<host, reading, sessions, closing, reports, seenTwice, rotationsN>>

SessionNext ==
    \/ \E p \in Pids : LogIn(p) \/ Command(p) \/ LogOut(p) \/ DayOld(p)
    \/ \E c \in closing : ReportSession(c)
    \/ Rotate \/ Stat \/ PassEnd \/ ReadLine \/ Cleanup \/ Toggle

SessionSpec == SessionInit /\ [][SessionNext]_sessionVars

\* The goroutines run, and a session grows old.
SessionFairness ==
    /\ WF_sessionVars(Stat \/ PassEnd \/ ReadLine) /\ WF_sessionVars(Cleanup)
    /\ WF_sessionVars(\E c \in closing : ReportSession(c))
    /\ \A p \in Pids : WF_sessionVars(DayOld(p))

----------------------------------------------------------------------------

SessionTypeOK ==
    /\ sshd \in [Pids -> 0..MaxLogins] /\ written \in 0..MaxLines /\ Len(auditLog) <= written
    /\ offset \in 0..MaxLines /\ pass.at \in 0..Len(auditLog) /\ pass.to <= Len(auditLog)
    /\ active \in BOOLEAN
    /\ \A p \in Pids : sessions[p].login \in 0..loginsN
    /\ reports \in [Logins -> Nat] /\ \A l \in Logins : ran[l].cmds <= written

\* session.go: a session is reported once, closed by its logout or by the
\* cleanup, which run beside each other, and with no more commands than its
\* account ran since; unless the tail read a line of it twice, which it does with what
\* is written between its Stat and the end of its pass.
ReportedOnce ==
    \A l \in Logins \ seenTwice :
        /\ reports[l] + Cardinality({c \in closing : c.s.login = l}) <= 1
        /\ \A p \in Pids : sessions[p].login = l => reports[l] = 0 /\ sessions[p].cmds <= ran[l].cmds

\* No session stays open for good: a logout that was lost with a rotation, or
\* written while the tracker was off, is made up for by the cleanup.
AllClosed == <>[](\A p \in Pids : sessions[p].login = 0)

----------------------------------------------------------------------------

(***************************************************************************)
(* Recurring automation (internal/session/automation.go): a key that logs  *)
(* in from one address at a regular cadence is not scored like a person.   *)
(* The history of logins is bounded, and saved from time to time.          *)
(***************************************************************************)

CONSTANTS
    Keys,
    Window, MinLogins, MinAge, Burst, MinGap, \* auto..., in units
    Tolerance, Share, \* of the median gap; regular gaps of four
    MaxKeys, MaxTimes, SaveEvery,
    Horizon, MaxReboots \* bounds: time, restarts

ASSUME AutomationAssumption ==
    /\ {Window, MinLogins, MinAge, MinGap, Tolerance, Share} \subseteq Nat
    /\ {Burst, MaxKeys, MaxTimes, SaveEvery, Horizon} \subseteq Nat \ {0} /\ MaxReboots \in Nat

VARIABLES
    clock,
    history,    \* key -> its logins, oldest first
    firsts,     \* key -> the first login of the series, 0: none
    dirty, savedAt, autoFile,
    real,       \* key -> every login there was
    judged,     \* the last login: its key, whether it counts as automation
    rebootsN

automationVars == <<clock, history, firsts, dirty, savedAt, autoFile, real, judged, rebootsN>>

Empty == [times |-> [k \in Keys |-> <<>>], first |-> [k \in Keys |-> 0]]
NoneJudged == [key |-> {}, auto |-> FALSE]

AutomationInit ==
    /\ clock = 1 /\ history = Empty.times /\ firsts = Empty.first /\ dirty = FALSE
    /\ savedAt = 1 /\ autoFile = Empty /\ real = [k \in Keys |-> {}]
    /\ judged = NoneJudged /\ rebootsN = 0

----------------------------------------------------------------------------

\* The median, as sort.Slice and the middle index find it.
Median(gaps) ==
    CHOOSE m \in ToSet(gaps) :
        /\ Cardinality({i \in DOMAIN gaps : gaps[i] < m}) <= Len(gaps) \div 2
        /\ Cardinality({i \in DOMAIN gaps : gaps[i] <= m}) > Len(gaps) \div 2

RegularCadence(times) ==
    /\ Len(times) >= MinLogins /\ Len(times) >= 2
    /\ LET gaps == [i \in 1..(Len(times) - 1) |-> times[i + 1] - times[i]]
           med == Median(gaps)
           regular == {i \in DOMAIN gaps : med - Tolerance <= gaps[i] /\ gaps[i] <= med + Tolerance}
       IN med >= MinGap /\ 4 * Cardinality(regular) >= Share * Len(gaps)

Latest(times) == IF times = <<>> THEN 0 ELSE Last(times)

\* The keys evictLocked leaves: those with the latest logins.
KeptKeys(times) ==
    LET held == {k \in Keys : times[k] # <<>>}
    IN IF Cardinality(held) <= MaxKeys THEN {held}
       ELSE {s \in kSubset(MaxKeys, held) :
               \A k \in s, j \in held \ s : Latest(times[j]) <= Latest(times[k])}

\* record: of the logins known, those of the window.
InWindow(t) == clock - t < Window /\ t <= clock
Recent(times) ==
    LET upTo[i \in 0..Len(times)] ==
            IF i = 0 THEN <<>> ELSE IF InWindow(times[i]) THEN Append(upTo[i - 1], times[i]) ELSE upTo[i - 1]
    IN  upTo[Len(times)]
LastTimes(times) == IF Len(times) > MaxTimes THEN SubSeq(times, Len(times) - MaxTimes + 1, Len(times))
                 ELSE times

\* record: the first login of a series is kept while the window holds another.
First(k, kept) == IF kept = <<>> \/ firsts[k] = 0 THEN clock ELSE firsts[k]

Record(k) ==
    LET kept == Recent(history[k])
        new == kept = <<>> \/ clock - Latest(kept) >= Burst
        mine == IF new THEN LastTimes(Append(kept, clock)) ELSE kept
        first == First(k, kept)
    IN /\ real' = [real EXCEPT ![k] = @ \cup {clock}]
       /\ \E left \in KeptKeys([history EXCEPT ![k] = mine]) :
            /\ history' = [j \in Keys |-> IF j \notin left THEN <<>> ELSE IF j = k THEN mine ELSE history[j]]
            /\ firsts' = [j \in Keys |-> IF j \notin left THEN 0 ELSE IF j = k THEN first ELSE firsts[j]]
       /\ IF (dirty \/ new) /\ clock - savedAt >= SaveEvery
          THEN /\ dirty' = FALSE /\ savedAt' = clock
               /\ autoFile' = [times |-> history', first |-> firsts']
          ELSE dirty' = (dirty \/ new) /\ UNCHANGED <<savedAt, autoFile>>
       /\ judged' = [key |-> {k}, auto |-> clock - first >= MinAge /\ RegularCadence(mine)]
       /\ UNCHANGED <<clock, rebootsN>>

\* load, by another process, within the time of the last one.
Loaded(k) == LastTimes(Recent(autoFile.times[k]))

Reboot ==
    /\ rebootsN < MaxReboots /\ rebootsN' = rebootsN + 1
    /\ history' = [k \in Keys |-> Loaded(k)]
    /\ firsts' = [k \in Keys |->
                    IF Loaded(k) = <<>> THEN 0
                    ELSE IF autoFile.first[k] > 0 THEN Min({autoFile.first[k], Head(Loaded(k))})
                    ELSE Head(Loaded(k))]
    /\ dirty' = FALSE /\ savedAt' = clock /\ judged' = NoneJudged
    /\ UNCHANGED <<clock, autoFile, real>>

Elapse ==
    /\ clock < Horizon /\ clock' = clock + 1 /\ judged' = NoneJudged
    /\ UNCHANGED <<history, firsts, dirty, savedAt, autoFile, real, rebootsN>>

AutomationNext == (\E k \in Keys : Record(k)) \/ Reboot \/ Elapse

AutomationSpec == AutomationInit /\ [][AutomationNext]_automationVars

----------------------------------------------------------------------------

AutomationTypeOK ==
    /\ clock \in 1..Horizon /\ savedAt \in 1..clock /\ dirty \in BOOLEAN
    /\ \A k \in Keys : Len(history[k]) <= MaxTimes /\ firsts[k] <= clock
    /\ Cardinality({k \in Keys : history[k] # <<>>}) <= MaxKeys
    /\ \A k \in Keys : history[k] = <<>> \/ firsts[k] \in 1..Head(history[k])

\* automation.go: an intruder with a key who starts to log in at a regular
\* cadence is scored like a person at first: what counts as automation has
\* logged in for MinAge, as often as MinLogins, with no pause of a window
\* since, whatever was evicted, saved or lost in between.
SeriesLasted ==
    judged.auto =>
        \A k \in judged.key :
            \E from \in real[k] :
                /\ clock - from >= MinAge
                /\ Cardinality({t \in real[k] : t >= from}) >= MinLogins
                /\ \A t \in from..(clock - 1) : \E u \in real[k] : t < u /\ u - t < Window
=============================================================================
