---------------------------- MODULE LogWatchers -----------------------------
(* Logs: first the readers of the files, then the watchers of services.     *)
(* The two parts share no state.                                            *)
(*                                                                          *)
(* The readers of log files: tail in internal/watcher weblog.go, authlog.go,*)
(* maillog.go, dblog.go and ftplog.go.  Each looks at the size of the file  *)
(* named by its path every 500 ms, reads what is new and hands on the lines *)
(* that are complete.  A log may be rotated, truncated or removed at any    *)
(* moment, in the middle of a line too.  A web log is read by a goroutine   *)
(* of its own, which the hot reload starts and cancels as the configuration *)
(* of the web server names the log or not.                                  *)
(*                                                                          *)
(* One reader of one path; bytes are chunks, a line is one chunk or more,   *)
(* its last one ends it.  A definition whose name begins with Mut is        *)
(* another one with a plausible mistake; nothing but the check of the       *)
(* properties uses it.                                                      *)
EXTENDS Integers, Sequences, FiniteSets

CONSTANTS
    LineLengths,  \* of each line that is written, its chunks
    MailRead,     \* maxMailRead: chunks the mail reader takes at once
    MailLine,     \* maxMailLine: the longest mail line, in chunks
    MaxShifts     \* bound: rotations, truncations, removals and changes of the
                  \* web server's configuration, together

ASSUME TailAssumption ==
    /\ LineLengths \in Seq(Nat \ {0})
    /\ {MailRead, MailLine} \subseteq Nat \ {0} /\ MaxShifts \in Nat

VARIABLES
    tailReader,      \* whose reader it is
    logFile,         \* the file at the path: whether it exists, what it holds
    pen,         \* the writer: the line it writes next, the chunks of it written
    tailOffset, partial, \* of tail
    tailing,        \* where the goroutine is, the size it has seen
    listed,      \* the web server's configuration names the log
    tailed,      \* the path is in activePaths (only the web watcher has it)
    canceled,    \* the context of its goroutine is
    dueLines,         \* history: lines ended in the file since the reader began to follow it
    lastLine,    \* history: the last line handed on
    repeated,    \* history: a line was handed on after it or a later one had been
    garbled,     \* history: the lines handed on that are none of those written
    cuts,        \* history: how often a line was cut in two, by a start or a shift
    shifts

told == <<lastLine, repeated, garbled>>
tailVars == <<tailReader, logFile, pen, tailOffset, partial, tailing, listed, tailed, canceled, dueLines,
              told, cuts, shifts>>

Readers == {"web", "ssh", "mail", "database", "ftp"}
WrittenLines == DOMAIN LineLengths
Ends(c) == c[2] = LineLengths[c[1]]
TailGone == [at |-> "gone", size |-> 0]

TailsInit ==
    /\ tailReader \in Readers
    /\ logFile \in [there : BOOLEAN, data : {<<>>}]
    /\ pen = [line |-> 1, chunks |-> 0]
    /\ tailOffset = 0 /\ partial = <<>>
    /\ listed = TRUE /\ tailed = TRUE /\ canceled = FALSE
    /\ tailing = [at |-> "start", size |-> 0]
    /\ dueLines = {} /\ lastLine = 0 /\ repeated = FALSE /\ garbled = {} /\ cuts = 0 /\ shifts = 0

----------------------------------------------------------------------------
(* tail.                                                                    *)

\* What was in the file before is left alone.
BeginsAt == tailOffset' = Len(logFile.data)

\* It begins at the end of the file; without a file it waits and tries again.
TailStart ==
    /\ tailing.at = "start" /\ ~canceled
    /\ IF logFile.there
       THEN /\ BeginsAt /\ tailing' = [at |-> "tick", size |-> 0]
            /\ cuts' = IF pen.chunks > 0 THEN cuts + 1 ELSE cuts
       ELSE tailOffset' = 0 /\ tailing' = [at |-> "wait", size |-> 0] /\ UNCHANGED cuts
    /\ partial' = <<>> /\ dueLines' = {}
    /\ UNCHANGED <<tailReader, logFile, pen, listed, tailed, canceled, told, shifts>>

TailRetry ==
    /\ tailing.at = "wait"
    /\ tailing' = [tailing EXCEPT !.at = "start"]
    /\ UNCHANGED <<tailReader, logFile, pen, tailOffset, partial, listed, tailed, canceled, dueLines, told, cuts, shifts>>

\* A shorter file was rotated: it is read from the start at the next tick.
Shrunk == tailOffset' = 0

TailTick ==
    /\ tailing.at = "tick" /\ ~canceled
    /\ IF ~logFile.there THEN tailing' = [at |-> "wait", size |-> 0] /\ UNCHANGED tailOffset
       ELSE IF Len(logFile.data) > tailOffset
       THEN tailing' = [at |-> "read", size |-> Len(logFile.data)] /\ UNCHANGED tailOffset
       ELSE /\ Len(logFile.data) < tailOffset
            /\ Shrunk /\ UNCHANGED tailing
    /\ UNCHANGED <<tailReader, logFile, pen, partial, listed, tailed, canceled, dueLines, told, cuts, shifts>>

\* The complete lines of s, and what is left of it.
EndsOf(s) == {i \in DOMAIN s : Ends(s[i])}
LastEnd(s) == IF EndsOf(s) = {} THEN 0 ELSE CHOOSE i \in EndsOf(s) : \A j \in EndsOf(s) : j <= i
LineTo(s, i) ==
    LET before == {j \in EndsOf(s) : j < i}
        from == IF before = {} THEN 1 ELSE 1 + CHOOSE j \in before : \A k \in before : k <= j
    IN  SubSeq(s, from, i)
Whole(l) == [k \in 1..LineLengths[l] |-> <<l, k>>]

\* The mail reader passes over a line that is too long, and forgets the
\* beginning of one; the others hand on every line.
Handed(s) == {i \in EndsOf(s) : tailReader = "mail" => Len(LineTo(s, i)) <= MailLine}
MutKept(s) == <<>>
Kept(s) == IF tailReader = "mail" /\ Len(s) > MailLine THEN <<>> ELSE s

\* The file read is the one the path names now, up to the size seen before; the
\* mail reader takes it in portions.
UpTo(size) ==
    LET wanted == IF tailReader = "mail" /\ size - tailOffset > MailRead THEN tailOffset + MailRead ELSE size
    IN  IF wanted > Len(logFile.data) THEN Len(logFile.data) ELSE wanted

TailRead ==
    /\ tailing.at = "read"
    /\ IF ~logFile.there
       THEN /\ tailing' = [at |-> "wait", size |-> 0]
            /\ UNCHANGED <<tailOffset, partial, dueLines, told>>
       ELSE LET got == SubSeq(logFile.data, tailOffset + 1, UpTo(tailing.size))
                all == partial \o got
                lines == {LineTo(all, i) : i \in Handed(all)}
            IN  /\ tailOffset' = tailOffset + Len(got)
                /\ partial' = Kept(SubSeq(all, LastEnd(all) + 1, Len(all)))
                /\ dueLines' = dueLines \ {all[i][1] : i \in EndsOf(all)}
                /\ repeated' = (repeated \/ \E l \in lines : l[Len(l)][1] <= lastLine)
                /\ lastLine' = IF EndsOf(all) = {} THEN lastLine ELSE all[LastEnd(all)][1]
                /\ garbled' = garbled \cup {l[Len(l)][1] : l \in {m \in lines : m # Whole(m[Len(m)][1])}}
                /\ tailing' = [at |-> "tick", size |-> 0]
    /\ UNCHANGED <<tailReader, logFile, pen, listed, tailed, canceled, cuts, shifts>>

----------------------------------------------------------------------------
(* The goroutine of a web log.                                              *)

\* startTailGoroutine for a log found and not in activePaths; the others are
\* canceled.
HotReload ==
    /\ tailReader = "web"
    /\ \/ /\ listed /\ ~tailed
          /\ tailed' = TRUE /\ canceled' = FALSE /\ tailing' = [at |-> "start", size |-> 0]
       \/ /\ ~listed /\ tailed /\ ~canceled
          /\ canceled' = TRUE /\ UNCHANGED <<tailed, tailing>>
    /\ UNCHANGED <<tailReader, logFile, pen, tailOffset, partial, listed, dueLines, told, cuts, shifts>>

\* The goroutine sees that it was canceled at its next tick or try; leaving, it
\* takes the path out of activePaths.
MutLeave ==
    /\ canceled /\ tailing.at \in {"start", "tick"}
    /\ tailing' = TailGone /\ partial' = <<>> /\ tailOffset' = 0 /\ dueLines' = {}
    /\ UNCHANGED <<tailReader, logFile, pen, listed, tailed, canceled, told, cuts, shifts>>
LeaveTail ==
    /\ canceled /\ tailing.at \in {"start", "tick"}
    /\ tailing' = TailGone /\ tailed' = FALSE /\ canceled' = FALSE
    /\ partial' = <<>> /\ tailOffset' = 0 /\ dueLines' = {}
    /\ UNCHANGED <<tailReader, logFile, pen, listed, told, cuts, shifts>>

ConfigureLog ==
    /\ tailReader = "web" /\ shifts < MaxShifts
    /\ listed' = ~listed /\ shifts' = shifts + 1
    /\ UNCHANGED <<tailReader, logFile, pen, tailOffset, partial, tailing, tailed, canceled, dueLines, told, cuts>>

----------------------------------------------------------------------------
(* The writer, and logrotate.                                               *)

FollowsLog == tailing.at \in {"tick", "read"} /\ tailOffset <= Len(logFile.data)
NextChunk(ended) ==
    pen' = IF ended THEN [line |-> pen.line + 1, chunks |-> 0] ELSE [pen EXCEPT !.chunks = @ + 1]

WriteChunk ==
    /\ logFile.there /\ pen.line \in WrittenLines
    /\ LET ended == pen.chunks + 1 = LineLengths[pen.line]
       IN  /\ logFile' = [logFile EXCEPT !.data = Append(@, <<pen.line, pen.chunks + 1>>)]
           /\ NextChunk(ended)
           /\ dueLines' = IF ended /\ FollowsLog THEN dueLines \cup {pen.line} ELSE dueLines
    /\ UNCHANGED <<tailReader, tailOffset, partial, tailing, listed, tailed, canceled, told, cuts, shifts>>

\* The log is truncated (copytruncate), replaced by an empty one, or moved away
\* and made again later; the rest of a line begun then goes to the old file.
RotateLog(how) ==
    /\ shifts < MaxShifts /\ shifts' = shifts + 1
    /\ CASE how = "truncate" -> logFile.there /\ logFile' = [logFile EXCEPT !.data = <<>>] /\ UNCHANGED pen
         [] how = "replace" -> logFile.there /\ logFile' = [logFile EXCEPT !.data = <<>>]
                               /\ (IF pen.chunks > 0 THEN NextChunk(TRUE) ELSE UNCHANGED pen)
         [] OTHER -> logFile.there /\ logFile' = [there |-> FALSE, data |-> <<>>]
                     /\ (IF pen.chunks > 0 THEN NextChunk(TRUE) ELSE UNCHANGED pen)
    /\ dueLines' = {} /\ cuts' = cuts + 1
    /\ UNCHANGED <<tailReader, tailOffset, partial, tailing, listed, tailed, canceled, told>>

CreateLog ==
    /\ ~logFile.there /\ logFile' = [there |-> TRUE, data |-> <<>>]
    /\ UNCHANGED <<tailReader, pen, tailOffset, partial, tailing, listed, tailed, canceled, dueLines, told, cuts, shifts>>

\* Each watcher has a copy of tail; only the web watcher's goroutines end.
FollowLog == TailStart \/ TailTick \/ TailRead \/ TailRetry
WebTail == tailReader = "web" /\ (FollowLog \/ LeaveTail)
SSHTail == tailReader = "ssh" /\ FollowLog
MailTail == tailReader = "mail" /\ FollowLog
DatabaseTail == tailReader = "database" /\ FollowLog
FTPTail == tailReader = "ftp" /\ FollowLog
TailStep == WebTail \/ SSHTail \/ MailTail \/ DatabaseTail \/ FTPTail
TailsNext ==
    \/ TailStep \/ HotReload \/ ConfigureLog
    \/ WriteChunk \/ CreateLog \/ \E how \in {"truncate", "replace", "move"} : RotateLog(how)

TailsSpec == TailsInit /\ [][TailsNext]_tailVars

\* The goroutine runs, the hot reload comes every five minutes, logrotate makes
\* the log again.
TailsFairness == WF_tailVars(TailStep) /\ WF_tailVars(HotReload) /\ WF_tailVars(CreateLog)
TailsLive == TailsSpec /\ TailsFairness

----------------------------------------------------------------------------

\* The variables keep their types.
TailsTypeOK ==
    /\ tailReader \in Readers /\ logFile.there \in BOOLEAN /\ listed \in BOOLEAN
    /\ tailed \in BOOLEAN /\ canceled \in BOOLEAN
    /\ repeated \in BOOLEAN /\ garbled \subseteq WrittenLines /\ cuts \in Nat
    /\ tailing.at \in {"start", "tick", "read", "wait", "gone"}
    /\ tailOffset \in Nat /\ tailing.size \in Nat /\ shifts \in 0..MaxShifts
    /\ dueLines \subseteq WrittenLines /\ lastLine \in 0..Len(LineLengths)

\* Lines are handed on in the order they were written, none twice, whatever the
\* rotations and restarts of the reader.
NoLineTwice == ~repeated

\* A line handed on is one that was written, but for one line wherever the log
\* is cut (a rotation, a start in the middle of a line); of a mail line that is
\* too long the end may be left over and pass for a line.
TooLong == {l \in WrittenLines : tailReader = "mail" /\ LineLengths[l] > MailLine}
LinesStayWhole == Cardinality(garbled \ TooLong) <= cuts

\* A log that is named and there is followed, and every line ended in it since
\* is handed on: after a rotation, after it was missing, and after the web
\* server's configuration left it out for a while, at whatever moment.
AllRead == listed => tailing.at = "tick" /\ tailOffset = Len(logFile.data) /\ dueLines = {}
LogsFollowed == <>[]AllRead

----------------------------------------------------------------------------

(* The watchers of the mail, database and FTP logs (internal/watcher        *)
(* maillog.go, maillog_journal.go, dblog.go, ftplog.go): which logs they    *)
(* read, so that no failed login is counted twice, and how failures within  *)
(* a window become a ban, again and again while an address goes on.  Each   *)
(* keeps its lists under its own lock; what it reads is the part above.     *)
(*                                                                          *)
(* A line of a log is [source, program, names]: names are the addresses in  *)
(* the places where the client's could be.  Time is in minutes of the       *)
(* cleanup loop and kept as ages.  A definition whose name begins with Mut  *)
(* is another one with a plausible mistake; nothing but the check of the    *)
(* properties uses it.                                                      *)

CONSTANTS
    Origins,
    Persistent,   \* the one that goes on as long as it is not kept out
    FailureWindow,       \* of the failures that count, in minutes
    Tries,        \* threshold
    MaxTracked,   \* maxEntries of the cleanup loop
    MaxOthers,    \* bound: failures of the other addresses, forged lines
    MaxPolicies   \* bound: changes of the settings

ASSUME ServiceAssumption ==
    Persistent \in Origins /\ FailureWindow \in Nat \ {0} /\ Tries \in 1..(FailureWindow + 1)

VARIABLES
    logKind,        \* which of the watchers it is
    machine,     \* the logs of the host, where its programs write
    logLines,       \* written to a log that is read, and not read yet
    attempts,    \* attempts: of each address and age, how many
    tracked,     \* the addresses that have an entry in attempts
    flagged,     \* banned
    banCalls,       \* calls of onBan in flight
    allowList, abroad, monitor, \* the whitelist, checkIP, monitorMode
    failedAt,      \* history: of each address and age, the failures there were
    struck,      \* history: addresses flagged for their country
    fresh,       \* the persistent address has tried in this minute
    othersLeft, policies

serviceVars == <<logKind, machine, logLines, attempts, tracked, flagged, banCalls, allowList, abroad,
                 monitor, failedAt, struck, fresh, othersLeft, policies>>
policy == <<allowList, abroad, monitor, policies>>

Ages == 0..FailureWindow
NoFailures == [g \in Ages |-> 0]

----------------------------------------------------------------------------
(* The logs.                                                                *)

FirstOf(paths, there) ==
    LET i == {k \in DOMAIN paths : paths[k] \in there}
    IN  IF i = {} THEN {} ELSE {paths[CHOOSE k \in i : \A j \in i : k <= j]}

\* A mail host.  syslog is its file (rsyslog writes it, left it behind, never
\* did); Dovecot writes its own file, to syslog, or both; Exim its own log, and
\* to syslog too where rsyslog does not run ("Exim writes its own log, not
\* syslog's mail log", maillog.go).  recent: the journal has mail of this day
\* (looked at only beside an old file).
MailHosts ==
    {m \in [syslog : {"none", "written", "stale"}, journal : BOOLEAN, recent : BOOLEAN,
            dovecot : (SUBSET {"own", "log"}) \ {{}}, exim : {{"own"}, {"own", "log"}}] :
        /\ m.recent => m.syslog = "stale" /\ m.journal
        /\ m.syslog = "written" => m.exim = {"own"}
        /\ m.syslog # "written" => m.journal}

\* One of the syslog file and the journal is read.
MailSources(m) ==
    LET file == m.syslog # "none" /\ ~(m.syslog = "stale" /\ m.journal /\ m.recent)
    IN  UNION {IF file THEN {"syslog"} ELSE IF m.journal THEN {"journal"} ELSE {},
               IF ~file /\ "own" \in m.dovecot THEN {"dovecot"} ELSE {},
               {"exim"}}

\* followJournal passes over the programs whose own log is read as well.
Skipped(m) == MailSources(m) \cap {"dovecot", "exim"}

\* Of each database its first log; FTP has one log.
DBLogs == <<<<"mysql error log", "mysqld log">>, <<"postgresql log">>, <<"mongod log">>>>
DBSources(there) == UNION {FirstOf(DBLogs[e], there) : e \in DOMAIN DBLogs}
FTPLogs == <<"vsftpd log", "proftpd log", "auth log">>
FTPSource(there) == FirstOf(FTPLogs, there)

DBHosts == {t \in SUBSET {"mysql error log", "mongod log"} : t # {}}
FTPHosts == {t \in SUBSET {"vsftpd log", "auth log"} : t # {}}

Sources ==
    CASE logKind = "mail" -> MailSources(machine)
      [] logKind = "database" -> DBSources(machine)
      [] OTHER -> FTPSource(machine)

\* Where a program writes, and the programs there are.
Syslog(m) == (IF m.syslog = "written" THEN {"syslog"} ELSE {}) \cup (IF m.journal THEN {"journal"} ELSE {})
Writes(p) ==
    CASE p = "postfix" -> Syslog(machine)
      [] p \in {"dovecot", "exim"} ->
           (IF "own" \in machine[p] THEN {p} ELSE {}) \cup (IF "log" \in machine[p] THEN Syslog(machine) ELSE {})
      [] OTHER -> {p}
Programs == IF logKind = "mail" THEN {"postfix", "dovecot", "exim"} ELSE machine

ServiceInit ==
    /\ logKind \in {"mail", "database", "ftp"}
    /\ machine \in CASE logKind = "mail" -> MailHosts [] logKind = "database" -> DBHosts [] OTHER -> FTPHosts
    /\ logLines = {} /\ attempts = [a \in Origins |-> NoFailures]
    /\ tracked = {} /\ flagged = {} /\ banCalls = {}
    /\ allowList = {} /\ abroad = {} /\ monitor = FALSE
    /\ failedAt = [a \in Origins |-> NoFailures] /\ struck = {}
    /\ fresh = FALSE /\ othersLeft = 0 /\ policies = 0

----------------------------------------------------------------------------
(* The programs of the host.                                                *)

LogLine(s, p, names) == [source |-> s, program |-> p, names |-> names]
Capped(n) == IF n > Tries THEN Tries ELSE n

Fails(a, p) ==
    /\ \A l \in logLines : a \notin l.names
    /\ IF a = Persistent THEN fresh' = TRUE /\ ~fresh /\ UNCHANGED othersLeft
       ELSE othersLeft < MaxOthers /\ othersLeft' = othersLeft + 1 /\ UNCHANGED fresh
    /\ logLines' = logLines \cup {LogLine(s, p, {a}) : s \in Writes(p) \cap Sources}
    /\ failedAt' = [failedAt EXCEPT ![a][0] = Capped(@ + 1)]
    /\ UNCHANGED <<logKind, machine, attempts, tracked, flagged, banCalls, struck, policy>>

\* A client names another address in text it controls (HELO, a user name).
Forges(a, other) ==
    /\ logKind = "mail" /\ othersLeft < MaxOthers /\ a # other /\ logLines = {}
    /\ logLines' = {LogLine(s, "exim", {a, other}) : s \in Writes("exim") \cap Sources}
    /\ othersLeft' = othersLeft + 1
    /\ UNCHANGED <<logKind, machine, attempts, tracked, flagged, banCalls, failedAt, struck, fresh, policy>>

----------------------------------------------------------------------------
(* processLine and recordAttempt.                                           *)

\* parseMailLine: a line that could mean several addresses is not counted.
MutOneIP(l) == {CHOOSE a \in l.names : TRUE}
OneIP(l) == IF Cardinality(l.names) = 1 THEN l.names ELSE {}

Seen(l) == ~(l.source = "journal" /\ l.program \in Skipped(machine))

\* The failures of the window, each with its age.
Total(f) == Cardinality({h \in Ages \X (1..Tries) : h[2] <= f[h[1]]})

\* An address of a blocked country is flagged at once, without an entry.
FlagAbroad(a) ==
    /\ a \in abroad
    /\ flagged' = flagged \cup {a} /\ struck' = struck \cup {a}
    /\ banCalls' = IF monitor THEN banCalls ELSE banCalls \cup {a}
    /\ UNCHANGED <<attempts, tracked>>

CountFailure(a) ==
    LET recent == [attempts[a] EXCEPT ![0] = @ + 1]
    IN  /\ a \notin abroad
        /\ attempts' = [attempts EXCEPT ![a] = recent] /\ tracked' = tracked \cup {a}
        /\ IF Total(recent) >= Tries
           THEN /\ flagged' = flagged \cup {a}
                /\ banCalls' = IF monitor THEN banCalls ELSE banCalls \cup {a}
           ELSE UNCHANGED <<flagged, banCalls>>
        /\ UNCHANGED struck

RecordAttempt(a) ==
    IF a \in flagged \/ a \in allowList THEN UNCHANGED <<attempts, tracked, flagged, banCalls, struck>>
    ELSE FlagAbroad(a) \/ CountFailure(a)

\* The three watchers have a copy of it each.
MailAttempt(l) == logKind = "mail" /\ \E a \in OneIP(l) : RecordAttempt(a)
DBAttempt(l) == logKind = "database" /\ \E a \in l.names : RecordAttempt(a)
FTPAttempt(l) == logKind = "ftp" /\ \E a \in l.names : RecordAttempt(a)

ReadLine(l) ==
    /\ l \in logLines /\ logLines' = logLines \ {l}
    /\ IF Seen(l) /\ (logKind = "mail" => OneIP(l) # {})
       THEN MailAttempt(l) \/ DBAttempt(l) \/ FTPAttempt(l)
       ELSE UNCHANGED <<attempts, tracked, flagged, banCalls, struck>>
    /\ UNCHANGED <<logKind, machine, failedAt, fresh, othersLeft, policy>>

OnBan(a) ==
    /\ a \in banCalls /\ banCalls' = banCalls \ {a}
    /\ UNCHANGED <<logKind, machine, logLines, attempts, tracked, flagged, failedAt, struck, fresh, othersLeft,
                   policy>>

----------------------------------------------------------------------------
(* The cleanup loop.                                                        *)

Older(f) == [g \in Ages |-> IF g = 0 THEN 0 ELSE f[g - 1]]

\* An entry without a failure in the window is deleted, and the flag with it;
\* with too many entries both maps are emptied.
Unflag(quiet) == flagged \ quiet

Pruned(aged) ==
    LET quiet == {a \in tracked : aged[a] = NoFailures}
    IN  IF Cardinality(tracked \ quiet) > MaxTracked
        THEN /\ tracked' = {} /\ flagged' = {}
             /\ attempts' = [a \in Origins |-> NoFailures]
        ELSE /\ tracked' = tracked \ quiet /\ flagged' = Unflag(quiet) /\ attempts' = aged

\* A minute passes.  What was written is read (twice a second), and the
\* persistent address has failed again.
Cleanup ==
    /\ logLines = {} /\ fresh /\ fresh' = FALSE
    /\ Pruned([a \in Origins |-> Older(attempts[a])])
    /\ failedAt' = [a \in Origins |-> Older(failedAt[a])]
    /\ UNCHANGED <<logKind, machine, logLines, banCalls, struck, othersLeft, policy>>

----------------------------------------------------------------------------

\* The settings of the dashboard: the whitelist, the countries, the mode.  They
\* matter where a line is read, so they change when there is none to read.
Policies ==
    /\ logLines = {} /\ policies < MaxPolicies /\ policies' = policies + 1
    /\ \/ /\ allowList' = (IF allowList = {} THEN {Persistent} ELSE {}) /\ UNCHANGED <<abroad, monitor>>
       \/ /\ abroad' = (IF abroad = {} THEN {Persistent} ELSE {}) /\ UNCHANGED <<allowList, monitor>>
       \/ monitor' = ~monitor /\ UNCHANGED <<allowList, abroad>>
    /\ UNCHANGED <<logKind, machine, logLines, attempts, tracked, flagged, banCalls, failedAt, struck, fresh, othersLeft>>

GoesOn == \E p \in Programs : Fails(Persistent, p)
ReadsLine == \E l \in logLines : ReadLine(l)
BanCalls == \E a \in banCalls : OnBan(a)

ServiceNext ==
    \/ \E a \in Origins, p \in Programs : Fails(a, p)
    \/ \E a, b \in Origins : Forges(a, b)
    \/ ReadsLine \/ BanCalls \/ Cleanup \/ Policies

ServiceSpec == ServiceInit /\ [][ServiceNext]_serviceVars
ServiceLive ==
    /\ ServiceSpec
    /\ WF_serviceVars(GoesOn) /\ WF_serviceVars(ReadsLine) /\ WF_serviceVars(BanCalls) /\ WF_serviceVars(Cleanup)

----------------------------------------------------------------------------

\* The variables keep their types.
ServiceTypeOK ==
    /\ logKind \in {"mail", "database", "ftp"} /\ monitor \in BOOLEAN /\ fresh \in BOOLEAN
    /\ \A a \in Origins : \A g \in Ages : attempts[a][g] \in 0..Tries /\ failedAt[a][g] \in 0..Tries
    /\ tracked \subseteq Origins /\ flagged \subseteq Origins /\ banCalls \subseteq Origins
    /\ allowList \subseteq Origins /\ abroad \subseteq Origins

\* A failure is counted once, for the address it came from, however many logs
\* hold it and whatever a line names: no address is banned for fewer failures
\* than the threshold.
OnceCounted == \A a \in Origins : \A g \in Ages : attempts[a][g] <= failedAt[a][g]

\* An address that goes on is banned again and again (its ban may have ended),
\* unless it is allowed or in monitor mode: provided its failures reach a log
\* that is read, and it was never flagged for its country, which is for ever.
Observed == \A p \in Programs : Writes(p) \cap Sources # {}
BanDue == Observed /\ Persistent \notin struck /\ ~monitor /\ Persistent \notin allowList
BannedAgain == []<>(BanDue => Persistent \in banCalls)
=============================================================================
