--------------------------- MODULE WebServerEdits ---------------------------
(* Edits of the web server: first the bots, then the bans and rules.        *)
(* The two parts share no state.                                            *)
(*                                                                          *)
(* Bots refused by the web server itself: internal/webserver/ua_block.go,   *)
(* called under webserverMu by applyWebserverChanges (cmd/infrafence-agent/ *)
(* hostpolicy.go) after a sync, and by detachWebserver (refusal.go) when    *)
(* protection is switched off; an uninstall does the same.                  *)
(*                                                                          *)
(* For nginx there is a line in every vhost, a map conf and the list it     *)
(* includes; for Apache one conf, enabled by a link (Debian) or by its      *)
(* directory (RHEL).  A sentinel says that this has been set up.  Contents  *)
(* are what the tests of the server and the properties tell apart: the list *)
(* is a set of bots, the owner's part is right or not.  A pattern the       *)
(* server cannot read is a bot of BadBots.                                  *)
EXTENDS Integers, FiniteSets

CONSTANTS
    Vhosts,     \* the files with a server block
    Hidden,     \* those nginx -T names and the usual directories do not hold
    Bots, BadBots,
    NoList,     \* the list, or the conf of Apache, is not there
    MaxBotEvents \* bound on what the dashboard, the owner and chance do

ASSUME BotAssumption ==
    /\ IsFiniteSet(Vhosts \cup Bots) /\ Hidden \subseteq Vhosts /\ BadBots \subseteq Bots
    /\ NoList \notin SUBSET Bots /\ MaxBotEvents \in Nat

VARIABLES
    server,    \* "nginx", "debian", "rhel"
    botsAsked, \* with the action "block"
    editsOn,   \* the dashboard and the preflight allow changes
    botsOff,   \* protection has been switched off
    lines, linked, list, sentinel, \* on disk
    ownerOK, serverUp,
    refuses,   \* vhost -> the bots the running server refuses
    editor,    \* who holds webserverMu
    removed,      \* history: the last change was a removal that succeeded
    tornEdit,  \* history: a crash or a failed write left a change unfinished
    halfOff,   \* history: a removal could not reload the server
    midLoad,   \* history: the server read the files in the middle of a change
    botEventsN

disk      == <<lines, linked, list, sentinel>>
botWorld  == <<server, botsAsked, editsOn, botsOff, ownerOK, serverUp, botEventsN>>
botMarks  == <<removed, tornEdit, halfOff, midLoad>>
botVars   == <<disk, botWorld, botMarks, refuses, editor>>

Nginx == server = "nginx"
Free  == [pc |-> "free"]
Lists == (SUBSET Bots) \cup {NoList}

\* What the server's own test says of the files on disk.
ConfigOK ==
    /\ ownerOK
    /\ Nginx /\ lines # {} => linked
    /\ Nginx /\ linked => list # NoList
    /\ linked /\ list # NoList => list \cap BadBots = {}

\* What a server that reads the files on disk refuses.
OnDisk == [v \in Vhosts |-> IF linked /\ list # NoList /\ (Nginx => v \in lines)
                            THEN list ELSE {}]

BotsInit ==
    /\ server \in {"nginx", "debian", "rhel"}
    /\ botsAsked = {} /\ editsOn = TRUE /\ botsOff = FALSE
    /\ lines = {} /\ linked = (server = "rhel") /\ list = NoList /\ sentinel = FALSE
    /\ ownerOK = TRUE /\ serverUp = TRUE /\ refuses = [v \in Vhosts |-> {}]
    /\ editor = Free /\ removed = FALSE /\ tornEdit = FALSE /\ halfOff = FALSE
    /\ midLoad = FALSE /\ botEventsN = 0

----------------------------------------------------------------------------
(* The dashboard, the owner, the server, the process.                       *)

BotEvent == botEventsN < MaxBotEvents /\ botEventsN' = botEventsN + 1

AskBots(s) ==
    /\ s # botsAsked /\ botsAsked' = s /\ BotEvent
    /\ UNCHANGED <<server, editsOn, botsOff, ownerOK, serverUp, disk, botMarks, refuses, editor>>
AllowEdits ==
    /\ editsOn' = ~editsOn /\ BotEvent
    /\ UNCHANGED <<server, botsAsked, botsOff, ownerOK, serverUp, disk, botMarks, refuses, editor>>
OwnerEdits ==
    /\ ownerOK' = ~ownerOK /\ BotEvent
    /\ UNCHANGED <<server, botsAsked, editsOn, botsOff, serverUp, disk, botMarks, refuses, editor>>

\* The owner stops the server; starts it; reloads it, as certbot does.
ServerStops ==
    /\ serverUp /\ serverUp' = FALSE /\ BotEvent
    /\ UNCHANGED <<server, botsAsked, editsOn, botsOff, ownerOK, disk, botMarks, refuses, editor>>
ServerLoads ==
    /\ ConfigOK /\ serverUp' = TRUE /\ refuses' = OnDisk
    /\ serverUp => BotEvent
    /\ ~serverUp => UNCHANGED botEventsN
    /\ midLoad' = (midLoad \/ editor # Free)
    /\ UNCHANGED <<server, botsAsked, editsOn, botsOff, ownerOK, disk, removed, tornEdit, halfOff, editor>>

\* A crash, and the agent starts again.
EditorCrash ==
    /\ editor # Free /\ editor' = Free /\ BotEvent
    /\ tornEdit' = TRUE /\ removed' = FALSE
    /\ UNCHANGED <<server, botsAsked, editsOn, botsOff, ownerOK, serverUp, disk, halfOff, midLoad, refuses>>

----------------------------------------------------------------------------
(* Steps of a change.  The editor has its step, the files to go through, the *)
(* files as they were, and the list to write.                               *)

Begin(pc) ==
    editor' = [pc |-> pc, left |-> {}, lines |-> lines, linked |-> linked, list |-> list,
               bots |-> botsAsked]
Goes(pc)  == editor' = [editor EXCEPT !.pc = pc]
Ends      == editor' = Free
KeepsMarks == UNCHANGED botMarks
\* nginx -T names every file with a server block; without it the usual
\* directories are searched.
ServerFiles == IF ConfigOK THEN Vhosts ELSE Vhosts \ Hidden

\* nginx -s reload needs a running nginx; apachectl graceful starts Apache.
CanReload == ConfigOK /\ (Nginx => serverUp)
Reload    == refuses' = OnDisk /\ serverUp' = TRUE
NoReload  == UNCHANGED <<refuses, serverUp>>
EditFrame == UNCHANGED <<server, botsAsked, editsOn, botsOff, ownerOK, botEventsN>>

\* applyWebserverChanges, after a sync: nothing without a bot to block.
ApplyWebserverChanges ==
    /\ editor = Free /\ editsOn /\ ~botsOff /\ botsAsked # {}
    /\ Begin("update")
    /\ UNCHANGED <<disk, botWorld, botMarks, refuses>>

\* UpdateNginxUABlocklist, UpdateApacheUABlock.  Without a sentinel the list is
\* only written; a list that stays the same is neither tested nor loaded.
Update ==
    /\ editor.pc = "update" /\ EditFrame /\ NoReload
    /\ UNCHANGED <<lines, linked, sentinel, tornEdit, halfOff, midLoad>>
    /\ \/ /\ ~sentinel \/ list = editor.bots
          /\ list' = editor.bots /\ removed' = FALSE /\ Goes("setup")
       \/ /\ sentinel /\ list # editor.bots
          /\ list' = editor.bots /\ removed' = FALSE
          /\ editor' = [editor EXCEPT !.pc = "tryList", !.list = list]

\* The list before is put back, when there was one.
ListBefore == list' = IF editor.list # NoList THEN editor.list ELSE list
TryList ==
    /\ editor.pc = "tryList" /\ EditFrame /\ KeepsMarks /\ UNCHANGED <<lines, linked, sentinel>>
    /\ NoReload
    /\ \/ ConfigOK /\ Goes("loadList") /\ UNCHANGED list
       \/ ~ConfigOK /\ ListBefore /\ Goes("setup")
LoadList ==
    /\ editor.pc = "loadList" /\ EditFrame /\ KeepsMarks /\ UNCHANGED <<lines, linked, sentinel>>
    /\ Goes("setup")
    /\ \/ CanReload /\ Reload /\ UNCHANGED list
       \/ ~CanReload /\ ListBefore /\ NoReload

\* SetupNginxUABlock and SetupApacheUABlock: done once.  For nginx the list, when
\* there is none, and the map conf that reads it; for Apache a conf without bots,
\* which Debian has to enable.
Setup ==
    /\ editor.pc = "setup" /\ EditFrame /\ NoReload /\ UNCHANGED <<lines, sentinel>>
    /\ \/ sentinel /\ Ends /\ KeepsMarks /\ UNCHANGED <<linked, list>>
       \/ /\ ~sentinel /\ Nginx /\ removed' = FALSE /\ UNCHANGED <<tornEdit, halfOff, midLoad>>
          /\ list' = (IF list = NoList THEN {} ELSE list) /\ linked' = TRUE
          /\ editor' = [editor EXCEPT !.pc = "inject", !.lines = lines,
                                      !.left = ServerFiles' \ lines]
       \/ /\ ~sentinel /\ ~Nginx /\ removed' = FALSE /\ UNCHANGED <<tornEdit, halfOff, midLoad>>
          /\ list' = {} /\ Goes("enable") /\ UNCHANGED linked

\* Everything of the setup is taken back.
Undone ==
    /\ linked' = (server = "rhel") /\ Ends /\ removed' = FALSE /\ UNCHANGED <<tornEdit, halfOff, midLoad>>
    /\ IF Nginx THEN lines' = editor.lines /\ UNCHANGED list
                ELSE list' = NoList /\ UNCHANGED lines
WriteFails == BotEvent /\ UNCHANGED <<server, botsAsked, editsOn, botsOff, ownerOK>>

Inject ==
    /\ editor.pc = "inject" /\ NoReload /\ UNCHANGED sentinel
    /\ \/ /\ editor.left = {} /\ Goes("trySetup") /\ EditFrame /\ KeepsMarks
          /\ UNCHANGED <<lines, linked, list>>
       \/ \E v \in editor.left :
              \/ /\ lines' = lines \cup {v} /\ editor' = [editor EXCEPT !.left = @ \ {v}]
                 /\ EditFrame /\ KeepsMarks /\ UNCHANGED <<linked, list>>
              \/ Undone /\ WriteFails
EnableConf ==
    /\ editor.pc = "enable" /\ NoReload /\ UNCHANGED sentinel
    /\ \/ linked' = TRUE /\ Goes("trySetup") /\ EditFrame /\ KeepsMarks /\ UNCHANGED <<lines, list>>
       \/ server = "debian" /\ Undone /\ WriteFails

TrySetup ==
    /\ editor.pc = "trySetup" /\ NoReload /\ UNCHANGED sentinel /\ EditFrame
    /\ \/ ConfigOK /\ Goes("loadSetup") /\ KeepsMarks /\ UNCHANGED <<lines, linked, list>>
       \/ ~ConfigOK /\ Undone
LoadSetup ==
    /\ editor.pc = "loadSetup" /\ UNCHANGED sentinel /\ EditFrame
    /\ \/ CanReload /\ Reload /\ Goes("mark") /\ KeepsMarks /\ UNCHANGED <<lines, linked, list>>
       \/ ~CanReload /\ NoReload /\ Undone
\* The sentinel that cannot be written is only logged.
Mark ==
    /\ editor.pc = "mark" /\ NoReload /\ Ends /\ UNCHANGED <<lines, linked, list, removed, halfOff, midLoad>>
    /\ \/ sentinel' = TRUE /\ EditFrame /\ UNCHANGED tornEdit
       \/ WriteFails /\ UNCHANGED sentinel /\ tornEdit' = TRUE

----------------------------------------------------------------------------
(* detachWebserver: RemoveNginxUABlock, RemoveApacheUABlock.                *)

SwitchedOff == Ends /\ botsOff' = TRUE
Detach ==
    /\ editor = Free /\ ~botsOff /\ BotEvent
    /\ editor' = [pc |-> "strip", left |-> ServerFiles \cap lines, lines |-> lines,
                  linked |-> linked, list |-> list, bots |-> {}]
    /\ UNCHANGED <<server, botsAsked, editsOn, botsOff, ownerOK, serverUp, disk, botMarks, refuses>>

\* The lines of nginx, one file after the other; a file that cannot be written
\* has them put back.
Strip ==
    /\ editor.pc = "strip" /\ Nginx /\ NoReload
    /\ UNCHANGED <<linked, list, sentinel, botMarks, server, botsAsked, editsOn, ownerOK>>
    /\ \/ /\ editor.left = {} /\ Goes("unmap") /\ UNCHANGED <<lines, botsOff, botEventsN>>
       \/ \E v \in editor.left :
              \/ /\ lines' = lines \ {v} /\ editor' = [editor EXCEPT !.left = @ \ {v}]
                 /\ UNCHANGED <<botsOff, botEventsN>>
              \/ lines' = editor.lines /\ SwitchedOff /\ BotEvent

\* The map conf; nothing of the agent's in the config ends it.
Cleared == list' = NoList /\ sentinel' = FALSE
Unmap ==
    /\ editor.pc = "unmap" /\ NoReload
    /\ UNCHANGED <<lines, tornEdit, halfOff, midLoad, server, botsAsked, editsOn, ownerOK, botEventsN>>
    /\ \/ /\ lines = editor.lines /\ ~linked /\ Cleared /\ SwitchedOff /\ removed' = TRUE
          /\ UNCHANGED linked
       \/ /\ ~(lines = editor.lines /\ ~linked)
          /\ linked' = FALSE /\ Goes("tryOff") /\ UNCHANGED <<list, sentinel, botsOff, removed>>

\* The conf of Apache: not there, there is nothing to remove.
RemoveConf ==
    /\ editor.pc = "strip" /\ ~Nginx /\ NoReload
    /\ UNCHANGED <<lines, tornEdit, halfOff, midLoad, server, botsAsked, editsOn, ownerOK, botEventsN>>
    /\ \/ /\ list = NoList /\ sentinel' = FALSE /\ SwitchedOff /\ removed' = TRUE
          /\ UNCHANGED <<linked, list>>
       \/ /\ list # NoList /\ list' = NoList /\ linked' = (server = "rhel") /\ Goes("tryOff")
          /\ UNCHANGED <<sentinel, botsOff, removed>>

TryOff ==
    /\ editor.pc = "tryOff" /\ NoReload /\ UNCHANGED <<sentinel, botMarks>>
    /\ UNCHANGED <<server, botsAsked, editsOn, ownerOK, botEventsN>>
    /\ \/ ConfigOK /\ Goes("loadOff") /\ UNCHANGED <<lines, linked, list, botsOff>>
       \/ /\ ~ConfigOK /\ lines' = editor.lines /\ linked' = editor.linked /\ list' = editor.list
          /\ SwitchedOff

\* A server that cannot be reloaded keeps the sentinel.
LoadOff ==
    /\ editor.pc = "loadOff" /\ UNCHANGED <<lines, linked, tornEdit, midLoad>>
    /\ UNCHANGED <<server, botsAsked, editsOn, ownerOK, botEventsN>> /\ SwitchedOff
    /\ \/ CanReload /\ Reload /\ Cleared /\ removed' = TRUE /\ UNCHANGED halfOff
       \/ /\ ~CanReload /\ NoReload /\ halfOff' = TRUE /\ UNCHANGED <<list, sentinel, removed>>

\* The dashboard accepts the agent again.
SwitchBackOn ==
    /\ editor = Free /\ botsOff /\ botsOff' = FALSE /\ BotEvent
    /\ UNCHANGED <<server, botsAsked, editsOn, ownerOK, serverUp, disk, botMarks, refuses, editor>>

EditorStep ==
    /\ editor # Free
    /\ \/ Update \/ TryList \/ LoadList \/ Setup \/ Inject \/ EnableConf \/ TrySetup \/ LoadSetup
       \/ Mark \/ Strip \/ Unmap \/ RemoveConf \/ TryOff \/ LoadOff

BotsNext ==
    \/ \E s \in SUBSET Bots : AskBots(s)
    \/ AllowEdits \/ OwnerEdits \/ ServerStops \/ ServerLoads \/ EditorCrash
    \/ ApplyWebserverChanges \/ EditorStep \/ Detach \/ SwitchBackOn

----------------------------------------------------------------------------

Pcs == {"update", "tryList", "loadList", "setup", "inject", "enable", "trySetup", "loadSetup",
        "mark", "strip", "unmap", "tryOff", "loadOff"}
BotsTypeOK ==
    /\ server \in {"nginx", "debian", "rhel"} /\ botsAsked \subseteq Bots
    /\ {editsOn, botsOff, linked, sentinel, ownerOK, serverUp} \subseteq BOOLEAN
    /\ {removed, tornEdit, halfOff, midLoad} \subseteq BOOLEAN
    /\ lines \subseteq Vhosts /\ list \in Lists /\ refuses \in [Vhosts -> SUBSET Bots]
    /\ botEventsN \in 0..MaxBotEvents
    /\ editor = Free \/ editor \in [pc : Pcs, left : SUBSET Vhosts, lines : SUBSET Vhosts,
                                    linked : BOOLEAN, list : Lists, bots : SUBSET Bots]

\* A change that is over, whatever failed on the way, leaves a configuration the
\* web server reads whenever the owner's own part is right: an unreadable
\* pattern, an owner's mistake met by the test and a server that is down are all
\* taken back (ua_block.go).  Not so after a crash or a sentinel that could not be
\* written, nor after a removal that could not reload the server.
ConfigKept == editor = Free /\ ownerOK /\ ~tornEdit /\ ~halfOff => ConfigOK

\* A removal that succeeds leaves nothing on disk nor in the running server, also
\* when changes before it had failed (ua_block.go, Remove).  The running server
\* keeps what it read from somebody else's reload in the middle of a change, and
\* what the next removal finds no file of.
NothingLeft ==
    removed => /\ ~tornEdit => lines = {}
               /\ list = NoList /\ ~sentinel
               /\ serverUp /\ ~tornEdit /\ ~midLoad /\ ~halfOff =>
                      \A v \in Vhosts : refuses[v] = {}

\* With changes allowed and protection on, the bots asked for come to be refused
\* in every vhost the setup finds: what fails once is tried again with a later
\* sync.  (A vhost added later is not looked for once the sentinel is there.)  Not
\* so after a list was written and the agent crashed before it was loaded, after
\* a removal that could not reload the server, or another's reload in the middle
\* of one that was taken back: these are taken for done.
Blockable == editsOn /\ ~botsOff /\ ownerOK /\ serverUp /\ botsAsked # {} /\ botsAsked \cap BadBots = {}
BotsRefused ==
    Blockable /\ ~tornEdit /\ ~halfOff /\ ~midLoad => \A v \in Vhosts \ Hidden : refuses[v] = botsAsked

----------------------------------------------------------------------------

(* The rules and the bans of the agent in ModSecurity, for visitors behind  *)
(* a proxy: internal/modsecurity/modsecurity.go, set up once a process by   *)
(* applyWebserverChanges (cmd/infrafence-agent/hostpolicy.go), given the    *)
(* bans by the syncs and their expiry (protstate.go), taken out of Apache   *)
(* when protection is switched off (refusal.go).                            *)
(*                                                                          *)
(* The owner's part of Apache's configuration is right or not, and may not  *)
(* go with the agent's rules (a rule ID used twice).  The agent's own       *)
(* memory is lost in a crash: that it has been set up, the bans, a reload   *)
(* put off because the last one was less than five minutes ago.             *)

CONSTANTS
    BanAddrs,    \* the addresses the dashboard bans
    NoRules,     \* there is no rules directory
    MaxRuleEvents \* bound on what the dashboard, the owner and chance do

ASSUME RulesAssumption ==
    IsFiniteSet(BanAddrs) /\ NoRules \notin SUBSET BanAddrs /\ MaxRuleEvents \in Nat

VARIABLES
    clash,     \* the agent's rules do not go with the owner's
    ownPart,   \* the owner's part is right
    dashBans, rulesAllowed, rulesOff, \* the dashboard: bans, changes allowed, protection off
    included, banFile,   \* on disk
    apacheRefuses,       \* what the running Apache refuses
    setUp, setupAt, banList, reloadedLately, reloadPending, \* in memory
    engine,    \* who holds the mutex of the engine
    takenOut,  \* history: the rules were taken out last, and Apache reloaded
    unloaded,  \* history: a reload failed after the bans had been written, or
               \* another's came before the change was taken back
    tornRules, \* history: a crash in the middle of a change
    ruleEventsN

rulesOnDisk == <<included, banFile>>
rulesMemory == <<setUp, setupAt, banList, reloadedLately, reloadPending>>
rulesWorld  == <<clash, ownPart, dashBans, rulesAllowed, rulesOff, ruleEventsN>>
rulesMarks  == <<takenOut, unloaded, tornRules>>
rulesVars   == <<rulesOnDisk, rulesMemory, rulesWorld, rulesMarks, apacheRefuses, engine>>

NoEngine == [pc |-> "idle"]

\* apachectl configtest; what Apache refuses once it has read the files.
TestOK  == ownPart /\ (included /\ banFile # NoRules => ~clash)
AsFiled == IF included /\ banFile # NoRules THEN banFile ELSE {}

RulesInit ==
    /\ clash \in BOOLEAN /\ ownPart = TRUE /\ dashBans = {} /\ rulesAllowed = TRUE
    /\ rulesOff = FALSE /\ included = FALSE /\ banFile = NoRules /\ apacheRefuses = {}
    /\ setUp = FALSE /\ setupAt = "never" /\ banList = {} /\ reloadedLately = FALSE
    /\ reloadPending = FALSE /\ engine = NoEngine /\ takenOut = FALSE /\ unloaded = FALSE
    /\ tornRules = FALSE /\ ruleEventsN = 0

----------------------------------------------------------------------------
(* The dashboard, the owner, time, the process.                             *)

RuleEvent == ruleEventsN < MaxRuleEvents /\ ruleEventsN' = ruleEventsN + 1

BanOrLift(s) ==
    /\ s # dashBans /\ dashBans' = s /\ RuleEvent
    /\ UNCHANGED <<rulesOnDisk, rulesMemory, clash, ownPart, rulesAllowed, rulesOff, rulesMarks,
                   apacheRefuses, engine>>
AllowRules ==
    /\ rulesAllowed' = ~rulesAllowed /\ RuleEvent
    /\ UNCHANGED <<rulesOnDisk, rulesMemory, clash, ownPart, dashBans, rulesOff, rulesMarks,
                   apacheRefuses, engine>>
OwnerChanges ==
    /\ ownPart' = ~ownPart /\ RuleEvent
    /\ UNCHANGED <<rulesOnDisk, rulesMemory, clash, dashBans, rulesAllowed, rulesOff, rulesMarks,
                   apacheRefuses, engine>>
\* Another reloads Apache: the owner, certbot, a virtual patch.
OthersReload ==
    /\ TestOK /\ apacheRefuses' = AsFiled /\ apacheRefuses # AsFiled /\ RuleEvent
    /\ unloaded' = (unloaded \/ engine # NoEngine)
    /\ UNCHANGED <<rulesOnDisk, rulesMemory, clash, ownPart, dashBans, rulesAllowed, rulesOff,
                   takenOut, tornRules, engine>>

\* Five minutes since the last reload; a day since the last attempt to set up.
ReloadAllowed ==
    /\ reloadedLately /\ reloadedLately' = FALSE
    /\ UNCHANGED <<rulesOnDisk, setUp, setupAt, banList, reloadPending, rulesWorld, rulesMarks,
                   apacheRefuses, engine>>
ADay ==
    /\ setupAt = "tried" /\ setupAt' = "never"
    /\ UNCHANGED <<rulesOnDisk, setUp, banList, reloadedLately, reloadPending, rulesWorld,
                   rulesMarks, apacheRefuses, engine>>

AgentRestart ==
    /\ RuleEvent /\ engine' = NoEngine /\ tornRules' = (tornRules \/ engine # NoEngine)
    /\ setUp' = FALSE /\ setupAt' = "never" /\ banList' = {}
    /\ reloadedLately' = FALSE /\ reloadPending' = FALSE
    /\ takenOut' = (takenOut /\ engine = NoEngine)
    /\ UNCHANGED <<rulesOnDisk, clash, ownPart, dashBans, rulesAllowed, rulesOff, apacheRefuses,
                   unloaded>>

----------------------------------------------------------------------------
(* Steps of the engine.  It has its step and the files as they were.        *)

Took(pc)   == engine' = [pc |-> pc, included |-> included, banFile |-> banFile, setUp |-> setUp]
EngineAt(pc) == engine' = [engine EXCEPT !.pc = pc]
EngineFree == engine' = NoEngine
ApacheRead == apacheRefuses' = AsFiled
Chance     == RuleEvent /\ UNCHANGED <<clash, ownPart, dashBans, rulesAllowed, rulesOff>>
Reloaded   == reloadedLately' = TRUE /\ ApacheRead

\* applyWebserverChanges: one attempt a day until it has succeeded.
SetupBegins ==
    /\ engine = NoEngine /\ rulesAllowed /\ ~rulesOff /\ setupAt = "never"
    /\ setupAt' = "tried" /\ Took("rules")
    /\ UNCHANGED <<rulesOnDisk, setUp, banList, reloadedLately, reloadPending, rulesWorld,
                   rulesMarks, apacheRefuses>>

\* The snapshot of the include is put back; a rules directory that was there
\* before holds virtual patches and stays.
Rollback ==
    /\ included' = engine.included
    /\ banFile' = (IF engine.banFile = NoRules THEN NoRules ELSE banFile)
    /\ EngineFree

\* The static rules, and the files of bans and patches that are not there.
SetupRules ==
    /\ engine.pc = "rules" /\ EngineAt("include")
    /\ banFile' = (IF banFile = NoRules THEN {} ELSE banFile)
    /\ UNCHANGED <<included, rulesMemory, rulesWorld, rulesMarks, apacheRefuses>>
\* ensureInclude: no place for the include is found, or it is written.
EnsureInclude ==
    /\ engine.pc = "include" /\ UNCHANGED <<rulesMemory, unloaded, tornRules, apacheRefuses>>
    /\ \/ included' = TRUE /\ takenOut' = FALSE /\ EngineAt("try") /\ UNCHANGED <<banFile, rulesWorld>>
       \/ Rollback /\ Chance /\ UNCHANGED takenOut
SetupTry ==
    /\ engine.pc = "try" /\ UNCHANGED <<rulesMemory, rulesWorld, rulesMarks, apacheRefuses>>
    /\ \/ TestOK /\ EngineAt("load") /\ UNCHANGED rulesOnDisk
       \/ ~TestOK /\ Rollback
SetupLoad ==
    /\ engine.pc = "load" /\ UNCHANGED <<banList, reloadPending, rulesMarks>>
    /\ \/ /\ TestOK /\ Reloaded /\ setUp' = TRUE /\ setupAt' = "done" /\ EngineFree
          /\ UNCHANGED <<rulesOnDisk, rulesWorld>>
       \/ /\ Rollback /\ UNCHANGED <<setUp, setupAt, reloadedLately, apacheRefuses>>
          /\ Chance \/ (~TestOK /\ UNCHANGED rulesWorld)

\* UpdateBannedIPs: the bans of a sync, none in monitor mode, or those left when
\* some expire.  Nothing happens before the setup, or when the file stays the same.
UpdateBannedIPs(ips) ==
    /\ engine = NoEngine /\ banList' = ips
    /\ UNCHANGED <<included, setUp, setupAt, reloadedLately, reloadPending, rulesWorld, rulesMarks,
                   apacheRefuses>>
    /\ \/ (~setUp \/ banFile = ips) /\ UNCHANGED <<banFile, engine>>
       \/ setUp /\ banFile # ips /\ Took("test") /\ banFile' = ips
SyncRules == ~rulesOff /\ UpdateBannedIPs(dashBans)
\* The ban of an address runs out on the agent, before the next sync.
DropBans(a) ==
    /\ a \in banList \ dashBans /\ UpdateBannedIPs(banList \ {a})

\* The file before is put back when the test fails.
BansTest ==
    /\ engine.pc = "test" /\ UNCHANGED <<included, rulesMemory, rulesWorld, rulesMarks, apacheRefuses>>
    /\ \/ TestOK /\ EngineAt("schedule") /\ UNCHANGED banFile
       \/ ~TestOK /\ banFile' = engine.banFile /\ EngineFree

\* scheduleReload: at once, or five minutes after the last one; a reload that
\* fails leaves the file.
TryReload ==
    \/ TestOK /\ Reloaded /\ UNCHANGED <<unloaded, rulesWorld>>
    \/ ~TestOK /\ unloaded' = TRUE /\ UNCHANGED <<reloadedLately, apacheRefuses, rulesWorld>>
    \/ unloaded' = TRUE /\ Chance /\ UNCHANGED <<reloadedLately, apacheRefuses>>
ScheduleReload ==
    /\ engine.pc = "schedule" /\ EngineFree
    /\ UNCHANGED <<rulesOnDisk, setUp, setupAt, banList, takenOut, tornRules>>
    /\ \/ /\ reloadedLately /\ reloadPending' = TRUE
          /\ UNCHANGED <<reloadedLately, apacheRefuses, unloaded, rulesWorld>>
       \/ ~reloadedLately /\ TryReload /\ UNCHANGED reloadPending
PendingReload ==
    /\ engine = NoEngine /\ reloadPending /\ ~reloadedLately /\ reloadPending' = FALSE /\ TryReload
    /\ UNCHANGED <<rulesOnDisk, setUp, setupAt, banList, takenOut, tornRules, engine>>

\* Detach: the includes go, the rules stay.  A failed test puts them back; that
\* the reload fails is not noticed.
DetachBegins ==
    /\ engine = NoEngine /\ ~rulesOff /\ RuleEvent
    /\ Took("exclude") /\ setUp' = FALSE
    /\ UNCHANGED <<rulesOnDisk, setupAt, banList, reloadedLately, reloadPending, clash, ownPart,
                   dashBans, rulesAllowed, rulesOff, rulesMarks, apacheRefuses>>
NowOff == rulesOff' = TRUE /\ UNCHANGED <<clash, ownPart, dashBans, rulesAllowed>>
Exclude ==
    /\ engine.pc = "exclude" /\ UNCHANGED <<banFile, rulesMemory, rulesMarks, apacheRefuses>>
    /\ \/ ~included /\ EngineFree /\ NowOff /\ UNCHANGED <<included, ruleEventsN>>
       \/ included /\ included' = FALSE /\ EngineAt("out") /\ UNCHANGED rulesWorld
TakeOut ==
    /\ engine.pc = "out" /\ EngineFree /\ NowOff
    /\ UNCHANGED <<banFile, setupAt, banList, reloadedLately, reloadPending, unloaded, tornRules>>
    /\ \/ TestOK /\ ApacheRead /\ takenOut' = TRUE /\ UNCHANGED <<included, setUp, ruleEventsN>>
       \/ TestOK /\ RuleEvent /\ UNCHANGED <<included, setUp, apacheRefuses, takenOut>>
       \/ /\ ~TestOK /\ included' = TRUE /\ setUp' = engine.setUp
          /\ UNCHANGED <<apacheRefuses, takenOut, ruleEventsN>>

\* enableProtection: the next sync sets up again.
BackOn ==
    /\ engine = NoEngine /\ rulesOff /\ rulesOff' = FALSE /\ setupAt' = "never" /\ RuleEvent
    /\ UNCHANGED <<rulesOnDisk, setUp, banList, reloadedLately, reloadPending, clash, ownPart,
                   dashBans, rulesAllowed, rulesMarks, apacheRefuses, engine>>

EngineStep ==
    /\ engine # NoEngine
    /\ \/ SetupRules \/ EnsureInclude \/ SetupTry \/ SetupLoad \/ BansTest \/ ScheduleReload
       \/ Exclude \/ TakeOut

RulesNext ==
    \/ \E s \in SUBSET BanAddrs : BanOrLift(s)
    \/ \E a \in BanAddrs : DropBans(a)
    \/ AllowRules \/ OwnerChanges \/ OthersReload \/ ReloadAllowed \/ ADay \/ AgentRestart
    \/ SetupBegins \/ EngineStep \/ SyncRules \/ PendingReload \/ DetachBegins \/ BackOn

----------------------------------------------------------------------------

EngineSteps == {"rules", "include", "try", "load", "test", "schedule", "exclude", "out"}
RuleFiles   == (SUBSET BanAddrs) \cup {NoRules}
RulesTypeOK ==
    /\ {clash, ownPart, rulesAllowed, rulesOff, included, setUp, reloadedLately, reloadPending} \subseteq BOOLEAN
    /\ {takenOut, unloaded, tornRules} \subseteq BOOLEAN
    /\ {dashBans, banList, apacheRefuses} \subseteq SUBSET BanAddrs /\ banFile \in RuleFiles
    /\ setupAt \in {"never", "tried", "done"} /\ ruleEventsN \in 0..MaxRuleEvents
    /\ engine = NoEngine \/ engine \in [pc : EngineSteps, included : BOOLEAN, banFile : RuleFiles,
                                    setUp : BOOLEAN]

\* Whatever fails, a change that is over leaves a configuration Apache reads when
\* the owner's part is right: the next restart of the customer's web server does
\* not fail because of the agent (modsecurity.go:66).  A crash in the middle of a
\* setup may leave the include of rules that clash.
ApacheStarts == engine = NoEngine /\ ownPart /\ ~tornRules => TestOK

\* Rules that have been taken out refuse nobody until they are set up again, also
\* when a reload that had been put off comes later (modsecurity.go, remove).
OutRefusesNobody == takenOut => apacheRefuses = {} /\ ~included

\* The bans come to be those of the dashboard in Apache too, over restarts and
\* after protection was off, where the setup can succeed: a ban that was lifted
\* does not stay.  Not so when a reload failed after the file was written: the
\* file is the same from then on.
Enforceable == rulesAllowed /\ ~rulesOff /\ ownPart /\ ~clash
BansEnforced == Enforceable /\ ~unloaded => apacheRefuses = dashBans
=============================================================================
