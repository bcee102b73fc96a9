---------------------------- MODULE HostChanges -----------------------------
(***************************************************************************)
(* Changes to the configuration of the host's services: hardening fixes    *)
(* (cmd/infrafence-agent/hardening.go, internal/remediation/fixers.go and  *)
(* php.go) under fixMu and virtual patches (vpatch.go,                     *)
(* internal/modsecurity/vpatches.go) under vpatchMu, in goroutines of      *)
(* their own that share Apache.  Each writes its file, has the             *)
(* configuration tested, reloads the service and probes the sites before   *)
(* and after (internal/verify); a failure takes the change back.           *)
(*                                                                         *)
(* A service has one drop-in of the agent, a set of fixes; patches are a   *)
(* second file of Apache.  The owner's own files are left out: a change    *)
(* they do not go with is Bad (the test fails) or Harmful (a site fails    *)
(* once it is loaded).  One site stands for all that is probed.  A fix     *)
(* another setting overrides fails as its test does.                       *)
(*                                                                         *)
(* A definition whose name begins with Mut is the one after it with a      *)
(* mistake planted, to see a property fail.                                *)
(***************************************************************************)
EXTENDS Integers, FiniteSets

CONSTANTS
    Fixes, Patches,  \* check IDs with a drop-in, rule IDs
    Perms,           \* check IDs of kindPerm
    ServiceOf,       \* fix -> "apache" or another service
    MaxAsked, MaxMishaps \* bounds; a mishap is a crash or a failed command

ASSUME ChangeAssumption ==
    /\ IsFiniteSet(Fixes \cup Patches \cup Perms)
    /\ Fixes \cap Patches = {} /\ Perms \cap (Fixes \cup Patches) = {}
    /\ ServiceOf \in [Fixes -> STRING]
ASSUME ChangeBounds == {MaxAsked, MaxMishaps} \subseteq Nat

Changes  == Fixes \cup Patches
Services == {"apache"} \cup {ServiceOf[f] : f \in Fixes}

VARIABLES
    bad, harmful, \* of the changes
    engineOn,     \* SecRuleEngine
    dropIn,       \* service -> the fixes in its file
    rules,        \* the patches in infrafence-dynamic.conf
    loaded,       \* service -> the fixes and patches it runs with
    putBack,      \* history: patches put back in the file as their removal failed,
                  \* after someone else's reload without them, not loaded since
    request,      \* what the dashboard has pending
    done,         \* fixesDone, vpatchesDone
    dropped,      \* history: requests whose result did not reach the dashboard,
                  \* since the agent was started
    fixer, patcher,
    outcome,      \* history: what each change came to when it was last tried
    torn,         \* history: a crash came in the middle of a change
    blind,        \* history: a rollback failed, or the site was down already
                  \* when a change was begun
    askedN, crashesN, faultsN

configFiles == <<dropIn, rules>>
hostConst   == <<bad, harmful, engineOn>>
servers     == <<loaded, putBack>>
hostVars    == <<hostConst, configFiles, servers, request, done, dropped, fixer, patcher,
                 outcome, torn, blind, askedN, crashesN, faultsN>>

AtRest == [pc |-> "idle"]
Outcomes == {"none", "applied", "removed", "failed", "rolled_back", "rollback_failed"}

HostInit ==
    /\ bad \in SUBSET Changes /\ harmful \in SUBSET (Changes \ bad)
    /\ Cardinality(bad) <= 1
    /\ engineOn \in BOOLEAN
    /\ dropIn = [s \in Services |-> {}] /\ rules = {}
    /\ loaded = [s \in Services |-> {}] /\ putBack = {}
    /\ request = [x \in Changes \cup Perms |-> "none"]
    /\ done = {} /\ dropped = {}
    /\ fixer = AtRest /\ patcher = AtRest
    /\ outcome = [x \in Changes |-> "none"] /\ torn = FALSE /\ blind = FALSE
    /\ askedN = 0 /\ crashesN = 0 /\ faultsN = 0

\* What service s reads from files d and r.
Config(s, d, r) == d[s] \cup (IF s = "apache" THEN r ELSE {})
Parses(s, d, r) == Config(s, d, r) \cap bad = {}
SitesOK == \A s \in Services : loaded[s] \cap harmful = {}

\* A reload fails without a change when the configuration does not parse.
Load(s, d, r) == loaded' = [loaded EXCEPT ![s] = Config(s, d, r)] /\ putBack' = putBack \ Config(s, d, r)
LoadIfParses(s, d, r) == IF Parses(s, d, r) THEN Load(s, d, r) ELSE UNCHANGED servers

HostFault   == crashesN + faultsN < MaxMishaps /\ faultsN' = faultsN + 1
NoHostFault == UNCHANGED faultsN

\* The event with the result.  Arrived, it closes the request, and a later one has
\* another number.  It is only queued: where the queue drops it the request stays
\* pending, and is not carried out again before the agent is started anew.
Answer(x) ==
    \/ /\ request' = [request EXCEPT ![x] = "none"] /\ done' = done \ {x}
       /\ dropped' = dropped \ {x}
    \/ /\ dropped' = dropped \cup {x} /\ done' = done \cup {x}
       /\ UNCHANGED request
Report(x, what) ==
    /\ Answer(x)
    /\ outcome' = [outcome EXCEPT ![x] = what]
    /\ blind' = (blind \/ what = "rollback_failed")
NoReport == UNCHANGED <<request, done, dropped, outcome, blind>>

----------------------------------------------------------------------------
(* The dashboard, others who reload a service, the process.                *)

\* What the dashboard has been told is applied can be removed: a request is made
\* when the result of the one before has arrived.
Applied == {x \in Changes : outcome[x] = "applied"}

Request(x) ==
    /\ request[x] = "none" /\ askedN < MaxAsked
    /\ \E what \in {"apply"} \cup (IF x \in Applied THEN {"remove"} ELSE {}) :
           request' = [request EXCEPT ![x] = what]
    /\ askedN' = askedN + 1
    /\ UNCHANGED <<hostConst, configFiles, servers, done, dropped, fixer, patcher, outcome, torn, blind,
                   crashesN, faultsN>>

\* The owner, certbot, logrotate.
OwnerReloads(s) ==
    /\ Parses(s, dropIn, rules) /\ Load(s, dropIn, rules)
    /\ UNCHANGED <<hostConst, configFiles, request, done, dropped, fixer, patcher, outcome, torn, blind,
                   askedN, crashesN, faultsN>>

AgentCrash ==
    /\ crashesN + faultsN < MaxMishaps /\ crashesN' = crashesN + 1
    /\ fixer' = AtRest /\ patcher' = AtRest /\ done' = {} /\ dropped' = {}
    /\ torn' = (torn \/ fixer # AtRest \/ patcher # AtRest)
    /\ UNCHANGED <<hostConst, configFiles, servers, request, outcome, blind, askedN, faultsN>>

----------------------------------------------------------------------------
(* applyHardeningFixes: one fix at a time.  The fixer has the fix, whether *)
(* it is being set, the file before, the sites before, and whether it is   *)
(* undoing.                                                                *)

\* A permission is tightened and stays, whatever the verification says.
FixPerm(x) ==
    /\ fixer = AtRest /\ request[x] # "none" /\ x \notin done
    /\ Answer(x)
    /\ UNCHANGED <<hostConst, configFiles, servers, fixer, patcher, outcome, torn, blind,
                   askedN, crashesN, faultsN>>

\* Managed by a panel, an unknown layout.
FixRefused(x) == HostFault /\ Report(x, "failed") /\ UNCHANGED fixer

FixBegin(x) ==
    /\ fixer = AtRest /\ request[x] # "none" /\ x \notin done
    /\ \/ FixRefused(x)
       \/ /\ NoHostFault
          /\ done' = done \cup {x} /\ UNCHANGED <<request, dropped, outcome>> /\ blind' = (blind \/ ~SitesOK)
          /\ fixer' = [pc |-> "write", x |-> x, set |-> request[x] = "apply",
                       old |-> {}, before |-> SitesOK, undoing |-> FALSE]
    /\ UNCHANGED <<hostConst, configFiles, servers, patcher, torn, askedN, crashesN>>

Fix     == fixer.x
FixOf   == ServiceOf[Fix]
FixDone(what) == Report(Fix, what) /\ fixer' = AtRest
FixNext(pc)   == NoReport /\ fixer' = [fixer EXCEPT !.pc = pc]
FixFailed     == FixDone(IF fixer.undoing THEN "rollback_failed" ELSE "failed")
FixFrame      == UNCHANGED <<hostConst, rules, patcher, torn, askedN, crashesN>>
PutDropIn(c)  == dropIn' = [dropIn EXCEPT ![FixOf] = c]

\* setDirective and writeOrRemove; for PHP, a file that stays the same ends it.
FixWrite ==
    LET next == IF fixer.set THEN dropIn[FixOf] \cup {Fix} ELSE dropIn[FixOf] \ {Fix} IN
    /\ fixer.pc = "write" /\ FixFrame /\ UNCHANGED servers
    /\ \/ HostFault /\ FixFailed /\ UNCHANGED dropIn
       \/ /\ FixOf = "php" /\ next = dropIn[FixOf] /\ NoHostFault /\ UNCHANGED dropIn
          /\ FixDone(IF fixer.undoing THEN "rolled_back"
                     ELSE IF fixer.set THEN "applied" ELSE "removed")
       \/ /\ ~(FixOf = "php" /\ next = dropIn[FixOf]) /\ NoHostFault
          /\ PutDropIn(next) /\ NoReport
          /\ fixer' = [fixer EXCEPT !.pc = "test", !.old = dropIn[FixOf]]

\* The config test, and for a value set the check that it is the one in effect.
MutFixTest ==
    /\ fixer.pc = "test" /\ FixFrame /\ UNCHANGED servers
    /\ \/ Parses(FixOf, dropIn, rules) /\ NoHostFault /\ FixNext("reload") /\ UNCHANGED dropIn
       \/ HostFault /\ PutDropIn(fixer.old) /\ FixFailed
       \/ ~Parses(FixOf, dropIn, rules) /\ NoHostFault /\ FixFailed /\ UNCHANGED dropIn

FixTest ==
    /\ fixer.pc = "test" /\ FixFrame /\ UNCHANGED servers
    /\ \/ Parses(FixOf, dropIn, rules) /\ NoHostFault /\ FixNext("reload") /\ UNCHANGED dropIn
       \/ HostFault /\ PutDropIn(fixer.old) /\ FixFailed
       \/ ~Parses(FixOf, dropIn, rules) /\ NoHostFault /\ PutDropIn(fixer.old) /\ FixFailed

\* A failed reload puts the file back; PHP is reloaded once more with it.
FixReload ==
    LET back == [dropIn EXCEPT ![FixOf] = fixer.old] IN
    /\ fixer.pc = "reload" /\ FixFrame
    /\ \/ /\ Parses(FixOf, dropIn, rules) /\ NoHostFault
          /\ Load(FixOf, dropIn, rules) /\ UNCHANGED dropIn
          /\ IF fixer.undoing THEN FixDone("rolled_back") ELSE FixNext("verify")
       \/ /\ HostFault \/ (~Parses(FixOf, dropIn, rules) /\ NoHostFault)
          /\ dropIn' = back /\ FixFailed
          /\ IF FixOf = "php" THEN LoadIfParses(FixOf, back, rules) ELSE UNCHANGED servers

\* The opposite operation undoes it if the host stopped answering.
FixVerify ==
    /\ fixer.pc = "verify" /\ FixFrame /\ NoHostFault /\ UNCHANGED <<dropIn, servers>>
    /\ IF SitesOK \/ ~fixer.before
       THEN FixDone(IF fixer.set THEN "applied" ELSE "removed")
       ELSE /\ NoReport
            /\ fixer' = [fixer EXCEPT !.pc = "write", !.set = ~@, !.undoing = TRUE]

----------------------------------------------------------------------------
(* applyVirtualPatches.                                                    *)

\* VirtualPatchesEnforced: the probe rule, which every patch brings with it.
Enforced == engineOn /\ loaded["apache"] \cap Patches # {}

\* Monitor mode, no ModSecurity, changes not allowed.
PatchRefused(x) == HostFault /\ Report(x, "failed") /\ UNCHANGED patcher

PatchBegin(x) ==
    /\ patcher = AtRest /\ request[x] # "none" /\ x \notin done
    /\ \/ PatchRefused(x)
       \/ /\ NoHostFault
          /\ done' = done \cup {x} /\ UNCHANGED <<request, dropped, outcome>> /\ blind' = (blind \/ ~SitesOK)
          /\ patcher' = [pc |-> "write", x |-> x, set |-> request[x] = "apply", old |-> {},
                         want |-> IF request[x] = "apply" THEN rules \cup {x} ELSE rules \ {x},
                         before |-> SitesOK, after |-> "none"]
    /\ UNCHANGED <<hostConst, configFiles, servers, fixer, torn, askedN, crashesN>>

PatchDone(what) == Report(patcher.x, what) /\ patcher' = AtRest
PatchNext(pc)   == NoReport /\ patcher' = [patcher EXCEPT !.pc = pc]
Undoing         == patcher.after # "none"
PatchFailed     == PatchDone(IF Undoing THEN "rollback_failed" ELSE "failed")
PatchFrame      == UNCHANGED <<hostConst, dropIn, fixer, torn, askedN, crashesN>>
PatchOk         == IF patcher.set THEN "applied" ELSE "removed"

\* SetVirtualPatches: a file that stays the same is neither tested nor loaded.
PatchWrite ==
    /\ patcher.pc = "write" /\ PatchFrame /\ UNCHANGED servers
    /\ \/ HostFault /\ PatchFailed /\ UNCHANGED rules
       \/ /\ ~Undoing /\ patcher.want = rules /\ NoHostFault /\ UNCHANGED rules
          /\ PatchDone(IF patcher.set /\ ~Enforced THEN "failed" ELSE PatchOk)
       \/ /\ Undoing \/ patcher.want # rules
          /\ NoHostFault /\ NoReport
          /\ rules' = patcher.want
          /\ patcher' = [patcher EXCEPT !.pc = "test", !.old = rules]

\* swapDynamicRules puts the file back when a command fails.
PatchBack == putBack' = putBack \cup (({patcher.x} \cap patcher.old) \ loaded["apache"])

PatchTest ==
    /\ patcher.pc = "test" /\ PatchFrame /\ UNCHANGED loaded
    /\ \/ Parses("apache", dropIn, rules) /\ NoHostFault /\ PatchNext("reload") /\ UNCHANGED <<rules, putBack>>
       \/ /\ HostFault \/ (~Parses("apache", dropIn, rules) /\ NoHostFault)
          /\ rules' = patcher.old /\ PatchBack /\ PatchFailed

PatchReload ==
    /\ patcher.pc = "reload" /\ PatchFrame
    /\ \/ /\ Parses("apache", dropIn, rules) /\ NoHostFault
          /\ Load("apache", dropIn, rules) /\ UNCHANGED rules
          /\ IF Undoing THEN PatchDone(patcher.after) ELSE PatchNext("verify")
       \/ /\ HostFault \/ (~Parses("apache", dropIn, rules) /\ NoHostFault)
          /\ rules' = patcher.old /\ PatchFailed
          /\ IF Parses("apache", dropIn, patcher.old) THEN Load("apache", dropIn, patcher.old)
             ELSE PatchBack /\ UNCHANGED loaded

\* Verified, and a patch applied must be enforced; else what was there before
\* is put back.
PatchVerify ==
    LET verified == SitesOK \/ ~patcher.before
    IN /\ patcher.pc = "verify" /\ PatchFrame /\ NoHostFault /\ UNCHANGED <<rules, servers>>
       /\ IF verified /\ (patcher.set => Enforced) THEN PatchDone(PatchOk)
          ELSE /\ NoReport
               /\ patcher' = [patcher EXCEPT !.pc = "write", !.want = patcher.old,
                                  !.after = IF verified THEN "failed" ELSE "rolled_back"]

FixStep   == FixWrite \/ FixTest \/ FixReload \/ FixVerify
PatchStep == PatchWrite \/ PatchTest \/ PatchReload \/ PatchVerify

HostNext ==
    \/ \E x \in Changes \cup Perms : Request(x)
    \/ \E s \in Services : OwnerReloads(s)
    \/ \E x \in Fixes : FixBegin(x)
    \/ \E x \in Perms : FixPerm(x)
    \/ \E x \in Patches : PatchBegin(x)
    \/ FixStep \/ PatchStep \/ AgentCrash

HostSpec == HostInit /\ [][HostNext]_hostVars

\* The goroutines go on; a sync brings what is pending again.
HostFairness ==
    /\ WF_hostVars(FixStep) /\ WF_hostVars(PatchStep)
    /\ \A x \in Fixes : WF_hostVars(FixBegin(x))
    /\ \A x \in Perms : WF_hostVars(FixPerm(x))
    /\ \A x \in Patches : WF_hostVars(PatchBegin(x))

----------------------------------------------------------------------------

Fixers == {AtRest} \cup [pc : {"write", "test", "reload", "verify"}, x : Fixes, set : BOOLEAN,
                         old : SUBSET Fixes, before : BOOLEAN, undoing : BOOLEAN]
Patchers == {AtRest} \cup [pc : {"write", "test", "reload", "verify"}, x : Patches,
                           set : BOOLEAN, old : SUBSET Patches, want : SUBSET Patches,
                           before : BOOLEAN, after : {"none", "failed", "rolled_back"}]

HostTypeOK ==
    /\ bad \subseteq Changes /\ harmful \subseteq Changes /\ engineOn \in BOOLEAN
    /\ dropIn \in [Services -> SUBSET Fixes] /\ rules \subseteq Patches
    /\ loaded \in [Services -> SUBSET Changes] /\ putBack \subseteq Patches
    /\ request \in [Changes \cup Perms -> {"none", "apply", "remove"}]
    /\ done \subseteq Changes \cup Perms /\ dropped \subseteq done
    /\ fixer \in Fixers /\ patcher \in Patchers
    /\ outcome \in [Changes -> Outcomes] /\ torn \in BOOLEAN /\ blind \in BOOLEAN
    /\ askedN \in 0..MaxAsked /\ crashesN \in 0..MaxMishaps /\ faultsN \in 0..MaxMishaps

Testing == fixer.pc = "test" \/ patcher.pc = "test"

\* Nobody is at work, and no crash nor failed command came in between: after
\* one, a file may be taken back that someone else's reload has loaded.
Settled == fixer = AtRest /\ patcher = AtRest /\ ~torn /\ faultsN = 0

\* Except while a change is being tested, and after a crash in the middle of
\* one, every service can be restarted: what the agent wrote passes the test,
\* also when the two goroutines write Apache's files at once and one of them
\* takes its file back (vpatches.go:221, "so Apache never keeps a file it cannot
\* parse"; fixers.go:275, "Any failure puts the old file back").
FilesParse == torn \/ Testing \/ \A s \in Services : Parses(s, dropIn, rules)

\* Once both are done, nothing that takes a site down is left in a file, though
\* each probe sees the other's change as well, unless a rollback failed and said
\* so or the site was down before the change (verify.go:1, "undo the change when
\* the check fails"; vpatch.go:64).
NoHarmLeft ==
    (Settled /\ ~blind) =>
        \A s \in Services : Config(s, dropIn, rules) \cap harmful = {}

\* A change that was applied when last tried is in its file and what the service
\* runs with, whoever reloads it, and though a patch already in the file is
\* neither written nor loaded again (vpatch.go:125, "Already in the file").  Except
\* a patch whose removal failed after someone reloaded Apache without it: it is in
\* the file, not loaded, and asked for again it is reported applied if another
\* patch is enforced.  The converse fails: a change taken back after its test
\* failed may be loaded.
AppliedInForce ==
    Settled => \A x \in Changes :
        outcome[x] = "applied" =>
            LET s == IF x \in Patches THEN "apache" ELSE ServiceOf[x]
            IN x \in Config(s, dropIn, rules) /\ x \in loaded[s] \cup putBack

\* hardening.go, vpatch.go: every request is answered, whatever failed or was
\* cut short; none is in the queues for good.  The one exception is the result the
\* event queue drops (reportEvent only queues it): carried out, it stays pending
\* until the agent is started anew.
RequestsAnswered == \A x \in Changes \cup Perms : []<>(request[x] = "none" \/ x \in dropped)

=============================================================================
