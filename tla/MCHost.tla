------------------------------- MODULE MCHost -------------------------------
(* What the agent changes and reads on the host beside the firewall, on     *)
(* small instances: its own updates, the quarantine, the fixes and virtual  *)
(* patches, the sessions and the scheduled logins, the bans lifted from a   *)
(* hosting panel, what it refuses to cut off, the regular clients of a      *)
(* database, the files of the trust badge.  These components share no       *)
(* state: one of them, which, runs in a behaviour, and the others stay as   *)
(* they began.                                                              *)
EXTENDS Updater, Quarantine, HostChanges, Sessions, PanelLifts, CutOffChecks,
        TrustFiles

CONSTANTS p1, k1, k2

VARIABLE which

allVars == <<which, vars, quarantineVars, hostVars, sessionVars, automationVars, liftVars, refusalVars, clientVars, trustVars>>

\* Paths that differ in a "/" and a "_": they have one name in a second.
OneName == [p \in Paths |-> "n"]
Svc == [f \in Fixes |-> IF f = "f1" THEN "apache" ELSE "php"]
HomesOf == {[own |-> {1}, www |-> {2}], [own |-> {}, www |-> {2}]}
OwnerFn == [p \in Pids |-> "root"]

\* The choices a component makes at its start are made if it runs.
HostSideInit ==
    /\ which \in {"updater", "quarantine", "changes", "sessions", "logins", "lifts", "refusals", "clients", "trust"}
    /\ Init /\ QuarantineInit /\ HostInit /\ SessionInit /\ AutomationInit /\ LiftInit /\ RefusalsInit /\ ClientsInit /\ TrustInit
    /\ which # "updater" => kind = [v \in Versions |-> "good"]
    /\ which # "refusals" => sshServer = "openssh" /\ sshdPort = 22
    /\ which # "trust" => \A d \in Domains : homes[d].own = {}
    /\ which # "changes" => bad = {} /\ harmful = {} /\ engineOn
    /\ Cardinality(harmful) <= 1

HostSideNext ==
    /\ UNCHANGED which
    /\ \/ /\ which = "updater" /\ Next
          /\ UNCHANGED <<quarantineVars, hostVars, sessionVars, automationVars, liftVars, refusalVars, clientVars, trustVars>>
       \/ /\ which = "quarantine" /\ QuarantineNext
          /\ UNCHANGED <<vars, hostVars, sessionVars, automationVars, liftVars, refusalVars, clientVars, trustVars>>
       \/ /\ which = "changes" /\ HostNext
          /\ UNCHANGED <<vars, quarantineVars, sessionVars, automationVars, liftVars, refusalVars, clientVars, trustVars>>
       \/ /\ which = "sessions" /\ SessionNext
          /\ UNCHANGED <<vars, quarantineVars, hostVars, automationVars, liftVars, refusalVars, clientVars, trustVars>>
       \/ /\ which = "logins" /\ AutomationNext
          /\ UNCHANGED <<vars, quarantineVars, hostVars, sessionVars, liftVars, refusalVars, clientVars, trustVars>>
       \/ /\ which = "lifts" /\ LiftNext
          /\ UNCHANGED <<vars, quarantineVars, hostVars, sessionVars, automationVars, refusalVars, clientVars, trustVars>>
       \/ /\ which = "refusals" /\ RefusalsNext
          /\ UNCHANGED <<vars, quarantineVars, hostVars, sessionVars, automationVars, liftVars, clientVars, trustVars>>
       \/ /\ which = "clients" /\ ClientsNext
          /\ UNCHANGED <<vars, quarantineVars, hostVars, sessionVars, automationVars, liftVars, refusalVars, trustVars>>
       \/ /\ which = "trust" /\ TrustNext
          /\ UNCHANGED <<vars, quarantineVars, hostVars, sessionVars, automationVars, liftVars, refusalVars, clientVars>>

HostSideSpec ==
    /\ HostSideInit
    /\ [][HostSideNext]_allVars

\* The fairness of the component that runs, a few conditions for all of them.
ChangeBegins(x) ==
    \/ x \in Fixes /\ FixBegin(x)
    \/ x \in Perms /\ FixPerm(x)
    \/ x \in Patches /\ PatchBegin(x)
Runs(n) ==
    CASE which = "updater" ->
           /\ UNCHANGED kind
           /\ CASE n = 1 -> Boot [] n = 2 -> Update [] n = 3 -> Settle [] OTHER -> Crash
      [] which = "changes" -> (n = 1 /\ FixStep) \/ (n = 2 /\ PatchStep)
      [] which = "sessions" ->
           \/ n = 1 /\ (Stat \/ PassEnd \/ ReadLine)
           \/ n = 2 /\ Cleanup
           \/ n = 3 /\ \E c \in closing : ReportSession(c)
           \/ n = 4 /\ \E p \in Pids : DayOld(p)
      [] which = "lifts" ->
           \/ n = 1 /\ (NoteLocalBan \/ Reported)
           \/ n = 2 /\ UnbanEnd
           \/ n = 3 /\ (Fetch \/ NoteSync \/ Filter \/ ApplySynced)
      [] which = "trust" -> (n = 1 /\ TrustStep) \/ (n = 2 /\ TrustSync)
      [] OTHER -> FALSE
runVars ==
    CASE which = "updater" -> vars [] which = "changes" -> hostVars
      [] which = "sessions" -> sessionVars [] which = "trust" -> trustVars [] OTHER -> liftVars
HostSideFairness ==
    /\ \A n \in 1..4 : WF_runVars(UNCHANGED which /\ Runs(n))
    /\ \A x \in Changes \cup Perms : WF_hostVars(which = "changes" /\ ChangeBegins(x))

HostSideLive == HostSideSpec /\ HostSideFairness

\* The quarantine alone.
VaultSpec ==
    /\ HostSideInit /\ which = "quarantine"
    /\ [][HostSideNext]_allVars

----------------------------------------------------------------------------

\* Every variable of every component keeps its type.
TypesOK ==
    /\ TypeOK /\ QuarantineTypeOK /\ HostTypeOK
    /\ SessionTypeOK /\ AutomationTypeOK /\ LiftTypeOK /\ RefusalsTypeOK /\ ClientsTypeOK
    /\ TrustTypeOK

\* HostChanges: what is in the files and in the servers after a change.  TrustFiles:
\* what was written is on record and told once, what others wrote is left alone.
ChangesHold ==
    /\ FilesParse /\ NoHarmLeft /\ AppliedInForce
    /\ FilesRecorded /\ ToldAsIs /\ ToldOnce /\ ForeignKept

\* Sessions: what is said of the logins; CutOffChecks: who is in a session and the
\* regular clients of a database are known, told of and not cut off, and who only
\* guesses is not shielded.
VisitorsKnown ==
    /\ ReportedOnce /\ SeriesLasted
    /\ SessionsSpared /\ GuessersNotShielded
    /\ HeldIsCounted /\ NobodyCutOff /\ ToldInTime

\* A version that dies early is left and the updates converge, a request is
\* answered, sessions close, a lift lasts and a ban that is not lifted any
\* more returns, the files of the badge come to be what is listed.
HostSettles ==
    /\ CrashLoopLeft
    /\ which = "updater" => Converges
    /\ RequestsAnswered /\ AllClosed /\ LiftLasts /\ LiftHolds /\ BansReturn
    /\ which = "trust" => <>[]BadgesRight
=============================================================================
