----------------------------- MODULE PanelLifts -----------------------------
(***************************************************************************)
(* Bans lifted from a hosting panel (cmd/infrafence-agent/panelstate.go,   *)
(* panel.go): a ban of the dashboard is lifted on this server only, which  *)
(* leaves it out of its syncs as long as the dashboard sends it, at most   *)
(* 30 days, unless the address is detected again.                          *)
(*                                                                         *)
(* One address; the dashboard's bans of it have ids.  A lift ages from     *)
(* "new" to "hour" (adoptFor) and "over" (Until).                          *)
(*                                                                         *)
(* A definition whose name begins with Mut is the one after it with a      *)
(* mistake planted, to see a property fail.                                *)
(***************************************************************************)
EXTENDS Integers, FiniteSets

CONSTANTS Ids, MaxDetections, MaxUnbans, MaxOthers, MaxSaveFaults, MaxRestartsP \* bounds

ASSUME LiftBounds ==
    IsFiniteSet(Ids) /\ {MaxDetections, MaxUnbans, MaxOthers, MaxSaveFaults, MaxRestartsP} \subseteq Nat

VARIABLES
    listing,    \* the ids of the dashboard's bans
    unused,     \* ids it has not given yet
    inForce,    \* the firewall bans the address
    ownBan,     \* noted in the outbox: the dashboard has not listed it yet
    info,       \* banInfo
    detecting,  \* banAndReport: "idle", "banned", "noted"
    lift,       \* p.Lifted of the address, and as saved
    view,       \* the ids of the last sync
    job,        \* the sync that runs
    unbanning,  \* panelUnban past its save
    cut,        \* ghost: a restart came between a panelUnban's save and its unban
    detectionsN, unbansN, othersN, saveFaultsN, restartsP

liftVars == <<listing, unused, inForce, ownBan, info, detecting, lift, view, job,
              unbanning, cut, detectionsN, unbansN, othersN, saveFaultsN, restartsP>>
dash2   == <<listing, unused, othersN>>
counts  == <<detectionsN, unbansN, saveFaultsN, restartsP>>

NoLift == [on |-> FALSE, ids |-> {}, adopt |-> FALSE, age |-> "new"]
NoJob  == [step |-> "idle", ids |-> {}]

LiftInit ==
    /\ listing = {} /\ unused = Ids /\ inForce = FALSE /\ ownBan = FALSE /\ info = FALSE
    /\ detecting = "idle" /\ lift = NoLift /\ view = {} /\ job = NoJob
    /\ unbanning = FALSE /\ cut = FALSE
    /\ detectionsN = 0 /\ unbansN = 0 /\ othersN = 0 /\ saveFaultsN = 0 /\ restartsP = 0

----------------------------------------------------------------------------
(* The dashboard, and the agent's own detections.                          *)

OtherBan ==
    /\ othersN < MaxOthers /\ othersN' = othersN + 1
    /\ \E id \in unused : listing' = listing \cup {id} /\ unused' = unused \ {id}
    /\ UNCHANGED <<inForce, ownBan, info, detecting, lift, view, job, unbanning, cut, counts>>

DashboardLifts ==
    /\ \E id \in listing : listing' = listing \ {id}
    /\ UNCHANGED <<unused, othersN, inForce, ownBan, info, detecting, lift, view, job,
                   unbanning, cut, counts>>

\* banAndReport, unless the address is banned: the firewall, then
\* panelNoteLocalBan and noteLocalBan, then the report.
Detect ==
    /\ detecting = "idle" /\ ~inForce /\ detectionsN < MaxDetections
    /\ detectionsN' = detectionsN + 1
    /\ detecting' = "banned" /\ inForce' = TRUE
    /\ UNCHANGED <<dash2, ownBan, info, lift, view, job, unbanning, cut,
                   unbansN, saveFaultsN, restartsP>>

NoteLocalBan ==
    /\ detecting = "banned" /\ detecting' = "noted" /\ info' = TRUE /\ ownBan' = TRUE
    /\ lift' = NoLift
    /\ UNCHANGED <<dash2, inForce, view, job, unbanning, cut, counts>>

Reported ==
    /\ detecting = "noted" /\ detecting' = "idle"
    /\ \E id \in unused : listing' = listing \cup {id} /\ unused' = unused \ {id}
    /\ UNCHANGED <<othersN, inForce, ownBan, info, lift, view, job, unbanning, cut, counts>>

----------------------------------------------------------------------------
(* The panel.                                                              *)

\* panelUnban, under the lock: nothing is lifted that could not be saved.
Unban ==
    /\ ~unbanning /\ unbansN < MaxUnbans /\ unbansN' = unbansN + 1
    /\ view # {} \/ inForce
    /\ inForce \/ ~lift.on
    /\ \/ /\ lift' = [on |-> TRUE, ids |-> view, adopt |-> TRUE, age |-> "new"]
          /\ info' = FALSE /\ unbanning' = TRUE /\ UNCHANGED saveFaultsN
       \/ /\ saveFaultsN < MaxSaveFaults /\ saveFaultsN' = saveFaultsN + 1
          /\ UNCHANGED <<lift, info, unbanning>>
    /\ UNCHANGED <<dash2, inForce, ownBan, detecting, view, job, cut, detectionsN, restartsP>>

\* panelUnbanIP, panelRequestSync.
UnbanEnd ==
    /\ unbanning /\ unbanning' = FALSE
    /\ inForce' = FALSE
    /\ UNCHANGED <<dash2, ownBan, info, detecting, lift, view, job, cut, counts>>

Ageing(age) ==
    /\ lift.on /\ lift.age = (IF age = "hour" THEN "new" ELSE "hour")
    /\ lift' = [lift EXCEPT !.age = age]
    /\ UNCHANGED <<dash2, inForce, ownBan, info, detecting, view, job, unbanning, cut, counts>>

----------------------------------------------------------------------------
(* A sync (syncAndApply).                                                  *)

Fetch ==
    /\ job.step = "idle" /\ job' = [step |-> "fetched", ids |-> listing]
    /\ UNCHANGED <<dash2, inForce, ownBan, info, detecting, lift, view, unbanning, cut, counts>>

\* panelNoteSync
NoteSync ==
    /\ job.step = "fetched" /\ job' = [job EXCEPT !.step = "seen"] /\ view' = job.ids
    /\ info' = (info /\ inForce)
    /\ UNCHANGED <<dash2, inForce, ownBan, detecting, lift, unbanning, cut, counts>>

\* panelFilterBans: what becomes of a lift, and what it leaves out.
MutAfterSync(ids) ==
    IF ~lift.on \/ lift.age = "over" \/ (lift.ids \cup ids = {}) THEN NoLift
    ELSE IF lift.adopt THEN [lift EXCEPT !.ids = @ \cup ids, !.adopt = FALSE]
    ELSE IF lift.ids \cap ids = {} THEN NoLift ELSE lift

AfterSync(ids) ==
    IF ~lift.on \/ lift.age = "over" THEN NoLift
    ELSE IF lift.adopt
    THEN LET adopted == lift.ids \cup ids
             still == adopted = {} /\ lift.age = "new"
         IN IF adopted = {} /\ ~still THEN NoLift
            ELSE [lift EXCEPT !.ids = adopted, !.adopt = still]
    ELSE IF lift.ids \cap ids = {} THEN NoLift ELSE lift

Filter ==
    /\ job.step = "seen"
    /\ lift' = AfterSync(job.ids)
    /\ job' = [step |-> "filtered", ids |-> job.ids \ lift'.ids]
    /\ UNCHANGED <<dash2, inForce, ownBan, info, detecting, view, unbanning, cut, counts>>

\* ApplyBans and CleanupStaleBans: a ban noted in the outbox stays until the
\* dashboard lists it, or a while after it was reported.
ApplySynced ==
    /\ job.step = "filtered" /\ job' = NoJob
    /\ \/ ownBan' = (ownBan /\ job.ids = {})
       \/ ownBan /\ detecting = "idle" /\ ownBan' = FALSE
    /\ inForce' = (job.ids # {} \/ (ownBan' /\ inForce))
    /\ UNCHANGED <<dash2, info, detecting, lift, view, unbanning, cut, counts>>

\* Another process: the lift was saved, the ban is restored.
RestartPanel ==
    /\ restartsP < MaxRestartsP /\ restartsP' = restartsP + 1
    /\ view' = {} /\ info' = FALSE /\ job' = NoJob /\ unbanning' = FALSE
    /\ cut' = (cut \/ unbanning)
    /\ detecting' = IF detecting = "banned" THEN "idle" ELSE detecting
    /\ UNCHANGED <<dash2, inForce, ownBan, lift, detectionsN, unbansN, saveFaultsN>>

LiftNext ==
    \/ OtherBan \/ DashboardLifts \/ Detect \/ NoteLocalBan \/ Reported
    \/ Unban \/ UnbanEnd \/ Ageing("hour") \/ Ageing("over")
    \/ Fetch \/ NoteSync \/ Filter \/ ApplySynced \/ RestartPanel

LiftSpec == LiftInit /\ [][LiftNext]_liftVars

\* Goroutines run, and syncs follow one another.
LiftFairness ==
    /\ WF_liftVars(NoteLocalBan \/ Reported) /\ WF_liftVars(UnbanEnd)
    /\ WF_liftVars(Fetch \/ NoteSync \/ Filter \/ ApplySynced)

----------------------------------------------------------------------------

LiftTypeOK ==
    /\ listing \cup view \cup lift.ids \cup job.ids \subseteq Ids \ unused
    /\ lift.age \in {"new", "hour", "over"} /\ detecting \in {"idle", "banned", "noted"}
    /\ job.step \in {"idle", "fetched", "seen", "filtered"}
    /\ {inForce, ownBan, info, unbanning, cut, lift.on, lift.adopt} \subseteq BOOLEAN
    /\ ~lift.on => lift = NoLift

\* panelstate.go: a lift that stands keeps the bans it is for off this
\* server, whatever sync was under way when it was made.
LiftHolds == <>[](lift.on /\ listing \subseteq lift.ids /\ ~cut) => <>[](~inForce)

\* panelstate.go panelFilterBans: a lift ends with its time, with the address
\* detected again, or with the bans it is for: not because a sync was fetched
\* before they were listed.
LiftLasts ==
    [][lift.on /\ ~lift'.on =>
         \/ lift.age = "over" \/ detecting = "banned"
         \/ lift.ids \cap listing = {} /\ (lift.ids # {} \/ lift.age # "new")]_liftVars

\* What the dashboard bans and no lift stands for, it bans here: a lift that
\* is over, an address detected again.
BansReturn == <>[](~lift.on /\ listing # {}) => <>[]inForce
=============================================================================
