---------------------------- MODULE FirewallRules ---------------------------
(***************************************************************************)
(* The dashboard's firewall rules, kept by ID (internal/firewall/rules.go) *)
(* and brought by two goroutines: the push listener handles rule.created   *)
(* and rule.removed one after the other, and the sync runner applies the   *)
(* list the dashboard answered with, some time ago.                        *)
(*                                                                         *)
(* One action is one section under the firewall lock, one Ensure, or one   *)
(* request to the dashboard.  The iptables arguments of a rule are the     *)
(* value Args[id]; the chain is a set of them (the order of the rules is   *)
(* not modelled).  The generations of the code (ruleGen, ruleTouched) are  *)
(* only ever compared with the one the running sync took before it asked,  *)
(* and there is one sync at a time: touched is the set of IDs whose        *)
(* ruleTouched is above that generation.                                   *)
(*                                                                         *)
(* A definition whose name begins with Mut is the one after it with a      *)
(* mistake planted, to see a property fail.                                *)
(***************************************************************************)
EXTENDS Naturals, Sequences

CONSTANTS
    ID,          \* rule IDs, given once by the dashboard
    Arg,         \* iptables arguments
    Args,        \* Args[id]: those of rule id (two rules may have the same)
    NoID,
    MaxFails,    \* bound: failed runs of iptables
    MaxFaults,   \* bound: answers of the dashboard that list no rule
    MaxRestarts  \* bound: restarts of the agent

ASSUME ArgsAssumption == Args \in [ID -> Arg] /\ NoID \notin ID
ASSUME BoundAssumption ==
    MaxFails \in Nat /\ MaxFaults \in Nat /\ MaxRestarts \in Nat

\* Values of Args for small instances: the rules have the same arguments, or each
\* has its own.
SameArgs == [i \in ID |-> CHOOSE x \in Arg : TRUE]
OwnArgs == CHOOSE f \in [ID -> Arg] : \A i, j \in ID : f[i] = f[j] => i = j

VARIABLES
    dash,       \* the status of each rule on the dashboard
    wire,       \* push messages on their way to the agent
    known,      \* the IDs ruleArgs has
    userRules,  \* fw.userRules
    kernel,     \* the chain INFRAFENCE-RULES
    touched,    \* the IDs applied or removed since the sync's RulesGeneration
    ruleRemoved,
    ws,         \* the push listener: what it is about to do, for which rule
    sync,       \* the sync runner, with the locals of syncAndApply
    lost,       \* whether a push message was lost
    fails, faults, restarts

vars == <<dash, wire, known, userRules, kernel, touched, ruleRemoved,
          ws, sync, lost, fails, faults, restarts>>
table  == <<known, userRules, touched, ruleRemoved>>
bounds == <<fails, faults, restarts>>

Status  == {"absent", "pending", "synced", "failed", "deleted"}
Message == [kind: {"created", "removed"}, id: ID]
InForce(s) == s \in {"pending", "synced"}
Listed(s)  == s \in {"pending", "synced", "failed"}

IdleWs   == [pc |-> "idle", id |-> NoID]
IdleSync == [pc |-> "idle", id |-> NoID, any |-> FALSE, todo |-> {}, keep |-> {}]

---------------------------------------------------------------------------
(* The sections under the lock.                                            *)

\* ApplyRuleID.
Apply(id) ==
    /\ known' = known \cup {id}
    /\ touched' = touched \cup {id}
    /\ ruleRemoved' = ruleRemoved \ {id}
    /\ userRules' = userRules \cup {Args[id]}

\* dropUnusedRuleArgsLocked: what no ID in force stands for goes.
MutUsed(ids, gone) == userRules \ {Args[i] : i \in gone}
Used(ids, gone) == {a \in userRules : \E i \in ids : Args[i] = a}

\* RemoveRuleID.
MutRemove(id) ==
    /\ touched' = touched \cup {Args[id]}
    /\ ruleRemoved' = ruleRemoved \cup {id}
    /\ known' = known \ {id}
    /\ userRules' = IF id \in known THEN Used(known', {id}) ELSE userRules
Remove(id) ==
    /\ touched' = touched \cup {id}
    /\ ruleRemoved' = ruleRemoved \cup {id}
    /\ known' = known \ {id}
    /\ userRules' = IF id \in known THEN Used(known', {id}) ELSE userRules

\* The rules ReconcileRules drops: neither listed nor touched since the sync
\* asked.
MutDropped(keep) == known \ keep
MutNeverDropped(keep) == {}
Dropped(keep) == (known \ keep) \ touched

Reconcile(keep) ==
    LET gone == Dropped(keep)
    IN  /\ known' = known \ gone
        /\ ruleRemoved' = ruleRemoved \cap (known' \cup touched)
        /\ userRules' = Used(known', gone)
        /\ UNCHANGED touched

\* Ensure makes the chain hold fw.userRules as it is now, or iptables fails.
EnsureOK   == kernel' = userRules /\ UNCHANGED fails
EnsureFail == kernel' = kernel /\ fails < MaxFails /\ fails' = fails + 1

\* AckRule: the answer the dashboard gets, or does not.
Ack(id, status) ==
    \/ dash' = dash
    \/ Listed(dash[id]) /\ dash' = [dash EXCEPT ![id] = status]

---------------------------------------------------------------------------
Init ==
    /\ dash = [i \in ID |-> "absent"] /\ wire = <<>>
    /\ known = {} /\ userRules = {} /\ kernel = {}
    /\ touched = {} /\ ruleRemoved = {}
    /\ ws = IdleWs /\ sync = IdleSync
    /\ lost = FALSE
    /\ fails = 0 /\ faults = 0 /\ restarts = 0

(* The dashboard: a rule is created or deleted, and the message about it   *)
(* reaches the websocket or is lost (no connection).                       *)
Push(kind, id) ==
    \/ wire' = Append(wire, [kind |-> kind, id |-> id]) /\ lost' = lost
    \/ wire' = wire /\ lost' = TRUE

DashCreate(id) ==
    /\ dash[id] = "absent"
    /\ dash' = [dash EXCEPT ![id] = "pending"]
    /\ Push("created", id)
    /\ UNCHANGED <<table, kernel, ws, sync, bounds>>

DashDelete(id) ==
    /\ Listed(dash[id])
    /\ dash' = [dash EXCEPT ![id] = "deleted"]
    /\ Push("removed", id)
    /\ UNCHANGED <<table, kernel, ws, sync, bounds>>

(* The push listener.                                                      *)
RuleCreated ==
    /\ ws.pc = "idle" /\ wire # <<>> /\ Head(wire).kind = "created"
    /\ LET id == Head(wire).id
       IN  /\ Apply(id)
           /\ ws' = [pc |-> IF Args[id] \in userRules THEN "ack_applied" ELSE "ensure_applied",
                     id |-> id]
    /\ wire' = Tail(wire)
    /\ UNCHANGED <<dash, kernel, sync, lost, bounds>>

RuleRemoved ==
    /\ ws.pc = "idle" /\ wire # <<>> /\ Head(wire).kind = "removed"
    /\ LET id == Head(wire).id
       IN  /\ Remove(id)
           /\ ws' = IF userRules' = userRules THEN IdleWs ELSE [pc |-> "ensure_removed", id |-> id]
    /\ wire' = Tail(wire)
    /\ UNCHANGED <<dash, kernel, sync, lost, bounds>>

WsEnsure ==
    /\ \/ /\ ws.pc = "ensure_applied"
          /\ \/ EnsureOK   /\ ws' = [ws EXCEPT !.pc = "ack_applied"]
             \/ EnsureFail /\ ws' = [ws EXCEPT !.pc = "ack_failed"]
       \/ /\ ws.pc = "ensure_removed"
          /\ EnsureOK \/ EnsureFail
          /\ ws' = IdleWs
    /\ UNCHANGED <<dash, wire, table, sync, lost, faults, restarts>>

WsAck ==
    /\ \/ ws.pc = "ack_applied" /\ Ack(ws.id, "synced")
       \/ ws.pc = "ack_failed"  /\ Ack(ws.id, "failed")
    /\ ws' = IdleWs
    /\ UNCHANGED <<wire, table, kernel, sync, lost, bounds>>

(* A sync.                                                                 *)
\* RulesGeneration, before the request.
SyncBegin ==
    /\ sync.pc = "idle"
    /\ sync' = [IdleSync EXCEPT !.pc = "fetch"]
    /\ touched' = {}
    /\ UNCHANGED <<dash, wire, known, userRules, ruleRemoved, kernel, ws, lost, bounds>>

\* The dashboard answers with its list, or, at fault, with an empty one.
SyncFetch ==
    /\ sync.pc = "fetch"
    /\ \/ /\ sync' = [sync EXCEPT !.pc = "rules",
                                  !.any  = \E i \in ID : Listed(dash[i]),
                                  !.todo = {i \in ID : InForce(dash[i])}]
          /\ UNCHANGED faults
       \/ /\ faults < MaxFaults /\ faults' = faults + 1
          /\ sync' = [sync EXCEPT !.pc = "rules"]
    /\ UNCHANGED <<dash, wire, table, kernel, ws, lost, fails, restarts>>

\* RuleRemovedSince, for the next rule of the list.
RemovedSince(id) == id \in ruleRemoved /\ id \in touched

SyncCheck(id) ==
    /\ sync.pc = "rules" /\ id \in sync.todo
    /\ sync' = IF RemovedSince(id)
               THEN [sync EXCEPT !.todo = @ \ {id}]
               ELSE [sync EXCEPT !.todo = @ \ {id}, !.id = id, !.pc = "apply"]
    /\ UNCHANGED <<dash, wire, table, kernel, ws, lost, bounds>>

SyncApply ==
    /\ sync.pc = "apply"
    /\ Apply(sync.id)
    /\ sync' = [sync EXCEPT !.pc = IF Args[sync.id] \in userRules THEN "ack_applied"
                                   ELSE "ensure_applied",
                            !.keep = @ \cup {sync.id}]
    /\ UNCHANGED <<dash, wire, kernel, ws, lost, bounds>>

SyncEnsure ==
    /\ sync.pc = "ensure_applied"
    /\ \/ EnsureOK   /\ sync' = [sync EXCEPT !.pc = "ack_applied"]
       \/ EnsureFail /\ sync' = [sync EXCEPT !.pc = "ack_failed"]
    /\ UNCHANGED <<dash, wire, table, ws, lost, faults, restarts>>

SyncAck ==
    /\ \/ sync.pc = "ack_applied" /\ Ack(sync.id, "synced")
       \/ sync.pc = "ack_failed"  /\ Ack(sync.id, "failed")
    /\ sync' = [sync EXCEPT !.pc = "rules", !.id = NoID]
    /\ UNCHANGED <<wire, table, kernel, ws, lost, bounds>>

\* ReconcileRules once every rule of the list is done, and not when the
\* list had none.
SyncReconcile ==
    /\ sync.pc = "rules" /\ sync.todo = {}
    /\ IF sync.any
       THEN /\ Reconcile(sync.keep)
            /\ sync' = IF userRules' = userRules THEN IdleSync
                       ELSE [IdleSync EXCEPT !.pc = "ensure_last"]
       ELSE sync' = IdleSync /\ UNCHANGED table
    /\ UNCHANGED <<dash, wire, kernel, ws, lost, bounds>>

SyncLastEnsure ==
    /\ sync.pc = "ensure_last"
    /\ EnsureOK \/ EnsureFail
    /\ sync' = IdleSync
    /\ UNCHANGED <<dash, wire, table, ws, lost, faults, restarts>>

(* The guard's periodic Ensure.                                            *)
Guard ==
    /\ kernel # userRules
    /\ EnsureOK \/ EnsureFail
    /\ UNCHANGED <<dash, wire, table, ws, sync, lost, faults, restarts>>

\* The rules are not saved: a new process begins with an empty chain, and
\* the messages of the old connection are gone.
Restart ==
    /\ restarts < MaxRestarts /\ restarts' = restarts + 1
    /\ known' = {} /\ userRules' = {} /\ kernel' = {}
    /\ touched' = {} /\ ruleRemoved' = {}
    /\ ws' = IdleWs /\ sync' = IdleSync /\ wire' = <<>>
    /\ UNCHANGED <<dash, lost, fails, faults>>

Listen   == RuleCreated \/ RuleRemoved \/ WsEnsure \/ WsAck
SyncStep == SyncFetch \/ (\E id \in ID : SyncCheck(id)) \/ SyncApply \/ SyncEnsure \/ SyncAck
            \/ SyncReconcile \/ SyncLastEnsure

Next ==
    \/ \E id \in ID : DashCreate(id) \/ DashDelete(id)
    \/ Listen \/ SyncBegin \/ SyncStep \/ Guard \/ Restart

Spec == Init /\ [][Next]_vars

(* The listener and the sync runner come back from every request           *)
(* (apiTimeout), the guard and the periodic sync run for ever.             *)
Fairness == WF_vars(Listen) /\ WF_vars(SyncBegin) /\ WF_vars(SyncStep) /\ WF_vars(Guard)

LiveSpec == Spec /\ Fairness

---------------------------------------------------------------------------
(* Properties.                                                             *)

WsState == [pc: {"idle", "ensure_applied", "ensure_removed", "ack_applied", "ack_failed"},
            id: ID \cup {NoID}]
SyncState == [pc: {"idle", "fetch", "rules", "apply", "ensure_applied", "ack_applied",
                   "ack_failed", "ensure_last"},
              id: ID \cup {NoID}, any: BOOLEAN, todo: SUBSET ID, keep: SUBSET ID]
OnRule == {"apply", "ensure_applied", "ack_applied", "ack_failed"}

TypeOK ==
    /\ dash \in [ID -> Status] /\ wire \in Seq(Message)
    /\ known \subseteq ID /\ userRules \subseteq Arg /\ kernel \subseteq Arg
    /\ touched \subseteq ID /\ ruleRemoved \subseteq ID
    /\ ws \in WsState /\ (ws.pc # "idle" => ws.id \in ID)
    /\ sync \in SyncState /\ (sync.pc \in OnRule => sync.id \in ID)
    /\ lost \in BOOLEAN
    /\ fails \in Nat /\ faults \in Nat /\ restarts \in Nat

\* The chain's rules are at every moment those of the IDs in force: a rule
\* deleted does not take with it the same rule under another ID, and none
\* stays that no ID stands for (dropUnusedRuleArgsLocked).
ChainMatchesTable == userRules = {Args[i] : i \in known}

\* A sync never takes out a rule the dashboard has, however late its list
\* and whatever was created meanwhile, and not when the dashboard, at fault,
\* lists nothing (ReconcileRules, main.go).  After a failure of iptables it
\* may, when two answers about the same rule cross: the next sync applies the
\* rule again.
Reconciling ==
    sync.pc = "rules" /\ sync'.pc \in {"idle", "ensure_last"} /\ restarts' = restarts
SyncKeepsLiveRules ==
    [][fails = 0 /\ Reconciling => \A i \in known \ known' : ~InForce(dash[i])]_vars

\* When every message has arrived and been handled and the sync is over, no
\* deleted rule is in force: "ruleTouched holds, for each ID applied or
\* removed by ID, the count at that change, so that a sync fetched before it
\* does not undo it" (rules.go:19-21).
DeletedStaysDeleted ==
    ~lost /\ wire = <<>> /\ ws.pc = "idle" /\ sync.pc = "idle"
       => \A i \in known : dash[i] # "deleted"

\* Once the dashboard's rules no longer change, the kernel's chain comes to
\* hold them and nothing else, whatever messages were lost; a list without
\* a rule is not trusted.
Wanted == {i \in ID : InForce(dash[i])}
Converges == <>[]((\E i \in ID : Listed(dash[i])) => kernel = {Args[i] : i \in Wanted})
=============================================================================
