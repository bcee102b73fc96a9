--------------------------- MODULE FirewallActions ---------------------------
(***************************************************************************)
(* Ports closed and egress blocked at the dashboard's request              *)
(* (fwactions.go, fwstate.go, portsegress.go): the desired state and the   *)
(* requests a sync brings, the goroutine that runs the requests, the       *)
(* firewall's answer, the file what is enforced is restored from.          *)
(*                                                                         *)
(* A target is a port or an address; to close one also stands for to block *)
(* egress to it, to open one for to unblock it.  A section under fwStateMu *)
(* is one action: a crash inside one leaves the file as a crash before it  *)
(* does, and the first setup rebuilds the chains from the file.  The       *)
(* firewall's rules are in the kernel as long as iptables takes them (pe). *)
(* Left out: an egress set that cannot be filled, the limits on how many   *)
(* targets one state names, requests refused as malformed.                 *)
(*                                                                         *)
(* A sync's goroutine takes its turn (the CompareAndSwap) before the next  *)
(* sync has been answered and applied.                                     *)
(*                                                                         *)
(* A definition whose name begins with Mut is the one after it with a      *)
(* mistake planted, to see a property fail.                                *)
(***************************************************************************)
EXTENDS Integers, Sequences

CONSTANTS
    Ports, Addresses,  \* the targets
    Requests,          \* a sequence: the n-th has the ID n, a kind and a target
    MaxPerSync,        \* maxActionsPerSync
    MaxTurns,          \* bound: changes of the host, of monitor mode, ends of the process, notes
    MaxFails           \* bound: refusals by iptables, results not delivered

Targets == Ports \cup Addresses
Ids     == DOMAIN Requests

ASSUME RequestAssumption ==
    Requests \in Seq([kind : {"close", "open"}, target : Targets])
ASSUME BoundAssumption == MaxPerSync \in Nat \ {0} /\ MaxTurns \in Nat /\ MaxFails \in Nat

\* Values of Requests for small instances: a port is closed, then opened again, or
\* an address is blocked.
Request(k, t) == [kind |-> k, target |-> t]
APort == CHOOSE p \in Ports : TRUE
AnAddress == CHOOSE a \in Addresses : TRUE
CloseAndOpen == <<Request("close", APort), Request("open", APort)>>
CloseAndBlock == <<Request("close", APort), Request("close", AnAddress)>>

VARIABLES
    dash,      \* the dashboard: each request's status, monitor mode
    host,      \* what the refusals see of each target
    base, pending, monitor, overlay,  \* fwBase, fwPending, fwMonitor, fwOverlay
    done,      \* fwDone
    unsent,    \* fwUnsent: results, or "none"
    applied,   \* fwAppliedPorts, fwAppliedEgress: what is recorded as enforced
    desired,   \* the firewall's closedPorts and egress
    pe,        \* peInForce
    failed,    \* peFailedKey: the rules iptables refused last, {} for none
    file,      \* firewall-state.json
    saver,     \* noteAddrs' save under way: what it read
    sync,      \* the sync under way: the answer on its way
    spawned,   \* the requests of the goroutine not yet started
    run,       \* the goroutine that has fwActRunning
    up,
    ran, verified,  \* history: requests run, and verified, in this life of the process
    proven,    \* history: requests verified in any
    fed,       \* history: a sync was applied in this life
    turns, fails

vars == <<dash, host, base, pending, monitor, overlay, done, unsent, applied, desired,
          pe, failed, file, saver, sync, spawned, run, up, ran, verified, proven, fed, turns, fails>>
world   == <<dash, host, turns>>
state   == <<base, pending, monitor>>
results == <<done, unsent>>
history == <<ran, verified, proven>>

Kind(i)   == Requests[i].kind
Target(i) == Requests[i].target
Closes(S) == {Target(i) : i \in {j \in S : Kind(j) = "close"}}
LastOf(S) == CHOOSE i \in S : \A j \in S : j <= i
FirstOf(S) == CHOOSE i \in S : \A j \in S : i <= j

\* Of the requests in S, the last on each target decides: the targets closed.
ClosedBy(S) == {t \in Targets : LET on == {i \in S : Target(i) = t}
                                IN  on # {} /\ Kind(LastOf(on)) = "close"}

Seen     == {"clear", "connected", "regular", "protected"}
Status   == {"none", "late", "early", "done", "failed"}
Results  == {"none", "done", "failed"}
NoRun    == [pc |-> "idle", list |-> {}, all |-> {}, ran |-> 0, id |-> 0, res |-> "none",
             closed |-> FALSE]
NoSync   == [none |-> TRUE]
NoSave   == [none |-> TRUE]
Listed   == {i \in Ids : dash.status[i] \in {"late", "early"}}

\* The state the dashboard sends: it has a request's effect when it is done,
\* and may have it as soon as it is made.
Want == ClosedBy({i \in Ids : dash.status[i] \in {"done", "early"}})

----------------------------------------------------------------------------
(* The effective state (effectiveFirewall, renderChecked).                 *)

\* A close that is listed as pending and not in the overlay takes effect only
\* through its own run.
MutHeldBack(pend, over) == {}
HeldBack(pend, over) == Closes(pend \ over)

Effective(b, pend, over) ==
    LET on == {Target(i) : i \in over}
    IN  ((b \ HeldBack(pend, over)) \ on) \cup ClosedBy(over)

\* portRefusal and egressRefusal for an entry of the state.
RefusedEntry(t, over) ==
    \/ host[t] = "protected"
    \/ t \in Ports /\ t \notin applied /\ host[t] = "regular"
    \/ /\ t \in Addresses /\ t \notin applied
       /\ \A i \in over : Target(i) # t
       /\ host[t] \in {"connected", "regular"}

Rendered(b, pend, mon, over) ==
    IF mon THEN {} ELSE {t \in Effective(b, pend, over) : ~RefusedEntry(t, over)}

\* SetPortsEgress and setApplied.  An unchanged state asks nothing of iptables,
\* and rules it refused are left out without an error, unless the other chains
\* have changed since.
Enforce(targets, err) ==
    /\ desired' = targets /\ applied' = targets
    /\ file' = IF targets # applied THEN targets ELSE file
    /\ \/ ~err /\ pe' = (targets # desired \/ pe) /\ UNCHANGED <<failed, fails>>
       \/ ~err /\ targets \notin {desired, {}} /\ targets = failed
              /\ pe' = FALSE /\ UNCHANGED <<failed, fails>>
       \/ /\ err /\ targets # desired /\ fails < MaxFails /\ fails' = fails + 1
          /\ \/ pe' \in BOOLEAN /\ UNCHANGED failed
             \/ targets # {} /\ pe' = FALSE /\ failed' = targets

InForce(t) == pe /\ t \in desired

----------------------------------------------------------------------------
(* The syncs.                                                              *)

SyncFetch ==
    /\ up /\ sync = NoSync
    /\ sync' = [want |-> Want, listed |-> Listed, monitor |-> dash.monitor]
    /\ UNCHANGED <<world, state, overlay, results, applied, desired, pe, failed, file, saver,
                   spawned, run, up, history, fed, fails>>

\* Requests the sync lists keep their place in the overlay.
MutKept(listed) == {}
Kept(listed) == overlay \cap listed

\* applyFirewallState, and the goroutine it is followed by.
SyncApply ==
    /\ sync # NoSync /\ spawned = {}
    /\ base' = sync.want /\ pending' = sync.listed /\ monitor' = sync.monitor
    /\ overlay' = Kept(sync.listed)
    /\ \E err \in BOOLEAN :
          Enforce(Rendered(sync.want, sync.listed, sync.monitor, overlay'), err)
    /\ spawned' = sync.listed
    /\ sync' = NoSync /\ fed' = TRUE
    /\ UNCHANGED <<world, results, saver, run, up, history>>

----------------------------------------------------------------------------
(* The goroutine (applyFirewallActions), a request at a time.              *)

Begin ==
    /\ spawned # {}
    /\ spawned' = {}
    /\ run' = IF run.pc = "idle"
              THEN [NoRun EXCEPT !.pc = "pick", !.list = spawned, !.all = spawned]
              ELSE run
    /\ UNCHANGED <<world, state, overlay, results, applied, desired, pe, failed, file, saver,
                   sync, up, history, fed, fails>>

RunOnly == UNCHANGED <<world, state, overlay, applied, desired, pe, failed, file, saver, sync,
                       spawned, up, fed, fails>>

MutMayRun == run.ran <= MaxPerSync
MayRun == run.ran < MaxPerSync

Pick ==
    /\ run.pc = "pick" /\ run.list # {}
    /\ LET i    == FirstOf(run.list)
           rest == [run EXCEPT !.list = @ \ {i}, !.id = i]
       IN  \/ /\ i \notin done /\ ~MayRun
              /\ run' = rest /\ UNCHANGED <<done, ran>>
           \/ /\ unsent[i] # "none"
              /\ run' = [rest EXCEPT !.pc = "report", !.res = unsent[i]]
              /\ UNCHANGED <<done, ran>>
           \/ /\ unsent[i] = "none" /\ i \in done
              /\ run' = rest /\ UNCHANGED <<done, ran>>
           \/ /\ i \notin done /\ MayRun
              /\ done' = done \cup {i} /\ ran' = ran \cup {i}
              /\ run' = [rest EXCEPT !.pc = "read", !.ran = @ + 1]
    /\ UNCHANGED <<unsent, verified, proven>> /\ RunOnly

\* runFirewallAction: what is read under fwStateMu.
Read ==
    /\ run.pc = "read"
    /\ run' = IF monitor THEN [run EXCEPT !.pc = "report", !.res = "failed"]
              ELSE [run EXCEPT !.pc = "decide",
                               !.closed = Target(run.id) \in Effective(base, pending, overlay)]
    /\ UNCHANGED <<results, history>> /\ RunOnly

\* The refusals of a new request, then what is in force already.
RefusedRequest(t) == host[t] # "clear"

Decide ==
    /\ run.pc = "decide"
    /\ LET t      == Target(run.id)
           close  == Kind(run.id) = "close"
           answer == IF close /\ RefusedRequest(t) THEN "failed"
                     ELSE IF run.closed = close /\ InForce(t) = close THEN "done" ELSE "none"
       IN  run' = [run EXCEPT !.pc = IF answer = "none" THEN "apply" ELSE "report", !.res = answer]
    /\ UNCHANGED <<results, history>> /\ RunOnly

Apply ==
    /\ run.pc = "apply"
    /\ overlay' = overlay \cup {run.id}
    /\ \E err \in BOOLEAN :
          /\ Enforce(Rendered(base, pending, monitor, overlay'), err)
          /\ run' = [run EXCEPT !.pc = IF err THEN "undo" ELSE "confirm"]
    /\ UNCHANGED <<world, state, results, saver, sync, spawned, up, history, fed>>

\* checkInForce.
Confirm ==
    /\ run.pc = "confirm"
    /\ run' = [run EXCEPT !.pc = IF InForce(Target(run.id)) = (Kind(run.id) = "close")
                                 THEN "verify" ELSE "undo"]
    /\ UNCHANGED <<results, history>> /\ RunOnly

\* verify.Check: SSH and the sites answer as before, or they do not.
Verify ==
    /\ run.pc = "verify"
    /\ \/ /\ run' = [run EXCEPT !.pc = "report", !.res = "done"]
          /\ verified' = verified \cup {run.id} /\ proven' = proven \cup {run.id}
       \/ /\ run' = [run EXCEPT !.pc = "undo"]
          /\ UNCHANGED <<verified, proven>>
    /\ UNCHANGED <<results, ran>> /\ RunOnly

\* undoFirewallAction.
Undo ==
    /\ run.pc = "undo"
    /\ overlay' = overlay \ {run.id}
    /\ \E err \in BOOLEAN : Enforce(Rendered(base, pending, monitor, overlay'), err)
    /\ run' = [run EXCEPT !.pc = "report", !.res = "failed"]
    /\ UNCHANGED <<world, state, results, saver, sync, spawned, up, history, fed>>

\* fwReport: a result the dashboard has is not always one the agent knows it has.
MutUnsentAfter(lost) == unsent
UnsentAfter(lost) == [unsent EXCEPT ![run.id] = IF lost THEN run.res ELSE "none"]

Report ==
    /\ run.pc = "report"
    /\ \E arrives, lost \in BOOLEAN :
          /\ arrives \/ lost
          /\ lost => fails < MaxFails
          /\ fails' = IF lost THEN fails + 1 ELSE fails
          /\ dash' = IF arrives /\ run.id \in Listed
                     THEN [dash EXCEPT !.status[run.id] = run.res] ELSE dash
          /\ unsent' = UnsentAfter(lost)
    /\ run' = [run EXCEPT !.pc = "pick"]
    /\ UNCHANGED <<host, turns, state, overlay, done, applied, desired, pe, failed, file, saver,
                   sync, spawned, up, history, fed>>

\* Requests the dashboard no longer lists are settled.
MutSettled == Ids
Settled == Ids \ run.all

End ==
    /\ run.pc = "pick" /\ run.list = {}
    /\ done' = done \ Settled
    /\ unsent' = [i \in Ids |-> IF i \in done \cap Settled THEN "none" ELSE unsent[i]]
    /\ run' = NoRun
    /\ UNCHANGED history /\ RunOnly

----------------------------------------------------------------------------
(* The file, the firewall guard, the end of the process and its start.     *)

\* noteAddrs saves the state for its own addresses, whatever render saves.
NoteBegin ==
    /\ up /\ saver = NoSave /\ turns < MaxTurns
    /\ saver' = [targets |-> applied]
    /\ turns' = turns + 1
    /\ UNCHANGED <<dash, host, state, overlay, results, applied, desired, pe, failed, file, sync,
                   spawned, run, up, history, fed, fails>>

NoteEnd ==
    /\ saver # NoSave
    /\ file' = saver.targets /\ saver' = NoSave
    /\ UNCHANGED <<world, state, overlay, results, applied, desired, pe, failed, sync, spawned,
                   run, up, history, fed, fails>>

\* The guard's Ensure, when iptables takes the rules again.
Guard ==
    /\ up /\ ~pe
    /\ pe' = TRUE
    /\ UNCHANGED <<world, state, overlay, results, applied, desired, failed, file, saver,
                   sync, spawned, run, up, history, fed, fails>>

Crash ==
    /\ up /\ turns < MaxTurns
    /\ turns' = turns + 1
    /\ up' = FALSE
    /\ base' = {} /\ pending' = {} /\ monitor' = FALSE /\ overlay' = {}
    /\ done' = {} /\ unsent' = [i \in Ids |-> "none"]
    /\ applied' = {} /\ desired' = {} /\ pe' = FALSE /\ failed' = {}
    /\ saver' = NoSave /\ sync' = NoSync /\ spawned' = {} /\ run' = NoRun
    /\ ran' = {} /\ verified' = {} /\ fed' = FALSE
    /\ UNCHANGED <<dash, host, file, proven, fails>>

\* loadFirewallState counts what was saved as enforced, and refuses what it
\* may not close any more; firewall.Init's Ensure follows.
Loaded == {t \in file : host[t] # "protected"}

Start ==
    /\ ~up
    /\ up' = TRUE
    /\ base' = file
    /\ applied' = Loaded /\ desired' = Loaded /\ file' = Loaded
    /\ \/ pe' = TRUE /\ UNCHANGED <<failed, fails>>
       \/ pe' = FALSE /\ failed' \in {{}, Loaded} /\ fails < MaxFails /\ fails' = fails + 1
    /\ UNCHANGED <<world, pending, monitor, overlay, results, saver, sync, spawned, run,
                   history, fed>>

----------------------------------------------------------------------------
(* The world.                                                              *)

\* A person asks for the next request.
Ask ==
    /\ \E i \in Ids :
          /\ dash.status[i] = "none"
          /\ \A j \in Ids : j < i => dash.status[j] # "none"
          /\ \E s \in {"late", "early"} : dash' = [dash EXCEPT !.status[i] = s]
    /\ UNCHANGED <<host, turns, state, overlay, results, applied, desired, pe, failed, file,
                   saver, sync, spawned, run, up, history, fed, fails>>

Turn ==
    /\ turns < MaxTurns
    /\ turns' = turns + 1
    /\ \/ /\ \E t \in Targets, h \in Seen : h # host[t] /\ host' = [host EXCEPT ![t] = h]
          /\ UNCHANGED dash
       \/ /\ dash' = [dash EXCEPT !.monitor = ~@]
          /\ UNCHANGED host
    /\ UNCHANGED <<state, overlay, results, applied, desired, pe, failed, file, saver, sync,
                   spawned, run, up, history, fed, fails>>

Init ==
    /\ dash = [status |-> [i \in Ids |-> "none"], monitor |-> FALSE]
    /\ host = [t \in Targets |-> "clear"]
    /\ base = {} /\ pending = {} /\ monitor = FALSE /\ overlay = {}
    /\ done = {} /\ unsent = [i \in Ids |-> "none"]
    /\ applied = {} /\ desired = {} /\ pe = TRUE /\ failed = {} /\ file = {}
    /\ saver = NoSave /\ sync = NoSync /\ spawned = {} /\ run = NoRun
    /\ up = TRUE /\ ran = {} /\ verified = {} /\ proven = {} /\ fed = FALSE
    /\ turns = 0 /\ fails = 0

RunStep == Pick \/ Read \/ Decide \/ Apply \/ Confirm \/ Verify \/ Undo \/ Report \/ End

Next ==
    \/ SyncFetch \/ SyncApply \/ Begin \/ RunStep
    \/ NoteBegin \/ NoteEnd \/ Guard \/ Crash \/ Start
    \/ Ask \/ Turn

Spec == Init /\ [][Next]_vars

\* The periodic sync comes round, a goroutine runs, systemd restarts the agent.
Fairness ==
    /\ WF_vars(SyncFetch) /\ WF_vars(SyncApply) /\ WF_vars(Begin) /\ WF_vars(RunStep)
    /\ WF_vars(Start)

LiveSpec == Spec /\ Fairness

----------------------------------------------------------------------------
(* Properties.                                                             *)

RunStates == {"idle", "pick", "read", "decide", "apply", "confirm", "verify", "undo", "report"}

\* Every variable keeps its type.
TypeOK ==
    /\ dash \in [status : [Ids -> Status], monitor : BOOLEAN]
    /\ host \in [Targets -> Seen]
    /\ base \subseteq Targets /\ pending \subseteq Ids /\ monitor \in BOOLEAN
    /\ overlay \subseteq Ids /\ done \subseteq Ids /\ unsent \in [Ids -> Results]
    /\ applied \subseteq Targets /\ desired \subseteq Targets /\ pe \in BOOLEAN /\ failed \subseteq Targets
    /\ file \subseteq Targets
    /\ saver \in {NoSave} \cup [targets : SUBSET Targets]
    /\ sync \in {NoSync} \cup [want : SUBSET Targets, listed : SUBSET Ids, monitor : BOOLEAN]
    /\ spawned \subseteq Ids
    /\ run \in [pc : RunStates, list : SUBSET Ids, all : SUBSET Ids, ran : 0..MaxPerSync,
                id : Ids \cup {0}, res : Results, closed : BOOLEAN]
    /\ up \in BOOLEAN /\ fed \in BOOLEAN
    /\ ran \subseteq Ids /\ verified \subseteq Ids /\ proven \subseteq Ids
    /\ turns \in 0..MaxTurns /\ fails \in 0..MaxFails

Trial == IF run.pc \in {"confirm", "verify", "undo"} THEN {Target(run.id)} ELSE {}
Answered(s) == {i \in Ids : dash.status[i] = s}

\* From the first sync of a life on, what the firewall enforces was verified,
\* or is being verified, whatever the dashboard's state has already: a close
\* "only takes effect through the checks and verification of its request".
PendingWaits == fed => desired \subseteq Closes(verified \cup Answered("done")) \cup Trial

\* A request is run once in a life of the process, syncs that cross its result
\* and results sent again included ("instead of running it a second time").
RunsOnce == \A i \in Ids : i \in done' \ done => i \notin ran

\* Applied(i): the request has passed its verification, here or for the dashboard.
Applied(i) == i \in verified \/ dash.status[i] = "done"
Asked(i)   == dash.status[i] # "none"

\* No sync undoes a request that was applied: only a later request on the
\* target does, monitor mode, or a refusal that is final.  An older close
\* whose result has not arrived may come back over a newer open.
KeepsApplied ==
    \A i \in Ids : Applied(i) /\ up /\ up' =>
        LET t     == Target(i)
            later == \E j \in Ids : j > i /\ Target(j) = t /\ Asked(j)
        IN  /\ Kind(i) = "close" /\ t \in desired \ desired'
                  => later \/ monitor' \/ host[t] = "protected"
            /\ Kind(i) = "open" /\ t \in desired' \ desired
                  => later \/ \E j \in pending' : j < i /\ Target(j) = t

\* A step of the agent never runs a request again or undoes an applied one.
AppliedOnce == [][RunsOnce /\ KeepsApplied]_vars

\* Every request is answered, and the agent comes to enforce what the
\* dashboard wants of what it may enforce.
Agrees == /\ Listed = {} /\ desired \subseteq Want
          /\ dash.monitor => desired = {}
          /\ \A t \in Want : host[t] = "clear" /\ ~dash.monitor => t \in desired
Converges == <>[]Agrees

\* "A restart never reopens a port because someone is connected through the
\* DROP" (fwactions.go): a port once verified closed is not left open because
\* of a connection.  It can be: the request whose result had not arrived is
\* held back by the first sync, then refused.
RestartKeepsClosed ==
    [][run.pc = "decide" /\ run'.pc = "report" /\ run'.res = "failed"
          /\ host[Target(run.id)] = "connected" => run.id \notin proven]_vars
=============================================================================
