----------------------------- MODULE PanelAllow -----------------------------
(***************************************************************************)
(* The addresses allowed from a hosting panel (panelAllow, panelDisallow,  *)
(* cmd/infrafence-agent/panel.go) and the outbox of what was done there    *)
(* (panelstate.go).  The panel socket answers a few requests at a time,    *)
(* each in its goroutine: it saves the change, sets the allow list of the  *)
(* firewall from a snapshot, asks for a sync and reports the change, at    *)
(* once or through the outbox.  A sync sets the list too, and sends the    *)
(* outbox after.                                                           *)
(*                                                                         *)
(* The dashboard has a list of its own, and learns from the reports what   *)
(* the panel of this server allows.  A refused request (a loopback         *)
(* address, a full list) changes nothing and is left out, and so are the   *)
(* reports of a ban that is lifted or a scan, which go the same way.       *)
(*                                                                         *)
(* A definition whose name begins with Mut is the one after it with a      *)
(* mistake planted, to see a property fail.                                *)
(***************************************************************************)
EXTENDS Integers, FiniteSets, Sequences

CONSTANTS
    PanelIPs,
    Requests,   \* the requests that are answered at once (maxConns)
    OutboxMax,
    MaxPanelCalls, MaxDashboardEdits, MaxPanelFaults, MaxPanelRestarts, MaxWeeks \* bounds

ASSUME PanelAllowConstants ==
    /\ IsFiniteSet(PanelIPs) /\ IsFiniteSet(Requests) /\ OutboxMax \in Nat \ {0}
    /\ {"nobody", "flush"} \cap Requests = {}  \* the names of the other senders
    /\ {MaxPanelCalls, MaxDashboardEdits, MaxPanelFaults, MaxPanelRestarts, MaxWeeks} \subseteq Nat

VARIABLES
    dashList,   \* the dashboard: its own allow list
    heard,      \* the dashboard: what the panel allows, by the reports it got
    panelAllowed, reports, \* of panelState (outbox)
    kept,       \* their file
    view,       \* the list of the last sync; Unknown before the first
    settled,    \* the same, in the file of the protection state
    listInForce, \* the allow list of the firewall
    request,    \* Requests -> what it is at
    sender,     \* who holds outboxMu
    listSync, flush, \* the sync, the goroutine that sends the outbox after it
    crossed,    \* ghost: addresses two requests changed at once
    unreported, \* ghost: addresses with a report that was dropped or lost
    panelN      \* calls, edits, faults, restarts, weeks so far

panelMemory == <<panelAllowed, reports, view, listInForce, request, sender, listSync, flush>>
panelAllowVars == <<dashList, heard, kept, settled, panelMemory, crossed, unreported, panelN>>

Unknown == [known |-> FALSE, ips |-> {}]
Known(S) == [known |-> TRUE, ips |-> S]
IdleRequest == [pc |-> "idle"]
NobodySends == "nobody"

PanelAllowInit ==
    /\ dashList = {} /\ heard = {} /\ panelAllowed = {} /\ reports = <<>>
    /\ kept = [allowed |-> {}, outbox |-> <<>>]
    /\ view = Unknown /\ settled = Unknown /\ listInForce = {}
    /\ request = [q \in Requests |-> IdleRequest] /\ sender = NobodySends
    /\ listSync = [pc |-> "idle"] /\ flush = "idle"
    /\ crossed = {} /\ unreported = {}
    /\ panelN = [calls |-> 0, edits |-> 0, faults |-> 0, restarts |-> 0, weeks |-> 0]

Count(k, max) == panelN[k] < max /\ panelN' = [panelN EXCEPT ![k] = @ + 1]
PanelFault == Count("faults", MaxPanelFaults)
NoPanelFault == UNCHANGED panelN

EditDashboardList(S) ==
    /\ S # dashList /\ dashList' = S /\ Count("edits", MaxDashboardEdits)
    /\ UNCHANGED <<heard, kept, settled, panelMemory, crossed, unreported>>

----------------------------------------------------------------------------
(* A request.                                                              *)

Busy(ip) == \E q \in Requests : request[q].pc # "idle" /\ request[q].ip = ip

\* The change is kept, or it is not made: a save that fails leaves everything.
Change(q, ip, on, list) ==
    /\ request[q].pc = "idle" /\ Count("calls", MaxPanelCalls)
    /\ panelAllowed' = list
    /\ kept' = [allowed |-> list, outbox |-> reports]
    /\ request' = [request EXCEPT ![q] = [pc |-> "snapshot", ip |-> ip, on |-> on, list |-> {}]]
    /\ crossed' = IF Busy(ip) THEN crossed \cup {ip} ELSE crossed
    /\ UNCHANGED <<dashList, heard, settled, reports, view, listInForce, sender, listSync, flush, unreported>>

\* An address on the list in force already is "already" allowed.
Allow(q, ip)    == ip \notin panelAllowed \cup listInForce /\ Change(q, ip, TRUE, panelAllowed \cup {ip})
Disallow(q, ip) == ip \in panelAllowed /\ Change(q, ip, FALSE, panelAllowed \ {ip})

\* panelApplyAllow: nothing is set before the first sync; then a sync is asked for.
Snapshot(q) ==
    /\ request[q].pc = "snapshot"
    /\ request' = [request EXCEPT ![q].pc = IF view.known THEN "set" ELSE "report",
                                  ![q].list = view.ips \cup panelAllowed]
    /\ UNCHANGED <<dashList, heard, kept, settled, panelAllowed, reports, view, listInForce, sender,
                   listSync, flush, crossed, unreported, panelN>>
SetList(q) ==
    /\ request[q].pc = "set" /\ listInForce' = request[q].list
    /\ request' = [request EXCEPT ![q].pc = "report"]
    /\ UNCHANGED <<dashList, heard, kept, settled, panelAllowed, reports, view, sender, listSync, flush,
                   crossed, unreported, panelN>>

----------------------------------------------------------------------------
(* The reports, one sender at a time.  One that fails may have arrived.     *)

ReportFrame == UNCHANGED <<dashList, settled, panelAllowed, view, listInForce, listSync, crossed>>

\* What the dashboard makes of a report, and of some of the outbox in their order:
\* the last on an address decides.
Heard(S, e) == IF e.on THEN S \cup {e.ip} ELSE S \ {e.ip}
HeardAll(N) ==
    {ip \in PanelIPs :
        \/ ip \in heard /\ \A n \in N : reports[n].ip # ip
        \/ \E n \in N : /\ reports[n].ip = ip /\ reports[n].on
                        /\ \A m \in N : m > n => reports[m].ip # ip}

Save(on) == kept' = IF on THEN [allowed |-> panelAllowed, outbox |-> reports'] ELSE kept
Saves    == (Save(TRUE) /\ NoPanelFault) \/ (Save(FALSE) /\ PanelFault)

\* At the end of the outbox, which forgets its first event when it is full.
Append1(q) ==
    LET s    == Append(reports, [ip |-> request[q].ip, on |-> request[q].on, old |-> FALSE])
        over == Len(s) > OutboxMax
    IN  /\ reports' = IF over THEN Tail(s) ELSE s
        /\ unreported' = IF over THEN unreported \cup {Head(s).ip} ELSE unreported
        /\ request' = [request EXCEPT ![q].pc = "flush"]

MutTellChange(q) ==
    /\ request[q].pc = "report" /\ sender = NobodySends /\ sender' = q
    /\ request' = [request EXCEPT ![q].pc = "send"]
    /\ UNCHANGED <<reports, kept, unreported, panelN>>
    /\ ReportFrame /\ UNCHANGED <<heard, flush>>

\* panelReport: under outboxMu, at once if nothing waits.
TellChange(q) ==
    /\ request[q].pc = "report" /\ sender = NobodySends /\ sender' = q
    /\ \/ /\ reports = <<>> /\ request' = [request EXCEPT ![q].pc = "send"]
          /\ UNCHANGED <<reports, kept, unreported, panelN>>
       \/ reports # <<>> /\ Append1(q) /\ Saves
    /\ ReportFrame /\ UNCHANGED <<heard, flush>>

Send(q) ==
    /\ request[q].pc = "send"
    /\ \/ /\ heard' = Heard(heard, request[q])
          /\ request' = [request EXCEPT ![q] = IdleRequest] /\ sender' = NobodySends
          /\ UNCHANGED <<reports, kept, unreported, panelN>>
       \/ /\ heard' \in {heard, Heard(heard, request[q])}
          /\ Append1(q) /\ Save(TRUE) /\ PanelFault /\ UNCHANGED sender
    /\ ReportFrame /\ UNCHANGED flush

\* flushOutboxLocked: those younger than a week are sent, in their order.
Young == {n \in DOMAIN reports : ~reports[n].old}
Old   == {reports[n].ip : n \in DOMAIN reports \ Young}
Sent == heard' = HeardAll(Young) /\ unreported' = unreported \cup Old /\ NoPanelFault
Gone == heard' \in {heard, HeardAll(Young)} /\ unreported' = unreported /\ PanelFault
Cleared == reports' = <<>> /\ Saves

FlushOf(q) ==
    /\ ReportFrame /\ UNCHANGED flush
    /\ \/ /\ request[q].pc = "flush" /\ Sent
          /\ request' = [request EXCEPT ![q].pc = "clear"] /\ UNCHANGED <<reports, kept, sender>>
       \/ /\ request[q].pc = "flush" /\ Young # {} /\ Gone
          /\ request' = [request EXCEPT ![q] = IdleRequest] /\ sender' = NobodySends
          /\ UNCHANGED <<reports, kept>>
       \/ /\ request[q].pc = "clear" /\ Cleared
          /\ request' = [request EXCEPT ![q] = IdleRequest] /\ sender' = NobodySends
          /\ UNCHANGED <<heard, unreported>>

\* panelFlushOutbox, after a sync: not while a request sends.
FlushAfter ==
    /\ ReportFrame /\ UNCHANGED request
    /\ \/ /\ flush = "try"
          /\ IF sender = NobodySends THEN sender' = "flush" /\ flush' = "flush"
                                     ELSE flush' = "idle" /\ UNCHANGED sender
          /\ UNCHANGED <<heard, unreported, reports, kept, panelN>>
       \/ /\ flush = "flush" /\ reports = <<>>
          /\ flush' = "idle" /\ sender' = NobodySends
          /\ UNCHANGED <<heard, unreported, reports, kept, panelN>>
       \/ /\ flush = "flush" /\ reports # <<>> /\ Sent
          /\ flush' = "clear" /\ UNCHANGED <<reports, kept, sender>>
       \/ /\ flush = "flush" /\ Young # {} /\ Gone
          /\ flush' = "idle" /\ sender' = NobodySends /\ UNCHANGED <<reports, kept>>
       \/ /\ flush = "clear" /\ Cleared
          /\ flush' = "idle" /\ sender' = NobodySends /\ UNCHANGED <<heard, unreported>>

WeekPasses ==
    /\ reports # <<>> /\ sender = NobodySends /\ Count("weeks", MaxWeeks)
    /\ reports' = [n \in DOMAIN reports |-> [reports[n] EXCEPT !.old = TRUE]]
    /\ kept' = [kept EXCEPT !.outbox = [n \in DOMAIN @ |-> [@[n] EXCEPT !.old = TRUE]]]
    /\ UNCHANGED <<dashList, heard, settled, panelAllowed, view, listInForce, request, sender, listSync,
                   flush, crossed, unreported>>

----------------------------------------------------------------------------
(* A sync that succeeds; a restart.                                        *)

ListSync ==
    /\ \/ /\ listSync.pc = "idle"
          /\ view' = Known(dashList) /\ listSync' = [pc |-> "read", list |-> dashList, all |-> {}]
          /\ UNCHANGED <<listInForce, settled, flush>>
       \/ /\ listSync.pc = "read"
          /\ listSync' = [listSync EXCEPT !.pc = "set", !.all = listSync.list \cup panelAllowed]
          /\ UNCHANGED <<view, listInForce, settled, flush>>
       \/ /\ listSync.pc = "set" /\ listInForce' = listSync.all
          /\ listSync' = [listSync EXCEPT !.pc = "end"] /\ UNCHANGED <<view, settled, flush>>
       \/ /\ listSync.pc = "end" /\ settled' = Known(listSync.list)
          /\ listSync' = [pc |-> "idle"] /\ flush' = IF flush = "idle" THEN "try" ELSE flush
          /\ UNCHANGED <<view, listInForce>>
    /\ UNCHANGED <<dashList, heard, kept, panelAllowed, reports, request, sender, crossed, unreported, panelN>>

\* The reports of the requests under way are lost, those that were not in the file
\* too; those that were sent and are in it still are sent again.
Waiting(s) == {s[n].ip : n \in DOMAIN s}
PanelRestart ==
    /\ Count("restarts", MaxPanelRestarts)
    /\ panelAllowed' = kept.allowed /\ reports' = kept.outbox
    /\ view' = Unknown
    /\ listInForce' = IF settled.known THEN settled.ips \cup kept.allowed ELSE {}
    /\ request' = [q \in Requests |-> IdleRequest] /\ sender' = NobodySends
    /\ listSync' = [pc |-> "idle"] /\ flush' = "idle"
    /\ unreported' = unreported
           \cup {request[q].ip : q \in {r \in Requests : request[r].pc \in {"snapshot", "set", "report", "send"}}}
           \cup (IF kept.outbox = reports THEN {} ELSE Waiting(kept.outbox) \cup Waiting(reports))
    /\ UNCHANGED <<dashList, heard, kept, settled, crossed>>

RequestStep(q) == Snapshot(q) \/ SetList(q) \/ TellChange(q) \/ Send(q) \/ FlushOf(q)

PanelAllowNext ==
    \/ \E S \in SUBSET PanelIPs : EditDashboardList(S)
    \/ \E q \in Requests : RequestStep(q) \/ \E ip \in PanelIPs : Allow(q, ip) \/ Disallow(q, ip)
    \/ FlushAfter \/ ListSync \/ WeekPasses \/ PanelRestart

----------------------------------------------------------------------------

PanelReports == [ip : PanelIPs, on : BOOLEAN, old : BOOLEAN]
PanelAllowTypeOK ==
    /\ {dashList, heard, panelAllowed, kept.allowed, listInForce, view.ips, settled.ips} \subseteq SUBSET PanelIPs
    /\ \A s \in {reports, kept.outbox} : s \in Seq(PanelReports) /\ Len(s) <= OutboxMax
    /\ \A q \in Requests :
         /\ request[q].pc \in {"idle", "snapshot", "set", "report", "send", "flush", "clear"}
         /\ request[q].pc \in {"send", "flush", "clear"} <=> sender = q
    /\ flush \in {"flush", "clear"} <=> sender = "flush"
    /\ listSync.pc \in {"idle", "read", "set", "end"}
    /\ crossed \subseteq PanelIPs /\ unreported \subseteq PanelIPs
    /\ panelAllowed = kept.allowed

\* What the dashboard was told, and what waits to be, is what the panel allows: the
\* reports arrive in the order they happened ("an allow still waiting must not arrive
\* after the disallow that followed it"), sent at once or later, or sent twice.
ReportsInOrder ==
    \A ip \in PanelIPs \ (crossed \cup unreported) :
        (\A q \in Requests : request[q].pc \in {"snapshot", "set", "report", "send"} => request[q].ip # ip)
        => (ip \in HeardAll(DOMAIN reports) <=> ip \in panelAllowed)

\* In the end what was allowed, on the dashboard or in the panel, is the list in force,
\* and nothing waits in the outbox.
AllowInForce == listInForce = dashList \cup panelAllowed /\ reports = <<>>
=============================================================================
