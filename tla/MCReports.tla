----------------------------- MODULE MCReports -----------------------------
(* What the agent reports, on small instances: the queue of the events,    *)
(* the outbox of its own bans and what is allowed from a hosting panel.    *)
(* They share no state: one of them, which, runs in a behaviour, and the   *)
(* others stay as they began.                                              *)
EXTENDS EventQueue, BanOutbox, PanelAllow

CONSTANTS i1, i2, w1, w2

VARIABLE which

reportVars == <<which, vars, outboxVars, panelAllowVars>>

\* One address banned by two watchers; one address banned twice, with a
\* restart; two addresses that share an outbox of one.
Rivals == [ips |-> {i1}, watchers |-> {w1, w2}, outbox |-> 2,
           detects |-> 2, lifts |-> 2, fails |-> 1, restarts |-> 0]
Reload == [ips |-> {i1}, watchers |-> {w1}, outbox |-> 2,
           detects |-> 2, lifts |-> 1, fails |-> 1, restarts |-> 1]
Crowd  == [ips |-> {i1, i2}, watchers |-> {w1}, outbox |-> 1,
           detects |-> 2, lifts |-> 1, fails |-> 1, restarts |-> 0]
AllSizes == {Rivals, Reload, Crowd}

ReportsInit ==
    /\ which \in {"events", "outbox", "panel"}
    /\ Init /\ OutboxInit /\ PanelAllowInit
    /\ which # "outbox" => size = Rivals

ReportsNext ==
    /\ UNCHANGED which
    /\ \/ which = "events" /\ Next /\ UNCHANGED <<outboxVars, panelAllowVars>>
       \/ which = "outbox" /\ OutboxNext /\ UNCHANGED <<vars, panelAllowVars>>
       \/ which = "panel"  /\ PanelAllowNext /\ UNCHANGED <<vars, outboxVars>>

\* The fairness of the component that runs: its first thread, its second, its third.
Runs(n) ==
    CASE which = "events" -> (n = 1 /\ RunStep) \/ (n = 2 /\ Ripen) \/ (n = 3 /\ CloserStep)
      [] which = "panel" ->
           (n = 1 /\ \E q \in Requests : RequestStep(q)) \/ (n = 2 /\ FlushAfter) \/ (n = 3 /\ ListSync)
      [] OTHER ->
           /\ UNCHANGED size
           /\ (n = 1 /\ SyncStep) \/ (n = 2 /\ WatcherStep(w1)) \/ (n = 3 /\ WatcherStep(w2))
runVars == CASE which = "events" -> vars [] which = "panel" -> panelAllowVars [] OTHER -> outboxVars

ReportsLive ==
    /\ ReportsInit /\ [][ReportsNext]_reportVars
    /\ \A n \in 1..3 : WF_runVars(UNCHANGED which /\ Runs(n))

----------------------------------------------------------------------------

\* The variables keep their types, and what the panel reports is told in order.
ReportsHold == TypeOK /\ OutboxTypeOK /\ PanelAllowTypeOK /\ ReportsInOrder

\* Nothing reported waits for ever: an event is delivered, dropped or kept over
\* a shutdown, a shutdown ends, a local ban is reported, refused or lifted, and
\* what a panel allowed is in force and reported.
NothingWaits == SenderAnswers /\ WaitingIsResolved /\ (which = "panel" => <>[]AllowInForce)
=============================================================================
