----------------------------- MODULE EventQueue -----------------------------
(***************************************************************************)
(* The delivery of events to the dashboard (internal/api/events.go): the   *)
(* queue every watcher adds to, the goroutine (run) that sends it in       *)
(* batches, splits and retries them, the shutdown (Close) and the file     *)
(* that keeps the urgent events from one start to the next.                *)
(*                                                                         *)
(* An event is its number in the order of acceptance; a warning about      *)
(* dropped events has number 0.  The byte budget works as the limit on the *)
(* number of events and is left out.  Time is abstract: a timer that is    *)
(* set may fire at any later moment, and a batch becomes due (ripe) at any *)
(* moment after an event is queued.                                        *)
(*                                                                         *)
(* A definition whose name begins with Mut is the one after it with a      *)
(* mistake planted, to see a property fail.                                *)
(***************************************************************************)
EXTENDS Integers, FiniteSets, Sequences

CONSTANTS
    MaxEvents,    \* bound: events reported
    BatchMax,     \* eventBatchMax
    QueueMax,     \* eventQueueMax
    DropChunk,    \* eventDropChunk
    PoisonTries,  \* eventPoisonTries
    Bad,          \* the events the dashboard refuses for good
    MaxFaults,    \* bound: requests that fail otherwise
    MaxCrashes,   \* bound: ends of the process, by Close or by a crash
    MaxDiskFails  \* bound: failures to write or read the spool

ASSUME SizeAssumption ==
    /\ BatchMax \in Nat \ {0} /\ QueueMax \in Nat \ {0}
    /\ DropChunk \in 1..QueueMax /\ PoisonTries \in Nat \ {0}
ASSUME BoundAssumption ==
    /\ MaxEvents \in Nat /\ MaxFaults \in Nat /\ MaxCrashes \in Nat /\ MaxDiskFails \in Nat
    /\ Bad \subseteq 1..MaxEvents

VARIABLES
    queue,    \* s.queue
    dropped,  \* s.dropped: dropped since the last warning
    stopped,  \* s.stopped
    wake,     \* a token in s.wake
    ripe,     \* the first event has waited long enough (take)
    run,      \* the goroutine: where it is, pending, parts, fails, someDelivered, timers
    waiter,   \* a Flush caller is among run's waiters
    closer,   \* the goroutine that shuts the agent down
    expired,  \* its context has ended
    spool,    \* unsent-events.json
    got,      \* history: the events the dashboard has
    gone,     \* history: the events dropped or refused
    urgent,   \* history: the urgent events
    next, faults, crashes,
    diskFails \* failures to write or read the spool

vars == <<queue, dropped, stopped, wake, ripe, run, waiter, closer, expired, spool,
          got, gone, urgent, next, faults, crashes, diskFails>>
caller == <<waiter, closer, expired>>
shared == <<queue, dropped, ripe>>

Event   == [id: Nat, urgent: BOOLEAN]
Warning == [id |-> 0, urgent |-> FALSE]
Ids(s)  == {s[i].id : i \in DOMAIN s} \ {0}

FreshRun == [pc |-> "loop", pending |-> <<>>, parts |-> <<>>, fails |-> 0,
             delivered |-> FALSE, retry |-> FALSE, due |-> FALSE]

Init ==
    /\ queue = <<>> /\ dropped = 0 /\ stopped = FALSE /\ wake = FALSE /\ ripe = FALSE
    /\ run = FreshRun
    /\ waiter = FALSE /\ closer = "idle" /\ expired = FALSE
    /\ spool = <<>> /\ got = {} /\ gone = {} /\ urgent = {}
    /\ next = 1 /\ faults = 0 /\ crashes = 0 /\ diskFails = 0

---------------------------------------------------------------------------
(* add.                                                                    *)
Oldest(S, k) == {i \in S : Cardinality({j \in S : j < i}) < k}

\* makeRoom: what a full queue drops, the oldest non-urgent ones first.
Out(q) ==
    LET plain == {i \in DOMAIN q : ~q[i].urgent}
    IN  IF Len(q) < QueueMax THEN {}
        ELSE Oldest(plain, DropChunk)
             \cup Oldest(DOMAIN q \ plain, DropChunk - Cardinality(plain))

\* The k-th of a set of positions, and what a queue has at them, in its order.
Nth(S, k)  == CHOOSE i \in S : Cardinality({j \in S : j < i}) = k - 1
Keep(q, S) == [k \in 1..Cardinality(S) |-> q[Nth(S, k)]]

\* The first event, an urgent one and one that fills a batch wake the sender.
Wakes(q, u) == u \/ Len(q) = 1 \/ Len(q) >= BatchMax

Add(u) ==
    /\ ~stopped /\ next <= MaxEvents
    /\ LET out == Out(queue)
       IN  /\ queue' = Append(Keep(queue, DOMAIN queue \ out), [id |-> next, urgent |-> u])
           /\ dropped' = dropped + Cardinality(out)
           /\ gone' = gone \cup ({queue[i].id : i \in out} \ {0})
           /\ ripe' = (ripe /\ 1 \notin out)
    /\ wake' = (wake \/ Wakes(queue', u))
    /\ urgent' = IF u THEN urgent \cup {next} ELSE urgent
    /\ next' = next + 1
    /\ UNCHANGED <<stopped, run, caller, spool, got, faults, crashes, diskFails>>

---------------------------------------------------------------------------
(* run.                                                                    *)
Goto(pc) == run' = [run EXCEPT !.pc = pc]

\* The top of the loop, with take: callers that gave up are forgotten, then
\* a batch is taken when one is due, the queue is full or a caller waits.
Live == waiter /\ ~expired
Warned == IF dropped > 0 THEN Append(queue, Warning) ELSE queue
Due(q) == q # <<>> /\ (Live \/ Len(q) >= BatchMax \/ ripe)

Resend ==
    /\ run.pc = "loop" /\ ~run.retry /\ run.pending # <<>>
    /\ waiter' = Live
    /\ Goto("sending")
    /\ UNCHANGED <<shared, stopped, wake, closer, expired, spool, got, gone, urgent, next, faults, crashes, diskFails>>

Take ==
    /\ run.pc = "loop" /\ ~run.retry /\ run.pending = <<>> /\ Due(Warned)
    /\ waiter' = Live
    /\ LET n == IF Len(Warned) < BatchMax THEN Len(Warned) ELSE BatchMax
       IN  /\ run' = [FreshRun EXCEPT !.pc = "sending", !.pending = SubSeq(Warned, 1, n), !.parts = <<n>>]
           /\ queue' = SubSeq(Warned, n + 1, Len(Warned))
    /\ dropped' = 0 /\ ripe' = FALSE
    /\ UNCHANGED <<stopped, wake, closer, expired, spool, got, gone, urgent, next, faults, crashes, diskFails>>

\* Nothing to send: a caller is told that all was delivered, or run waits.
Answered == Live /\ closer' = "stop" /\ waiter' = FALSE
Rest ==
    /\ run.pc = "loop"
    /\ run.retry \/ (run.pending = <<>> /\ ~Due(Warned))
    /\ IF ~run.retry /\ Warned = <<>> /\ Live
       THEN Answered /\ run' = run
       ELSE /\ waiter' = Live /\ closer' = closer
            /\ run' = [run EXCEPT !.pc = "select", !.due = ~run.retry /\ Warned # <<>>]
    /\ queue' = (IF run.retry THEN queue ELSE Warned)
    /\ dropped' = (IF run.retry THEN dropped ELSE 0)
    /\ UNCHANGED <<ripe, stopped, wake, expired, spool, got, gone, urgent, next, faults, crashes, diskFails>>

Part == SubSeq(run.pending, 1, run.parts[1])
MutCanceled == closer = "done"
Canceled == closer \in {"join", "done"}

\* The first part is done with: delivered or dropped.
Done(r, n) ==
    [r EXCEPT !.pending = SubSeq(@, n + 1, Len(@)), !.parts = Tail(@), !.fails = 0]

\* The dashboard gets the part; its answer comes after, or never.
Arrive ==
    /\ run.pc = "sending" /\ Ids(Part) \cap Bad = {} /\ ~(Ids(Part) \subseteq got)
    /\ got' = got \cup Ids(Part)
    /\ UNCHANGED <<shared, stopped, wake, run, caller, spool, gone, urgent, next, faults, crashes, diskFails>>

SendOK ==
    /\ run.pc = "sending" /\ Ids(Part) \subseteq got
    /\ run' = [Done(run, run.parts[1]) EXCEPT !.pc = "loop", !.delivered = TRUE]
    /\ UNCHANGED <<shared, stopped, wake, caller, spool, got, gone, urgent, next, faults, crashes, diskFails>>

Fault == faults < MaxFaults /\ faults' = faults + 1

Halves(n) == <<n \div 2, n - (n \div 2)>>
Split(r) == [r EXCEPT !.parts = Halves(Head(@)) \o Tail(@), !.fails = 0, !.retry = TRUE, !.pc = "select"]
DropOne(r) == [Done(r, 1) EXCEPT !.retry = TRUE, !.pc = "select"]

\* Refused (400, 413, 422): the part holds an event the dashboard refuses,
\* or is too large.  A server fault (500) that persists is treated alike, but
\* a single event is blamed only when another part was delivered.
Refused(r, one) == IF one THEN DropOne(r) ELSE Split(r)

SendRefused(kind) ==
    /\ run.pc = "sending"
    /\ LET one == run.parts[1] = 1
       IN  /\ \/ kind = "refused" /\ Ids(Part) \cap Bad # {} /\ UNCHANGED faults
              \/ kind = "large" /\ ~one /\ Fault
              \/ kind = "fault" /\ run.fails + 1 >= PoisonTries /\ (one => run.delivered) /\ Fault
           /\ run' = Refused(run, one)
           /\ IF one /\ Part # <<Warning>>
              THEN gone' = gone \cup Ids(Part) /\ dropped' = dropped + 1
              ELSE UNCHANGED <<gone, dropped>>
    /\ UNCHANGED <<queue, ripe, stopped, wake, caller, spool, got, urgent, next, crashes, diskFails>>

\* Any other failure: the same part is sent again later.  A
\* request held back by the refusal backoff ends a Flush.
SendFailed(kind) ==
    /\ run.pc = "sending" /\ Fault
    /\ kind = "fault" => run.fails + 1 < PoisonTries \/ (run.parts[1] = 1 /\ ~run.delivered)
    /\ run' = [run EXCEPT !.fails = @ + 1, !.retry = TRUE, !.pc = "select"]
    /\ IF kind = "held" /\ waiter /\ closer = "wait"
       THEN waiter' = FALSE /\ closer' = "stop" ELSE UNCHANGED <<waiter, closer>>
    /\ UNCHANGED <<shared, stopped, wake, expired, spool, got, gone, urgent, next, crashes, diskFails>>

\* spool: the urgent events of pending and of the queue, the newest QueueMax.
Urgent(s) == Keep(s, {i \in DOMAIN s : s[i].urgent})
Newest(s) == IF Len(s) <= QueueMax THEN s ELSE SubSeq(s, Len(s) - QueueMax + 1, Len(s))
MutUnsent == Urgent(queue)
Unsent == Newest(Urgent(run.pending \o queue))

DiskFault == diskFails < MaxDiskFails /\ diskFails' = diskFails + 1

\* writeSpool may fail: the events are logged as not saved, and go.
EndRun ==
    /\ \/ spool' = (IF Unsent = <<>> THEN spool ELSE Unsent) /\ UNCHANGED diskFails
       \/ Unsent # <<>> /\ DiskFault /\ UNCHANGED spool
    /\ Goto("stopped")
    /\ UNCHANGED <<shared, stopped, wake, caller, got, gone, urgent, next, faults, crashes>>

\* A send abandoned because the sender stops.
SendCanceled ==
    /\ run.pc = "sending" /\ Canceled
    /\ EndRun

(* The select at the end of the loop.                                      *)
SelectStop == run.pc = "select" /\ Canceled /\ EndRun

SelectFlush ==
    /\ run.pc = "select" /\ closer = "ask"
    /\ waiter' = TRUE /\ closer' = "wait"
    /\ run' = [run EXCEPT !.pc = "loop", !.retry = FALSE]
    /\ UNCHANGED <<shared, stopped, wake, expired, spool, got, gone, urgent, next, faults, crashes, diskFails>>

SelectTimer ==
    /\ run.pc = "select"
    /\ run.retry \/ (run.due /\ ripe)
    /\ run' = [run EXCEPT !.pc = "loop", !.retry = FALSE]
    /\ UNCHANGED <<shared, stopped, wake, caller, spool, got, gone, urgent, next, faults, crashes, diskFails>>

SelectWake ==
    /\ run.pc = "select" /\ wake
    /\ wake' = FALSE
    /\ Goto("loop")
    /\ UNCHANGED <<shared, stopped, caller, spool, got, gone, urgent, next, faults, crashes, diskFails>>

\* eventFlushEvery or eventUrgentGap passes for the timer set at the bottom of
\* the loop; without a timer (an empty queue then) only wake is left.
Ripen ==
    /\ ~ripe /\ queue # <<>>
    /\ ripe' = TRUE
    /\ UNCHANGED <<queue, dropped, stopped, wake, run, caller, spool, got, gone, urgent, next, faults, crashes, diskFails>>

---------------------------------------------------------------------------
(* Close: Flush within its context, then stop and wait.                    *)
Close ==
    /\ closer = "idle" /\ crashes < MaxCrashes
    /\ closer' = "ask"
    /\ UNCHANGED <<shared, stopped, wake, run, waiter, expired, spool, got, gone, urgent, next, faults, crashes, diskFails>>

Expire ==
    /\ closer \in {"ask", "wait"}
    /\ expired' = TRUE /\ closer' = "stop"
    /\ UNCHANGED <<shared, stopped, wake, run, waiter, spool, got, gone, urgent, next, faults, crashes, diskFails>>

MarkStopped ==
    /\ closer = "stop"
    /\ stopped' = TRUE /\ closer' = "signal"
    /\ UNCHANGED <<shared, wake, run, waiter, expired, spool, got, gone, urgent, next, faults, crashes, diskFails>>

Signal ==
    /\ closer = "signal"
    /\ closer' = "join"
    /\ UNCHANGED <<shared, stopped, wake, run, waiter, expired, spool, got, gone, urgent, next, faults, crashes, diskFails>>

Join ==
    /\ closer = "join" /\ run.pc = "stopped"
    /\ closer' = "done"
    /\ UNCHANGED <<shared, stopped, wake, run, waiter, expired, spool, got, gone, urgent, next, faults, crashes, diskFails>>

\* The process ends, by a crash at any point or after Close; the next one
\* reads the spool (readSpool), removes it, readable or not, and queues first
\* what it read.
Restart ==
    /\ crashes < MaxCrashes /\ crashes' = crashes + 1
    /\ \/ queue' = spool /\ UNCHANGED diskFails
       \/ spool # <<>> /\ queue' = <<>> /\ DiskFault
    /\ spool' = <<>>
    /\ wake' = (queue' # <<>>) /\ ripe' = FALSE
    /\ dropped' = 0 /\ stopped' = FALSE /\ run' = FreshRun
    /\ waiter' = FALSE /\ closer' = "idle" /\ expired' = FALSE
    /\ UNCHANGED <<got, gone, urgent, next, faults>>

---------------------------------------------------------------------------
Failures == {"fault", "down", "held"}
RunStep ==
    \/ Resend \/ Take \/ Rest
    \/ Arrive \/ SendOK \/ (\E kind \in {"refused", "large", "fault"} : SendRefused(kind))
    \/ (\E kind \in Failures : SendFailed(kind))
    \/ SendCanceled
    \/ SelectStop \/ SelectFlush \/ SelectTimer \/ SelectWake
CloserStep == Expire \/ MarkStopped \/ Signal \/ Join

Next ==
    \/ \E u \in BOOLEAN : Add(u)
    \/ RunStep \/ Ripen
    \/ Close \/ CloserStep \/ Restart

Spec == Init /\ [][Next]_vars

(* The goroutine runs, timers fire, and the context of Close ends.         *)
Fairness == WF_vars(RunStep) /\ WF_vars(Ripen) /\ WF_vars(CloserStep)
LiveSpec == Spec /\ Fairness

---------------------------------------------------------------------------
(* Properties.                                                             *)
\* The parts still to send are exactly what is pending, through every split,
\* drop and delivery (a wrong part would send too much, or nothing for ever).
\* end[k]: how many events the first k parts hold.
PartsArePending ==
    LET all == Len(run.pending)  last == Len(run.parts)
    IN  \E end \in [0..last -> 0..all] :
          /\ end[0] = 0 /\ end[last] = all
          /\ \A j, k \in 0..last : j < k => end[j] < end[k]
          /\ \A k \in 1..last : run.parts[k] = end[k] - end[k - 1]

\* The type of each variable, and the parts of the sender's batch.
TypeOK ==
    /\ queue \in Seq(Event) /\ spool \in Seq(Event)
    /\ dropped \in Nat /\ stopped \in BOOLEAN /\ wake \in BOOLEAN /\ ripe \in BOOLEAN
    /\ run \in [pc: {"loop", "sending", "select", "stopped"}, pending: Seq(Event),
                parts: Seq(Nat \ {0}), fails: Nat, delivered: BOOLEAN, retry: BOOLEAN, due: BOOLEAN]
    /\ PartsArePending
    /\ waiter \in BOOLEAN /\ expired \in BOOLEAN
    /\ closer \in {"idle", "ask", "wait", "stop", "signal", "join", "done"}
    /\ UNION {got, gone, urgent} \subseteq 1..MaxEvents
    /\ next \in 1..(MaxEvents + 1) /\ faults \in 0..MaxFaults /\ crashes \in 0..MaxCrashes
    /\ diskFails \in 0..MaxDiskFails

\* An urgent event makes room for another only when every event queued is
\* urgent: a flood of others cannot push it out (makeRoom).
UrgentMakesRoomLast ==
    [][next' # next => \A e \in (gone' \ gone) \cap urgent :
          \A i \in 1..(Len(queue') - 1) : queue'[i].urgent]_vars

\* What became of each event, for EventDelivery.
Fate(e) ==
    CASE e \in got -> "delivered"
      [] e \in Ids(run.pending \o queue) \ got /\ run.pc # "stopped" -> "waiting"
      [] e \in Ids(spool) \ got -> "kept"
      [] e \in gone \ got -> "dropped"
      [] e >= next -> "none"
      [] OTHER -> "lost"

\* The process, for EventDelivery: down when run has stopped or Close has returned.
Phase == IF run.pc = "stopped" \/ closer = "done" THEN "down"
         ELSE IF closer = "idle" THEN "up" ELSE "closing"

\* The sender does what it promises: every event is delivered in order or
\* dropped and counted, and only for a full queue, a refusal of that event or
\* a fault of the dashboard; the urgent ones survive a shutdown; and what
\* waits is lost by the end of the process or a failing disk alone, whatever
\* is split, retried, refused or cut short.  And a full queue drops in the
\* order makeRoom promises.
Delivery == INSTANCE EventDelivery WITH
    N <- MaxEvents, SpoolMax <- QueueMax,
    fate <- [e \in 1..MaxEvents |-> Fate(e)], urgent <- urgent,
    phase <- Phase, starts <- crashes
DeliveryKept == Delivery!Spec /\ UrgentMakesRoomLast

\* Every event reported is in the end delivered, dropped, kept or, by a
\* failing disk or a crash, lost: no event waits behind a sender that sleeps (a
\* lost wake, a part never sent).
NoneWaitsForEver == \A e \in 1..MaxEvents : []<>(Fate(e) # "waiting")

\* A shutdown ends, although Close meets run in the middle of a send, a
\* retry or a flush.
CloseEnds == []<>(closer \in {"done", "idle"})

\* Neither an event nor a shutdown waits for ever.
SenderAnswers == NoneWaitsForEver /\ CloseEnds
=============================================================================
