----------------------------- MODULE PushSignals -----------------------------
(***************************************************************************)
(* The push channel.  First the dashboard's signals "configuration         *)
(* changed" (internal/realtime): one subscription, joined again after      *)
(* every break, whose signals ask syncRunner for a sync                    *)
(* (cmd/infrafence-agent/syncrunner.go).  A signal has no content: what    *)
(* counts is that a sync is asked for after every change, without the help *)
(* of the heartbeat and the periodic sync, which are left out here.        *)
(*                                                                         *)
(* The connection keeps its messages in order until it breaks; a broken    *)
(* one is noticed when nothing has been read for readTimeout.  Topics are  *)
(* numbered; the heartbeat's reply names the current one.                  *)
(*                                                                         *)
(* Then the connection to the dashboard's websocket server (internal/ws):  *)
(* dial, authentication of the channel over HTTP, subscription, messages,  *)
(* and the waits in between, under the gate every request waits on.  Its   *)
(* unit of time is the shortest wait after a refusal, a minute; the waits  *)
(* after other failures, at most half of it, are over within one.          *)
(*                                                                         *)
(* A definition whose name begins with Mut is the one after it with a      *)
(* mistake planted, to see a property fail.                                *)
(***************************************************************************)
EXTENDS Integers, Sequences, SequencesExt

CONSTANTS
    MaxBackoff, \* maxBackoff, in units of minBackoff
    LongestWait,    \* backoff.Max, in minutes
    MaxEdits, MaxMoves, MaxBreaks, \* bounds: changes, topics, breaks and failed syncs
    MaxGate, MaxRefusals \* bounds: waits of the gate, refusals counted

ASSUME SignalsAssumption == MaxBackoff \in Nat \ {0}
ASSUME SignalsBounds == {MaxEdits, MaxMoves, MaxBreaks} \subseteq Nat
ASSUME ConnectionAssumption ==
    LongestWait \in Nat \ {0} /\ MaxGate \in Nat /\ MaxRefusals \in Nat \ {0}

VARIABLES
    edition, topic,  \* the dashboard: its configuration, the agent's topic
    joinAt,     \* the server: 0, 1 (join received), 2 (joined)
    link,       \* Run and session: "wait", "open", "joined"
    mine,       \* the topic of its Config
    works, mail,     \* the connection: not broken, messages on the way
    wait, backoff,
    syncAsked,      \* requests: a token is in the channel
    loop,       \* Loop: "idle", "soon" (debounce), "syncing"
    fetching, fetched, \* what a sync read last, and what one that worked read last
    failed,     \* the last sync that ended failed
    breaksN,
    stage,      \* Run and connect: "out", "open", "auth", "subscribed"
    delay,      \* the wait of Run
    gateWait,   \* Gate.Wait
    refusals, authOK,
    spent       \* history: time since the last refusal of those in a row

signalVars == <<edition, topic, joinAt, link, mine, works, mail, wait, backoff, syncAsked,
                loop, fetching, fetched, failed, breaksN>>
sessionState == <<joinAt, link, mine, works, mail, wait, backoff>>
runner  == <<loop, fetching, fetched, failed>>
connectionVars == <<stage, delay, gateWait, refusals, authOK, spent>>

SignalsInit ==
    /\ edition = 0 /\ topic = 0 /\ joinAt = 0
    /\ link = "wait" /\ mine = 0 /\ works = FALSE /\ mail = <<>> /\ wait = 0 /\ backoff = 1
    /\ syncAsked = FALSE /\ loop = "idle" /\ fetching = 0 /\ fetched = 0
    /\ failed = FALSE /\ breaksN = 0

----------------------------------------------------------------------------
(* The dashboard and the server.                                           *)

Heard == works /\ joinAt = 2 /\ mine = topic

\* A change, broadcast to who has joined.
Edit ==
    /\ edition < MaxEdits /\ edition' = edition + 1
    /\ mail' = IF Heard THEN Append(mail, "broadcast") ELSE mail
    /\ UNCHANGED <<topic, joinAt, link, mine, works, wait, backoff, syncAsked, runner, breaksN>>

\* Another topic (or address, or key) for the agent.
Move ==
    /\ topic < MaxMoves /\ topic' = topic + 1
    /\ UNCHANGED <<edition, sessionState, syncAsked, runner, breaksN>>

\* The join is taken; its reply comes before any broadcast after it.
Join ==
    /\ works /\ joinAt = 1 /\ joinAt' = 2 /\ mail' = Append(mail, "ok")
    /\ UNCHANGED <<edition, topic, link, mine, works, wait, backoff, syncAsked, runner, breaksN>>

\* The join is refused, the channel closed (phx_close, phx_error), or the
\* connection breaks and what is on the way is lost.
Break ==
    /\ works /\ breaksN < MaxBreaks /\ breaksN' = breaksN + 1
    /\ \/ mail' = Append(mail, "close") /\ UNCHANGED works
       \/ works' = FALSE /\ \E n \in 0..Len(mail) : mail' = SubSeq(mail, 1, n)
    /\ joinAt' = 0
    /\ UNCHANGED <<edition, topic, link, mine, wait, backoff, syncAsked, runner>>

----------------------------------------------------------------------------
(* Run and session.                                                        *)

ChannelTick ==
    /\ wait > 0 /\ wait' = wait - 1
    /\ UNCHANGED <<edition, topic, joinAt, link, mine, works, mail, backoff, syncAsked, runner, breaksN>>

Dial ==
    /\ link = "wait" /\ wait = 0 /\ link' = "open" /\ works' = TRUE /\ joinAt' = 1
    /\ UNCHANGED <<edition, topic, mine, mail, wait, backoff, syncAsked, runner, breaksN>>

\* The session ended: half of the backoff to all of it, then twice as much;
\* a session of more than five minutes starts over.
Ended(long) ==
    /\ link' = "wait" /\ works' = FALSE /\ joinAt' = 0 /\ mail' = <<>>
    /\ LET first == IF long THEN 1 ELSE backoff
       IN /\ wait' \in ((first + 1) \div 2)..first
          /\ backoff' = IF 2 * first > MaxBackoff THEN MaxBackoff ELSE 2 * first

\* Nothing to read until the deadline, or a write that failed.
TimedOut ==
    /\ link # "wait" /\ ~works /\ mail = <<>>
    /\ \E long \in BOOLEAN : Ended(long)
    /\ UNCHANGED <<edition, topic, mine, syncAsked, runner, breaksN>>

DialFails ==
    /\ link = "wait" /\ wait = 0 /\ breaksN < MaxBreaks /\ breaksN' = breaksN + 1
    /\ Ended(FALSE)
    /\ UNCHANGED <<edition, topic, mine, syncAsked, runner>>

\* A message: Request of "resubscribed" or of the event.
MutRead ==
    /\ link # "wait" /\ mail # <<>>
    /\ \/ /\ Head(mail) = "close" /\ \E long \in BOOLEAN : Ended(long)
          /\ UNCHANGED syncAsked
       \/ /\ Head(mail) # "close" /\ mail' = Tail(mail)
          /\ link' = IF Head(mail) = "ok" THEN "joined" ELSE link
          /\ syncAsked' = (syncAsked \/ Head(mail) = "broadcast")
          /\ UNCHANGED <<joinAt, works, wait, backoff>>
    /\ UNCHANGED <<edition, topic, mine, runner, breaksN>>

Read ==
    /\ link # "wait" /\ mail # <<>>
    /\ \/ /\ Head(mail) = "close" /\ \E long \in BOOLEAN : Ended(long)
          /\ UNCHANGED syncAsked
       \/ /\ Head(mail) # "close" /\ mail' = Tail(mail)
          /\ link' = IF Head(mail) = "ok" THEN "joined" ELSE link
          /\ syncAsked' = TRUE
          /\ UNCHANGED <<joinAt, works, wait, backoff>>
    /\ UNCHANGED <<edition, topic, mine, runner, breaksN>>

\* pushListener.Apply, with the heartbeat's reply: the client of the old
\* topic is cancelled, one of the new topic started.
ApplyPush ==
    /\ mine # topic /\ mine' = topic
    /\ link' = "wait" /\ works' = FALSE /\ joinAt' = 0 /\ mail' = <<>> /\ wait' = 0 /\ backoff' = 1
    /\ UNCHANGED <<edition, topic, syncAsked, runner, breaksN>>

----------------------------------------------------------------------------
(* syncRunner.Loop                                                         *)

Wake ==
    /\ loop = "idle" /\ syncAsked /\ syncAsked' = FALSE /\ loop' = "soon"
    /\ UNCHANGED <<edition, topic, sessionState, fetching, fetched, failed, breaksN>>

\* What was asked for during the debounce is covered by the sync.
SyncStart ==
    /\ loop = "soon" /\ loop' = "syncing" /\ syncAsked' = FALSE /\ fetching' = edition
    /\ UNCHANGED <<edition, topic, sessionState, fetched, failed, breaksN>>

SyncEnd ==
    /\ loop = "syncing" /\ loop' = "idle" /\ fetched' = fetching /\ failed' = FALSE
    /\ UNCHANGED <<edition, topic, sessionState, syncAsked, fetching, breaksN>>

\* Loop drops the error: nothing is asked for again.
SyncFails ==
    /\ loop = "syncing" /\ loop' = "idle" /\ failed' = TRUE
    /\ breaksN < MaxBreaks /\ breaksN' = breaksN + 1
    /\ UNCHANGED <<edition, topic, sessionState, syncAsked, fetching, fetched>>

SignalsNext ==
    \/ Edit \/ Move \/ Join \/ Break \/ ChannelTick \/ Dial \/ TimedOut \/ DialFails \/ Read
    \/ ApplyPush \/ Wake \/ SyncStart \/ SyncEnd \/ SyncFails

SignalsSpec == SignalsInit /\ [][SignalsNext]_signalVars

\* The server takes a join, heartbeats bring the topic, time passes, and the
\* agent's goroutines run.  Changes and breaks need not happen.
SignalsFairness ==
    /\ WF_signalVars(Join) /\ WF_signalVars(ApplyPush)
    /\ WF_signalVars(ChannelTick) /\ WF_signalVars(Dial)
    /\ WF_signalVars(TimedOut) /\ WF_signalVars(Read)
    /\ WF_signalVars(Wake \/ SyncStart \/ SyncEnd \/ SyncFails)

----------------------------------------------------------------------------

SignalsTypeOK ==
    /\ edition \in 0..MaxEdits /\ topic \in 0..MaxMoves /\ mine \in 0..topic
    /\ joinAt \in 0..2 /\ link \in {"wait", "open", "joined"} /\ works \in BOOLEAN
    /\ mail \in Seq({"ok", "broadcast", "close"})
    /\ backoff \in 1..MaxBackoff /\ wait \in 0..MaxBackoff /\ syncAsked \in BOOLEAN
    /\ loop \in {"idle", "soon", "syncing"} /\ fetching \in 0..edition /\ fetched \in 0..fetching
    /\ failed \in BOOLEAN
    /\ link = "wait" => mail = <<>> /\ ~works

\* realtime.go: while the channel is joined, a change no sync has applied is on its
\* way as a signal, asked for, about to be fetched, or was fetched by the last sync,
\* which runs or has failed; what changed while it was not joined is too.
NoChangeMissed ==
    (link = "joined" /\ Heard /\ fetched # edition) =>
        \/ syncAsked \/ loop = "soon"
        \/ fetching = edition /\ (loop = "syncing" \/ failed)
        \/ ToSet(mail) \cap {"broadcast", "close"} # {}

\* Signals alone bring the last change to a sync, and the agent has it unless that
\* sync failed: then nothing asks for another before the heartbeat's version or the
\* periodic sync does.
SignalsSuffice == fetched = edition \/ (fetching = edition /\ failed)

----------------------------------------------------------------------------
(* The connection to the websocket server.                                 *)

\* backoff.Delay, without what chance adds: Min << (n - 1), at most Max.
Doubled == <<1, 2, 4, 8, 16, 32>>
DelayAfter == [n \in 1..MaxRefusals |-> IF n <= 6 /\ Doubled[n] < LongestWait
                                          THEN Doubled[n] ELSE LongestWait]

ConnectionInit ==
    /\ stage = "out" /\ delay = 0 /\ gateWait = 0 /\ refusals = 0 /\ authOK = FALSE
    /\ spent = 0

\* Another request was refused: the gate waits.
GateRefuses ==
    /\ gateWait = 0 /\ gateWait' \in 1..MaxGate
    /\ UNCHANGED <<stage, delay, refusals, authOK, spent>>

Minute ==
    /\ delay' = IF delay > 0 THEN delay - 1 ELSE 0
    /\ gateWait' = IF gateWait > 0 THEN gateWait - 1 ELSE 0
    /\ spent' = IF refusals > 0 /\ spent < LongestWait THEN spent + 1 ELSE spent
    /\ UNCHANGED <<stage, refusals, authOK>>

\* connect, once the gate and the wait of Run are over.
Dialled ==
    /\ stage = "out" /\ delay = 0 /\ gateWait = 0 /\ stage' = "open"
    /\ UNCHANGED <<delay, gateWait, refusals, authOK, spent>>

\* handleConnectionEstablished sends the request; until its answer no message
\* is read.
AskAuth ==
    /\ stage = "open" /\ stage' = "auth"
    /\ UNCHANGED <<delay, gateWait, refusals, authOK, spent>>

AuthAccepted ==
    /\ stage = "auth" /\ stage' = "subscribed" /\ authOK' = TRUE
    /\ UNCHANGED <<delay, gateWait, refusals, spent>>

\* connect returned: an authentication that succeeded starts the refusals over.
Returned == IF authOK THEN 0 ELSE refusals

AuthRefused ==
    /\ stage = "auth" /\ stage' = "out" /\ authOK' = FALSE
    /\ refusals' = IF Returned = MaxRefusals THEN Returned ELSE Returned + 1
    /\ delay' = DelayAfter[refusals'] /\ spent' = 0
    /\ UNCHANGED gateWait

\* A dial, an authentication or a connection that failed otherwise; the wait
\* ends within a unit.
Disconnected ==
    /\ \/ stage = "out" /\ delay = 0 /\ gateWait = 0
       \/ stage # "out"
    /\ stage' = "out" /\ refusals' = Returned /\ authOK' = FALSE
    /\ spent' = IF Returned = 0 THEN 0 ELSE spent
    /\ UNCHANGED <<delay, gateWait>>

ConnectionNext ==
    \/ GateRefuses \/ Minute \/ Dialled \/ AskAuth \/ AuthAccepted
    \/ AuthRefused \/ Disconnected

ConnectionSpec == ConnectionInit /\ [][ConnectionNext]_connectionVars

----------------------------------------------------------------------------

ConnectionTypeOK ==
    /\ stage \in {"out", "open", "auth", "subscribed"} /\ delay \in 0..LongestWait
    /\ gateWait \in 0..MaxGate /\ refusals \in 0..MaxRefusals /\ authOK \in BOOLEAN
    /\ spent \in 0..LongestWait
    /\ stage = "subscribed" => authOK

\* ws/client.go: refusals in a row of the channel's authentication come no
\* faster than the backoff allows, whatever else fails in between.
RefusalsSpaced ==
    [][stage = "auth" /\ stage' = "out" /\ refusals' > 1 =>
         spent >= DelayAfter[refusals]]_connectionVars

\* A subscription that worked ends them: the next refusal waits the least.
WorkedStartsOver ==
    [][stage = "subscribed" /\ stage' = "out" => refusals' = 0]_connectionVars
=============================================================================
