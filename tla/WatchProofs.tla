---------------------------- MODULE WatchProofs -----------------------------
(***************************************************************************)
(* Theorems about components of MCWatch, for any times, limits, users and  *)
(* addresses: PushSignals, which misses no change and spaces its retries;  *)
(* FirewallGuard, whose repairs are spaced but not put off; LoginHistory,  *)
(* which keeps the persons; WebWatch, WebServerEdits, MalwareScans and     *)
(* HostAlarms, whose invariants make WebSafe.  What of them is a property  *)
(* of MCWatch is then proved of the composition.                           *)
(***************************************************************************)
EXTENDS MCWatch, SequenceTheorems, FiniteSetTheorems, WellFoundedInduction, TLAPS

----------------------------------------------------------------------------
(* PushSignals.                                                            *)

\* What makes NoChangeMissed inductive: from the dial to the join nothing is on the
\* way, so that the reply of the join is the first message of a session and the sync
\* it asks for is later than every change the session did not hear of.
JoinIsFirst == joinAt = 1 => link = "open" /\ mail = <<>>

SignalsInv == SignalsTypeOK /\ JoinIsFirst /\ NoChangeMissed

Messages == {"ok", "broadcast", "close"}

LEMMA SignalsInitially == SignalsInit => SignalsInv
<1> SUFFICES ASSUME SignalsInit PROVE SignalsInv
  OBVIOUS
<1>1. SignalsTypeOK
  <2>1. /\ 0 \in 0..MaxEdits /\ 0 \in 0..MaxMoves /\ 1 \in 1..MaxBackoff /\ 0 \in 0..MaxBackoff
        /\ 0 \in 0..0 /\ 0 \in 0..2 /\ <<>> \in Seq({"ok", "broadcast", "close"})
    BY SignalsAssumption, SignalsBounds
  <2> QED BY <2>1 DEF SignalsInit, SignalsTypeOK
<1>2. JoinIsFirst /\ NoChangeMissed
  BY DEF SignalsInit, JoinIsFirst, NoChangeMissed
<1> QED BY <1>1, <1>2 DEF SignalsInv

\* A message that is appended is there, with those before it.
LEMMA Sent ==
    ASSUME mail \in Seq(Messages), NEW m \in Messages
    PROVE  /\ Append(mail, m) \in Seq(Messages)
           /\ ToSet(Append(mail, m)) = ToSet(mail) \cup {m}
<1>1. Append(mail, m) \in Seq(Messages)
  OBVIOUS
<1>2. /\ Len(Append(mail, m)) = Len(mail) + 1
      /\ \A i \in 1..Len(mail) : Append(mail, m)[i] = mail[i]
      /\ Append(mail, m)[Len(mail) + 1] = m
      /\ Len(mail) \in Nat
  OBVIOUS
<1>3. /\ DOMAIN Append(mail, m) = 1..Len(mail) + 1 /\ DOMAIN mail = 1..Len(mail)
      /\ 1..Len(mail) + 1 = (1..Len(mail)) \cup {Len(mail) + 1}
  BY <1>1, <1>2
<1> QED BY <1>1, <1>2, <1>3 DEF ToSet

\* A message that is not the head of those on the way stays on the way.
LEMMA Received ==
    ASSUME mail \in Seq(Messages), mail # <<>>
    PROVE  /\ Head(mail) \in Messages /\ Tail(mail) \in Seq(Messages)
           /\ ToSet(mail) = {Head(mail)} \cup ToSet(Tail(mail))
<1>1. /\ Head(mail) = mail[1] /\ Head(mail) \in Messages /\ Tail(mail) \in Seq(Messages)
      /\ Len(Tail(mail)) = Len(mail) - 1 /\ Len(mail) \in Nat \ {0}
      /\ \A i \in 1..Len(Tail(mail)) : Tail(mail)[i] = mail[i + 1]
  OBVIOUS
<1>2. DOMAIN mail = 1..Len(mail) /\ DOMAIN Tail(mail) = 1..Len(mail) - 1
  BY <1>1
<1>3. ASSUME NEW x \in ToSet(mail) PROVE x \in {Head(mail)} \cup ToSet(Tail(mail))
  <2>1. PICK i \in 1..Len(mail) : x = mail[i]
    BY <1>2, <1>3 DEF ToSet
  <2>2. CASE i = 1
    BY <1>1, <2>1, <2>2
  <2>3. CASE i # 1
    <3>1. i - 1 \in 1..Len(mail) - 1 /\ Tail(mail)[i - 1] = mail[i]
      BY <1>1, <2>1, <2>3
    <3> QED BY <1>2, <2>1, <3>1 DEF ToSet
  <2> QED BY <2>2, <2>3
<1>4. ASSUME NEW x \in {Head(mail)} \cup ToSet(Tail(mail)) PROVE x \in ToSet(mail)
  <2>1. CASE x = Head(mail)
    BY <1>1, <1>2, <2>1 DEF ToSet
  <2>2. CASE x \in ToSet(Tail(mail))
    <3>1. PICK i \in 1..Len(mail) - 1 : x = Tail(mail)[i]
      BY <1>2, <2>2 DEF ToSet
    <3>2. i + 1 \in 1..Len(mail) /\ x = mail[i + 1]
      BY <1>1, <3>1
    <3> QED BY <1>2, <3>2 DEF ToSet
  <2> QED BY <1>4, <2>1, <2>2
<1> QED BY <1>1, <1>3, <1>4

\* A session that ended leaves nothing on the way and a backoff within its limit.
LEMMA EndedType ==
    ASSUME SignalsTypeOK, NEW long \in BOOLEAN, Ended(long)
    PROVE  /\ wait' \in 0..MaxBackoff /\ backoff' \in 1..MaxBackoff
           /\ link' = "wait" /\ mail' = <<>> /\ works' = FALSE /\ joinAt' = 0
<1> DEFINE first == IF long THEN 1 ELSE backoff
<1>1. first \in 1..MaxBackoff
  BY SignalsAssumption DEF SignalsTypeOK
<1>2. /\ wait' \in ((first + 1) \div 2)..first
      /\ backoff' = IF 2 * first > MaxBackoff THEN MaxBackoff ELSE 2 * first
  BY DEF Ended
<1>3. wait' \in 0..MaxBackoff /\ backoff' \in 1..MaxBackoff
  <2> HIDE DEF first
  <2> QED BY <1>1, <1>2, SignalsAssumption
<1> QED BY <1>3 DEF Ended

\* The dashboard and the server.  A change that nobody hears of leaves the channel
\* as it is; another topic is heard by nobody yet.
LEMMA DashboardKeeps ==
    ASSUME SignalsInv, Edit \/ Move \/ Join
    PROVE  SignalsInv'
<1> USE DEF SignalsInv, Messages
<1>1. CASE Edit
  <2>1. /\ edition' = edition + 1 /\ edition' \in 0..MaxEdits
        /\ UNCHANGED <<topic, joinAt, link, mine, works, wait, backoff, syncAsked, loop, fetching,
                       fetched, failed>>
    BY <1>1, SignalsBounds DEF Edit, SignalsTypeOK, runner
  <2>2. mail' \in Seq(Messages) /\ (~Heard => mail' = mail) /\ (Heard => "broadcast" \in ToSet(mail'))
    BY <1>1, Sent DEF Edit, SignalsTypeOK
  <2>3. SignalsTypeOK'
    BY <2>1, <2>2 DEF SignalsTypeOK, Heard
  <2>4. JoinIsFirst' /\ NoChangeMissed'
    BY <2>1, <2>2 DEF JoinIsFirst, NoChangeMissed, Heard
  <2> QED BY <2>3, <2>4
<1>2. CASE Move
  <2>1. /\ topic' = topic + 1 /\ topic' \in 0..MaxMoves /\ mine # topic'
        /\ UNCHANGED <<edition, joinAt, link, mine, works, mail, wait, backoff, syncAsked, loop,
                       fetching, fetched, failed>>
    BY <1>2, SignalsBounds DEF Move, SignalsTypeOK, sessionState, runner
  <2> QED BY <2>1 DEF SignalsTypeOK, JoinIsFirst, NoChangeMissed, Heard
<1>3. CASE Join
  <2>1. /\ joinAt = 1 /\ joinAt' = 2 /\ works /\ mail' \in Seq(Messages)
        /\ UNCHANGED <<edition, topic, link, mine, works, wait, backoff, syncAsked, loop, fetching,
                       fetched, failed>>
    BY <1>3, Sent DEF Join, SignalsTypeOK, runner
  <2> QED BY <2>1 DEF SignalsTypeOK, JoinIsFirst, NoChangeMissed
<1> QED BY <1>1, <1>2, <1>3

LEMMA BreakKeeps ==
    ASSUME SignalsInv, Break
    PROVE  SignalsInv'
<1> USE DEF SignalsInv, Messages
<1>1. mail' \in Seq(Messages)
  <2>1. CASE mail' = Append(mail, "close")
    BY <2>1, Sent DEF SignalsTypeOK
  <2>2. CASE \E n \in 0..Len(mail) : mail' = SubSeq(mail, 1, n)
    BY <2>2, SubSeqProperties DEF SignalsTypeOK
  <2> QED BY <2>1, <2>2 DEF Break
<1>2. /\ joinAt' = 0 /\ works /\ works' \in BOOLEAN
      /\ UNCHANGED <<edition, topic, link, mine, wait, backoff, syncAsked, loop, fetching, fetched, failed>>
  BY DEF Break, SignalsTypeOK, runner
<1> QED BY <1>1, <1>2 DEF SignalsTypeOK, JoinIsFirst, NoChangeMissed, Heard

\* Run and session.
LEMMA SessionEndKeeps ==
    ASSUME SignalsInv, NEW long \in BOOLEAN, Ended(long),
           UNCHANGED <<edition, topic, mine, syncAsked, loop, fetching, fetched, failed>>
    PROVE  SignalsInv'
<1>1. /\ wait' \in 0..MaxBackoff /\ backoff' \in 1..MaxBackoff
      /\ link' = "wait" /\ mail' = <<>> /\ works' = FALSE /\ joinAt' = 0
  BY EndedType DEF SignalsInv
<1>2. SignalsTypeOK'
  <2>1. 0 \in 0..2 /\ <<>> \in Seq({"ok", "broadcast", "close"})
    OBVIOUS
  <2> QED BY <1>1, <2>1 DEF SignalsInv, SignalsTypeOK
<1>3. JoinIsFirst' /\ NoChangeMissed'
  BY <1>1 DEF JoinIsFirst, NoChangeMissed
<1> QED BY <1>2, <1>3 DEF SignalsInv

LEMMA SessionKeeps ==
    ASSUME SignalsInv, ChannelTick \/ Dial \/ TimedOut \/ DialFails \/ Read \/ ApplyPush
    PROVE  SignalsInv'
<1>1. CASE ChannelTick
  <2>1. /\ wait' \in 0..MaxBackoff
        /\ UNCHANGED <<edition, topic, joinAt, link, mine, works, mail, backoff, syncAsked, loop,
                       fetching, fetched, failed>>
    BY <1>1, SignalsAssumption DEF ChannelTick, SignalsInv, SignalsTypeOK, runner
  <2>2. SignalsTypeOK'
    BY <2>1 DEF SignalsInv, SignalsTypeOK
  <2>3. JoinIsFirst' /\ NoChangeMissed'
    BY <2>1 DEF SignalsInv, JoinIsFirst, NoChangeMissed, Heard
  <2> QED BY <2>2, <2>3 DEF SignalsInv
<1>2. CASE Dial
  <2>1. /\ link = "wait" /\ link' = "open" /\ works' = TRUE /\ joinAt' = 1
        /\ UNCHANGED <<edition, topic, mine, mail, wait, backoff, syncAsked, loop, fetching, fetched, failed>>
    BY <1>2 DEF Dial, runner
  <2>2. SignalsTypeOK'
    BY <2>1 DEF SignalsInv, SignalsTypeOK
  <2>3. JoinIsFirst' /\ NoChangeMissed'
    BY <2>1 DEF SignalsInv, SignalsTypeOK, JoinIsFirst, NoChangeMissed
  <2> QED BY <2>2, <2>3 DEF SignalsInv
<1>3. CASE TimedOut \/ DialFails
  BY <1>3, SessionEndKeeps DEF TimedOut, DialFails, runner
<1>4. CASE Read
  <2> USE DEF SignalsInv, Messages
  <2>1. /\ link # "wait" /\ mail # <<>> /\ UNCHANGED <<edition, topic, mine, loop, fetching, fetched, failed>>
    BY <1>4 DEF Read, runner
  <2>2. CASE UNCHANGED syncAsked /\ \E long \in BOOLEAN : Ended(long)
    BY <2>1, <2>2, SessionEndKeeps
  <2>3. CASE /\ mail' = Tail(mail) /\ syncAsked' = TRUE /\ UNCHANGED <<joinAt, works, wait, backoff>>
             /\ link' = IF Head(mail) = "ok" THEN "joined" ELSE link
    BY <2>1, <2>3, Received DEF SignalsTypeOK, JoinIsFirst, NoChangeMissed
  <2> QED BY <1>4, <2>2, <2>3 DEF Read
<1>5. CASE ApplyPush
  <2>1. 0 \in 0..MaxBackoff /\ 1 \in 1..MaxBackoff /\ topic \in 0..topic /\ 0 \in 0..2
        /\ <<>> \in Seq({"ok", "broadcast", "close"})
    BY SignalsAssumption DEF SignalsInv, SignalsTypeOK
  <2>2. /\ mine' = topic' /\ link' = "wait" /\ works' = FALSE /\ joinAt' = 0 /\ mail' = <<>>
        /\ wait' = 0 /\ backoff' = 1
        /\ UNCHANGED <<edition, topic, syncAsked, loop, fetching, fetched, failed>>
    BY <1>5 DEF ApplyPush, runner
  <2>3. SignalsTypeOK'
    BY <2>1, <2>2 DEF SignalsInv, SignalsTypeOK
  <2>4. JoinIsFirst' /\ NoChangeMissed'
    BY <2>2 DEF JoinIsFirst, NoChangeMissed
  <2> QED BY <2>3, <2>4 DEF SignalsInv
<1> QED BY <1>1, <1>2, <1>3, <1>4, <1>5

\* syncRunner.Loop: what was asked for is fetched no earlier than it was asked.
LEMMA RunnerKeeps ==
    ASSUME SignalsInv, Wake \/ SyncStart \/ SyncEnd \/ SyncFails
    PROVE  SignalsInv'
<1>1. /\ loop' \in {"idle", "soon", "syncing"} /\ syncAsked' \in BOOLEAN
      /\ fetching' \in 0..edition' /\ fetched' \in 0..fetching' /\ failed' \in BOOLEAN
      /\ UNCHANGED <<edition, topic, joinAt, link, mine, works, mail, wait, backoff>>
  <2> USE DEF SignalsInv, SignalsTypeOK, sessionState
  <2>1. CASE Wake
    BY <2>1 DEF Wake
  <2>2. CASE SyncStart
    <3>1. /\ loop' = "syncing" /\ syncAsked' = FALSE /\ fetching' = edition /\ fetched' = fetched /\ failed' = failed
          /\ UNCHANGED <<edition, topic, joinAt, link, mine, works, mail, wait, backoff>>
      BY <2>2 DEF SyncStart
    <3>2. edition \in 0..edition /\ fetched \in 0..edition
      <4>1. edition \in Nat /\ fetching \in 0..edition /\ fetched \in 0..fetching
        OBVIOUS
      <4> QED BY <4>1
    <3> QED BY <3>1, <3>2
  <2>3. CASE SyncEnd
    <3>1. fetching \in 0..fetching
      <4>1. edition \in Nat /\ fetching \in 0..edition
        OBVIOUS
      <4> QED BY <4>1
    <3>2. loop' = "idle" /\ fetched' = fetching /\ failed' = FALSE
      BY <2>3 DEF SyncEnd
    <3>3. /\ UNCHANGED <<edition, topic, joinAt, link, mine, works, mail, wait, backoff>>
          /\ UNCHANGED <<syncAsked, fetching>>
      BY <2>3 DEF SyncEnd
    <3>4. fetching' \in 0..edition' /\ fetched' \in 0..fetching'
      BY <3>1, <3>2, <3>3
    <3> QED BY <3>2, <3>3, <3>4
  <2>4. CASE SyncFails
    BY <2>4 DEF SyncFails
  <2> QED BY <2>1, <2>2, <2>3, <2>4
<1>2. SignalsTypeOK' /\ JoinIsFirst'
  BY <1>1 DEF SignalsInv, SignalsTypeOK, JoinIsFirst
<1>3. Heard' = Heard
  BY <1>1 DEF Heard
<1>4. NoChangeMissed'
  <2>1. CASE Wake \/ SyncStart
    BY <1>1, <2>1 DEF NoChangeMissed, Wake, SyncStart
  <2>2. CASE SyncEnd
    <3>1. /\ fetched' = fetching /\ UNCHANGED <<edition, fetching, syncAsked, link, mail>>
          /\ loop = "syncing"
      BY <1>1, <2>2 DEF SyncEnd
    <3>2. edition \in Nat /\ fetching \in 0..edition /\ fetched \in 0..fetching
      BY DEF SignalsInv, SignalsTypeOK
    <3>3. CASE fetched = edition
      BY <3>1, <3>2, <3>3 DEF NoChangeMissed
    <3>4. CASE fetched # edition
      BY <1>3, <3>1, <3>4 DEF SignalsInv, NoChangeMissed
    <3> QED BY <3>3, <3>4
  <2>3. CASE SyncFails
    BY <1>1, <1>3, <2>3 DEF SignalsInv, NoChangeMissed, SyncFails
  <2> QED BY <2>1, <2>2, <2>3
<1> QED BY <1>2, <1>4 DEF SignalsInv

LEMMA SignalsInvariant == SignalsSpec => []SignalsInv
<1>1. SignalsInv /\ [SignalsNext]_signalVars => SignalsInv'
  <2> SUFFICES ASSUME SignalsInv, [SignalsNext]_signalVars PROVE SignalsInv'
    OBVIOUS
  <2>1. CASE UNCHANGED signalVars
    BY <2>1 DEF signalVars, SignalsInv, SignalsTypeOK, JoinIsFirst, NoChangeMissed, Heard
  <2>2. CASE SignalsNext
    BY <2>2, DashboardKeeps, BreakKeeps, SessionKeeps, RunnerKeeps DEF SignalsNext
  <2> QED BY <2>1, <2>2
<1> QED BY SignalsInitially, <1>1, PTL DEF SignalsSpec

\* Every variable keeps its type; the backoff stays within its limit, and a session
\* that ended leaves nothing on the way.
THEOREM SignalsTypes == SignalsSpec => []SignalsTypeOK
<1>1. SignalsInv => SignalsTypeOK
  BY DEF SignalsInv
<1> QED BY <1>1, SignalsInvariant, PTL

\* While the channel is joined, a change no sync has applied is on its way as a signal,
\* asked for, about to be fetched, or was fetched by the last sync, which runs or has
\* failed; so is what changed while it was not joined (realtime.go, syncrunner.go).
THEOREM SignalsMissNothing == SignalsSpec => []NoChangeMissed
<1>1. SignalsInv => NoChangeMissed
  BY DEF SignalsInv
<1> QED BY <1>1, SignalsInvariant, PTL

----------------------------------------------------------------------------
(* FirewallGuard.                                                          *)

\* The longest time to the next quick look, and the time until one that may repair.
Far == IF SlowQuick > BackoffMax THEN SlowQuick ELSE BackoffMax
UntilLook ==
    IF gd.retry > 0 /\ gd.quick < gd.retry + Quick THEN gd.retry + Quick ELSE gd.quick

\* What of the guard the times depend on.
Spaced(r) ==
    /\ {"quick", "retry", "backoff", "csfPid", "csfAge", "forced"} \subseteq DOMAIN r
    /\ r.quick \in 0..Far /\ r.retry \in 0..BackoffMax /\ r.backoff \in 0..BackoffMax

\* A holder of csf's lock that the guard knows has had it for as long as the guard
\* has seen it; another has not been waited for.
HolderKnown ==
    /\ csf \in 0..csfRuns /\ csfRuns \in Nat /\ csfHeld \in 0..CSFWait
    /\ gd.csfPid \in 0..csfRuns /\ gd.csfAge \in 0..CSFWait /\ gd.forced \in BOOLEAN
    /\ csf # 0 /\ gd.csfPid = csf =>
          gd.csfAge <= csfHeld /\ (gd.forced => csfHeld = CSFWait)

\* A jump that is missing leaves the less time to the next look, the longer it is;
\* once an Ensure has seen to it, it has not been missing at a tick.
LookIsNear == bare + UntilLook <= Worst /\ (bare > 0 => UntilLook > 0)
EnsureIsNear == bare <= Worst /\ ("jump" \notin mending.todo => bare = 0)
Mending == [due : {"follow", "full", "quick"}, todo : SUBSET Parts, restored : BOOLEAN]

GuardInv ==
    /\ Spaced(gd) /\ HolderKnown /\ bare \in Nat /\ mending \in {NoEnsure} \cup Mending
    /\ mending = NoEnsure => LookIsNear
    /\ mending # NoEnsure => EnsureIsNear

LEMMA FarIs ==
    /\ Far \in Nat \ {0} /\ Quick \in 1..Far /\ SlowQuick \in 1..Far /\ BackoffMax \in 1..Far
    /\ BackoffMin \in 1..BackoffMax /\ Worst = Far + Quick /\ CSFWait \in Nat \ {0}
  BY GuardTimes DEF Far, Worst

\* A second later: the looks are nearer, the wait is shorter or over.
LEMMA NowIs ==
    ASSUME GuardInv
    PROVE  /\ Spaced(Now) /\ Now.quick = Sooner(gd.quick)
           /\ Now.retry \in {0, Sooner(gd.retry)}
           /\ Now.csfPid = gd.csfPid /\ Now.csfAge = Longer(gd.csfAge, CSFWait)
           /\ Now.forced = gd.forced
<1> DEFINE r0 == [gd EXCEPT
              !.quick = Sooner(@), !.full = Sooner(@), !.follow = Sooner(@), !.retry = Sooner(@),
              !.trouble = Longer(@, CalmFor), !.repair = Longer(@, BackToBack),
              !.repairs = SelectSeq([i \in DOMAIN @ |-> @[i] + 1], LAMBDA a : a < Conflict),
              !.conflict = Longer(@, Conflict), !.event = Longer(@, EventEvery),
              !.csfAge = Longer(@, CSFWait)]
           r1 == Flushed(r0)
<1>1. /\ DOMAIN r0 = DOMAIN gd /\ r0.quick = Sooner(gd.quick) /\ r0.retry = Sooner(gd.retry)
      /\ r0.backoff = gd.backoff /\ r0.csfPid = gd.csfPid /\ r0.forced = gd.forced
      /\ r0.csfAge = Longer(gd.csfAge, CSFWait)
  BY DEF GuardInv, Spaced
<1>2. Now = Calmed(r1)
  BY DEF Now
<1> HIDE DEF r0
<1>3. /\ DOMAIN r1 = DOMAIN gd /\ r1.quick = Sooner(gd.quick) /\ r1.retry = Sooner(gd.retry)
      /\ r1.backoff = gd.backoff /\ r1.csfPid = gd.csfPid /\ r1.forced = gd.forced
      /\ r1.csfAge = Longer(gd.csfAge, CSFWait)
  BY <1>1 DEF Flushed, GuardInv, Spaced
<1> HIDE DEF r1
<1>4. /\ DOMAIN Now = DOMAIN gd /\ Now.quick = Sooner(gd.quick) /\ Now.retry \in {0, Sooner(gd.retry)}
      /\ Now.backoff \in {0, gd.backoff} /\ Now.csfPid = gd.csfPid /\ Now.forced = gd.forced
      /\ Now.csfAge = Longer(gd.csfAge, CSFWait)
  BY <1>2, <1>3 DEF Calmed, GuardInv, Spaced
<1>5. Sooner(gd.quick) \in 0..Far /\ Sooner(gd.retry) \in 0..BackoffMax
  BY FarIs DEF Sooner, GuardInv, Spaced
<1> QED BY <1>4, <1>5, FarIs DEF Spaced, GuardInv

\* A failure puts the looks off by the backoff, which stays within its limit.
LEMMA TroubledIs ==
    ASSUME NEW r, Spaced(r)
    PROVE  LET t == Troubled(r)
           IN  /\ Spaced(t) /\ t.quick = r.quick
               /\ t.csfPid = r.csfPid /\ t.csfAge = r.csfAge /\ t.forced = r.forced
<1> DEFINE b == IF r.backoff = 0 THEN BackoffMin ELSE Least(2 * r.backoff, BackoffMax)
<1>1. b \in 0..BackoffMax
  BY FarIs DEF Spaced, Least
<1>2. Troubled(r) = [r EXCEPT !.backoff = b, !.retry = b, !.trouble = 0]
  BY DEF Troubled
<1> HIDE DEF b
<1> QED BY <1>1, <1>2 DEF Spaced

\* What the guard knows of the holder is no older than the holder's lock.
LEMMA SeenIs ==
    ASSUME GuardInv, NEW r, Spaced(r),
           r.csfPid = Now.csfPid, r.csfAge = Now.csfAge, r.forced = Now.forced
    PROVE  LET s == CSFSeen(r)
               held == Longer(csfHeld, CSFWait)
           IN  /\ Spaced(s) /\ s.quick = r.quick /\ s.retry = r.retry
               /\ s.csfPid \in 0..csfRuns /\ s.csfAge \in 0..CSFWait /\ s.forced \in BOOLEAN
               /\ csf # 0 => s.csfAge <= held /\ (s.forced => held = CSFWait)
<1>1. /\ r.csfPid = gd.csfPid /\ r.csfAge = Longer(gd.csfAge, CSFWait) /\ r.forced = gd.forced
      /\ {"quick", "retry", "backoff", "csfPid", "csfAge", "forced"} \subseteq DOMAIN r
  BY NowIs DEF Spaced
<1>2. CASE csf = 0
  BY <1>1, <1>2, FarIs DEF CSFSeen, Spaced, GuardInv, HolderKnown
<1>3. CASE csf # 0 /\ csf # r.csfPid
  <2>1. CSFSeen(r) = [[r EXCEPT !.csfPid = csf, !.csfAge = 0, !.forced = FALSE]
                        EXCEPT !.forced = FALSE \/ 0 = CSFWait]
    BY <1>1, <1>3 DEF CSFSeen
  <2>2. (FALSE \/ 0 = CSFWait) = FALSE
    BY FarIs
  <2> DEFINE s == CSFSeen(r)
  <2>3. /\ DOMAIN s = DOMAIN r /\ s.quick = r.quick /\ s.retry = r.retry /\ s.backoff = r.backoff
        /\ s.csfPid = csf /\ s.csfAge = 0 /\ s.forced = FALSE
    BY <1>1, <2>1, <2>2
  <2> HIDE DEF s
  <2>4. 0 <= Longer(csfHeld, CSFWait) /\ 0 \in 0..CSFWait /\ csf \in 0..csfRuns
    BY FarIs DEF GuardInv, HolderKnown, Longer, Least
  <2>5. Spaced(s)
    BY <1>1, <2>3 DEF Spaced
  <2> QED BY <2>3, <2>4, <2>5 DEF s
<1>4. CASE csf # 0 /\ csf = r.csfPid
  <2>1. CSFSeen(r) = [r EXCEPT !.forced = r.forced \/ r.csfAge = CSFWait]
    BY <1>1, <1>4 DEF CSFSeen
  <2>2. /\ csfHeld \in 0..CSFWait /\ gd.csfAge \in 0..csfHeld /\ (gd.forced => csfHeld = CSFWait)
        /\ gd.csfPid \in 0..csfRuns /\ gd.forced \in BOOLEAN
    BY <1>1, <1>4 DEF GuardInv, HolderKnown
  <2>3. /\ Longer(gd.csfAge, CSFWait) \in 0..Longer(csfHeld, CSFWait)
        /\ Longer(csfHeld, CSFWait) \in 0..CSFWait
        /\ csfHeld = CSFWait => Longer(csfHeld, CSFWait) = CSFWait
        /\ Longer(gd.csfAge, CSFWait) = CSFWait => Longer(csfHeld, CSFWait) = CSFWait
    BY <2>2, FarIs DEF Longer, Least
  <2> DEFINE s == CSFSeen(r)
  <2>4. /\ DOMAIN s = DOMAIN r /\ s.quick = r.quick /\ s.retry = r.retry /\ s.backoff = r.backoff
        /\ s.csfPid = r.csfPid /\ s.csfAge = r.csfAge /\ s.forced = (r.forced \/ r.csfAge = CSFWait)
    BY <1>1, <2>1
  <2> HIDE DEF s
  <2>5. s.forced \in BOOLEAN
    BY <2>4
  <2>6. s.forced => Longer(csfHeld, CSFWait) = CSFWait
    BY <1>1, <2>2, <2>3, <2>4
  <2>7. s.csfAge <= Longer(csfHeld, CSFWait) /\ s.csfAge \in 0..CSFWait
    <3>1. s.csfAge \in 0..Longer(csfHeld, CSFWait)
      BY <1>1, <2>3, <2>4
    <3> HIDE DEF s
    <3> QED BY <2>3, <3>1, FarIs
  <2>9. s.csfPid \in 0..csfRuns
    BY <1>1, <2>2, <2>4
  <2>8. Spaced(s)
    BY <1>1, <2>4 DEF Spaced
  <2> QED BY <2>4, <2>5, <2>6, <2>7, <2>8, <2>9 DEF s
<1> QED BY <1>2, <1>3, <1>4

\* The guard once what is due is begun, and once a repair is noted.
LEMMA BegunIs ==
    ASSUME GuardInv
    PROVE  /\ Spaced(Begun)
           /\ Begun.csfPid = CSFSeen(Now).csfPid /\ Begun.csfAge = CSFSeen(Now).csfAge
           /\ Begun.forced = CSFSeen(Now).forced
<1> DEFINE s == CSFSeen(Now)
<1>1. Spaced(Now)
  BY NowIs
<1>2. Spaced(s)
  BY <1>1, SeenIs
<1>3. \/ Begun = [s EXCEPT !.follow = NoFollowUp]
      \/ Begun = [s EXCEPT !.full = Full]
      \/ Begun = [s EXCEPT !.quick = Quick]
  BY DEF Begun
<1> HIDE DEF s
<1>4. Quick \in 0..Far
  BY FarIs
<1>5. /\ Spaced(Begun)
      /\ Begun.csfPid = s.csfPid /\ Begun.csfAge = s.csfAge /\ Begun.forced = s.forced
  BY <1>2, <1>3, <1>4 DEF Spaced
<1> QED BY <1>5 DEF s

LEMMA NotedIs ==
    ASSUME NEW r, Spaced(r), NEW back
    PROVE  LET n == Noted(r, back)
           IN  /\ Spaced(n) /\ n.csfPid = r.csfPid /\ n.csfAge = r.csfAge /\ n.forced = r.forced
<1> DEFINE kept == IF r.repairs = <<>> \/ Last(r.repairs) >= BackToBack
                   THEN Append(r.repairs, 0) ELSE r.repairs
           r1 == [r EXCEPT !.pending = TRUE, !.repairs = kept]
           told == Flushed(r1)
<1>1. Noted(r, back) = IF (back \/ Len(kept) >= 3) /\ told.conflict = Conflict
                       THEN [told EXCEPT !.conflict = 0] ELSE told
  BY DEF Noted
<1> HIDE DEF kept
<1>2. Spaced(r1) /\ r1.csfPid = r.csfPid /\ r1.csfAge = r.csfAge /\ r1.forced = r.forced
  BY DEF Spaced
<1> HIDE DEF r1
<1>3. Spaced(told) /\ told.csfPid = r.csfPid /\ told.csfAge = r.csfAge /\ told.forced = r.forced
  BY <1>2 DEF Spaced, Flushed
<1> HIDE DEF told
<1>4. Noted(r, back) \in {told, [told EXCEPT !.conflict = 0]}
  BY <1>1
<1> QED BY <1>3, <1>4 DEF Spaced

----------------------------------------------------------------------------

Until(r) == IF r.retry > 0 /\ r.quick < r.retry + Quick THEN r.retry + Quick ELSE r.quick

LEMMA UntilIs ==
    ASSUME NEW r, Spaced(r)
    PROVE  Until(r) \in Nat /\ Until(r) <= Worst
  BY FarIs DEF Until, Spaced

\* A tick that may not repair brings the look that may a second nearer.
LEMMA LookNearer ==
    ASSUME GuardInv, NEW r, Spaced(r), r.retry = Now.retry,
           \/ r.quick = Now.quick /\ Now.quick # 0
           \/ r.quick \in {Now.quick, Quick} /\ Now.retry > 0
    PROVE  Until(r) + 1 <= Until(gd) /\ Until(r) > 0
<1>1. /\ gd.quick \in Nat /\ gd.retry \in Nat /\ Quick \in Nat \ {0}
      /\ Now.quick = (IF gd.quick > 0 THEN gd.quick - 1 ELSE gd.quick)
      /\ Now.retry \in {0, IF gd.retry > 0 THEN gd.retry - 1 ELSE gd.retry}
  BY NowIs, FarIs DEF GuardInv, Spaced, Sooner
<1>2. CASE Now.retry = 0
  <2>1. r.quick = gd.quick - 1 /\ r.quick \in Nat \ {0}
    BY <1>1, <1>2 DEF Spaced
  <2> QED BY <1>1, <1>2, <2>1 DEF Until
<1>3. CASE Now.retry # 0
  <2>1. Now.retry = gd.retry - 1 /\ gd.retry > 1
    BY <1>1, <1>3
  <2>2. r.quick \in Nat /\ (r.quick < gd.quick \/ r.quick <= Quick)
    BY <1>1, <1>3
  <2> QED BY <1>1, <1>3, <2>1, <2>2 DEF Until
<1> QED BY <1>2, <1>3

\* A second passes: the time without the jump grows no more than the look comes
\* nearer.
LEMMA BareKeeps ==
    ASSUME GuardInv, Spaced(gd'), NEW ok \in BOOLEAN, Second(ok),
           ~jump /\ csf = 0 /\ ok => Until(gd') + 1 <= Until(gd) /\ Until(gd') > 0
    PROVE  bare' \in Nat /\ LookIsNear'
<1>1. /\ UntilLook = Until(gd) /\ UntilLook' = Until(gd')
  BY DEF UntilLook, Until
<1>2. /\ Until(gd) \in Nat /\ Until(gd') \in Nat /\ Until(gd') <= Worst /\ Worst \in Nat
      /\ bare \in Nat /\ bare + Until(gd) <= Worst
  BY <1>1, UntilIs, FarIs DEF GuardInv, LookIsNear, Second
<1>3. CASE jump \/ csf # 0 \/ ~ok
  BY <1>1, <1>2, <1>3 DEF Second, LookIsNear
<1>4. CASE ~(jump \/ csf # 0 \/ ~ok)
  <2>1. bare' = Least(bare + 1, Worst + 1)
    BY <1>4 DEF Second
  <2>2. bare' \in Nat /\ bare' <= bare + 1
    BY <1>2, <2>1 DEF Least
  <2> QED BY <1>1, <1>2, <1>4, <2>2 DEF LookIsNear
<1> QED BY <1>3, <1>4

\* Whether the guard looked for csf's lock or not, what it knows of the holder stays
\* true.
LEMMA HolderKeeps ==
    ASSUME GuardInv, NEW r, Spaced(r),
           r.csfPid = Now.csfPid, r.csfAge = Now.csfAge, r.forced = Now.forced,
           NEW s \in {r, CSFSeen(r)},
           gd'.csfPid = s.csfPid, gd'.csfAge = s.csfAge, gd'.forced = s.forced,
           NEW ok \in BOOLEAN, Second(ok)
    PROVE  HolderKnown'
<1>1. /\ csf' = csf /\ csfRuns' = csfRuns
      /\ csfHeld' = IF csf = 0 THEN 0 ELSE Longer(csfHeld, CSFWait)
  BY DEF Second
<1>2. Longer(csfHeld, CSFWait) \in 0..CSFWait /\ 0 \in 0..CSFWait
  BY FarIs DEF GuardInv, HolderKnown, Longer, Least
<1>3. /\ s.csfPid \in 0..csfRuns /\ s.csfAge \in 0..CSFWait /\ s.forced \in BOOLEAN
      /\ csf # 0 /\ s.csfPid = csf =>
            /\ s.csfAge <= Longer(csfHeld, CSFWait)
            /\ s.forced => Longer(csfHeld, CSFWait) = CSFWait
  <2>1. CASE s = CSFSeen(r)
    BY <2>1, SeenIs
  <2>2. CASE s = r
    <3>1. s.csfPid = gd.csfPid /\ s.csfAge = Longer(gd.csfAge, CSFWait) /\ s.forced = gd.forced
      BY <2>2, NowIs
    <3>2. s.csfPid \in 0..csfRuns /\ s.forced \in BOOLEAN
      BY <3>1 DEF GuardInv, HolderKnown
    <3>3. s.csfAge \in 0..CSFWait
      BY <3>1, FarIs DEF GuardInv, HolderKnown, Longer, Least
    <3>4. ASSUME csf # 0, s.csfPid = csf
          PROVE  /\ s.csfAge <= Longer(csfHeld, CSFWait)
                 /\ s.forced => Longer(csfHeld, CSFWait) = CSFWait
      <4>1. /\ gd.csfAge <= csfHeld /\ (gd.forced => csfHeld = CSFWait)
            /\ csfHeld \in 0..CSFWait /\ gd.csfAge \in 0..CSFWait
        BY <3>1, <3>4 DEF GuardInv, HolderKnown
      <4> QED BY <3>1, <4>1, FarIs DEF Longer, Least
    <3> QED BY <3>2, <3>3, <3>4
  <2> QED BY <2>1, <2>2
<1>4. csf \in 0..csfRuns /\ csfRuns \in Nat
  BY DEF GuardInv, HolderKnown
<1> QED BY <1>1, <1>2, <1>3, <1>4 DEF HolderKnown

----------------------------------------------------------------------------

\* A tick whose guard has what it knew of csf's lock, or what it has just seen.
LEMMA TickKeeps ==
    ASSUME GuardInv, Spaced(gd'), NEW ok \in BOOLEAN, Second(ok),
           NEW r, Spaced(r),
           r.csfPid = Now.csfPid, r.csfAge = Now.csfAge, r.forced = Now.forced,
           NEW s \in {r, CSFSeen(r)},
           gd'.csfPid = s.csfPid, gd'.csfAge = s.csfAge, gd'.forced = s.forced,
           ~jump /\ csf = 0 /\ ok => Until(gd') + 1 <= Until(gd) /\ Until(gd') > 0,
           UNCHANGED mending
    PROVE  GuardInv'
<1>1. mending' = NoEnsure
  BY DEF Second
<1> QED BY <1>1, BareKeeps, HolderKeeps DEF GuardInv, Spaced

LEMMA QuietTicksKeep ==
    ASSUME GuardInv, NothingDue \/ LookFinds \/ Waits
    PROVE  GuardInv'
<1>0. Spaced(Now) /\ Quick \in 0..Far /\ SlowQuick \in 0..Far
  BY NowIs, FarIs
<1>1. CASE NothingDue
  <2>1. gd' = Now /\ Now.quick # 0 /\ Second(TRUE) /\ UNCHANGED mending
    BY <1>1 DEF NothingDue, Due
  <2>2. Until(gd') + 1 <= Until(gd) /\ Until(gd') > 0
    BY <1>0, <2>1, LookNearer
  <2> QED BY <1>0, <2>1, <2>2, TickKeeps
<1>2. CASE LookFinds
  <2>1. PICK next \in {Quick, SlowQuick} : gd' = [Now EXCEPT !.quick = next]
    BY <1>2 DEF LookFinds
  <2>2. jump /\ Second(TRUE) /\ UNCHANGED mending
    BY <1>2 DEF LookFinds
  <2>3. /\ Spaced(gd') /\ gd'.csfPid = Now.csfPid /\ gd'.csfAge = Now.csfAge
        /\ gd'.forced = Now.forced
    BY <1>0, <2>1 DEF Spaced
  <2> QED BY <1>0, <2>2, <2>3, TickKeeps
<1>3. CASE Waits
  <2> DEFINE looked == IF Due = "quick" THEN [Now EXCEPT !.quick = Quick] ELSE Now
  <2>1. /\ Spaced(looked) /\ looked.retry = Now.retry /\ looked.quick \in {Now.quick, Quick}
        /\ looked.csfPid = Now.csfPid /\ looked.csfAge = Now.csfAge /\ looked.forced = Now.forced
    BY <1>0 DEF Spaced
  <2>2. \/ Now.retry > 0 /\ gd' = looked
        \/ csf # 0 /\ ~CSFSeen(Now).forced /\ gd' = CSFSeen(looked)
    BY <1>3 DEF Waits
  <2>3. Second(TRUE) /\ UNCHANGED mending
    BY <1>3 DEF Waits
  <2> HIDE DEF looked
  <2>4. CASE Now.retry > 0 /\ gd' = looked
    <3>1. Until(gd') + 1 <= Until(gd) /\ Until(gd') > 0
      BY <2>1, <2>4, LookNearer
    <3> QED BY <2>1, <2>3, <2>4, <3>1, TickKeeps
  <2>5. CASE csf # 0 /\ gd' = CSFSeen(looked)
    <3>1. Spaced(gd')
      BY <2>1, <2>5, SeenIs
    <3> QED BY <2>1, <2>3, <2>5, <3>1, TickKeeps
  <2> QED BY <2>2, <2>4, <2>5
<1> QED BY <1>1, <1>2, <1>3

LEMMA OtherTicksKeep ==
    ASSUME GuardInv, LookFails \/ EnsureBegins
    PROVE  GuardInv'
<1>0. Spaced(Now) /\ Spaced(Begun)
  BY NowIs, BegunIs
<1>1. CASE LookFails
  <2> DEFINE r == Troubled(Now)
  <2>1. gd' = [r EXCEPT !.quick = r.retry] /\ Second(FALSE) /\ UNCHANGED mending
    BY <1>1 DEF LookFails
  <2>2. Spaced(r) /\ r.csfPid = Now.csfPid /\ r.csfAge = Now.csfAge /\ r.forced = Now.forced
    BY <1>0, TroubledIs
  <2> HIDE DEF r
  <2>3. r.retry \in 0..Far
    BY <2>2, FarIs DEF Spaced
  <2>4. /\ Spaced(gd') /\ gd'.csfPid = Now.csfPid /\ gd'.csfAge = Now.csfAge
        /\ gd'.forced = Now.forced
    BY <2>1, <2>2, <2>3 DEF Spaced
  <2> QED BY <1>0, <2>1, <2>4, TickKeeps
<1>2. CASE EnsureBegins
  <2>1. gd' = Begun /\ Second(TRUE)
    BY <1>2 DEF EnsureBegins
  <2>2. HolderKnown'
    BY <1>0, <2>1, BegunIs, HolderKeeps
  <2>3. mending' = [due |-> Due, todo |-> Parts, restored |-> FALSE] /\ mending' \in Mending
    BY <1>2 DEF EnsureBegins, MayRepair, Wanted, Mending
  <2>4. mending' # NoEnsure /\ "jump" \in mending'.todo
    BY <2>3 DEF Mending, NoEnsure, Parts
  <2>5. bare' \in Nat /\ bare' <= Worst
    <3>1. bare \in Nat /\ LookIsNear /\ Worst \in Nat \ {0}
      BY <2>1, FarIs DEF GuardInv, Second
    <3>2. bare' \in {0, Least(bare + 1, Worst + 1)}
      BY <2>1 DEF Second
    <3>3. UntilLook \in Nat
      BY UntilIs DEF GuardInv, UntilLook, Until
    <3>4. bare + 1 <= Worst
      <4>1. bare + UntilLook <= Worst /\ (bare > 0 => UntilLook > 0)
        BY <3>1 DEF LookIsNear
      <4> QED BY <3>1, <3>3, <4>1
    <3> QED BY <3>1, <3>2, <3>4 DEF Least
  <2> QED BY <1>0, <2>1, <2>2, <2>3, <2>4, <2>5 DEF GuardInv, EnsureIsNear
<1> QED BY <1>1, <1>2

\* The end of an Ensure, or an error: what the guard knows of csf stays, and the
\* jump has not been missing at a tick since.
LEMMA EnsureOver ==
    ASSUME GuardInv, Spaced(gd'), gd'.csfPid = gd.csfPid, gd'.csfAge = gd.csfAge,
           gd'.forced = gd.forced, bare' = 0, mending' = NoEnsure,
           UNCHANGED <<csf, csfHeld, csfRuns>>
    PROVE  GuardInv'
<1>1. HolderKnown'
  BY DEF GuardInv, HolderKnown
<1>2. UntilLook' = Until(gd')
  BY DEF UntilLook, Until
<1>3. LookIsNear'
  BY <1>2, UntilIs, FarIs DEF LookIsNear
<1> QED BY <1>1, <1>3 DEF GuardInv

LEMMA EnsuringKeeps ==
    ASSUME GuardInv, Ensuring
    PROVE  GuardInv'
<1>1. ASSUME NEW p \in Parts, EnsurePart(p) PROVE GuardInv'
  <2>1. /\ UNCHANGED <<gd, csf, csfHeld, csfRuns>> /\ p \in mending.todo
        /\ bare' = 0 \/ (p # "jump" /\ bare' = bare)
    BY <1>1 DEF EnsurePart
  <2>2. mending \in Mending
    BY <2>1 DEF GuardInv, NoEnsure
  <2>3. mending' \in Mending /\ mending'.todo = mending.todo \ {p} /\ mending # NoEnsure
    <3>1. \E b \in BOOLEAN :
            mending' = [mending EXCEPT !.todo = @ \ {p}, !.restored = @ \/ b]
      BY <1>1 DEF EnsurePart
    <3>2. PICK b \in BOOLEAN :
            mending' = [mending EXCEPT !.todo = @ \ {p}, !.restored = @ \/ b]
      BY <3>1
    <3>3. (mending.restored \/ b) \in BOOLEAN
      OBVIOUS
    <3>4. mending # NoEnsure
      BY <2>2 DEF Mending, NoEnsure
    <3> QED BY <2>2, <3>2, <3>3, <3>4 DEF Mending
  <2>4. mending' # NoEnsure
    BY <2>3 DEF Mending, NoEnsure
  <2>5. EnsureIsNear' /\ bare' \in Nat
    BY <2>1, <2>3, FarIs DEF GuardInv, EnsureIsNear
  <2> QED BY <2>1, <2>3, <2>4, <2>5 DEF GuardInv, HolderKnown, Spaced
<1>2. CASE EnsureFails
  <2>1. gd' = Troubled(gd) /\ mending' = NoEnsure /\ bare' = 0 /\ UNCHANGED <<csf, csfHeld, csfRuns>>
    BY <1>2 DEF EnsureFails
  <2>2. /\ Spaced(gd') /\ gd'.csfPid = gd.csfPid /\ gd'.csfAge = gd.csfAge
        /\ gd'.forced = gd.forced
    BY <2>1, TroubledIs DEF GuardInv
  <2> QED BY <2>1, <2>2, EnsureOver
<1>3. CASE EnsureEnds
  <2>1. /\ gd' \in {gd, Restored} /\ mending' = NoEnsure /\ bare' = 0
        /\ UNCHANGED <<csf, csfHeld, csfRuns>>
    BY <1>3 DEF EnsureEnds, GuardInv, EnsureIsNear
  <2> DEFINE back == mending.due # "follow" /\ gd.repair < BackToBack
             again == [gd EXCEPT !.repair = 0,
                                 !.follow = IF mending.due = "quick" THEN FollowUp ELSE @]
             r == IF back THEN Troubled(again) ELSE again
  <2>2. Restored = Noted(r, back)
    BY DEF Restored
  <2>3. /\ Spaced(again) /\ again.csfPid = gd.csfPid /\ again.csfAge = gd.csfAge
        /\ again.forced = gd.forced
    BY DEF GuardInv, Spaced
  <2> HIDE DEF back, again
  <2>4. Spaced(r) /\ r.csfPid = gd.csfPid /\ r.csfAge = gd.csfAge /\ r.forced = gd.forced
    BY <2>3, TroubledIs
  <2> HIDE DEF r
  <2>5. /\ Spaced(gd') /\ gd'.csfPid = gd.csfPid /\ gd'.csfAge = gd.csfAge
        /\ gd'.forced = gd.forced
    BY <2>1, <2>2, <2>4, NotedIs DEF GuardInv
  <2> QED BY <2>1, <2>5, EnsureOver
<1> QED BY <1>1, <1>2, <1>3 DEF Ensuring

LEMMA GuardInitially == GuardInit => GuardInv
<1> SUFFICES ASSUME GuardInit PROVE GuardInv
  OBVIOUS
<1>1. /\ {"quick", "retry", "backoff", "csfPid", "csfAge", "forced"} \subseteq DOMAIN gd
      /\ gd.quick = Quick /\ gd.retry = 0 /\ gd.backoff = 0 /\ gd.csfPid = 0 /\ gd.csfAge = 0
      /\ gd.forced = FALSE /\ csf = 0 /\ csfHeld = 0 /\ csfRuns = 0 /\ bare = 0
      /\ mending = NoEnsure
  BY DEF GuardInit
<1>2. Spaced(gd)
  BY <1>1, FarIs DEF Spaced
<1>4. HolderKnown
  <2>1. 0 \in 0..0 /\ 0 \in 0..CSFWait /\ 0 \in Nat /\ FALSE \in BOOLEAN
    BY FarIs
  <2> QED BY <1>1, <2>1 DEF HolderKnown
<1>3. LookIsNear
  BY <1>1, FarIs DEF UntilLook, LookIsNear
<1> QED BY <1>1, <1>2, <1>3, <1>4 DEF GuardInv

LEMMA GuardKeeps == GuardInv /\ [GuardNext]_guardVars => GuardInv'
<1> SUFFICES ASSUME GuardInv, [GuardNext]_guardVars PROVE GuardInv'
  OBVIOUS
<1>0. UNCHANGED <<gd, mending, bare>> /\ HolderKnown' => GuardInv'
  BY DEF GuardInv, Spaced, UntilLook, LookIsNear, EnsureIsNear
<1>1. CASE UNCHANGED <<gd, mending, csf, csfHeld, csfRuns, bare>>
  BY <1>0, <1>1 DEF GuardInv, HolderKnown
<1>2. CASE CSFBegin
  <2>1. /\ csf' = csfRuns + 1 /\ csfRuns' = csfRuns + 1 /\ csfHeld' = 0
        /\ UNCHANGED <<gd, mending, bare>>
    BY <1>2 DEF CSFBegin
  <2>2. gd.csfPid # csfRuns + 1 /\ gd.csfPid \in 0..csfRuns + 1 /\ csfRuns \in Nat
    BY DEF GuardInv, HolderKnown
  <2>3. HolderKnown'
    BY <2>1, <2>2, FarIs DEF GuardInv, HolderKnown
  <2> QED BY <1>0, <2>1, <2>3
<1>3. CASE CSFEnd
  <2>1. csf' = 0 /\ UNCHANGED <<gd, mending, bare, csfHeld, csfRuns>>
    BY <1>3 DEF CSFEnd
  <2>2. HolderKnown'
    BY <2>1 DEF GuardInv, HolderKnown
  <2> QED BY <1>0, <2>1, <2>2
<1>4. CASE Rewrite \/ UNCHANGED guardVars
  BY <1>1, <1>4 DEF Rewrite, guardVars
<1>5. CASE GuardTick
  BY <1>5, QuietTicksKeep, OtherTicksKeep DEF GuardTick
<1>6. CASE Ensuring
  BY <1>6, EnsuringKeeps
<1> QED BY <1>2, <1>3, <1>4, <1>5, <1>6 DEF GuardNext

\* While iptables answers and csf is away, the INPUT jump is missing no longer than
\* one backoff and one spacing of the looks, whatever the tools do, during an
\* Ensure too; and no Ensure is begun in the first minutes of a run of csf (fwguard.go).
THEOREM GuardInTime == GuardSpec => []RepairedInTime /\ CSFSpared
<1>1. GuardSpec => []GuardInv
  BY GuardInitially, GuardKeeps, PTL DEF GuardSpec
<1>2. GuardInv => RepairedInTime
  <2> SUFFICES ASSUME GuardInv PROVE bare <= Worst
    BY DEF RepairedInTime
  <2>1. UntilLook = Until(gd)
    BY DEF UntilLook, Until
  <2> QED BY <2>1, UntilIs, FarIs DEF GuardInv, LookIsNear, EnsureIsNear
<1>3. GuardInv /\ [GuardNext]_guardVars
        => [mending = NoEnsure /\ mending' # NoEnsure
              => csf = 0 \/ csfHeld + 1 >= CSFWait]_guardVars
  <2> SUFFICES ASSUME GuardInv, GuardNext, mending = NoEnsure, mending' # NoEnsure, csf # 0
               PROVE  csfHeld + 1 >= CSFWait
    BY DEF guardVars
  <2>1. MayRepair
    BY DEF GuardNext, Rewrite, CSFBegin, CSFEnd, GuardTick, NothingDue, LookFails, LookFinds,
           Waits, EnsureBegins, Ensuring, EnsurePart, EnsureFails, EnsureEnds, NoEnsure
  <2>2. CSFSeen(Now).forced
    BY <2>1 DEF MayRepair
  <2>3. Longer(csfHeld, CSFWait) = CSFWait
    BY <2>2, NowIs, SeenIs
  <2> QED BY <2>3, FarIs DEF Longer, Least, GuardInv, HolderKnown
<1> QED BY <1>1, <1>2, <1>3, PTL DEF GuardSpec, CSFSpared

----------------------------------------------------------------------------
(* PushSignals: the connection.                                            *)

\* From one refusal on, the wait ahead and the time gone by make up the backoff, and
\* nothing is dialled during a wait.
ConnectionInv ==
    /\ ConnectionTypeOK
    /\ stage # "out" => delay = 0
    /\ refusals > 0 => spent + delay >= DelayAfter[refusals]

LEMMA DelayIs == \A n \in 1..MaxRefusals : DelayAfter[n] \in 0..LongestWait
<1> SUFFICES ASSUME NEW n \in 1..MaxRefusals PROVE DelayAfter[n] \in 0..LongestWait
  OBVIOUS
<1>1. DelayAfter[n] = IF n <= 6 /\ Doubled[n] < LongestWait THEN Doubled[n] ELSE LongestWait
  BY DEF DelayAfter
<1>2. n <= 6 => Doubled[n] \in Nat
  <2>1. n <= 6 => n \in {1, 2, 3, 4, 5, 6}
    BY ConnectionAssumption
  <2> QED BY <2>1 DEF Doubled
<1> QED BY <1>1, <1>2, ConnectionAssumption

LEMMA ConnectionInitially == ConnectionInit => ConnectionInv
<1>1. 0 \in 0..LongestWait /\ 0 \in 0..MaxGate /\ 0 \in 0..MaxRefusals /\ ~(0 > 0)
  BY ConnectionAssumption
<1> QED BY <1>1 DEF ConnectionInit, ConnectionInv, ConnectionTypeOK

LEMMA ConnectionKeeps == ConnectionInv /\ [ConnectionNext]_connectionVars => ConnectionInv'
<1> SUFFICES ASSUME ConnectionInv, [ConnectionNext]_connectionVars PROVE ConnectionInv'
  OBVIOUS
<1> USE ConnectionAssumption, DelayIs DEF ConnectionInv, ConnectionTypeOK
<1>1. CASE GateRefuses
  BY <1>1 DEF GateRefuses
<1>2. CASE Minute
  <2>1. /\ delay' = IF delay > 0 THEN delay - 1 ELSE 0
        /\ gateWait' \in 0..MaxGate
        /\ spent' = IF refusals > 0 /\ spent < LongestWait THEN spent + 1 ELSE spent
        /\ UNCHANGED <<stage, refusals, authOK>>
    BY <1>2 DEF Minute
  <2>2. refusals > 0 => DelayAfter[refusals] \in 0..LongestWait
    OBVIOUS
  <2>3. refusals > 0 => spent' + delay' >= DelayAfter[refusals]
    <3> HIDE DEF DelayAfter
    <3> QED BY <2>1, <2>2
  <2> QED BY <2>1, <2>3
<1>3. CASE Dialled \/ AskAuth \/ AuthAccepted
  BY <1>3 DEF Dialled, AskAuth, AuthAccepted
<1>4. CASE AuthRefused
  <2>1. refusals' \in 1..MaxRefusals
    BY <1>4 DEF AuthRefused, Returned
  <2>2. delay' = DelayAfter[refusals'] /\ delay' \in 0..LongestWait /\ spent' = 0
    BY <1>4, <2>1 DEF AuthRefused
  <2>3. stage' = "out" /\ authOK' = FALSE /\ gateWait' = gateWait
    BY <1>4 DEF AuthRefused
  <2>4. ConnectionTypeOK'
    <3>1. 0 \in 0..LongestWait /\ refusals' \in 0..MaxRefusals
      BY <2>1
    <3> QED BY <2>2, <2>3, <3>1
  <2>5. spent' + delay' >= DelayAfter[refusals']
    BY <2>2
  <2> QED BY <2>3, <2>4, <2>5
<1>5. CASE Disconnected
  <2>1. /\ stage' = "out" /\ authOK' = FALSE /\ UNCHANGED <<delay, gateWait>>
        /\ refusals' \in {0, refusals} /\ refusals' \in 0..MaxRefusals
        /\ spent' = (IF refusals' = 0 THEN 0 ELSE spent)
    BY <1>5 DEF Disconnected, Returned
  <2>2. 0 \in 0..LongestWait
    OBVIOUS
  <2>3. ConnectionTypeOK'
    BY <2>1, <2>2
  <2>4. refusals' > 0 => spent' + delay' >= DelayAfter[refusals']
    BY <2>1
  <2> QED BY <2>1, <2>3, <2>4
<1>6. CASE UNCHANGED connectionVars
  BY <1>6 DEF connectionVars
<1> QED BY <1>1, <1>2, <1>3, <1>4, <1>5, <1>6 DEF ConnectionNext

\* Refusals in a row of the channel's authentication come no faster than the backoff
\* allows, whatever else fails in between, and a subscription that worked ends them
\* (ws/client.go).
THEOREM RefusalsInTime == ConnectionSpec => RefusalsSpaced /\ WorkedStartsOver
<1>1. ConnectionSpec => []ConnectionInv
  BY ConnectionInitially, ConnectionKeeps, PTL DEF ConnectionSpec
<1>2. ConnectionInv /\ [ConnectionNext]_connectionVars
        => [stage = "auth" /\ stage' = "out" /\ refusals' > 1 =>
              spent >= DelayAfter[refusals]]_connectionVars
  <2> SUFFICES ASSUME ConnectionInv, ConnectionNext, stage = "auth", stage' = "out",
                      refusals' > 1
               PROVE  spent >= DelayAfter[refusals]
    BY DEF connectionVars
  <2>1. AuthRefused \/ Disconnected
    BY DEF ConnectionNext, GateRefuses, Minute, Dialled, AskAuth, AuthAccepted
  <2>2. refusals > 0 /\ delay = 0
    BY <2>1 DEF AuthRefused, Disconnected, Returned, ConnectionInv, ConnectionTypeOK
  <2>3. DelayAfter[refusals] \in Int /\ spent \in Int
    BY <2>2, DelayIs DEF ConnectionInv, ConnectionTypeOK
  <2> QED BY <2>2, <2>3 DEF ConnectionInv
<1>3. ConnectionInv /\ [ConnectionNext]_connectionVars
        => [stage = "subscribed" /\ stage' = "out" => refusals' = 0]_connectionVars
  <2> SUFFICES ASSUME ConnectionInv, ConnectionNext, stage = "subscribed", stage' = "out"
               PROVE  refusals' = 0
    BY DEF connectionVars
  <2>1. Disconnected /\ authOK
    BY DEF ConnectionNext, GateRefuses, Minute, Dialled, AskAuth, AuthAccepted, AuthRefused,
           ConnectionInv, ConnectionTypeOK
  <2> QED BY <2>1 DEF Disconnected, Returned
<1> QED BY <1>1, <1>2, <1>3, PTL DEF ConnectionSpec, RefusalsSpaced, WorkedStartsOver

----------------------------------------------------------------------------
(* LoginHistory.                                                           *)

Entry == [users : SUBSET Users, age : Ages, kept : BOOLEAN]

\* While no scan is due, nothing out of the window is kept.
HistoryFresh == ~rescanDue => \A a \in Addrs : store[a].kept => store[a].age < Keep

HistoryInv == HistoryTypeOK /\ HistoryFresh /\ PolicyIsCurrent

Less == {p \in Nat \X Nat : p[1] < p[2]}

LEMMA MinIs ==
    ASSUME NEW S \in SUBSET Nat, S # {}
    PROVE  Min(S) \in S /\ \A y \in S : Min(S) <= y
<1>1. IsWellFoundedOn(Less, Nat)
  BY NatLessThanWellFounded DEF OpToRel, Less
<1>2. PICK x \in S : \A y \in S : ~(<<y, x>> \in Less)
  BY <1>1, WFMin
<1>3. ASSUME NEW y \in S PROVE x <= y
  <2>1. x \in Nat /\ y \in Nat /\ <<y, x>> \in Nat \X Nat
    OBVIOUS
  <2>2. ~(y < x)
    BY <1>2, <2>1 DEF Less
  <2> QED BY <2>1, <2>2
<1> QED BY <1>3 DEF Min

LEMMA MissingIs == Missing \in Entry /\ ~Missing.kept
  BY HistoryAssumption DEF Missing, Entry, Ages

\* pruneLocked keeps what is known, up to the limit; while one that only service
\* users logged in from is kept, all that goes is of that sort.
LEMMA PrunedIs ==
    ASSUME NEW st \in [Addrs -> Entry], NEW t \in Pruned(st)
    PROVE  \E k \in SUBSET Known(st) :
              /\ t = [a \in Addrs |-> IF a \in k THEN st[a] ELSE Missing]
              /\ t \in [Addrs -> Entry]
              /\ {a \in Addrs : t[a].kept} = k /\ Known(t) = k
              /\ Cardinality(k) <= MaxEntries
              /\ Cardinality(Known(st)) <= MaxEntries => k = Known(st)
              /\ \A a \in k, b \in Known(st) \ k : a \in Unguarded(st) => b \in Unguarded(st)
<1> DEFINE known == Known(st)
<1>1. PICK k \in IF Cardinality(known) <= MaxEntries THEN {known} ELSE KeptOver(st, known) :
        t = [a \in Addrs |-> IF a \in k THEN st[a] ELSE Missing]
  BY DEF Pruned
<1>2. /\ k \in SUBSET known /\ Cardinality(k) <= MaxEntries
      /\ Cardinality(known) <= MaxEntries => k = known
      /\ \A a \in k, b \in known \ k : a \in Unguarded(st) => b \in Unguarded(st)
  <2>1. CASE Cardinality(known) <= MaxEntries
    BY <1>1, <2>1
  <2>2. CASE ~(Cardinality(known) <= MaxEntries)
    <3>1. k \in KeptOver(st, known)
      BY <1>1, <2>2
    <3>2. k \in SUBSET known /\ Cardinality(k) = MaxEntries
      BY <3>1 DEF KeptOver, kSubset
    <3>3. \A a \in k, b \in known \ k : a \in Unguarded(st) => b \in Unguarded(st)
      BY <3>1 DEF KeptOver
    <3> QED BY <2>2, <3>2, <3>3, HistoryAssumption
  <2> QED BY <2>1, <2>2
<1>3. \A a \in k : a \in Addrs /\ st[a].kept /\ st[a].age < Keep
  BY <1>2 DEF Known
<1>4. t \in [Addrs -> Entry] /\ {a \in Addrs : t[a].kept} = k /\ Known(t) = k
  BY <1>1, <1>3, MissingIs DEF Known
<1> QED BY <1>1, <1>2, <1>4

\* What of a history decides who is guarded.
LEMMA SameUnguarded ==
    ASSUME NEW s, NEW t, Known(s) = Known(t), \A a \in Known(s) : s[a].users = t[a].users
    PROVE  Unguarded(s) = Unguarded(t)
<1>1. \A u : {a \in Known(s) : u \in s[a].users} = {a \in Known(t) : u \in t[a].users}
  OBVIOUS
<1> QED BY <1>1 DEF Unguarded

LEMMA UnguardedNext == UNCHANGED listed => Unguarded(store)' = Unguarded(store')
  BY DEF Unguarded, Known

LEMMA LoginIs ==
    ASSUME HistoryTypeOK, NEW u \in Users, NEW a \in Addrs
    PROVE  /\ WithLogin(u, a) \in [Addrs -> Entry]
           /\ WithLogin(u, a)[a] = [users |-> store[a].users \cup {u}, age |-> 0, kept |-> TRUE]
           /\ \A b \in Addrs \ {a} : WithLogin(u, a)[b] = store[b]
<1>1. store \in [Addrs -> Entry] /\ 0 \in Ages
  BY HistoryAssumption DEF HistoryTypeOK, Entry, Ages
<1> QED BY <1>1 DEF WithLogin, Entry

WithScan ==
    [a \in Addrs |->
        IF Found(a) = {} THEN store[a]
        ELSE [users |-> store[a].users \cup Found(a), kept |-> TRUE,
              age |-> Min({authLog[u][a] : u \in Found(a)} \cup {store[a].age})]]

LEMMA WithScanIs ==
    ASSUME HistoryTypeOK
    PROVE  /\ WithScan \in [Addrs -> Entry]
           /\ \A a \in Addrs : /\ WithScan[a].users = store[a].users \cup Found(a)
                               /\ store[a].kept => WithScan[a].kept
                               /\ WithScan[a].age <= store[a].age
<1> SUFFICES ASSUME NEW a \in Addrs
             PROVE  /\ WithScan[a] \in Entry /\ WithScan[a].users = store[a].users \cup Found(a)
                    /\ store[a].kept => WithScan[a].kept
                    /\ WithScan[a].age <= store[a].age
  BY DEF WithScan
<1>1. store[a] \in Entry /\ store[a].age \in Nat /\ \A u \in Users : authLog[u][a] \in Ages
  BY HistoryAssumption DEF HistoryTypeOK, Entry, Ages
<1>2. Found(a) \subseteq Users
  BY DEF Found
<1>3. CASE Found(a) = {}
  BY <1>1, <1>3 DEF WithScan
<1>4. CASE Found(a) # {}
  <2> DEFINE S == {authLog[u][a] : u \in Found(a)} \cup {store[a].age}
  <2>1. S \in SUBSET Ages /\ S # {} /\ store[a].age \in S
    BY <1>1, <1>2 DEF Entry
  <2>2. WithScan[a] = [users |-> store[a].users \cup Found(a), kept |-> TRUE, age |-> Min(S)]
    BY <1>4 DEF WithScan
  <2> HIDE DEF S
  <2>3. Min(S) \in Ages /\ Min(S) <= store[a].age
    BY <2>1, MinIs, HistoryAssumption DEF Ages
  <2> QED BY <1>1, <1>2, <2>2, <2>3 DEF Entry
<1> QED BY <1>3, <1>4

LEMMA HistoryInitially == HistoryInit => HistoryInv
<1> SUFFICES ASSUME HistoryInit PROVE HistoryInv
  OBVIOUS
<1>1. Keep \in Ages /\ Keep \in Nat /\ MaxEntries \in Nat
  BY HistoryAssumption DEF Ages
<1>2. {a \in Addrs : store[a].kept} = {}
  BY DEF HistoryInit, Missing
<1>3. Cardinality({a \in Addrs : store[a].kept}) <= MaxEntries
  BY <1>1, <1>2, FS_EmptySet
<1>4. store \in [Addrs -> Entry] /\ savedStore \in [Addrs -> Entry]
  BY MissingIs DEF HistoryInit
<1>5. authLog \in [Users -> [Addrs -> Ages]]
  BY <1>1 DEF HistoryInit
<1>6. HistoryTypeOK
  BY <1>3, <1>4, <1>5, HistoryBounds DEF HistoryInit, HistoryTypeOK, Entry
<1> QED BY <1>6 DEF HistoryInit, HistoryInv, HistoryFresh, PolicyIsCurrent

\* The history after it was pruned has its type, its size and nothing out of the window.
LEMMA PrunedNext ==
    ASSUME NEW st \in [Addrs -> Entry], store' \in Pruned(st)
    PROVE  /\ store' \in [Addrs -> Entry]
           /\ Cardinality({a \in Addrs : store[a].kept}') <= MaxEntries
           /\ HistoryFresh'
<1>1. PICK k \in SUBSET Known(st) :
        /\ store' \in [Addrs -> Entry]
        /\ {a \in Addrs : store'[a].kept} = k /\ Known(store') = k
        /\ Cardinality(k) <= MaxEntries
  BY PrunedIs
<1>2. \A a \in Addrs : store'[a].kept => store'[a].age < Keep
  BY <1>1 DEF Known
<1> QED BY <1>1, <1>2 DEF HistoryFresh

\* A login that changes nothing but ages leaves everybody as guarded as he was.
LEMMA LoginSameUnguarded ==
    ASSUME HistoryInv, ~rescanDue, NEW u \in Users, NEW a \in Addrs,
           store[a].kept, u \in store[a].users, NEW t \in Pruned(WithLogin(u, a))
    PROVE  Unguarded(t) = Unguarded(store)
<1> DEFINE st == WithLogin(u, a)
<1>1. /\ st \in [Addrs -> Entry] /\ st[a].kept /\ st[a].age = 0
      /\ \A b \in Addrs : st[b].users = store[b].users
      /\ \A b \in Addrs \ {a} : st[b] = store[b]
  <2>1. /\ st \in [Addrs -> Entry]
        /\ st[a] = [users |-> store[a].users \cup {u}, age |-> 0, kept |-> TRUE]
        /\ \A b \in Addrs \ {a} : st[b] = store[b]
    BY LoginIs DEF HistoryInv
  <2>2. store[a].users \cup {u} = store[a].users
    OBVIOUS
  <2> HIDE DEF st
  <2> QED BY <2>1, <2>2
<1>2. Known(store) = {b \in Addrs : store[b].kept}
  BY DEF HistoryInv, HistoryFresh, Known
<1>3. Known(st) = Known(store)
  BY <1>1, <1>2, HistoryAssumption DEF Known
<1>4. Cardinality(Known(st)) <= MaxEntries
  BY <1>2, <1>3 DEF HistoryInv, HistoryTypeOK
<1>5. PICK k \in SUBSET Known(st) :
        /\ t = [b \in Addrs |-> IF b \in k THEN st[b] ELSE Missing]
        /\ Known(t) = k
        /\ Cardinality(Known(st)) <= MaxEntries => k = Known(st)
  <2> HIDE DEF st
  <2> QED BY <1>1, PrunedIs DEF st
<1>6. Known(t) = Known(store) /\ \A b \in Known(t) : t[b].users = store[b].users
  <2>1. Known(store) \subseteq Addrs
    BY DEF Known
  <2> HIDE DEF st
  <2> QED BY <1>1, <1>3, <1>4, <1>5, <2>1
<1> QED BY <1>6, SameUnguarded

LEMMA NoteKeeps ==
    ASSUME HistoryInv, NEW u \in Users, NEW a \in Addrs, Note(u, a)
    PROVE  HistoryInv'
<1>1. HistoryTypeOK /\ 0 \in Ages
  BY HistoryAssumption DEF HistoryInv, Ages
<1>2. WithLogin(u, a) \in [Addrs -> Entry] /\ store' \in Pruned(WithLogin(u, a))
  BY <1>1, LoginIs DEF Note
<1>3. /\ store' \in [Addrs -> Entry]
      /\ Cardinality({b \in Addrs : store[b].kept}') <= MaxEntries
      /\ HistoryFresh'
  BY <1>2, PrunedNext
<1>4. authLog' \in [Users -> [Addrs -> Ages]]
  BY <1>1 DEF Note, HistoryTypeOK
<1>5. savedStore' \in [Addrs -> Entry]
  BY <1>1, <1>3 DEF Note, HistoryTypeOK, Entry
<1>6. /\ policy' \subseteq Addrs /\ outdated' \in BOOLEAN /\ listed' \subseteq Users
      /\ rescanDue' \in BOOLEAN /\ listedN' \in 0..MaxListed /\ loadsN' \in 0..MaxLoads
  BY <1>1 DEF Note, Changed, HistoryTypeOK
<1>7. HistoryTypeOK'
  BY <1>3, <1>4, <1>5, <1>6 DEF HistoryTypeOK, Entry, Ages
<1>8. PolicyIsCurrent'
  <2>1. CASE outdated' \/ rescanDue'
    BY <2>1 DEF PolicyIsCurrent
  <2>2. CASE ~(outdated' \/ rescanDue')
    <3>1. /\ ~outdated /\ ~rescanDue /\ policy' = policy /\ UNCHANGED listed
          /\ store[a].kept /\ u \in store[a].users
      BY <2>2 DEF Note, Changed
    <3>2. policy = Unguarded(store)
      BY <3>1 DEF HistoryInv, PolicyIsCurrent
    <3>3. Unguarded(store') = Unguarded(store)
      BY <1>2, <3>1, LoginSameUnguarded
    <3>4. Unguarded(store)' = Unguarded(store')
      BY <3>1, UnguardedNext
    <3> QED BY <3>1, <3>2, <3>3, <3>4 DEF PolicyIsCurrent
  <2> QED BY <2>1, <2>2
<1> QED BY <1>3, <1>7, <1>8 DEF HistoryInv

LEMMA ScanLogsKeeps == HistoryInv /\ ScanLogs => HistoryInv'
<1> SUFFICES ASSUME HistoryInv, ScanLogs PROVE HistoryInv'
  OBVIOUS
<1>1. HistoryTypeOK
  BY DEF HistoryInv
<1>2. WithScan \in [Addrs -> Entry] /\ store' \in Pruned(WithScan)
  BY <1>1, WithScanIs DEF ScanLogs, WithScan
<1>3. /\ store' \in [Addrs -> Entry]
      /\ Cardinality({b \in Addrs : store[b].kept}') <= MaxEntries
      /\ HistoryFresh'
  BY <1>2, PrunedNext
<1>4. savedStore' \in [Addrs -> Entry] /\ outdated' = TRUE /\ policy' = {}
      /\ rescanDue' = FALSE /\ UNCHANGED <<authLog, listed, listedN, loadsN>>
  BY <1>3 DEF ScanLogs, Changed
<1>5. HistoryTypeOK'
  BY <1>1, <1>3, <1>4 DEF HistoryTypeOK, Entry, Ages
<1> QED BY <1>3, <1>4, <1>5 DEF HistoryInv, PolicyIsCurrent

LEMMA HistoryLoadKeeps == HistoryInv /\ Load => HistoryInv'
<1> SUFFICES ASSUME HistoryInv, Load PROVE HistoryInv'
  OBVIOUS
<1>1. HistoryTypeOK
  BY DEF HistoryInv
<1>2. savedStore \in [Addrs -> Entry] /\ store' \in Pruned(savedStore)
  BY <1>1 DEF Load, HistoryTypeOK, Entry
<1>3. /\ store' \in [Addrs -> Entry]
      /\ Cardinality({b \in Addrs : store[b].kept}') <= MaxEntries
      /\ HistoryFresh'
  BY <1>2, PrunedNext
<1>4. savedStore' \in [Addrs -> Entry] /\ outdated' = TRUE /\ policy' = {}
      /\ UNCHANGED <<authLog, rescanDue, listedN>> /\ listed' = {}
      /\ loadsN' \in 0..MaxLoads
  BY <1>1, <1>2, HistoryBounds DEF Load, Changed, HistoryTypeOK
<1>5. HistoryTypeOK'
  BY <1>1, <1>3, <1>4 DEF HistoryTypeOK, Entry, Ages
<1> QED BY <1>3, <1>4, <1>5 DEF HistoryInv, PolicyIsCurrent

LEMMA HistoryDayKeeps == HistoryInv /\ HistoryDay => HistoryInv'
<1> SUFFICES ASSUME HistoryInv, HistoryDay PROVE HistoryInv'
  OBVIOUS
<1>1. HistoryTypeOK
  BY DEF HistoryInv
<1>2. \A n \in Ages : Older(n) \in Ages
  BY HistoryAssumption DEF Older, Ages
<1>3. ASSUME NEW st \in [Addrs -> Entry]
      PROVE  /\ AgedStore(st) \in [Addrs -> Entry]
             /\ \A a \in Addrs : AgedStore(st)[a].kept = st[a].kept
  BY <1>2 DEF AgedStore, Entry
<1>4. store \in [Addrs -> Entry] /\ savedStore \in [Addrs -> Entry]
  BY <1>1 DEF HistoryTypeOK, Entry
<1>5. store' \in [Addrs -> Entry] /\ savedStore' \in [Addrs -> Entry]
  BY <1>3, <1>4 DEF HistoryDay
<1>6. {a \in Addrs : store'[a].kept} = {a \in Addrs : store[a].kept}
  BY <1>3, <1>4 DEF HistoryDay
<1>7. Cardinality({a \in Addrs : store'[a].kept}) <= MaxEntries
  BY <1>1, <1>6 DEF HistoryTypeOK
<1>8. authLog' \in [Users -> [Addrs -> Ages]]
  BY <1>1, <1>2 DEF HistoryDay, HistoryTypeOK
<1>9. outdated' = TRUE /\ policy' = {} /\ rescanDue' = TRUE
      /\ UNCHANGED <<listed, listedN, loadsN>>
  BY DEF HistoryDay, Changed
<1>10. HistoryTypeOK'
  BY <1>1, <1>5, <1>7, <1>8, <1>9 DEF HistoryTypeOK, Entry, Ages
<1> QED BY <1>9, <1>10 DEF HistoryInv, PolicyIsCurrent, HistoryFresh

\* What leaves the history alone.
LEMMA HistoryOthersKeep ==
    ASSUME HistoryInv,
           \/ \E u \in Users, a \in Addrs : Guessed(u, a)
           \/ \E users \in SUBSET Users : SetServiceUsers(users)
           \/ AskPolicy
    PROVE  HistoryInv'
<1>1. HistoryTypeOK /\ 0 \in Ages
  BY HistoryAssumption DEF HistoryInv, Ages
<1>2. UNCHANGED <<store, savedStore, rescanDue>>
  BY DEF Guessed, SetServiceUsers, AskPolicy
<1>3. authLog' \in [Users -> [Addrs -> Ages]]
  <2>1. CASE UNCHANGED authLog
    BY <1>1, <2>1 DEF HistoryTypeOK
  <2>2. CASE \E u \in Users, a \in Addrs : Guessed(u, a)
    BY <1>1, <2>2 DEF Guessed, HistoryTypeOK
  <2> QED BY <2>1, <2>2 DEF SetServiceUsers, AskPolicy
<1>4. listed' \subseteq Users /\ policy' \subseteq Addrs /\ outdated' \in BOOLEAN
  BY <1>1 DEF Guessed, SetServiceUsers, AskPolicy, HistoryTypeOK, Changed, Unguarded, Known
<1>5. listedN' \in 0..MaxListed /\ loadsN' = loadsN
  BY <1>1, HistoryBounds DEF Guessed, SetServiceUsers, AskPolicy, HistoryTypeOK
<1>6. HistoryTypeOK'
  BY <1>1, <1>2, <1>3, <1>4, <1>5 DEF HistoryTypeOK, Ages
<1>7. HistoryFresh'
  BY <1>2 DEF HistoryInv, HistoryFresh
<1>8. PolicyIsCurrent'
  <2>1. CASE \E users \in SUBSET Users : SetServiceUsers(users)
    BY <2>1 DEF SetServiceUsers, Changed, PolicyIsCurrent
  <2>2. CASE AskPolicy
    <3>1. policy' = Unguarded(store) /\ UNCHANGED listed /\ store' = store
      BY <2>2 DEF AskPolicy
    <3>2. Unguarded(store)' = Unguarded(store)
      BY <3>1, UnguardedNext
    <3> QED BY <3>1, <3>2 DEF PolicyIsCurrent
  <2>3. CASE \E u \in Users, a \in Addrs : Guessed(u, a)
    <3>1. UNCHANGED <<store, listed, policy, outdated, rescanDue>>
      BY <2>3 DEF Guessed
    <3>2. Unguarded(store)' = Unguarded(store)
      BY <3>1, UnguardedNext
    <3> QED BY <3>1, <3>2 DEF HistoryInv, PolicyIsCurrent
  <2> QED BY <2>1, <2>2, <2>3
<1> QED BY <1>6, <1>7, <1>8 DEF HistoryInv

LEMMA HistoryKeeps == HistoryInv /\ [HistoryNext]_historyVars => HistoryInv'
<1> SUFFICES ASSUME HistoryInv, [HistoryNext]_historyVars PROVE HistoryInv'
  OBVIOUS
<1>1. CASE UNCHANGED historyVars
  <2>1. HistoryTypeOK' /\ HistoryFresh'
    BY <1>1 DEF historyVars, HistoryInv, HistoryTypeOK, HistoryFresh
  <2>2. Unguarded(store)' = Unguarded(store)
    BY <1>1, UnguardedNext DEF historyVars
  <2>3. PolicyIsCurrent'
    BY <1>1, <2>2 DEF historyVars, HistoryInv, PolicyIsCurrent
  <2> QED BY <2>1, <2>3 DEF HistoryInv
<1>2. CASE HistoryNext
  <2>1. ASSUME NEW u \in Users, NEW a \in Addrs, Note(u, a) PROVE HistoryInv'
    BY <2>1, NoteKeeps
  <2> QED BY <1>2, <2>1, ScanLogsKeeps, HistoryDayKeeps, HistoryLoadKeeps, HistoryOthersKeep
          DEF HistoryNext
<1> QED BY <1>1, <1>2

LEMMA HistoryInvariant == HistorySpec => []HistoryInv
<1> QED BY HistoryInitially, HistoryKeeps, PTL DEF HistorySpec

\* The variables of the history keep their types, and it never outgrows its limit.
THEOREM HistoryTypes == HistorySpec => []HistoryTypeOK
<1>1. HistoryInv => HistoryTypeOK
  BY DEF HistoryInv
<1> QED BY <1>1, HistoryInvariant, PTL

\* Who is found only on what another is found on is on no more networks than he.
LEMMA ManyNetsGrow ==
    ASSUME NEW S \in SUBSET Addrs, NEW T \in SUBSET Addrs, S \subseteq T,
           Cardinality(S) > ServiceNets
    PROVE  Cardinality(T) > ServiceNets
<1>1. IsFiniteSet(Addrs)
  BY HistoryAssumption
<1>2. IsFiniteSet(S) /\ IsFiniteSet(T)
  BY <1>1, FS_Subset
<1>3. Cardinality(S) <= Cardinality(T) /\ Cardinality(S) \in Nat /\ Cardinality(T) \in Nat
  BY <1>2, FS_Subset, FS_CardinalityType
<1> QED BY <1>3, HistoryAssumption

\* Pruning makes nobody a service user.
LEMMA PrunedUnguarded ==
    ASSUME NEW st \in [Addrs -> Entry], NEW k \in SUBSET Known(st), NEW t,
           t = [x \in Addrs |-> IF x \in k THEN st[x] ELSE Missing],
           Known(t) = k
    PROVE  Unguarded(t) \subseteq Unguarded(st)
<1> SUFFICES ASSUME NEW b \in Unguarded(t) PROVE b \in Unguarded(st)
  OBVIOUS
<1>1. b \in k /\ t[b].users # {} /\ Known(st) \subseteq Addrs
  BY DEF Unguarded, Known
<1>2. t[b] = st[b]
  BY <1>1
<1>3. ASSUME NEW v \in st[b].users, v \notin listed
      PROVE  v \in Users /\ Cardinality({x \in Known(st) : v \in st[x].users}) > ServiceNets
  <2> DEFINE S == {x \in Known(t) : v \in t[x].users}
             T == {x \in Known(st) : v \in st[x].users}
  <2>1. v \in Users /\ Cardinality(S) > ServiceNets
    BY <1>2, <1>3 DEF Unguarded
  <2>2. S \in SUBSET Addrs /\ T \in SUBSET Addrs /\ S \subseteq T
    BY <1>1
  <2> HIDE DEF S, T
  <2>3. Cardinality(T) > ServiceNets
    BY <2>1, <2>2, ManyNetsGrow
  <2> QED BY <2>1, <2>3 DEF T
<1>4. st[b].users \subseteq Users
  BY <1>1 DEF Entry
<1> QED BY <1>1, <1>2, <1>3, <1>4 DEF Unguarded

\* Who is pushed out while one of the service users stays is one himself.
LEMMA PushedOut ==
    ASSUME HistoryTypeOK, NEW st \in [Addrs -> Entry], store' \in Pruned(st), UNCHANGED listed,
           NEW a \in Known(st), ~store'[a].kept, NEW b \in Unguarded(store)',
           \A x \in Addrs : \A v \in st[x].users : v \in store[x].users \/ v \in Found(x)'
    PROVE  st[a].users \subseteq listed \cup OnManyNets
<1>1. PICK k \in SUBSET Known(st) :
        /\ store' = [x \in Addrs |-> IF x \in k THEN st[x] ELSE Missing]
        /\ {x \in Addrs : store'[x].kept} = k /\ Known(store') = k
        /\ \A x \in k, y \in Known(st) \ k : x \in Unguarded(st) => y \in Unguarded(st)
  BY PrunedIs
<1>2. b \in Unguarded(store')
  BY UnguardedNext
<1>3. b \in k /\ b \in Unguarded(st)
  <2>1. Unguarded(store') \subseteq Unguarded(st)
    BY <1>1, PrunedUnguarded
  <2>2. Unguarded(store') \subseteq Known(store')
    BY DEF Unguarded
  <2> QED BY <1>1, <1>2, <2>1, <2>2
<1>4. a \in Addrs /\ a \notin k
  BY <1>1 DEF Known
<1>5. a \in Unguarded(st)
  BY <1>1, <1>3, <1>4
<1>6. ASSUME NEW v \in st[a].users, v \notin listed
      PROVE  v \in OnManyNets
  <2> DEFINE S == {x \in Known(st) : v \in st[x].users}
             T == {x \in Addrs : v \in store[x].users \/ v \in Found(x)'}
  <2>1. v \in Users /\ Cardinality(S) > ServiceNets
    BY <1>5, <1>6 DEF Unguarded
  <2>2. S \in SUBSET Addrs /\ T \in SUBSET Addrs /\ S \subseteq T
    BY DEF Known
  <2> HIDE DEF S, T
  <2>3. Cardinality(T) > ServiceNets
    BY <2>1, <2>2, ManyNetsGrow
  <2> QED BY <2>1, <2>3 DEF T, OnManyNets
<1> QED BY <1>6

LEMMA NoteSpares ==
    ASSUME HistoryInv, NEW u \in Users, NEW c \in Addrs, Note(u, c),
           NEW a \in Known(store), NEW b \in Unguarded(store)', ~store'[a].kept
    PROVE  store[a].users \subseteq listed \cup OnManyNets
<1> DEFINE st == WithLogin(u, c)
<1>1. HistoryTypeOK
  BY DEF HistoryInv
<1>2. /\ st \in [Addrs -> Entry]
      /\ st[c] = [users |-> store[c].users \cup {u}, age |-> 0, kept |-> TRUE]
      /\ \A x \in Addrs \ {c} : st[x] = store[x]
  BY <1>1, LoginIs
<1>3. u \in Found(c)'
  BY <1>1, HistoryAssumption DEF Found, Note, HistoryTypeOK
<1>4. store' \in Pruned(st) /\ UNCHANGED listed
  BY DEF Note
<1> HIDE DEF st
<1>5. a \in Known(st) /\ store[a].users \subseteq st[a].users
  BY <1>2, HistoryAssumption DEF Known
<1>6. \A x \in Addrs : \A v \in st[x].users : v \in store[x].users \/ v \in Found(x)'
  BY <1>2, <1>3
<1>7. st[a].users \subseteq listed \cup OnManyNets
  BY <1>1, <1>2, <1>4, <1>5, <1>6, PushedOut
<1> QED BY <1>5, <1>7

LEMMA ScanSpares ==
    ASSUME HistoryInv, ScanLogs,
           NEW a \in Known(store), NEW b \in Unguarded(store)', ~store'[a].kept
    PROVE  store[a].users \subseteq listed \cup OnManyNets
<1>1. HistoryTypeOK
  BY DEF HistoryInv
<1>2. /\ WithScan \in [Addrs -> Entry]
      /\ \A x \in Addrs : /\ WithScan[x].users = store[x].users \cup Found(x)
                          /\ store[x].kept => WithScan[x].kept
                          /\ WithScan[x].age <= store[x].age
  BY <1>1, WithScanIs
<1>3. store' \in Pruned(WithScan) /\ UNCHANGED listed
  BY DEF ScanLogs, WithScan
<1>4. \A x : Found(x)' = Found(x)
  BY DEF ScanLogs, Found
<1>5. a \in Addrs /\ WithScan[a].age \in Nat /\ store[a].age \in Nat /\ Keep \in Nat
  BY <1>1, <1>2, HistoryAssumption DEF Known, Entry, Ages, HistoryTypeOK
<1>6. a \in Known(WithScan) /\ store[a].users \subseteq WithScan[a].users
  BY <1>2, <1>5 DEF Known
<1>7. \A x \in Addrs : \A v \in WithScan[x].users : v \in store[x].users \/ v \in Found(x)'
  BY <1>2, <1>4
<1>8. WithScan[a].users \subseteq listed \cup OnManyNets
  BY <1>1, <1>2, <1>3, <1>6, <1>7, PushedOut
<1> QED BY <1>6, <1>8

\* What pruneLocked and the cached policy are for: who is guarded by the history is known
\* as it is now, and a busy deploy account pushes no administrator out of it.
THEOREM PersonsAreKept == HistorySpec => []PolicyIsCurrent /\ PersonsStay
<1>1. HistoryInv => PolicyIsCurrent
  BY DEF HistoryInv
<1>2. HistoryInv /\ [HistoryNext]_historyVars =>
        [loadsN' = loadsN =>
           \A a \in Known(store) \ Unguarded(store), b \in Unguarded(store)' :
              ~store'[a].kept => store[a].users \subseteq listed \cup OnManyNets]_historyVars
  <2> SUFFICES ASSUME HistoryInv, HistoryNext, loadsN' = loadsN,
                      NEW a \in Known(store) \ Unguarded(store), NEW b \in Unguarded(store)',
                      ~store'[a].kept
               PROVE  store[a].users \subseteq listed \cup OnManyNets
    BY DEF historyVars
  <2>1. store' # store
    BY DEF Known
  <2>2. ~Load
    BY DEF Load, HistoryInv, HistoryTypeOK
  <2>3. ~HistoryDay
    BY DEF HistoryDay, AgedStore, Known, HistoryInv, HistoryTypeOK
  <2>4. (\E u \in Users, c \in Addrs : Note(u, c)) \/ ScanLogs
    BY <2>1, <2>2, <2>3 DEF HistoryNext, AskPolicy, Guessed, SetServiceUsers
  <2> QED BY <2>4, NoteSpares, ScanSpares
<1> QED BY <1>1, <1>2, HistoryInvariant, PTL DEF HistorySpec, PersonsStay

----------------------------------------------------------------------------
(* WebWatch.                                                               *)

Goroutine ==
    {AtEase} \cup [pc : {"scorer"}, ip : Visitors, type : Types]
             \cup [pc : {"decide"}, ip : Visitors, type : Types, action : Actions, before : Actions]
Verdicts == {"none", "real", "impostor", "undecided"}
Lookup   == [rule : {"none", "block", "allow"}, answer : Verdicts]

WebTypes ==
    /\ WebTypeOK
    /\ adding \in [Logs \cup Visitors -> Goroutine]
    /\ verdict \in [Visitors -> Verdicts] /\ lookup \in [Visitors -> Lookup]
    /\ asks \in [Visitors -> Seq(Actions)] /\ flagAge \in [Visitors -> Nat]

\* What makes CrawlersSpared inductive: an answer that waits in the cache or in a lookup
\* calls nobody an impostor the DNS confirms.
ImpostorsAreNone ==
    \A v \in Crawlers : verdict[v] # "impostor" /\ lookup[v].answer # "impostor"

\* What makes AsksOnlyEscalate inductive: nothing longer has been asked for than what
\* is noted of the address.
NotedIsLongest ==
    \A v \in Visitors : \A i \in DOMAIN asks[v] : Rank(asks[v][i]) <= Rank(scored[v])

\* What makes LookedAtAgain inductive: an address that is flagged for its score is not
\* added to any more after the first tick, so that its score ages with the flag until it
\* is too old; the pass of the cleaner after that takes both.
FlagAges ==
    \A v \in Visitors : flagAge[v] > 0 =>
        /\ v \in flagged /\ scored[v] # "none"
        /\ score[v] > 0 => scoreAge[v] >= flagAge[v] - 1
        /\ flagAge[v] > 1 =>
             /\ \A g \in Logs \cup Visitors : adding[g] = AtEase \/ adding[g].ip # v
             /\ cleaner = "scores" /\ score[v] > 0 => scoreAge[v] <= OldAge
             /\ cleaner = "done" => score[v] > 0 /\ scoreAge[v] <= OldAge

WebInv ==
    /\ WebTypes /\ ImpostorsAreNone /\ NotedIsLongest /\ FlagAges
    /\ CrawlersSpared /\ AsksOnlyEscalate /\ LookedAtAgain

LEMMA WebConstants == OldAge \in Nat \ {0} /\ Decay \in Nat \ {0}
<1> DEFINE S == {BlockAt, BlacklistAt, Decay, OldAge, MaxScored, LoginTries, MaxLookups}
<1>1. OldAge \in S /\ Decay \in S
  OBVIOUS
<1>2. S \subseteq Nat \ {0}
  BY WebAssumption
<1> QED BY <1>1, <1>2

LEMMA WebInitially == WebInit => WebInv
<1> SUFFICES ASSUME WebInit PROVE WebInv
  OBVIOUS
<1>1. WebTypes
  <2>1. AtEase \in Goroutine /\ AtEase.pc = "idle" /\ NoLookup \in Lookup /\ "none" \in Verdicts
        /\ "none" \in Actions /\ <<>> \in Seq(Actions)
    BY DEF Goroutine, AtEase, NoLookup, Lookup, Verdicts, Actions
  <2>2. 0 \in Nat /\ 0 \in 0..(OldAge + 1)
    BY WebConstants
  <2>3. WebTypeOK
    BY <2>1, <2>2, WebAssumption DEF WebInit, WebTypeOK
  <2> QED BY <2>1, <2>2, <2>3 DEF WebInit, WebTypes
<1>2. ImpostorsAreNone
  BY WebAssumption DEF WebInit, ImpostorsAreNone, NoLookup
<1>3. NotedIsLongest /\ AsksOnlyEscalate
  BY DEF WebInit, NotedIsLongest, AsksOnlyEscalate
<1>4. FlagAges /\ LookedAtAgain
  BY WebConstants DEF WebInit, FlagAges, LookedAtAgain
<1>5. CrawlersSpared
  BY DEF WebInit, CrawlersSpared
<1> QED BY <1>1, <1>2, <1>3, <1>4, <1>5 DEF WebInv

\* What of a request or a verdict on it disturbs: a goroutine may begin to add to an
\* address that is not flagged, the address may come to be flagged.
LEMMA RequestKeeps ==
    ASSUME WebInv, NEW g \in Logs \cup Visitors, NEW v \in Visitors,
           UNCHANGED <<score, scoreAge, scored, cleaner, asks, flagAge>>,
           settings' \in [monitor : BOOLEAN, enabled : SUBSET Types, detectOnly : SUBSET Types,
                          bot : {"block", "allow"}, spared : SUBSET Visitors, foreign : SUBSET Visitors],
           flagged' \in {flagged, flagged \cup {v}}, recent' \subseteq Visitors \X Types,
           \/ adding' = adding
           \/ v \notin flagged /\ \E t \in Types :
                adding' = [adding EXCEPT ![g] = [pc |-> "scorer", ip |-> v, type |-> t]],
           asked' = asked \/ \E b : /\ asked' = asked \cup {b}
                                    /\ b.why = "bot" => b.ip \in Visitors \ Crawlers,
           verdict' \in [Visitors -> Verdicts], lookup' \in [Visitors -> Lookup],
           ImpostorsAreNone'
    PROVE  WebInv'
<1>1. adding' \in [Logs \cup Visitors -> Goroutine]
  <2>1. \A t \in Types : [pc |-> "scorer", ip |-> v, type |-> t] \in Goroutine
    BY DEF Goroutine
  <2>2. adding \in [Logs \cup Visitors -> Goroutine]
    BY DEF WebInv, WebTypes
  <2>3. ASSUME NEW w \in Goroutine PROVE [adding EXCEPT ![g] = w] \in [Logs \cup Visitors -> Goroutine]
    BY <2>2
  <2> QED BY <2>1, <2>2, <2>3
<1>2. \A h \in Goroutine : h.pc \in {"idle", "scorer", "decide"}
  BY DEF Goroutine, AtEase
<1>3. WebTypeOK'
  BY <1>1, <1>2 DEF WebInv, WebTypes, WebTypeOK
<1>4. WebTypes'
  BY <1>1, <1>3 DEF WebInv, WebTypes
<1>5. NotedIsLongest' /\ AsksOnlyEscalate' /\ LookedAtAgain'
  BY DEF WebInv, NotedIsLongest, AsksOnlyEscalate, LookedAtAgain
<1>6. FlagAges'
  <2> SUFFICES ASSUME NEW u \in Visitors, flagAge[u] > 1, u \in flagged, NEW h \in Logs \cup Visitors,
                      adding[h] = AtEase \/ adding[h].ip # u
               PROVE  adding'[h] = AtEase \/ adding'[h].ip # u
    BY DEF WebInv, FlagAges
  <2>1. CASE adding' = adding
    BY <2>1
  <2>2. ASSUME v \notin flagged, NEW t \in Types,
               adding' = [adding EXCEPT ![g] = [pc |-> "scorer", ip |-> v, type |-> t]]
        PROVE  adding'[h] = AtEase \/ adding'[h].ip # u
    <3>1. DOMAIN adding = Logs \cup Visitors /\ u # v
      BY <2>2 DEF WebInv, WebTypes
    <3> QED BY <2>2, <3>1
  <2> QED BY <2>1, <2>2
<1>7. CrawlersSpared'
  BY DEF WebInv, CrawlersSpared
<1> QED BY <1>4, <1>5, <1>6, <1>7 DEF WebInv

LEMMA ScoreBegins ==
    ASSUME WebTypes, NEW g \in Logs \cup Visitors, NEW v \in Visitors, NEW t \in Types,
           BeginScore(g, v, t)
    PROVE  /\ recent' \subseteq Visitors \X Types
           /\ \/ adding' = adding
              \/ adding' = [adding EXCEPT ![g] = [pc |-> "scorer", ip |-> v, type |-> t]]
  BY DEF BeginScore, WebTypes, WebTypeOK

LEMMA VerdictActs ==
    ASSUME WebInv, NEW g \in Logs \cup Visitors, NEW v \in Visitors, NEW rule, NEW d,
           WithVerdict(g, v, rule, d), d = "impostor" => v \notin Crawlers
    PROVE  /\ flagged' \in {flagged, flagged \cup {v}} /\ recent' \subseteq Visitors \X Types
           /\ \/ adding' = adding
              \/ v \notin flagged /\ \E t \in Types :
                   adding' = [adding EXCEPT ![g] = [pc |-> "scorer", ip |-> v, type |-> t]]
           /\ asked' = asked \/ \E b : /\ asked' = asked \cup {b}
                                       /\ b.why = "bot" => b.ip \in Visitors \ Crawlers
<1>1. WebTypes /\ recent \subseteq Visitors \X Types /\ "spoofed" \in Types
  BY WebAssumption DEF WebInv, WebTypes, WebTypeOK
<1>2. CASE d # "impostor" \/ v \in flagged
  BY <1>1, <1>2 DEF WithVerdict
<1>3. CASE d = "impostor" /\ v \notin flagged /\ rule = "block"
  <2>1. /\ flagged' = flagged \cup {v} /\ UNCHANGED <<recent, adding>>
        /\ asked' = asked \cup {[ip |-> v, why |-> "bot", action |-> "block"]}
    BY <1>3 DEF WithVerdict, AskBan
  <2>2. \A b : b = [ip |-> v, why |-> "bot", action |-> "block"] => b.ip \in Visitors \ Crawlers
    BY <1>3
  <2> QED BY <1>1, <2>1, <2>2
<1>4. CASE d = "impostor" /\ v \notin flagged /\ rule # "block"
  <2>1. BeginScore(g, v, "spoofed") /\ UNCHANGED <<flagged, asked>>
    BY <1>4 DEF WithVerdict
  <2>2. /\ recent' \subseteq Visitors \X Types
        /\ \/ adding' = adding
           \/ adding' = [adding EXCEPT ![g] = [pc |-> "scorer", ip |-> v, type |-> "spoofed"]]
    BY <1>1, <2>1, ScoreBegins
  <2> QED BY <1>1, <1>4, <2>1, <2>2
<1> QED BY <1>2, <1>3, <1>4

LEMMA BannedFor ==
    ASSUME NEW v, NEW why, why # "bot"
    PROVE  \A b : b = [ip |-> v, why |-> why, action |-> "block"] => b.why # "bot"
  OBVIOUS

LEMMA RequestTrue ==
    ASSUME WebInv, NEW l \in Logs, NEW v \in Visitors,
           \/ Foreign(l, v) \/ FailedLogin(l, v) \/ OtherBot(l, v) \/ ClaimsCrawler(l, v)
           \/ \E t \in Types : Attack(l, v, t)
    PROVE  WebInv'
<1>1. /\ settings' \in [monitor : BOOLEAN, enabled : SUBSET Types, detectOnly : SUBSET Types,
                       bot : {"block", "allow"}, spared : SUBSET Visitors, foreign : SUBSET Visitors]
      /\ cleaner' = cleaner /\ v \notin flagged
  BY DEF WebInv, WebTypes, WebTypeOK, Foreign, FailedLogin, OtherBot, ClaimsCrawler, Attack, Looks, Looked
<1>2. /\ recent \subseteq Visitors \X Types /\ verdict \in [Visitors -> Verdicts]
      /\ lookup \in [Visitors -> Lookup] /\ ImpostorsAreNone /\ WebTypes
      /\ l \in Logs \cup Visitors /\ "login" \in Types
  BY WebAssumption DEF WebInv, WebTypes, WebTypeOK
<1>3. CASE Foreign(l, v)
  <2>1. \A b : b = [ip |-> v, why |-> "country", action |-> "block"] => b.why # "bot"
    <3>1. "country" # "bot"
      OBVIOUS
    <3> QED BY <3>1, BannedFor, Zenon
  <2> QED BY <1>1, <1>2, <1>3, <2>1, RequestKeeps DEF Foreign, AskBan, ImpostorsAreNone
<1>4. CASE FailedLogin(l, v)
  <2>1. /\ recent' \subseteq Visitors \X Types
        /\ \/ adding' = adding
           \/ adding' = [adding EXCEPT ![l] = [pc |-> "scorer", ip |-> v, type |-> "login"]]
    BY <1>2, <1>4, ScoreBegins DEF FailedLogin
  <2> QED BY <1>1, <1>2, <1>4, <2>1, RequestKeeps DEF FailedLogin, ImpostorsAreNone
<1>5. CASE OtherBot(l, v)
  <2>1. \A b : b = [ip |-> v, why |-> "other bot", action |-> "block"] => b.why # "bot"
    <3>1. "other bot" # "bot"
      BY Zenon
    <3> QED BY <3>1, BannedFor, Zenon
  <2>2. /\ flagged' \in {flagged, flagged \cup {v}} /\ UNCHANGED <<recent, adding, verdict, lookup>>
        /\ UNCHANGED <<score, scoreAge, scored, asks, flagAge>>
        /\ asked' = asked \cup {[ip |-> v, why |-> "other bot", action |-> "block"]}
    BY <1>5 DEF OtherBot, AskBan
  <2>3. ImpostorsAreNone'
    BY <1>2, <2>2 DEF ImpostorsAreNone
  <2> QED BY <1>1, <1>2, <2>1, <2>2, <2>3, RequestKeeps
<1>6. ASSUME NEW t \in Types, Attack(l, v, t) PROVE WebInv'
  <2>1. /\ recent' \subseteq Visitors \X Types
        /\ \/ adding' = adding
           \/ adding' = [adding EXCEPT ![l] = [pc |-> "scorer", ip |-> v, type |-> t]]
    BY <1>2, <1>6, ScoreBegins DEF Attack
  <2> QED BY <1>1, <1>2, <1>6, <2>1, RequestKeeps DEF Attack, ImpostorsAreNone
<1>7. CASE ClaimsCrawler(l, v)
  <2>1. CASE verdict[v] # "none"
    <3>1. WithVerdict(l, v, settings.bot, verdict[v]) /\ UNCHANGED <<lookup, verdict>>
      BY <1>7, <2>1 DEF ClaimsCrawler
    <3>2. verdict[v] = "impostor" => v \notin Crawlers
      BY <1>2 DEF ImpostorsAreNone
    <3>3. ImpostorsAreNone'
      BY <1>2, <3>1 DEF ImpostorsAreNone
    <3>4. /\ flagged' \in {flagged, flagged \cup {v}} /\ recent' \subseteq Visitors \X Types
          /\ \/ adding' = adding
             \/ v \notin flagged /\ \E t \in Types :
                  adding' = [adding EXCEPT ![l] = [pc |-> "scorer", ip |-> v, type |-> t]]
          /\ asked' = asked \/ \E b : /\ asked' = asked \cup {b}
                                      /\ b.why = "bot" => b.ip \in Visitors \ Crawlers
      BY <1>2, <3>1, <3>2, VerdictActs
    <3>5. UNCHANGED <<score, scoreAge, scored, asks, flagAge>>
      BY <1>7 DEF ClaimsCrawler
    <3> QED BY <1>1, <1>2, <3>1, <3>3, <3>4, <3>5, RequestKeeps
  <2>2. CASE verdict[v] = "none"
    <3>1. lookup' = lookup \/ lookup' = [lookup EXCEPT ![v].rule = settings.bot]
      BY <1>7, <2>2 DEF ClaimsCrawler
    <3>2. settings.bot \in {"block", "allow"} /\ UNCHANGED <<verdict, flagged, asked, recent, adding>>
      BY <1>2, <1>7, <2>2 DEF ClaimsCrawler, WebTypes, WebTypeOK
    <3>3. lookup' \in [Visitors -> Lookup] /\ \A u \in Visitors : lookup'[u].answer = lookup[u].answer
      BY <1>2, <3>1, <3>2 DEF Lookup
    <3>4. ImpostorsAreNone'
      BY <1>2, <3>2, <3>3, WebAssumption DEF ImpostorsAreNone
    <3>5. UNCHANGED <<score, scoreAge, scored, asks, flagAge>>
      BY <1>7 DEF ClaimsCrawler
    <3> QED BY <1>1, <1>2, <3>2, <3>3, <3>4, <3>5, RequestKeeps
  <2> QED BY <2>1, <2>2
<1> QED BY <1>3, <1>4, <1>5, <1>6, <1>7

LEMMA AnswersTrue ==
    ASSUME WebInv, NEW v \in Visitors, DNSAnswers(v) \/ ActOnVerdict(v)
    PROVE  WebInv'
<1>1. /\ WebTypes /\ ImpostorsAreNone /\ Crawlers \subseteq Visitors
      /\ v \in Logs \cup Visitors
  BY WebAssumption DEF WebInv
<1>2. /\ settings' \in [monitor : BOOLEAN, enabled : SUBSET Types, detectOnly : SUBSET Types,
                       bot : {"block", "allow"}, spared : SUBSET Visitors, foreign : SUBSET Visitors]
      /\ UNCHANGED <<score, scoreAge, scored, cleaner, asks, flagAge>>
      /\ recent \subseteq Visitors \X Types
      /\ verdict \in [Visitors -> Verdicts] /\ lookup \in [Visitors -> Lookup]
  BY <1>1 DEF DNSAnswers, ActOnVerdict, WebTypes, WebTypeOK
<1>3. CASE DNSAnswers(v)
  <2>1. PICK d \in {IF v \in Crawlers THEN "real" ELSE "impostor", "undecided"} :
          verdict' = [verdict EXCEPT ![v] = d] /\ lookup' = [lookup EXCEPT ![v].answer = d]
    BY <1>3 DEF DNSAnswers
  <2>2. d \in Verdicts /\ (d = "impostor" => v \notin Crawlers)
    BY DEF Verdicts
  <2>3. /\ verdict' \in [Visitors -> Verdicts] /\ lookup' \in [Visitors -> Lookup]
        /\ verdict'[v] = d /\ lookup'[v].answer = d
        /\ \A u \in Visitors \ {v} : verdict'[u] = verdict[u] /\ lookup'[u] = lookup[u]
    BY <1>2, <2>1, <2>2 DEF Lookup
  <2>4. ImpostorsAreNone'
    BY <1>1, <2>2, <2>3 DEF ImpostorsAreNone
  <2>5. UNCHANGED <<flagged, recent, adding, asked>>
    BY <1>3 DEF DNSAnswers
  <2> QED BY <1>1, <1>2, <2>3, <2>4, <2>5, RequestKeeps
<1>4. CASE ActOnVerdict(v)
  <2>1. WithVerdict(v, v, lookup[v].rule, lookup[v].answer) /\ verdict' = verdict
        /\ lookup' = [lookup EXCEPT ![v] = NoLookup]
    BY <1>4 DEF ActOnVerdict
  <2>2. lookup[v].answer = "impostor" => v \notin Crawlers
    BY <1>1 DEF ImpostorsAreNone
  <2>3. NoLookup \in Lookup /\ NoLookup.answer # "impostor"
    BY DEF NoLookup, Lookup, Verdicts
  <2>4. lookup' \in [Visitors -> Lookup] /\ ImpostorsAreNone'
    BY <1>1, <1>2, <2>1, <2>3 DEF ImpostorsAreNone
  <2>5. /\ flagged' \in {flagged, flagged \cup {v}} /\ recent' \subseteq Visitors \X Types
        /\ \/ adding' = adding
           \/ v \notin flagged /\ \E t \in Types :
                adding' = [adding EXCEPT ![v] = [pc |-> "scorer", ip |-> v, type |-> t]]
        /\ asked' = asked \/ \E b : /\ asked' = asked \cup {b}
                                    /\ b.why = "bot" => b.ip \in Visitors \ Crawlers
    BY <1>1, <2>1, <2>2, VerdictActs
  <2> QED BY <1>1, <1>2, <2>1, <2>4, <2>5, RequestKeeps
<1> QED BY <1>3, <1>4

\* What is left of a score is no more than it.
LEMMA DecayedIs ==
    ASSUME WebTypes, NEW v \in Visitors
    PROVE  Decayed(v) \in Nat /\ Decayed(v) <= score[v] /\ score[v] \in Nat
<1>1. score[v] \in Nat /\ scoreAge[v] \in Nat /\ Decay \in Nat
  BY WebConstants DEF WebTypes, WebTypeOK
<1>2. Decay * scoreAge[v] \in Nat
  BY <1>1
<1> QED BY <1>1, <1>2 DEF Decayed

LEMMA RanksAre == /\ Rank("none") = 0
                  /\ \A a \in Actions : Rank(a) \in Nat /\ (Rank(a) > 0 => a # "none")
  BY DEF Rank, Actions

LEMMA CallTrue ==
    ASSUME WebInv, NEW g \in Logs \cup Visitors, CallScorer(g)
    PROVE  WebInv'
<1> DEFINE v == adding[g].ip
           t == adding[g].type
           s == Added(v, t)
           w == [pc |-> "decide", ip |-> v, type |-> t, action |-> ActionFor(s), before |-> scored[v]]
<1>1. WebTypes /\ adding \in [Logs \cup Visitors -> Goroutine] /\ scored \in [Visitors -> Actions]
  BY DEF WebInv, WebTypes, WebTypeOK
<1>2. v \in Visitors /\ t \in Types /\ adding[g] # AtEase
  BY <1>1 DEF CallScorer, Goroutine, AtEase
<1>3. s \in Nat /\ ActionFor(s) \in Actions
  <2>1. Points[t] \in Nat
    BY <1>2, WebAssumption
  <2> QED BY <1>1, <1>2, <2>1, DecayedIs DEF Added, ActionFor, Actions
<1>4. /\ score' = [score EXCEPT ![v] = s] /\ scoreAge' = [scoreAge EXCEPT ![v] = 0]
      /\ adding' = [adding EXCEPT ![g] = w]
      /\ UNCHANGED <<settings, flagged, scored, recent, tries, verdict, lookup, cleaner, asked,
                     asks, flagAge, requests, settingsN>>
  BY DEF CallScorer
<1>5. w \in Goroutine /\ w.pc = "decide" /\ w.ip = v
  BY <1>1, <1>2, <1>3 DEF Goroutine
<1> HIDE DEF w, s, v, t
<1>6. WebTypes'
  <2>1. adding' \in [Logs \cup Visitors -> Goroutine]
    BY <1>1, <1>4, <1>5
  <2>2. \A h \in Goroutine : h.pc \in {"idle", "scorer", "decide"}
    BY DEF Goroutine, AtEase
  <2>3. score' \in [Visitors -> Nat] /\ scoreAge' \in [Visitors -> 0..(OldAge + 1)]
    BY <1>2, <1>3, <1>4, WebConstants DEF WebInv, WebTypes, WebTypeOK
  <2>4. WebTypeOK'
    BY <1>4, <2>1, <2>2, <2>3 DEF WebInv, WebTypes, WebTypeOK
  <2> QED BY <1>4, <2>1, <2>4 DEF WebInv, WebTypes
<1>7. ImpostorsAreNone' /\ NotedIsLongest' /\ CrawlersSpared' /\ AsksOnlyEscalate' /\ LookedAtAgain'
  BY <1>4 DEF WebInv, ImpostorsAreNone, NotedIsLongest, CrawlersSpared, AsksOnlyEscalate, LookedAtAgain
<1>8. FlagAges'
  <2> SUFFICES ASSUME NEW u \in Visitors, flagAge[u] > 0
               PROVE  /\ u \in flagged /\ scored[u] # "none"
                      /\ score'[u] > 0 => scoreAge'[u] >= flagAge[u] - 1
                      /\ flagAge[u] > 1 =>
                           /\ \A h \in Logs \cup Visitors : adding'[h] = AtEase \/ adding'[h].ip # u
                           /\ cleaner = "scores" /\ score'[u] > 0 => scoreAge'[u] <= OldAge
                           /\ cleaner = "done" => score'[u] > 0 /\ scoreAge'[u] <= OldAge
    BY <1>4 DEF FlagAges
  <2>1. CASE u = v
    <3>1. ~(flagAge[u] > 1) /\ flagAge[u] \in Nat
      BY <1>1, <1>2, <2>1 DEF WebInv, FlagAges, WebTypes, v
    <3>2. flagAge[u] = 1 /\ scoreAge'[u] = 0
      BY <1>1, <1>2, <1>4, <2>1, <3>1 DEF WebTypes, WebTypeOK
    <3> QED BY <3>1, <3>2 DEF WebInv, FlagAges
  <2>2. CASE u # v
    <3>1. score'[u] = score[u] /\ scoreAge'[u] = scoreAge[u]
      BY <1>1, <1>4, <2>2 DEF WebTypes, WebTypeOK
    <3>2. \A h \in Logs \cup Visitors : adding[h] = AtEase \/ adding[h].ip # u
            => adding'[h] = AtEase \/ adding'[h].ip # u
      BY <1>1, <1>4, <1>5, <2>2
    <3> QED BY <3>1, <3>2 DEF WebInv, FlagAges
  <2> QED BY <2>1, <2>2
<1> QED BY <1>6, <1>7, <1>8 DEF WebInv

LEMMA DecideTrue ==
    ASSUME WebInv, NEW g \in Logs \cup Visitors, Decide(g)
    PROVE  WebInv'
<1> DEFINE a == adding[g]
           v == a.ip
<1>1. WebTypes /\ adding \in [Logs \cup Visitors -> Goroutine] /\ scored \in [Visitors -> Actions]
  BY DEF WebInv, WebTypes, WebTypeOK
<1>2. /\ v \in Visitors /\ a.type \in Types /\ a.action \in Actions /\ a # AtEase
      /\ AtEase \in Goroutine
  BY <1>1 DEF Decide, Goroutine, AtEase
<1>3. /\ adding' = [adding EXCEPT ![g] = AtEase]
      /\ UNCHANGED <<settings, score, scoreAge, recent, tries, verdict, lookup, cleaner,
                     requests, settingsN>>
      /\ \/ UNCHANGED <<scored, flagged, asked, asks, flagAge>>
         \/ /\ Rank(a.action) > Rank(scored[v])
            /\ scored' = [scored EXCEPT ![v] = a.action] /\ flagged' = flagged \cup {v}
            /\ AskBan(v, a.type, a.action) /\ flagAge' = [flagAge EXCEPT ![v] = 1]
            /\ asks' = [asks EXCEPT ![v] = Append(@, a.action)]
  BY DEF Decide
<1>4. ~(flagAge[v] > 1)
  <2>1. flagAge[v] \in Nat
    BY <1>1, <1>2 DEF WebTypes
  <2> QED BY <1>2, <2>1 DEF WebInv, FlagAges
<1>5. a.type # "bot"
  BY <1>2, WebAssumption
<1> HIDE DEF a, v
<1>6. adding' \in [Logs \cup Visitors -> Goroutine]
  BY <1>1, <1>2, <1>3
<1>7. /\ \A h \in Goroutine : h.pc \in {"idle", "scorer", "decide"}
      /\ \A h \in Logs \cup Visitors : \A u \in Visitors :
           adding[h] = AtEase \/ adding[h].ip # u => adding'[h] = AtEase \/ adding'[h].ip # u
  BY <1>1, <1>3 DEF Goroutine, AtEase
<1>8. CASE UNCHANGED <<scored, flagged, asked, asks, flagAge>>
  <2>1. WebTypes'
    BY <1>3, <1>6, <1>7, <1>8 DEF WebInv, WebTypes, WebTypeOK
  <2>2. FlagAges'
    BY <1>3, <1>7, <1>8 DEF WebInv, FlagAges
  <2>3. ImpostorsAreNone' /\ NotedIsLongest' /\ CrawlersSpared' /\ AsksOnlyEscalate' /\ LookedAtAgain'
    BY <1>3, <1>8 DEF WebInv, ImpostorsAreNone, NotedIsLongest, CrawlersSpared, AsksOnlyEscalate,
                      LookedAtAgain
  <2> QED BY <2>1, <2>2, <2>3 DEF WebInv
<1>9. CASE /\ Rank(a.action) > Rank(scored[v])
           /\ scored' = [scored EXCEPT ![v] = a.action] /\ flagged' = flagged \cup {v}
           /\ AskBan(v, a.type, a.action) /\ flagAge' = [flagAge EXCEPT ![v] = 1]
           /\ asks' = [asks EXCEPT ![v] = Append(@, a.action)]
  <2>1. /\ Rank(a.action) \in Nat /\ Rank(scored[v]) \in Nat /\ a.action # "none"
        /\ asks \in [Visitors -> Seq(Actions)] /\ asks[v] \in Seq(Actions)
        /\ flagAge \in [Visitors -> Nat] /\ scored \in [Visitors -> Actions]
    BY <1>1, <1>2, <1>9, RanksAre DEF WebTypes
  <2>2. WebTypes'
    <3>1. scored' \in [Visitors -> Actions] /\ flagAge' \in [Visitors -> Nat]
          /\ asks' \in [Visitors -> Seq(Actions)]
      BY <1>2, <1>9, <2>1
    <3>2. /\ flagged' \subseteq Visitors
          /\ \A u \in Visitors : scored'[u] # "none" => u \in flagged'
      BY <1>1, <1>2, <1>9 DEF WebTypes, WebTypeOK
    <3> QED BY <1>3, <1>6, <1>7, <3>1, <3>2 DEF WebInv, WebTypes, WebTypeOK
  <2>3. ImpostorsAreNone'
    BY <1>3 DEF WebInv, ImpostorsAreNone
  <2>4. CrawlersSpared'
    <3>1. \A b : b = [ip |-> v, why |-> a.type, action |-> a.action] => b.why # "bot"
      BY <1>5
    <3> QED BY <1>9, <3>1 DEF WebInv, CrawlersSpared, AskBan
  <2>5. \A u \in Visitors \ {v} : asks'[u] = asks[u] /\ scored'[u] = scored[u]
    BY <1>9, <2>1
  <2>6. /\ scored'[v] = a.action /\ asks'[v] = Append(asks[v], a.action)
        /\ DOMAIN asks[v] = 1..Len(asks[v]) /\ Len(asks[v]) \in Nat
        /\ DOMAIN asks'[v] = 1..Len(asks[v]) + 1
        /\ asks'[v][Len(asks[v]) + 1] = a.action
        /\ \A i \in 1..Len(asks[v]) : asks'[v][i] = asks[v][i] /\ asks[v][i] \in Actions
    BY <1>2, <1>9, <2>1
  <2>7. \A i \in DOMAIN asks[v] : Rank(asks[v][i]) \in Nat /\ Rank(asks[v][i]) < Rank(a.action)
    <3> TAKE i \in DOMAIN asks[v]
    <3>1. asks[v][i] \in Actions
      BY <2>6
    <3>2. Rank(asks[v][i]) \in Nat
      BY <3>1, RanksAre
    <3>3. Rank(asks[v][i]) <= Rank(scored[v])
      BY <1>2 DEF WebInv, NotedIsLongest
    <3> QED BY <1>9, <2>1, <3>2, <3>3
  <2>8. NotedIsLongest'
    <3> SUFFICES ASSUME NEW u \in Visitors, NEW i \in DOMAIN asks'[u]
                 PROVE  Rank(asks'[u][i]) <= Rank(scored'[u])
      BY DEF NotedIsLongest
    <3>1. CASE u # v
      BY <2>5, <3>1 DEF WebInv, NotedIsLongest
    <3>2. CASE u = v /\ i \in DOMAIN asks[v]
      BY <2>1, <2>6, <2>7, <3>2
    <3>3. CASE u = v /\ i \notin DOMAIN asks[v]
      BY <2>1, <2>6, <3>3
    <3> QED BY <3>1, <3>2, <3>3
  <2>9. AsksOnlyEscalate'
    <3> SUFFICES ASSUME NEW u \in Visitors, NEW i \in DOMAIN asks'[u], NEW j \in DOMAIN asks'[u], i < j
                 PROVE  Rank(asks'[u][i]) < Rank(asks'[u][j])
      BY DEF AsksOnlyEscalate
    <3>1. CASE u # v
      BY <2>5, <3>1 DEF WebInv, AsksOnlyEscalate
    <3>2. CASE u = v /\ j \in DOMAIN asks[v]
      <4>1. i \in DOMAIN asks[v]
        BY <2>6, <3>2
      <4> QED BY <1>2, <2>6, <3>2, <4>1 DEF WebInv, AsksOnlyEscalate
    <3>3. CASE u = v /\ j \notin DOMAIN asks[v]
      <4>1. i \in DOMAIN asks[v] /\ asks'[v][j] = a.action
        BY <2>6, <3>3
      <4> QED BY <2>6, <2>7, <3>3, <4>1
    <3> QED BY <3>1, <3>2, <3>3
  <2>10. /\ flagAge'[v] = 1
         /\ \A u \in Visitors \ {v} : flagAge'[u] = flagAge[u]
    BY <1>2, <1>9, <2>1
  <2>11. LookedAtAgain'
    BY <2>10, WebConstants DEF WebInv, LookedAtAgain
  <2>12. FlagAges'
    <3> SUFFICES ASSUME NEW u \in Visitors, flagAge'[u] > 0
                 PROVE  /\ u \in flagged' /\ scored'[u] # "none"
                        /\ score[u] > 0 => scoreAge[u] >= flagAge'[u] - 1
                        /\ flagAge'[u] > 1 =>
                             /\ \A h \in Logs \cup Visitors : adding'[h] = AtEase \/ adding'[h].ip # u
                             /\ cleaner = "scores" /\ score[u] > 0 => scoreAge[u] <= OldAge
                             /\ cleaner = "done" => score[u] > 0 /\ scoreAge[u] <= OldAge
      BY <1>3 DEF FlagAges
    <3>1. CASE u # v
      BY <1>7, <1>9, <2>5, <2>10, <3>1 DEF WebInv, FlagAges
    <3>2. CASE u = v
      <4>1. scoreAge[u] \in Nat
        BY <1>1, WebConstants DEF WebTypes, WebTypeOK
      <4> QED BY <1>9, <2>1, <2>6, <2>10, <3>2, <4>1
    <3> QED BY <3>1, <3>2
  <2> QED BY <2>2, <2>3, <2>4, <2>8, <2>9, <2>11, <2>12 DEF WebInv
<1> QED BY <1>3, <1>8, <1>9

LEMMA CleanupTrue ==
    ASSUME WebInv, DecayAndCleanup
    PROVE  WebInv'
<1>1. PICK e \in Evicted([v \in Visitors |-> IF scoreAge[v] > OldAge THEN 0 ELSE Decayed(v)]) :
        score' = [v \in Visitors |-> IF v \in e THEN 0
                                     ELSE [u \in Visitors |-> IF scoreAge[u] > OldAge THEN 0
                                                              ELSE Decayed(u)][v]]
  BY DEF DecayAndCleanup
<1>2. /\ cleaner' = "scores"
      /\ scoreAge' = [v \in Visitors |-> IF score'[v] = 0 THEN 0 ELSE scoreAge[v]]
      /\ UNCHANGED <<settings, flagged, scored, recent, tries, adding, verdict, lookup, asked,
                     asks, flagAge, requests, settingsN>>
  BY DEF DecayAndCleanup
<1>3. WebTypes /\ score \in [Visitors -> Nat] /\ scoreAge \in [Visitors -> 0..(OldAge + 1)]
  BY DEF WebInv, WebTypes, WebTypeOK
<1>4. \A v \in Visitors :
         /\ Decayed(v) \in Nat /\ Decayed(v) <= score[v] /\ score[v] \in Nat
         /\ scoreAge[v] \in Nat
  BY <1>3, DecayedIs
<1>5. \A v \in Visitors :
         /\ score'[v] \in Nat /\ score'[v] <= score[v]
         /\ score'[v] > 0 => scoreAge'[v] = scoreAge[v] /\ scoreAge[v] <= OldAge
         /\ scoreAge'[v] \in {0, scoreAge[v]}
  BY <1>1, <1>2, <1>4, WebConstants
<1>6. WebTypes'
  <2>1. score' \in [Visitors -> Nat]
    BY <1>1, <1>5
  <2>2. scoreAge' \in [Visitors -> 0..(OldAge + 1)]
    BY <1>2, <1>3, <1>5, WebConstants
  <2> QED BY <1>2, <2>1, <2>2 DEF WebInv, WebTypes, WebTypeOK
<1>7. ImpostorsAreNone' /\ NotedIsLongest' /\ CrawlersSpared' /\ AsksOnlyEscalate' /\ LookedAtAgain'
  BY <1>2 DEF WebInv, ImpostorsAreNone, NotedIsLongest, CrawlersSpared, AsksOnlyEscalate, LookedAtAgain
<1>8. FlagAges'
  <2> SUFFICES ASSUME NEW u \in Visitors, flagAge[u] > 0
               PROVE  /\ u \in flagged /\ scored[u] # "none"
                      /\ score'[u] > 0 => scoreAge'[u] >= flagAge[u] - 1
                      /\ flagAge[u] > 1 =>
                           /\ \A h \in Logs \cup Visitors : adding[h] = AtEase \/ adding[h].ip # u
                           /\ score'[u] > 0 => scoreAge'[u] <= OldAge
    BY <1>2 DEF FlagAges
  <2>1. score'[u] > 0 => score[u] > 0
    BY <1>4, <1>5
  <2> QED BY <1>5, <2>1 DEF WebInv, FlagAges
<1> QED BY <1>6, <1>7, <1>8 DEF WebInv

LEMMA ClearTrue ==
    ASSUME WebInv, ClearFlags
    PROVE  WebInv'
<1> DEFINE cleared == {v \in Visitors : scored[v] # "none" /\ Decayed(v) = 0}
<1>1. /\ cleaner = "scores" /\ cleaner' = "done"
      /\ scored' = [v \in Visitors |-> IF v \in cleared THEN "none" ELSE scored[v]]
      /\ flagged' = flagged \ cleared
      /\ asks' = [v \in Visitors |-> IF v \in cleared THEN <<>> ELSE asks[v]]
      /\ flagAge' = [v \in Visitors |-> IF v \in cleared THEN 0 ELSE flagAge[v]]
      /\ UNCHANGED <<settings, score, scoreAge, recent, tries, adding, verdict, lookup, asked,
                     requests, settingsN>>
  BY DEF ClearFlags
<1>2. /\ WebTypes /\ scored \in [Visitors -> Actions] /\ asks \in [Visitors -> Seq(Actions)]
      /\ flagAge \in [Visitors -> Nat] /\ "none" \in Actions
  BY DEF WebInv, WebTypes, WebTypeOK, Actions
<1>3. \A v \in Visitors \ cleared :
         /\ scored[v] # "none" => score[v] > 0
         /\ scored'[v] = scored[v] /\ asks'[v] = asks[v] /\ flagAge'[v] = flagAge[v]
  <2> TAKE v \in Visitors \ cleared
  <2>1. Decayed(v) \in Nat /\ Decayed(v) <= score[v] /\ score[v] \in Nat
    BY <1>2, DecayedIs
  <2> QED BY <1>1, <2>1
<1>4. \A v \in cleared : scored'[v] = "none" /\ asks'[v] = <<>> /\ flagAge'[v] = 0 /\ v \in Visitors
  BY <1>1
<1> HIDE DEF cleared
<1>5. WebTypes'
  <2>1. /\ scored' \in [Visitors -> Actions] /\ asks' \in [Visitors -> Seq(Actions)]
        /\ flagAge' \in [Visitors -> Nat]
    BY <1>1, <1>2
  <2>2. /\ flagged' \subseteq Visitors
        /\ \A v \in Visitors : scored'[v] # "none" => v \in flagged'
    BY <1>1, <1>2, <1>3, <1>4 DEF WebTypes, WebTypeOK
  <2> QED BY <1>1, <2>1, <2>2 DEF WebInv, WebTypes, WebTypeOK
<1>6. ImpostorsAreNone' /\ CrawlersSpared'
  BY <1>1 DEF WebInv, ImpostorsAreNone, CrawlersSpared
<1>7. NotedIsLongest' /\ AsksOnlyEscalate'
  <2>1. \A v \in cleared : DOMAIN asks'[v] = {}
    BY <1>4
  <2> QED BY <1>3, <2>1 DEF WebInv, NotedIsLongest, AsksOnlyEscalate
<1>8. LookedAtAgain'
  BY <1>3, <1>4, WebConstants DEF WebInv, LookedAtAgain
<1>9. FlagAges'
  <2> SUFFICES ASSUME NEW u \in Visitors, flagAge'[u] > 0
               PROVE  /\ u \in flagged' /\ scored'[u] # "none"
                      /\ score[u] > 0 => scoreAge[u] >= flagAge'[u] - 1
                      /\ flagAge'[u] > 1 =>
                           /\ \A h \in Logs \cup Visitors : adding[h] = AtEase \/ adding[h].ip # u
                           /\ score[u] > 0 /\ scoreAge[u] <= OldAge
    BY <1>1 DEF FlagAges
  <2>1. u \notin cleared
    BY <1>4
  <2> QED BY <1>1, <1>3, <2>1 DEF WebInv, FlagAges
<1> QED BY <1>5, <1>6, <1>7, <1>8, <1>9 DEF WebInv

LEMMA TickTrue ==
    ASSUME WebInv, FiveMinutes
    PROVE  WebInv'
<1>1. /\ cleaner = "done" /\ cleaner' = "due" /\ \A g \in DOMAIN adding : adding[g].pc = "idle"
      /\ scoreAge' = [v \in Visitors |-> IF score[v] = 0 THEN 0
                                         ELSE IF scoreAge[v] > OldAge THEN scoreAge[v]
                                         ELSE scoreAge[v] + 1]
      /\ recent' = {}
      /\ verdict' = [v \in Visitors |-> IF verdict[v] = "undecided" THEN "none" ELSE verdict[v]]
      /\ flagAge' = [v \in Visitors |-> IF v \in flagged /\ flagAge[v] > 0 THEN flagAge[v] + 1
                                        ELSE 0]
      /\ UNCHANGED <<settings, score, flagged, scored, adding, lookup, asked, asks, requests,
                     settingsN>>
  BY DEF FiveMinutes
<1>2. /\ WebTypes /\ score \in [Visitors -> Nat] /\ scoreAge \in [Visitors -> 0..(OldAge + 1)]
      /\ flagAge \in [Visitors -> Nat] /\ verdict \in [Visitors -> Verdicts]
      /\ adding \in [Logs \cup Visitors -> Goroutine]
  BY DEF WebInv, WebTypes, WebTypeOK
<1>3. WebTypes'
  <2>1. /\ scoreAge' \in [Visitors -> 0..(OldAge + 1)] /\ flagAge' \in [Visitors -> Nat]
        /\ verdict' \in [Visitors -> Verdicts]
    BY <1>1, <1>2, WebConstants DEF Verdicts
  <2> QED BY <1>1, <2>1 DEF WebInv, WebTypes, WebTypeOK
<1>4. ImpostorsAreNone'
  <2>1. \A v \in Visitors : verdict'[v] = "impostor" => verdict[v] = "impostor"
    BY <1>1, <1>2
  <2> QED BY <1>1, <2>1, WebAssumption DEF WebInv, ImpostorsAreNone
<1>5. NotedIsLongest' /\ CrawlersSpared' /\ AsksOnlyEscalate'
  BY <1>1 DEF WebInv, NotedIsLongest, CrawlersSpared, AsksOnlyEscalate
<1>6. ASSUME NEW v \in Visitors, flagAge'[v] > 0
      PROVE  /\ v \in flagged /\ flagAge[v] > 0 /\ flagAge'[v] = flagAge[v] + 1
             /\ flagAge[v] \in Nat /\ score[v] \in Nat /\ scoreAge[v] \in Nat
             /\ score[v] > 0 => scoreAge'[v] = scoreAge[v] + 1 \/ (scoreAge[v] > OldAge /\ scoreAge'[v] = scoreAge[v])
             /\ flagAge[v] > 1 => score[v] > 0 /\ scoreAge[v] <= OldAge /\ scoreAge[v] >= flagAge[v] - 1
  <2>1. /\ v \in flagged /\ flagAge[v] > 0 /\ flagAge'[v] = flagAge[v] + 1
        /\ flagAge[v] \in Nat /\ score[v] \in Nat /\ scoreAge[v] \in Nat
    BY <1>1, <1>2, <1>6, WebConstants
  <2>2. score[v] > 0 => scoreAge'[v] = scoreAge[v] + 1 \/ (scoreAge[v] > OldAge /\ scoreAge'[v] = scoreAge[v])
    BY <1>1
  <2>3. flagAge[v] > 1 => score[v] > 0 /\ scoreAge[v] <= OldAge /\ scoreAge[v] >= flagAge[v] - 1
    BY <1>1, <2>1 DEF WebInv, FlagAges
  <2> QED BY <2>1, <2>2, <2>3
<1>7. LookedAtAgain'
  <2> SUFFICES ASSUME NEW v \in Visitors, flagAge'[v] > 0
               PROVE  flagAge'[v] <= OldAge + 2
    BY <1>1, <1>2, WebConstants DEF LookedAtAgain
  <2>1. OldAge \in Nat
    BY WebConstants
  <2>2. flagAge[v] = 1 \/ flagAge[v] > 1
    BY <1>6
  <2> QED BY <1>6, <2>1, <2>2
<1>8. FlagAges'
  <2> SUFFICES ASSUME NEW v \in Visitors, flagAge'[v] > 0
               PROVE  /\ v \in flagged /\ scored[v] # "none"
                      /\ score[v] > 0 => scoreAge'[v] >= flagAge'[v] - 1
                      /\ flagAge'[v] > 1 =>
                           \A h \in Logs \cup Visitors : adding[h] = AtEase \/ adding[h].ip # v
    BY <1>1 DEF FlagAges
  <2>1. \A h \in Logs \cup Visitors : adding[h] = AtEase
    BY <1>1, <1>2 DEF Goroutine
  <2>2. scored[v] # "none"
    BY <1>6 DEF WebInv, FlagAges
  <2>3. score[v] > 0 => scoreAge'[v] >= flagAge'[v] - 1
    BY <1>6, WebConstants
  <2> QED BY <1>6, <2>1, <2>2, <2>3
<1> QED BY <1>3, <1>4, <1>5, <1>7, <1>8 DEF WebInv

LEMMA WebStep == WebInv /\ [WebNext]_webVars => WebInv'
<1> SUFFICES ASSUME WebInv, [WebNext]_webVars PROVE WebInv'
  OBVIOUS
<1>1. CASE UNCHANGED webVars
  BY <1>1 DEF webVars, WebInv, WebTypes, WebTypeOK, ImpostorsAreNone, NotedIsLongest, FlagAges,
              CrawlersSpared, AsksOnlyEscalate, LookedAtAgain
<1>2. CASE TwoSeconds
  BY <1>2 DEF TwoSeconds, WebInv, WebTypes, WebTypeOK, ImpostorsAreNone, NotedIsLongest, FlagAges,
              CrawlersSpared, AsksOnlyEscalate, LookedAtAgain
<1>3. CASE NewSettings
  <2>1. settings' \in [monitor : BOOLEAN, enabled : SUBSET Types, detectOnly : SUBSET Types,
                       bot : {"block", "allow"}, spared : SUBSET Visitors, foreign : SUBSET Visitors]
    <3>1. PICK t \in Types, v \in Visitors :
            \/ settings' = [settings EXCEPT !.monitor = ~@]
            \/ settings' \in {[settings EXCEPT !.enabled = @ \ {t}],
                              [settings EXCEPT !.detectOnly = @ \cup {t}]}
            \/ settings' = [settings EXCEPT !.bot = "allow"]
            \/ settings' \in {[settings EXCEPT !.spared = @ \cup {v}],
                              [settings EXCEPT !.foreign = @ \cup {v}]}
      BY <1>3 DEF NewSettings
    <3>2. settings \in [monitor : BOOLEAN, enabled : SUBSET Types, detectOnly : SUBSET Types,
                       bot : {"block", "allow"}, spared : SUBSET Visitors, foreign : SUBSET Visitors]
      BY DEF WebInv, WebTypes, WebTypeOK
    <3>3. CASE settings' = [settings EXCEPT !.monitor = ~@]
      <4>1. settings.monitor = TRUE \/ settings.monitor = FALSE
        BY <3>2
      <4>2. CASE settings.monitor = TRUE
        BY <3>2, <3>3, <4>2
      <4>3. CASE settings.monitor = FALSE
        BY <3>2, <3>3, <4>3
      <4> QED BY <4>1, <4>2, <4>3
    <3>4. CASE settings' # [settings EXCEPT !.monitor = ~@]
      BY <3>1, <3>2, <3>4
    <3> QED BY <3>3, <3>4
  <2> QED BY <1>3, <2>1
          DEF NewSettings, WebInv, WebTypes, WebTypeOK, ImpostorsAreNone, NotedIsLongest, FlagAges,
              CrawlersSpared, AsksOnlyEscalate, LookedAtAgain
<1> QED BY <1>1, <1>2, <1>3, RequestTrue, AnswersTrue, CallTrue, DecideTrue, CleanupTrue,
           ClearTrue, TickTrue
        DEF WebNext

----------------------------------------------------------------------------
(* WebServerEdits: the bots.                                               *)

Doing(s)    == editor # Free /\ editor.pc \in s
Stable   == editor = Free \/ editor.pc = "update"
Removing == Doing({"strip", "unmap", "tryOff", "loadOff"})
Putting  == Doing({"inject", "enable", "trySetup", "loadSetup"})

\* The vhosts, as long as no change was left unfinished: none has a line when the
\* bots are not set up, nor when the map is not there; what a change puts back is so.
LinesTold ==
    /\ ~Nginx => lines = {}
    /\ ~Nginx /\ editor # Free => editor.lines = {}
    /\ Doing({"inject", "unmap"}) => Nginx
    /\ Doing({"enable"}) => ~Nginx
    /\ ~tornEdit =>
         /\ ~Removing /\ ~sentinel /\ ~Putting /\ ~Doing({"mark"}) => lines = {}
         /\ Nginx /\ ~Removing /\ lines # {} => linked
         /\ Putting => editor.lines = {} /\ ~sentinel
         /\ Doing({"inject"}) => linked
         /\ Doing({"strip", "unmap"}) => linked = editor.linked
         /\ Removing => /\ lines \subseteq editor.lines
                        /\ ~sentinel \/ (Nginx /\ ~editor.linked) => editor.lines = {}
         /\ Doing({"tryOff"}) => linked = (server = "rhel")
         /\ Doing({"loadOff"}) => lines = {} /\ linked = (server = "rhel")

\* After a removal that succeeded the next change finds nothing.
RemovedIsGone ==
    removed => /\ list = NoList /\ ~sentinel
               /\ Stable \/ (Removing /\ editor.list = NoList)

\* The running server refuses nobody, but for what somebody else's reload brought.
Quiet == serverUp /\ ~midLoad => \A v \in Vhosts : refuses[v] = {}
NotSetUp == ~sentinel /\ linked = (server = "rhel") /\ (~Nginx => list = NoList) /\ Quiet
Good(li) == li # NoList /\ li \cap BadBots = {}
IsSetUp  == sentinel /\ linked /\ Good(list)

\* At each step of a change, what it can come to when it fails.
ChangeCanFail ==
    ~tornEdit /\ ~halfOff =>
        /\ Stable => NotSetUp \/ IsSetUp
        /\ Doing({"tryList", "loadList"}) => sentinel /\ linked /\ list # NoList /\ Good(editor.list)
        /\ Doing({"loadList"}) => Good(list)
        /\ Doing({"setup"}) => IsSetUp \/ (~sentinel /\ linked = (server = "rhel") /\ Quiet)
        /\ Putting => Quiet
        /\ Doing({"inject", "trySetup", "loadSetup"}) => linked /\ list # NoList
        /\ Doing({"enable"}) => list = {}
        /\ Doing({"loadSetup", "mark"}) => linked /\ Good(list)
        /\ Doing({"mark"}) => linked
        /\ Doing({"strip", "unmap"}) => list = editor.list /\ (NotSetUp \/ IsSetUp)
        /\ Doing({"tryOff"}) => editor.linked /\ Good(editor.list)
        /\ Doing({"tryOff", "loadOff"}) => sentinel
        /\ Doing({"tryOff", "loadOff"}) /\ ~Nginx => list = NoList

BotsInv ==
    /\ BotsTypeOK /\ LinesTold /\ RemovedIsGone /\ ChangeCanFail

LEMMA BotsInitially == BotsInit => BotsInv
<1> SUFFICES ASSUME BotsInit PROVE BotsInv
  OBVIOUS
<1>1. BotsTypeOK
  <2>1. {editsOn, botsOff, linked, sentinel, ownerOK, serverUp} \subseteq BOOLEAN
    BY DEF BotsInit
  <2>2. {removed, tornEdit, halfOff, midLoad} \subseteq BOOLEAN
    BY DEF BotsInit
  <2> QED BY <2>1, <2>2, BotAssumption DEF BotsInit, BotsTypeOK, Lists
<1>2. LinesTold
  BY DEF BotsInit, LinesTold, Doing, Removing, Putting
<1>3. RemovedIsGone
  BY DEF BotsInit, RemovedIsGone
<1>4. ChangeCanFail
  BY DEF BotsInit, ChangeCanFail, Doing, Stable, Putting, Quiet, NotSetUp
<1> QED BY <1>1, <1>2, <1>3, <1>4 DEF BotsInv

LEMMA AllowEditsKeeps ==
    ASSUME BotsInv, AllowEdits
    PROVE  BotsInv'
<1> USE DEF BotsInv, AllowEdits, BotEvent, disk, botMarks, Free, Nginx
<1>1. BotsTypeOK'
  BY BotAssumption DEF BotsTypeOK, Lists, Pcs, ServerFiles, OnDisk
<1>2. LinesTold'
  BY DEF LinesTold, Doing, Removing, Putting, BotsTypeOK, ConfigOK
<1>3. RemovedIsGone'
  BY DEF RemovedIsGone, Stable, Removing, Doing, BotsTypeOK
<1>4. ChangeCanFail'
  BY DEF ChangeCanFail, Doing, Stable, Putting, Removing, Quiet, NotSetUp, IsSetUp, Good,
         BotsTypeOK, LinesTold, ConfigOK, CanReload, OnDisk, Lists
<1> QED BY <1>1, <1>2, <1>3, <1>4

LEMMA OwnerEditsKeeps ==
    ASSUME BotsInv, OwnerEdits
    PROVE  BotsInv'
<1> USE DEF BotsInv, OwnerEdits, BotEvent, disk, botMarks, Free, Nginx
<1>1. BotsTypeOK'
  BY BotAssumption DEF BotsTypeOK, Lists, Pcs, ServerFiles, OnDisk
<1>2. LinesTold'
  BY DEF LinesTold, Doing, Removing, Putting, BotsTypeOK, ConfigOK
<1>3. RemovedIsGone'
  BY DEF RemovedIsGone, Stable, Removing, Doing, BotsTypeOK
<1>4. ChangeCanFail'
  BY DEF ChangeCanFail, Doing, Stable, Putting, Removing, Quiet, NotSetUp, IsSetUp, Good,
         BotsTypeOK, LinesTold, ConfigOK, CanReload, OnDisk, Lists
<1> QED BY <1>1, <1>2, <1>3, <1>4

LEMMA ServerStopsKeeps ==
    ASSUME BotsInv, ServerStops
    PROVE  BotsInv'
<1> USE DEF BotsInv, ServerStops, BotEvent, disk, botMarks, Free, Nginx
<1>1. BotsTypeOK'
  <2>1. ({editsOn, botsOff, linked, sentinel, ownerOK, serverUp} \subseteq BOOLEAN)'
    BY DEF BotsTypeOK
  <2>2. ({removed, tornEdit, halfOff, midLoad} \subseteq BOOLEAN)'
    BY DEF BotsTypeOK
  <2>3. (editor = Free \/ editor \in [pc : Pcs, left : SUBSET Vhosts, lines : SUBSET Vhosts,
                                  linked : BOOLEAN, list : Lists, bots : SUBSET Bots])'
    BY DEF BotsTypeOK, Lists, Pcs, ServerFiles
  <2>4. (/\ server \in {"nginx", "debian", "rhel"} /\ botsAsked \subseteq Bots
         /\ lines \subseteq Vhosts /\ list \in Lists /\ refuses \in [Vhosts -> SUBSET Bots]
         /\ botEventsN \in 0..MaxBotEvents)'
    BY BotAssumption DEF BotsTypeOK, Lists, OnDisk
  <2> QED BY <2>1, <2>2, <2>3, <2>4 DEF BotsTypeOK
<1>2. LinesTold'
  BY DEF LinesTold, Doing, Removing, Putting, BotsTypeOK, ConfigOK
<1>3. RemovedIsGone'
  BY DEF RemovedIsGone, Stable, Removing, Doing, BotsTypeOK
<1>4. ChangeCanFail'
  BY DEF ChangeCanFail, Doing, Stable, Putting, Removing, Quiet, NotSetUp, IsSetUp, Good,
         BotsTypeOK, LinesTold, ConfigOK, CanReload, OnDisk, Lists
<1> QED BY <1>1, <1>2, <1>3, <1>4

LEMMA ServerLoadsKeeps ==
    ASSUME BotsInv, ServerLoads
    PROVE  BotsInv'
<1> USE DEF BotsInv, ServerLoads, BotEvent, Free, disk, Nginx
<1>1. BotsTypeOK'
  BY BotAssumption DEF BotsTypeOK, Lists, Pcs, ServerFiles, OnDisk
<1>2. LinesTold'
  BY DEF LinesTold, Doing, Removing, Putting, BotsTypeOK, ConfigOK
<1>3. RemovedIsGone'
  BY DEF RemovedIsGone, Stable, Removing, Doing, BotsTypeOK
<1>4. ChangeCanFail'
  BY DEF ChangeCanFail, Doing, Stable, Putting, Removing, Quiet, NotSetUp, IsSetUp, Good,
         BotsTypeOK, LinesTold, ConfigOK, CanReload, OnDisk, Lists
<1> QED BY <1>1, <1>2, <1>3, <1>4

LEMMA EditorCrashKeeps ==
    ASSUME BotsInv, EditorCrash
    PROVE  BotsInv'
<1> USE DEF BotsInv, EditorCrash, Free, BotEvent, disk, Nginx
<1>1. BotsTypeOK'
  <2>1. ({editsOn, botsOff, linked, sentinel, ownerOK, serverUp} \subseteq BOOLEAN)'
    BY DEF BotsTypeOK
  <2>2. ({removed, tornEdit, halfOff, midLoad} \subseteq BOOLEAN)'
    BY DEF BotsTypeOK
  <2>3. (editor = Free \/ editor \in [pc : Pcs, left : SUBSET Vhosts, lines : SUBSET Vhosts,
                                  linked : BOOLEAN, list : Lists, bots : SUBSET Bots])'
    BY DEF BotsTypeOK, Lists, Pcs, ServerFiles
  <2>4. (/\ server \in {"nginx", "debian", "rhel"} /\ botsAsked \subseteq Bots
         /\ lines \subseteq Vhosts /\ list \in Lists /\ refuses \in [Vhosts -> SUBSET Bots]
         /\ botEventsN \in 0..MaxBotEvents)'
    BY BotAssumption DEF BotsTypeOK, Lists, OnDisk
  <2> QED BY <2>1, <2>2, <2>3, <2>4 DEF BotsTypeOK
<1>2. LinesTold'
  BY DEF LinesTold, Doing, Removing, Putting, BotsTypeOK, ConfigOK
<1>3. RemovedIsGone'
  BY DEF RemovedIsGone, Stable, Removing, Doing, BotsTypeOK
<1>4. ChangeCanFail'
  BY DEF ChangeCanFail, Doing, Stable, Putting, Removing, Quiet, NotSetUp, IsSetUp, Good,
         BotsTypeOK, LinesTold, ConfigOK, CanReload, OnDisk, Lists
<1> QED BY <1>1, <1>2, <1>3, <1>4

LEMMA ApplyWebserverChangesKeeps ==
    ASSUME BotsInv, ApplyWebserverChanges
    PROVE  BotsInv'
<1> USE DEF BotsInv, ApplyWebserverChanges, Free, Begin, disk, botWorld, botMarks, Nginx
<1>1. BotsTypeOK'
  <2>1. ({editsOn, botsOff, linked, sentinel, ownerOK, serverUp} \subseteq BOOLEAN)'
    BY DEF BotsTypeOK
  <2>2. ({removed, tornEdit, halfOff, midLoad} \subseteq BOOLEAN)'
    BY DEF BotsTypeOK
  <2>3. (editor = Free \/ editor \in [pc : Pcs, left : SUBSET Vhosts, lines : SUBSET Vhosts,
                                  linked : BOOLEAN, list : Lists, bots : SUBSET Bots])'
    BY DEF BotsTypeOK, Lists, Pcs, ServerFiles
  <2>4. (/\ server \in {"nginx", "debian", "rhel"} /\ botsAsked \subseteq Bots
         /\ lines \subseteq Vhosts /\ list \in Lists /\ refuses \in [Vhosts -> SUBSET Bots]
         /\ botEventsN \in 0..MaxBotEvents)'
    BY BotAssumption DEF BotsTypeOK, Lists, OnDisk
  <2> QED BY <2>1, <2>2, <2>3, <2>4 DEF BotsTypeOK
<1>2. LinesTold'
  BY DEF LinesTold, Doing, Removing, Putting, BotsTypeOK, ConfigOK
<1>3. RemovedIsGone'
  BY DEF RemovedIsGone, Stable, Removing, Doing, BotsTypeOK
<1>4. ChangeCanFail'
  BY DEF ChangeCanFail, Doing, Stable, Putting, Removing, Quiet, NotSetUp, IsSetUp, Good,
         BotsTypeOK, LinesTold, ConfigOK, CanReload, OnDisk, Lists
<1> QED BY <1>1, <1>2, <1>3, <1>4

LEMMA DetachKeeps ==
    ASSUME BotsInv, Detach
    PROVE  BotsInv'
<1> USE DEF BotsInv, Detach, Free, BotEvent, disk, botMarks, Nginx
<1>1. BotsTypeOK'
  BY BotAssumption DEF BotsTypeOK, Lists, Pcs, ServerFiles, OnDisk
<1>2. LinesTold'
  BY DEF LinesTold, Doing, Removing, Putting, BotsTypeOK, ConfigOK
<1>3. RemovedIsGone'
  BY DEF RemovedIsGone, Stable, Removing, Doing, BotsTypeOK
<1>4. ChangeCanFail'
  BY DEF ChangeCanFail, Doing, Stable, Putting, Removing, Quiet, NotSetUp, IsSetUp, Good,
         BotsTypeOK, LinesTold, ConfigOK, CanReload, OnDisk, Lists
<1> QED BY <1>1, <1>2, <1>3, <1>4

LEMMA SwitchBackOnKeeps ==
    ASSUME BotsInv, SwitchBackOn
    PROVE  BotsInv'
<1> USE DEF BotsInv, SwitchBackOn, Free, BotEvent, disk, botMarks, Nginx
<1>1. BotsTypeOK'
  <2>1. ({editsOn, botsOff, linked, sentinel, ownerOK, serverUp} \subseteq BOOLEAN)'
    BY DEF BotsTypeOK
  <2>2. ({removed, tornEdit, halfOff, midLoad} \subseteq BOOLEAN)'
    BY DEF BotsTypeOK
  <2>3. (editor = Free \/ editor \in [pc : Pcs, left : SUBSET Vhosts, lines : SUBSET Vhosts,
                                  linked : BOOLEAN, list : Lists, bots : SUBSET Bots])'
    BY DEF BotsTypeOK, Lists, Pcs, ServerFiles
  <2>4. (/\ server \in {"nginx", "debian", "rhel"} /\ botsAsked \subseteq Bots
         /\ lines \subseteq Vhosts /\ list \in Lists /\ refuses \in [Vhosts -> SUBSET Bots]
         /\ botEventsN \in 0..MaxBotEvents)'
    BY BotAssumption DEF BotsTypeOK, Lists, OnDisk
  <2> QED BY <2>1, <2>2, <2>3, <2>4 DEF BotsTypeOK
<1>2. LinesTold'
  BY DEF LinesTold, Doing, Removing, Putting, BotsTypeOK, ConfigOK
<1>3. RemovedIsGone'
  BY DEF RemovedIsGone, Stable, Removing, Doing, BotsTypeOK
<1>4. ChangeCanFail'
  BY DEF ChangeCanFail, Doing, Stable, Putting, Removing, Quiet, NotSetUp, IsSetUp, Good,
         BotsTypeOK, LinesTold, ConfigOK, CanReload, OnDisk, Lists
<1> QED BY <1>1, <1>2, <1>3, <1>4

LEMMA UpdateKeeps ==
    ASSUME BotsInv, editor # Free, Update
    PROVE  BotsInv'
<1> USE DEF BotsInv, Update, EditFrame, NoReload, Goes, Free, Nginx
<1>1. BotsTypeOK'
  BY BotAssumption DEF BotsTypeOK, Lists, Pcs, ServerFiles, OnDisk
<1>2. LinesTold'
  BY DEF LinesTold, Doing, Removing, Putting, BotsTypeOK, ConfigOK
<1>3. RemovedIsGone'
  BY DEF RemovedIsGone, Stable, Removing, Doing, BotsTypeOK
<1>4. ChangeCanFail'
  <2>1. CASE ~sentinel \/ list = editor.bots
    BY <2>1 DEF ChangeCanFail, Doing, Stable, Putting, Removing, Quiet, NotSetUp, IsSetUp, Good,
           BotsTypeOK, LinesTold, ConfigOK, CanReload, OnDisk, Lists
  <2>2. CASE sentinel /\ list # editor.bots
    <3>1. /\ editor.bots \in SUBSET Bots /\ editor.bots # NoList
          /\ editor' = [editor EXCEPT !.pc = "tryList", !.list = list] /\ list' = editor.bots
          /\ UNCHANGED <<lines, linked, sentinel, tornEdit, halfOff, server>>
      BY <2>2, BotAssumption DEF BotsTypeOK
    <3>2. editor'.pc = "tryList" /\ editor'.list = list /\ editor' # Free
      BY <3>1 DEF BotsTypeOK
    <3>3. ~tornEdit /\ ~halfOff => linked /\ list # NoList /\ Good(list)
      BY <2>2 DEF ChangeCanFail, Stable, NotSetUp, IsSetUp, Good
    <3> QED BY <2>2, <3>1, <3>2, <3>3 DEF ChangeCanFail, Doing, Stable, Putting, Good
  <2> QED BY <2>1, <2>2
<1> QED BY <1>1, <1>2, <1>3, <1>4

LEMMA TryListKeeps ==
    ASSUME BotsInv, editor # Free, TryList
    PROVE  BotsInv'
<1> USE DEF BotsInv, TryList, EditFrame, KeepsMarks, NoReload, Goes, ListBefore, botMarks,
            Nginx, Free
<1>1. BotsTypeOK'
  BY BotAssumption DEF BotsTypeOK, Lists, Pcs, ServerFiles, OnDisk
<1>2. LinesTold'
  BY DEF LinesTold, Doing, Removing, Putting, BotsTypeOK, ConfigOK
<1>3. RemovedIsGone'
  BY DEF RemovedIsGone, Stable, Removing, Doing, BotsTypeOK
<1>4. ChangeCanFail'
  BY DEF ChangeCanFail, Doing, Stable, Putting, Removing, Quiet, NotSetUp, IsSetUp, Good,
         BotsTypeOK, LinesTold, ConfigOK, CanReload, OnDisk, Lists
<1> QED BY <1>1, <1>2, <1>3, <1>4

LEMMA LoadListKeeps ==
    ASSUME BotsInv, editor # Free, LoadList
    PROVE  BotsInv'
<1> USE DEF BotsInv, LoadList, EditFrame, KeepsMarks, Goes, Reload, ListBefore, NoReload,
            botMarks, Nginx, Free
<1>1. BotsTypeOK'
  BY BotAssumption DEF BotsTypeOK, Lists, Pcs, ServerFiles, OnDisk
<1>2. LinesTold'
  BY DEF LinesTold, Doing, Removing, Putting, BotsTypeOK, ConfigOK
<1>3. RemovedIsGone'
  BY DEF RemovedIsGone, Stable, Removing, Doing, BotsTypeOK
<1>4. ChangeCanFail'
  BY DEF ChangeCanFail, Doing, Stable, Putting, Removing, Quiet, NotSetUp, IsSetUp, Good,
         BotsTypeOK, LinesTold, ConfigOK, CanReload, OnDisk, Lists
<1> QED BY <1>1, <1>2, <1>3, <1>4

LEMMA SetupKeeps ==
    ASSUME BotsInv, editor # Free, Setup
    PROVE  BotsInv'
<1> USE DEF BotsInv, Setup, EditFrame, NoReload, Ends, KeepsMarks, Nginx, Goes, Free,
            botMarks
<1>1. BotsTypeOK'
  <2>1. ({editsOn, botsOff, linked, sentinel, ownerOK, serverUp} \subseteq BOOLEAN)'
    BY DEF BotsTypeOK
  <2>2. ({removed, tornEdit, halfOff, midLoad} \subseteq BOOLEAN)'
    BY DEF BotsTypeOK
  <2>3. (editor = Free \/ editor \in [pc : Pcs, left : SUBSET Vhosts, lines : SUBSET Vhosts,
                                  linked : BOOLEAN, list : Lists, bots : SUBSET Bots])'
    <3>1. ServerFiles' \ lines \in SUBSET Vhosts
      BY DEF ServerFiles
    <3> QED BY <3>1 DEF BotsTypeOK, Lists, Pcs
  <2>4. (/\ server \in {"nginx", "debian", "rhel"} /\ botsAsked \subseteq Bots
         /\ lines \subseteq Vhosts /\ list \in Lists /\ refuses \in [Vhosts -> SUBSET Bots]
         /\ botEventsN \in 0..MaxBotEvents)'
    BY BotAssumption DEF BotsTypeOK, Lists, OnDisk
  <2> QED BY <2>1, <2>2, <2>3, <2>4 DEF BotsTypeOK
<1>2. LinesTold'
  BY DEF LinesTold, Doing, Removing, Putting, BotsTypeOK, ConfigOK
<1>3. RemovedIsGone'
  BY DEF RemovedIsGone, Stable, Removing, Doing, BotsTypeOK
<1>4. ChangeCanFail'
  <2>1. CASE sentinel
    BY <2>1 DEF ChangeCanFail, Doing, Stable, Putting, Removing, Quiet, NotSetUp, IsSetUp, Good,
           BotsTypeOK, LinesTold, ConfigOK, CanReload, OnDisk, Lists
  <2>2. CASE ~sentinel /\ server = "nginx"
    BY <2>2, BotAssumption DEF ChangeCanFail, Doing, Stable, Putting, Removing, Quiet, NotSetUp, IsSetUp, Good,
           BotsTypeOK, LinesTold, ConfigOK, CanReload, OnDisk, Lists
  <2>3. CASE ~sentinel /\ server # "nginx"
    BY <2>3, BotAssumption DEF ChangeCanFail, Doing, Stable, Putting, Removing, Quiet, NotSetUp, IsSetUp, Good,
           BotsTypeOK, LinesTold, ConfigOK, CanReload, OnDisk, Lists
  <2> QED BY <2>1, <2>2, <2>3
<1> QED BY <1>1, <1>2, <1>3, <1>4

LEMMA InjectKeeps ==
    ASSUME BotsInv, editor # Free, Inject
    PROVE  BotsInv'
<1> USE DEF BotsInv, Inject, NoReload, Goes, EditFrame, KeepsMarks, Undone, WriteFails,
            botMarks, Ends, Nginx, BotEvent, Free
<1>1. BotsTypeOK'
  <2>1. ({editsOn, botsOff, linked, sentinel, ownerOK, serverUp} \subseteq BOOLEAN)'
    BY DEF BotsTypeOK
  <2>2. ({removed, tornEdit, halfOff, midLoad} \subseteq BOOLEAN)'
    BY DEF BotsTypeOK
  <2>3. (editor = Free \/ editor \in [pc : Pcs, left : SUBSET Vhosts, lines : SUBSET Vhosts,
                                  linked : BOOLEAN, list : Lists, bots : SUBSET Bots])'
    BY DEF BotsTypeOK, Lists, Pcs, ServerFiles
  <2>4. (/\ server \in {"nginx", "debian", "rhel"} /\ botsAsked \subseteq Bots
         /\ lines \subseteq Vhosts /\ list \in Lists /\ refuses \in [Vhosts -> SUBSET Bots]
         /\ botEventsN \in 0..MaxBotEvents)'
    BY BotAssumption DEF BotsTypeOK, Lists, OnDisk
  <2> QED BY <2>1, <2>2, <2>3, <2>4 DEF BotsTypeOK
<1>2. LinesTold'
  <2>1. CASE editor.left = {} /\ UNCHANGED lines
    BY <2>1 DEF LinesTold, Doing, Removing, Putting, BotsTypeOK
  <2>2. CASE Undone
    BY <2>2 DEF LinesTold, Doing, Removing, Putting, BotsTypeOK
  <2>3. CASE \E v \in editor.left :
                 /\ lines' = lines \cup {v} /\ editor' = [editor EXCEPT !.left = @ \ {v}]
                 /\ EditFrame /\ KeepsMarks /\ UNCHANGED <<linked, list>>
    <3>1. /\ editor'.pc = "inject" /\ editor'.lines = editor.lines /\ editor' # Free
          /\ UNCHANGED <<server, linked, sentinel, tornEdit>>
      BY <2>3 DEF BotsTypeOK
    <3>2. Nginx /\ ~tornEdit => linked /\ editor.lines = {} /\ ~sentinel
      BY DEF LinesTold, Doing, Putting
    <3> QED BY <3>1, <3>2 DEF LinesTold, Doing, Removing, Putting
  <2> QED BY <2>1, <2>2, <2>3
<1>3. RemovedIsGone'
  BY DEF RemovedIsGone, Stable, Removing, Doing, BotsTypeOK
<1>4. ChangeCanFail'
  BY DEF ChangeCanFail, Doing, Stable, Putting, Removing, Quiet, NotSetUp, IsSetUp, Good,
         BotsTypeOK, LinesTold, ConfigOK, CanReload, OnDisk, Lists
<1> QED BY <1>1, <1>2, <1>3, <1>4

LEMMA EnableConfKeeps ==
    ASSUME BotsInv, editor # Free, EnableConf
    PROVE  BotsInv'
<1> USE DEF BotsInv, EnableConf, NoReload, Goes, EditFrame, KeepsMarks, Undone, WriteFails,
            botMarks, Ends, Nginx, BotEvent, Free
<1>1. BotsTypeOK'
  <2>1. ({editsOn, botsOff, linked, sentinel, ownerOK, serverUp} \subseteq BOOLEAN)'
    BY DEF BotsTypeOK
  <2>2. ({removed, tornEdit, halfOff, midLoad} \subseteq BOOLEAN)'
    BY DEF BotsTypeOK
  <2>3. (editor = Free \/ editor \in [pc : Pcs, left : SUBSET Vhosts, lines : SUBSET Vhosts,
                                  linked : BOOLEAN, list : Lists, bots : SUBSET Bots])'
    BY DEF BotsTypeOK, Lists, Pcs, ServerFiles
  <2>4. (/\ server \in {"nginx", "debian", "rhel"} /\ botsAsked \subseteq Bots
         /\ lines \subseteq Vhosts /\ list \in Lists /\ refuses \in [Vhosts -> SUBSET Bots]
         /\ botEventsN \in 0..MaxBotEvents)'
    BY BotAssumption DEF BotsTypeOK, Lists, OnDisk
  <2> QED BY <2>1, <2>2, <2>3, <2>4 DEF BotsTypeOK
<1>2. LinesTold'
  BY DEF LinesTold, Doing, Removing, Putting, BotsTypeOK, ConfigOK
<1>3. RemovedIsGone'
  BY DEF RemovedIsGone, Stable, Removing, Doing, BotsTypeOK
<1>4. ChangeCanFail'
  BY BotAssumption DEF ChangeCanFail, Doing, Stable, Putting, Removing, Quiet, NotSetUp, IsSetUp, Good,
         BotsTypeOK, LinesTold, ConfigOK, CanReload, OnDisk, Lists
<1> QED BY <1>1, <1>2, <1>3, <1>4

LEMMA TrySetupKeeps ==
    ASSUME BotsInv, editor # Free, TrySetup
    PROVE  BotsInv'
<1> USE DEF BotsInv, TrySetup, NoReload, EditFrame, Goes, KeepsMarks, Undone, Nginx,
            botMarks, Ends, Free
<1>1. BotsTypeOK'
  <2>1. (/\ server \in {"nginx", "debian", "rhel"} /\ botsAsked \subseteq Bots
         /\ {editsOn, botsOff, linked, sentinel, ownerOK, serverUp} \subseteq BOOLEAN
         /\ {removed, tornEdit, halfOff, midLoad} \subseteq BOOLEAN /\ botEventsN \in 0..MaxBotEvents)'
    BY BotAssumption DEF BotsTypeOK
  <2>2. (lines \subseteq Vhosts /\ list \in Lists /\ refuses \in [Vhosts -> SUBSET Bots])'
    BY BotAssumption DEF BotsTypeOK, Lists, ServerFiles, OnDisk
  <2>3. (editor = Free \/ editor \in [pc : Pcs, left : SUBSET Vhosts, lines : SUBSET Vhosts,
                                     linked : BOOLEAN, list : Lists, bots : SUBSET Bots])'
    BY BotAssumption DEF BotsTypeOK, Lists, Pcs
  <2> QED BY <2>1, <2>2, <2>3 DEF BotsTypeOK
<1>2. LinesTold'
  BY DEF LinesTold, Doing, Removing, Putting, BotsTypeOK, ConfigOK
<1>3. RemovedIsGone'
  BY DEF RemovedIsGone, Stable, Removing, Doing, BotsTypeOK
<1>4. ChangeCanFail'
  BY DEF ChangeCanFail, Doing, Stable, Putting, Removing, Quiet, NotSetUp, IsSetUp, Good,
         BotsTypeOK, LinesTold, ConfigOK, CanReload, OnDisk, Lists
<1> QED BY <1>1, <1>2, <1>3, <1>4

LEMMA LoadSetupKeeps ==
    ASSUME BotsInv, editor # Free, LoadSetup
    PROVE  BotsInv'
<1> USE DEF BotsInv, LoadSetup, EditFrame, Reload, Goes, KeepsMarks, NoReload, Undone,
            Nginx, botMarks, Ends, Free
<1>1. BotsTypeOK'
  BY Zenon, BotAssumption DEF BotsTypeOK, Lists, Pcs, ServerFiles, OnDisk
<1>2. LinesTold'
  BY DEF LinesTold, Doing, Removing, Putting, BotsTypeOK, ConfigOK
<1>3. RemovedIsGone'
  BY DEF RemovedIsGone, Stable, Removing, Doing, BotsTypeOK
<1>4. ChangeCanFail'
  BY DEF ChangeCanFail, Doing, Stable, Putting, Removing, Quiet, NotSetUp, IsSetUp, Good,
         BotsTypeOK, LinesTold, ConfigOK, CanReload, OnDisk, Lists
<1> QED BY <1>1, <1>2, <1>3, <1>4

LEMMA MarkKeeps ==
    ASSUME BotsInv, editor # Free, Mark
    PROVE  BotsInv'
<1> USE DEF BotsInv, Mark, NoReload, Ends, EditFrame, WriteFails, Free, BotEvent, Nginx
<1>1. BotsTypeOK'
  <2>1. ({editsOn, botsOff, linked, sentinel, ownerOK, serverUp} \subseteq BOOLEAN)'
    BY DEF BotsTypeOK
  <2>2. ({removed, tornEdit, halfOff, midLoad} \subseteq BOOLEAN)'
    BY DEF BotsTypeOK
  <2>3. (editor = Free \/ editor \in [pc : Pcs, left : SUBSET Vhosts, lines : SUBSET Vhosts,
                                  linked : BOOLEAN, list : Lists, bots : SUBSET Bots])'
    BY DEF BotsTypeOK, Lists, Pcs, ServerFiles
  <2>4. (/\ server \in {"nginx", "debian", "rhel"} /\ botsAsked \subseteq Bots
         /\ lines \subseteq Vhosts /\ list \in Lists /\ refuses \in [Vhosts -> SUBSET Bots]
         /\ botEventsN \in 0..MaxBotEvents)'
    BY BotAssumption DEF BotsTypeOK, Lists, OnDisk
  <2> QED BY <2>1, <2>2, <2>3, <2>4 DEF BotsTypeOK
<1>2. LinesTold'
  BY DEF LinesTold, Doing, Removing, Putting, BotsTypeOK, ConfigOK
<1>3. RemovedIsGone'
  BY DEF RemovedIsGone, Stable, Removing, Doing, BotsTypeOK
<1>4. ChangeCanFail'
  BY DEF ChangeCanFail, Doing, Stable, Putting, Removing, Quiet, NotSetUp, IsSetUp, Good,
         BotsTypeOK, LinesTold, ConfigOK, CanReload, OnDisk, Lists
<1> QED BY <1>1, <1>2, <1>3, <1>4

LEMMA StripKeeps ==
    ASSUME BotsInv, editor # Free, Strip
    PROVE  BotsInv'
<1> USE DEF BotsInv, Strip, Nginx, NoReload, botMarks, Goes, SwitchedOff, BotEvent, Ends,
            Free
<1>1. BotsTypeOK'
  <2>1. ({editsOn, botsOff, linked, sentinel, ownerOK, serverUp} \subseteq BOOLEAN)'
    BY DEF BotsTypeOK
  <2>2. ({removed, tornEdit, halfOff, midLoad} \subseteq BOOLEAN)'
    BY DEF BotsTypeOK
  <2>3. (editor = Free \/ editor \in [pc : Pcs, left : SUBSET Vhosts, lines : SUBSET Vhosts,
                                  linked : BOOLEAN, list : Lists, bots : SUBSET Bots])'
    BY DEF BotsTypeOK, Lists, Pcs, ServerFiles
  <2>4. (/\ server \in {"nginx", "debian", "rhel"} /\ botsAsked \subseteq Bots
         /\ lines \subseteq Vhosts /\ list \in Lists /\ refuses \in [Vhosts -> SUBSET Bots]
         /\ botEventsN \in 0..MaxBotEvents)'
    BY BotAssumption DEF BotsTypeOK, Lists, OnDisk
  <2> QED BY <2>1, <2>2, <2>3, <2>4 DEF BotsTypeOK
<1>2. LinesTold'
  BY DEF LinesTold, Doing, Removing, Putting, BotsTypeOK, ConfigOK
<1>3. RemovedIsGone'
  BY DEF RemovedIsGone, Stable, Removing, Doing, BotsTypeOK
<1>4. ChangeCanFail'
  BY DEF ChangeCanFail, Doing, Stable, Putting, Removing, Quiet, NotSetUp, IsSetUp, Good,
         BotsTypeOK, LinesTold, ConfigOK, CanReload, OnDisk, Lists
<1> QED BY <1>1, <1>2, <1>3, <1>4

LEMMA UnmapKeeps ==
    ASSUME BotsInv, editor # Free, Unmap
    PROVE  BotsInv'
<1> USE DEF BotsInv, Unmap, NoReload, Cleared, SwitchedOff, Goes, Ends, Free, Nginx
<1>1. BotsTypeOK'
  BY BotAssumption DEF BotsTypeOK, Lists, Pcs, ServerFiles, OnDisk
<1>2. LinesTold'
  BY DEF LinesTold, Doing, Removing, Putting, BotsTypeOK, ConfigOK
<1>3. RemovedIsGone'
  BY DEF RemovedIsGone, Stable, Removing, Doing, BotsTypeOK
<1>4. ChangeCanFail'
  BY DEF ChangeCanFail, Doing, Stable, Putting, Removing, Quiet, NotSetUp, IsSetUp, Good,
         BotsTypeOK, LinesTold, ConfigOK, CanReload, OnDisk, Lists
<1> QED BY <1>1, <1>2, <1>3, <1>4

LEMMA RemoveConfKeeps ==
    ASSUME BotsInv, editor # Free, RemoveConf
    PROVE  BotsInv'
<1> USE DEF BotsInv, RemoveConf, Nginx, NoReload, SwitchedOff, Goes, Ends, Free
<1>1. BotsTypeOK'
  BY Zenon, BotAssumption DEF BotsTypeOK, Lists, Pcs, ServerFiles, OnDisk
<1>2. LinesTold'
  BY DEF LinesTold, Doing, Removing, Putting, BotsTypeOK, ConfigOK
<1>3. RemovedIsGone'
  BY DEF RemovedIsGone, Stable, Removing, Doing, BotsTypeOK
<1>4. ChangeCanFail'
  BY DEF ChangeCanFail, Doing, Stable, Putting, Removing, Quiet, NotSetUp, IsSetUp, Good,
         BotsTypeOK, LinesTold, ConfigOK, CanReload, OnDisk, Lists
<1> QED BY <1>1, <1>2, <1>3, <1>4

LEMMA TryOffKeeps ==
    ASSUME BotsInv, editor # Free, TryOff
    PROVE  BotsInv'
<1> USE DEF BotsInv, TryOff, NoReload, botMarks, Goes, SwitchedOff, Nginx, Ends, Free
<1>1. BotsTypeOK'
  BY BotAssumption DEF BotsTypeOK, Lists, Pcs, ServerFiles, OnDisk
<1>2. LinesTold'
  BY DEF LinesTold, Doing, Removing, Putting, BotsTypeOK, ConfigOK
<1>3. RemovedIsGone'
  BY DEF RemovedIsGone, Stable, Removing, Doing, BotsTypeOK
<1>4. ChangeCanFail'
  BY DEF ChangeCanFail, Doing, Stable, Putting, Removing, Quiet, NotSetUp, IsSetUp, Good,
         BotsTypeOK, LinesTold, ConfigOK, CanReload, OnDisk, Lists
<1> QED BY <1>1, <1>2, <1>3, <1>4

LEMMA LoadOffKeeps ==
    ASSUME BotsInv, editor # Free, LoadOff
    PROVE  BotsInv'
<1> USE DEF BotsInv, LoadOff, SwitchedOff, Reload, Cleared, NoReload, Ends, Nginx, Free
<1>1. BotsTypeOK'
  BY BotAssumption DEF BotsTypeOK, Lists, Pcs, ServerFiles, OnDisk
<1>2. LinesTold'
  BY DEF LinesTold, Doing, Removing, Putting, BotsTypeOK, ConfigOK
<1>3. RemovedIsGone'
  BY DEF RemovedIsGone, Stable, Removing, Doing, BotsTypeOK
<1>4. ChangeCanFail'
  BY DEF ChangeCanFail, Doing, Stable, Putting, Removing, Quiet, NotSetUp, IsSetUp, Good,
         BotsTypeOK, LinesTold, ConfigOK, CanReload, OnDisk, Lists
<1> QED BY <1>1, <1>2, <1>3, <1>4

\* The dashboard asks for other bots, which the next sync applies.
LEMMA AskBotsKeeps ==
    ASSUME BotsInv, NEW s \in SUBSET Bots, AskBots(s)
    PROVE  BotsInv'
<1> USE DEF BotsInv, AskBots, BotEvent, disk, botMarks, Free, Nginx
<1>1. BotsTypeOK'
  BY BotAssumption DEF BotsTypeOK, Lists, Pcs
<1>2. LinesTold'
  BY DEF LinesTold, Doing, Removing, Putting
<1>3. RemovedIsGone'
  BY DEF RemovedIsGone, Stable, Removing, Doing
<1>4. ChangeCanFail'
  BY DEF ChangeCanFail, Doing, Stable, Putting, Quiet, NotSetUp, IsSetUp, Good
<1> QED BY <1>1, <1>2, <1>3, <1>4

LEMMA BotsStep == BotsInv /\ [BotsNext]_botVars => BotsInv'
<1> SUFFICES ASSUME BotsInv, [BotsNext]_botVars PROVE BotsInv'
  OBVIOUS
<1>1. CASE UNCHANGED botVars
  <2> USE <1>1 DEF BotsInv, botVars, disk, botWorld, botMarks, Free, Nginx
  <2>1. BotsTypeOK'
    BY DEF BotsTypeOK
  <2>2. LinesTold'
    BY DEF LinesTold, Doing, Removing, Putting
  <2>3. RemovedIsGone'
    BY DEF RemovedIsGone, Stable, Removing, Doing
  <2>4. ChangeCanFail'
    BY DEF ChangeCanFail, Doing, Stable, Putting, Quiet, NotSetUp, IsSetUp, Good
  <2> QED BY <2>1, <2>2, <2>3, <2>4
<1>2. CASE EditorStep
  BY <1>2, UpdateKeeps, TryListKeeps, LoadListKeeps, SetupKeeps, InjectKeeps, EnableConfKeeps,
     TrySetupKeeps, LoadSetupKeeps, MarkKeeps, StripKeeps, UnmapKeeps, RemoveConfKeeps,
     TryOffKeeps, LoadOffKeeps DEF EditorStep
<1> QED BY <1>1, <1>2, AskBotsKeeps, AllowEditsKeeps, OwnerEditsKeeps, ServerStopsKeeps,
           ServerLoadsKeeps, EditorCrashKeeps, ApplyWebserverChangesKeeps, DetachKeeps,
           SwitchBackOnKeeps
        DEF BotsNext

LEMMA BotsSafe == BotsInv => ConfigKept /\ NothingLeft
<1> SUFFICES ASSUME BotsInv PROVE ConfigKept /\ NothingLeft
  OBVIOUS
<1> USE DEF BotsInv, Nginx, Free
<1>1. ConfigKept
  BY DEF ConfigKept, ConfigOK, LinesTold, ChangeCanFail, Stable, Removing, Doing, NotSetUp, IsSetUp, Good
<1>2. ASSUME removed, ~tornEdit PROVE lines = {}
  BY <1>2 DEF RemovedIsGone, LinesTold, Stable, Removing, Putting, Doing
<1>3. ASSUME removed, serverUp, ~tornEdit, ~midLoad, ~halfOff
      PROVE  \A v \in Vhosts : refuses[v] = {}
  BY <1>3 DEF RemovedIsGone, ChangeCanFail, Stable, Removing, Doing, NotSetUp, IsSetUp, Quiet
<1>4. removed => list = NoList /\ ~sentinel
  BY DEF RemovedIsGone
<1> QED BY <1>1, <1>2, <1>3, <1>4 DEF NothingLeft

----------------------------------------------------------------------------
(* WebServerEdits: the bans and rules of Apache.                           *)

\* Rules that do not go with the owner's are not included.
Passes(inc, file) == inc /\ file # NoRules => ~clash

\* At each step of a change, as long as no crash left one unfinished: what is put back
\* when it fails is read by Apache, and what is loaded has passed the test.
RulesCanFail ==
    ~tornRules =>
        /\ engine = NoEngine => Passes(included, banFile)
        /\ engine.pc \in {"rules", "include", "try", "load", "test"} =>
             Passes(engine.included, engine.banFile)
        /\ engine.pc = "test" => included = engine.included
        /\ engine.pc \in {"load", "schedule", "exclude"} => Passes(included, banFile)
        /\ engine.pc = "out" => Passes(TRUE, banFile)

\* What makes OutRefusesNobody inductive: a change that begins with the rules taken out
\* puts nothing else back.
OutStaysOut ==
    /\ engine.pc = "out" => ~included
    /\ takenOut => /\ apacheRefuses = {} /\ ~included
                   /\ engine.pc \notin {"try", "load", "out"}
                   /\ engine.pc \in {"rules", "include"} => ~engine.included

RulesInv == RulesTypeOK /\ RulesCanFail /\ OutStaysOut

LEMMA RulesInitially == RulesInit => RulesInv
<1> SUFFICES ASSUME RulesInit PROVE RulesInv
  OBVIOUS
<1>1. RulesTypeOK
  <2>1. {clash, ownPart, rulesAllowed, rulesOff, included, setUp, reloadedLately, reloadPending}
          \subseteq BOOLEAN
    BY DEF RulesInit
  <2>2. {takenOut, unloaded, tornRules} \subseteq BOOLEAN
    BY DEF RulesInit
  <2> QED BY <2>1, <2>2, RulesAssumption DEF RulesInit, RulesTypeOK, RuleFiles
<1>2. RulesCanFail /\ OutStaysOut
  BY DEF RulesInit, RulesCanFail, OutStaysOut, Passes, NoEngine
<1> QED BY <1>1, <1>2 DEF RulesInv

LEMMA BanOrLiftKeeps ==
    ASSUME RulesInv, NEW s \in SUBSET BanAddrs, BanOrLift(s)
    PROVE  RulesInv'
<1> USE DEF RulesInv, BanOrLift, RuleEvent, rulesOnDisk, rulesMemory, rulesMarks, NoEngine
<1>1. RulesTypeOK'
  BY RulesAssumption DEF RulesTypeOK, EngineSteps, RuleFiles, AsFiled
<1>2. RulesCanFail'
  BY DEF RulesCanFail, Passes, RulesTypeOK, TestOK
<1>3. OutStaysOut'
  BY DEF OutStaysOut, RulesTypeOK, AsFiled
<1> QED BY <1>1, <1>2, <1>3

LEMMA AllowRulesKeeps ==
    ASSUME RulesInv, AllowRules
    PROVE  RulesInv'
<1> USE DEF RulesInv, AllowRules, RuleEvent, rulesOnDisk, rulesMemory, rulesMarks, NoEngine
<1>1. RulesTypeOK'
  BY RulesAssumption DEF RulesTypeOK, EngineSteps, RuleFiles, AsFiled
<1>2. RulesCanFail'
  BY DEF RulesCanFail, Passes, RulesTypeOK, TestOK
<1>3. OutStaysOut'
  BY DEF OutStaysOut, RulesTypeOK, AsFiled
<1> QED BY <1>1, <1>2, <1>3

LEMMA OwnerChangesKeeps ==
    ASSUME RulesInv, OwnerChanges
    PROVE  RulesInv'
<1> USE DEF RulesInv, OwnerChanges, RuleEvent, rulesOnDisk, rulesMemory, rulesMarks,
            NoEngine
<1>1. RulesTypeOK'
  BY RulesAssumption DEF RulesTypeOK, EngineSteps, RuleFiles, AsFiled
<1>2. RulesCanFail'
  BY DEF RulesCanFail, Passes, RulesTypeOK, TestOK
<1>3. OutStaysOut'
  BY DEF OutStaysOut, RulesTypeOK, AsFiled
<1> QED BY <1>1, <1>2, <1>3

LEMMA OthersReloadKeeps ==
    ASSUME RulesInv, OthersReload
    PROVE  RulesInv'
<1> USE DEF RulesInv, OthersReload, RuleEvent, NoEngine, rulesOnDisk, rulesMemory
<1>1. RulesTypeOK'
  BY RulesAssumption DEF RulesTypeOK, EngineSteps, RuleFiles, AsFiled
<1>2. RulesCanFail'
  BY DEF RulesCanFail, Passes, RulesTypeOK, TestOK
<1>3. OutStaysOut'
  BY DEF OutStaysOut, RulesTypeOK, AsFiled
<1> QED BY <1>1, <1>2, <1>3

LEMMA ReloadAllowedKeeps ==
    ASSUME RulesInv, ReloadAllowed
    PROVE  RulesInv'
<1> USE DEF RulesInv, ReloadAllowed, rulesOnDisk, rulesWorld, rulesMarks, NoEngine
<1>1. RulesTypeOK'
  BY RulesAssumption DEF RulesTypeOK, EngineSteps, RuleFiles, AsFiled
<1>2. RulesCanFail'
  BY DEF RulesCanFail, Passes, RulesTypeOK, TestOK
<1>3. OutStaysOut'
  BY DEF OutStaysOut, RulesTypeOK, AsFiled
<1> QED BY <1>1, <1>2, <1>3

LEMMA ADayKeeps ==
    ASSUME RulesInv, ADay
    PROVE  RulesInv'
<1> USE DEF RulesInv, ADay, rulesOnDisk, rulesWorld, rulesMarks, NoEngine
<1>1. RulesTypeOK'
  BY RulesAssumption DEF RulesTypeOK, EngineSteps, RuleFiles, AsFiled
<1>2. RulesCanFail'
  BY DEF RulesCanFail, Passes, RulesTypeOK, TestOK
<1>3. OutStaysOut'
  BY DEF OutStaysOut, RulesTypeOK, AsFiled
<1> QED BY <1>1, <1>2, <1>3

LEMMA AgentRestartKeeps ==
    ASSUME RulesInv, AgentRestart
    PROVE  RulesInv'
<1> USE DEF RulesInv, AgentRestart, RuleEvent, NoEngine, rulesOnDisk
<1>1. RulesTypeOK'
  <2>1. ({clash, ownPart, rulesAllowed, rulesOff, included, setUp, reloadedLately, reloadPending}
          \subseteq BOOLEAN)'
    BY DEF RulesTypeOK
  <2>2. ({takenOut, unloaded, tornRules} \subseteq BOOLEAN)'
    BY DEF RulesTypeOK
  <2>3. (engine = NoEngine \/ engine \in [pc : EngineSteps, included : BOOLEAN, banFile : RuleFiles,
                                      setUp : BOOLEAN])'
    BY DEF RulesTypeOK, EngineSteps, RuleFiles
  <2>4. (/\ {dashBans, banList, apacheRefuses} \subseteq SUBSET BanAddrs /\ banFile \in RuleFiles
         /\ setupAt \in {"never", "tried", "done"} /\ ruleEventsN \in 0..MaxRuleEvents)'
    BY RulesAssumption DEF RulesTypeOK, RuleFiles, AsFiled
  <2> QED BY <2>1, <2>2, <2>3, <2>4 DEF RulesTypeOK
<1>2. RulesCanFail'
  BY DEF RulesCanFail, Passes, RulesTypeOK, TestOK
<1>3. OutStaysOut'
  BY DEF OutStaysOut, RulesTypeOK, AsFiled
<1> QED BY <1>1, <1>2, <1>3

LEMMA SetupBeginsKeeps ==
    ASSUME RulesInv, SetupBegins
    PROVE  RulesInv'
<1> USE DEF RulesInv, SetupBegins, NoEngine, Took, rulesOnDisk, rulesWorld, rulesMarks
<1>1. RulesTypeOK'
  BY RulesAssumption DEF RulesTypeOK, EngineSteps, RuleFiles, AsFiled
<1>2. RulesCanFail'
  BY DEF RulesCanFail, Passes, RulesTypeOK, TestOK
<1>3. OutStaysOut'
  BY DEF OutStaysOut, RulesTypeOK, AsFiled
<1> QED BY <1>1, <1>2, <1>3

LEMMA UpdateBannedIPsKeeps ==
    ASSUME RulesInv, NEW ips \in SUBSET BanAddrs, UpdateBannedIPs(ips)
    PROVE  RulesInv'
<1> USE DEF RulesInv, UpdateBannedIPs, NoEngine, rulesWorld, rulesMarks, Took
<1>1. RulesTypeOK'
  BY RulesAssumption DEF RulesTypeOK, EngineSteps, RuleFiles, AsFiled
<1>2. RulesCanFail'
  BY DEF RulesCanFail, Passes, RulesTypeOK, TestOK
<1>3. OutStaysOut'
  BY DEF OutStaysOut, RulesTypeOK, AsFiled
<1> QED BY <1>1, <1>2, <1>3

LEMMA PendingReloadKeeps ==
    ASSUME RulesInv, PendingReload
    PROVE  RulesInv'
<1> USE DEF RulesInv, PendingReload, NoEngine, TryReload, rulesOnDisk, Reloaded, rulesWorld,
            Chance, ApacheRead, RuleEvent
<1>1. RulesTypeOK'
  <2>1. ({clash, ownPart, rulesAllowed, rulesOff, included, setUp, reloadedLately, reloadPending}
          \subseteq BOOLEAN)'
    BY DEF RulesTypeOK
  <2>2. ({takenOut, unloaded, tornRules} \subseteq BOOLEAN)'
    BY DEF RulesTypeOK
  <2>3. (engine = NoEngine \/ engine \in [pc : EngineSteps, included : BOOLEAN, banFile : RuleFiles,
                                      setUp : BOOLEAN])'
    BY DEF RulesTypeOK, EngineSteps, RuleFiles
  <2>4. (/\ {dashBans, banList, apacheRefuses} \subseteq SUBSET BanAddrs /\ banFile \in RuleFiles
         /\ setupAt \in {"never", "tried", "done"} /\ ruleEventsN \in 0..MaxRuleEvents)'
    BY RulesAssumption DEF RulesTypeOK, RuleFiles, AsFiled
  <2> QED BY <2>1, <2>2, <2>3, <2>4 DEF RulesTypeOK
<1>2. RulesCanFail'
  BY DEF RulesCanFail, Passes, RulesTypeOK, TestOK
<1>3. OutStaysOut'
  BY DEF OutStaysOut, RulesTypeOK, AsFiled
<1> QED BY <1>1, <1>2, <1>3

LEMMA DetachBeginsKeeps ==
    ASSUME RulesInv, DetachBegins
    PROVE  RulesInv'
<1> USE DEF RulesInv, DetachBegins, NoEngine, RuleEvent, Took, rulesOnDisk, rulesMarks
<1>1. RulesTypeOK'
  <2>1. ({clash, ownPart, rulesAllowed, rulesOff, included, setUp, reloadedLately, reloadPending}
          \subseteq BOOLEAN)'
    BY DEF RulesTypeOK
  <2>2. ({takenOut, unloaded, tornRules} \subseteq BOOLEAN)'
    BY DEF RulesTypeOK
  <2>3. (engine = NoEngine \/ engine \in [pc : EngineSteps, included : BOOLEAN, banFile : RuleFiles,
                                      setUp : BOOLEAN])'
    BY DEF RulesTypeOK, EngineSteps, RuleFiles
  <2>4. (/\ {dashBans, banList, apacheRefuses} \subseteq SUBSET BanAddrs /\ banFile \in RuleFiles
         /\ setupAt \in {"never", "tried", "done"} /\ ruleEventsN \in 0..MaxRuleEvents)'
    BY RulesAssumption DEF RulesTypeOK, RuleFiles, AsFiled
  <2> QED BY <2>1, <2>2, <2>3, <2>4 DEF RulesTypeOK
<1>2. RulesCanFail'
  BY DEF RulesCanFail, Passes, RulesTypeOK, TestOK
<1>3. OutStaysOut'
  BY DEF OutStaysOut, RulesTypeOK, AsFiled
<1> QED BY <1>1, <1>2, <1>3

LEMMA BackOnKeeps ==
    ASSUME RulesInv, BackOn
    PROVE  RulesInv'
<1> USE DEF RulesInv, BackOn, NoEngine, RuleEvent, rulesOnDisk, rulesMarks
<1>1. RulesTypeOK'
  <2>1. ({clash, ownPart, rulesAllowed, rulesOff, included, setUp, reloadedLately, reloadPending}
          \subseteq BOOLEAN)'
    BY DEF RulesTypeOK
  <2>2. ({takenOut, unloaded, tornRules} \subseteq BOOLEAN)'
    BY DEF RulesTypeOK
  <2>3. (engine = NoEngine \/ engine \in [pc : EngineSteps, included : BOOLEAN, banFile : RuleFiles,
                                      setUp : BOOLEAN])'
    BY DEF RulesTypeOK, EngineSteps, RuleFiles
  <2>4. (/\ {dashBans, banList, apacheRefuses} \subseteq SUBSET BanAddrs /\ banFile \in RuleFiles
         /\ setupAt \in {"never", "tried", "done"} /\ ruleEventsN \in 0..MaxRuleEvents)'
    BY RulesAssumption DEF RulesTypeOK, RuleFiles, AsFiled
  <2> QED BY <2>1, <2>2, <2>3, <2>4 DEF RulesTypeOK
<1>2. RulesCanFail'
  BY DEF RulesCanFail, Passes, RulesTypeOK, TestOK
<1>3. OutStaysOut'
  BY DEF OutStaysOut, RulesTypeOK, AsFiled
<1> QED BY <1>1, <1>2, <1>3

LEMMA SetupRulesKeeps ==
    ASSUME RulesInv, engine # NoEngine, SetupRules
    PROVE  RulesInv'
<1> USE DEF RulesInv, SetupRules, EngineAt, rulesMemory, rulesWorld, rulesMarks, NoEngine
<1>1. RulesTypeOK'
  BY RulesAssumption DEF RulesTypeOK, EngineSteps, RuleFiles, AsFiled
<1>2. RulesCanFail'
  BY DEF RulesCanFail, Passes, RulesTypeOK, TestOK
<1>3. OutStaysOut'
  BY DEF OutStaysOut, RulesTypeOK, AsFiled
<1> QED BY <1>1, <1>2, <1>3

LEMMA EnsureIncludeKeeps ==
    ASSUME RulesInv, engine # NoEngine, EnsureInclude
    PROVE  RulesInv'
<1> USE DEF RulesInv, EnsureInclude, rulesMemory, EngineAt, rulesWorld, Rollback, Chance,
            EngineFree, RuleEvent, NoEngine
<1>1. RulesTypeOK'
  <2>1. ({clash, ownPart, rulesAllowed, rulesOff, included, setUp, reloadedLately, reloadPending}
          \subseteq BOOLEAN)'
    BY DEF RulesTypeOK
  <2>2. ({takenOut, unloaded, tornRules} \subseteq BOOLEAN)'
    BY DEF RulesTypeOK
  <2>3. (engine = NoEngine \/ engine \in [pc : EngineSteps, included : BOOLEAN, banFile : RuleFiles,
                                      setUp : BOOLEAN])'
    BY DEF RulesTypeOK, EngineSteps, RuleFiles
  <2>4. (/\ {dashBans, banList, apacheRefuses} \subseteq SUBSET BanAddrs /\ banFile \in RuleFiles
         /\ setupAt \in {"never", "tried", "done"} /\ ruleEventsN \in 0..MaxRuleEvents)'
    BY RulesAssumption DEF RulesTypeOK, RuleFiles, AsFiled
  <2> QED BY <2>1, <2>2, <2>3, <2>4 DEF RulesTypeOK
<1>2. RulesCanFail'
  BY DEF RulesCanFail, Passes, RulesTypeOK, TestOK
<1>3. OutStaysOut'
  <2>1. CASE takenOut' = FALSE
    BY <2>1 DEF OutStaysOut, RulesTypeOK
  <2>2. CASE Rollback /\ UNCHANGED <<takenOut, apacheRefuses>>
    BY <2>2 DEF OutStaysOut, RulesTypeOK
  <2> QED BY <2>1, <2>2
<1> QED BY <1>1, <1>2, <1>3

LEMMA SetupTryKeeps ==
    ASSUME RulesInv, engine # NoEngine, SetupTry
    PROVE  RulesInv'
<1> USE DEF RulesInv, SetupTry, rulesMemory, rulesWorld, rulesMarks, EngineAt, rulesOnDisk,
            Rollback, EngineFree, NoEngine
<1>1. RulesTypeOK'
  BY RulesAssumption DEF RulesTypeOK, EngineSteps, RuleFiles, AsFiled
<1>2. RulesCanFail'
  BY DEF RulesCanFail, Passes, RulesTypeOK, TestOK
<1>3. OutStaysOut'
  BY DEF OutStaysOut, RulesTypeOK, AsFiled
<1> QED BY <1>1, <1>2, <1>3

LEMMA SetupLoadKeeps ==
    ASSUME RulesInv, engine # NoEngine, SetupLoad
    PROVE  RulesInv'
<1> USE DEF RulesInv, SetupLoad, rulesMarks, Reloaded, EngineFree, rulesOnDisk, rulesWorld,
            Rollback, Chance, ApacheRead, NoEngine, RuleEvent
<1>1. RulesTypeOK'
  <2>1. ({clash, ownPart, rulesAllowed, rulesOff, included, setUp, reloadedLately, reloadPending}
          \subseteq BOOLEAN)'
    BY DEF RulesTypeOK
  <2>2. ({takenOut, unloaded, tornRules} \subseteq BOOLEAN)'
    BY DEF RulesTypeOK
  <2>3. (engine = NoEngine \/ engine \in [pc : EngineSteps, included : BOOLEAN, banFile : RuleFiles,
                                      setUp : BOOLEAN])'
    BY DEF RulesTypeOK, EngineSteps, RuleFiles
  <2>4. (/\ {dashBans, banList, apacheRefuses} \subseteq SUBSET BanAddrs /\ banFile \in RuleFiles
         /\ setupAt \in {"never", "tried", "done"} /\ ruleEventsN \in 0..MaxRuleEvents)'
    BY RulesAssumption DEF RulesTypeOK, RuleFiles, AsFiled
  <2> QED BY <2>1, <2>2, <2>3, <2>4 DEF RulesTypeOK
<1>2. RulesCanFail'
  BY DEF RulesCanFail, Passes, RulesTypeOK, TestOK
<1>3. OutStaysOut'
  BY DEF OutStaysOut, RulesTypeOK, AsFiled
<1> QED BY <1>1, <1>2, <1>3

LEMMA BansTestKeeps ==
    ASSUME RulesInv, engine # NoEngine, BansTest
    PROVE  RulesInv'
<1> USE DEF RulesInv, BansTest, rulesMemory, rulesWorld, rulesMarks, EngineAt, EngineFree,
            NoEngine
<1>1. RulesTypeOK'
  BY RulesAssumption DEF RulesTypeOK, EngineSteps, RuleFiles, AsFiled
<1>2. RulesCanFail'
  BY DEF RulesCanFail, Passes, RulesTypeOK, TestOK
<1>3. OutStaysOut'
  BY DEF OutStaysOut, RulesTypeOK, AsFiled
<1> QED BY <1>1, <1>2, <1>3

LEMMA ScheduleReloadKeeps ==
    ASSUME RulesInv, engine # NoEngine, ScheduleReload
    PROVE  RulesInv'
<1> USE DEF RulesInv, ScheduleReload, EngineFree, rulesOnDisk, rulesWorld, TryReload,
            NoEngine, Reloaded, Chance, ApacheRead, RuleEvent
<1>1. RulesTypeOK'
  <2>1. ({clash, ownPart, rulesAllowed, rulesOff, included, setUp, reloadedLately, reloadPending}
          \subseteq BOOLEAN)'
    BY DEF RulesTypeOK
  <2>2. ({takenOut, unloaded, tornRules} \subseteq BOOLEAN)'
    BY DEF RulesTypeOK
  <2>3. (engine = NoEngine \/ engine \in [pc : EngineSteps, included : BOOLEAN, banFile : RuleFiles,
                                      setUp : BOOLEAN])'
    BY DEF RulesTypeOK, EngineSteps, RuleFiles
  <2>4. (/\ {dashBans, banList, apacheRefuses} \subseteq SUBSET BanAddrs /\ banFile \in RuleFiles
         /\ setupAt \in {"never", "tried", "done"} /\ ruleEventsN \in 0..MaxRuleEvents)'
    BY RulesAssumption DEF RulesTypeOK, RuleFiles, AsFiled
  <2> QED BY <2>1, <2>2, <2>3, <2>4 DEF RulesTypeOK
<1>2. RulesCanFail'
  BY DEF RulesCanFail, Passes, RulesTypeOK, TestOK
<1>3. OutStaysOut'
  BY DEF OutStaysOut, RulesTypeOK, AsFiled
<1> QED BY <1>1, <1>2, <1>3

LEMMA ExcludeKeeps ==
    ASSUME RulesInv, engine # NoEngine, Exclude
    PROVE  RulesInv'
<1> USE DEF RulesInv, Exclude, rulesMemory, rulesMarks, EngineFree, NowOff, EngineAt,
            rulesWorld, NoEngine
<1>1. RulesTypeOK'
  <2>1. ({clash, ownPart, rulesAllowed, rulesOff, included, setUp, reloadedLately, reloadPending}
          \subseteq BOOLEAN)'
    BY DEF RulesTypeOK
  <2>2. ({takenOut, unloaded, tornRules} \subseteq BOOLEAN)'
    BY DEF RulesTypeOK
  <2>3. (engine = NoEngine \/ engine \in [pc : EngineSteps, included : BOOLEAN, banFile : RuleFiles,
                                      setUp : BOOLEAN])'
    BY DEF RulesTypeOK, EngineSteps, RuleFiles
  <2>4. (/\ {dashBans, banList, apacheRefuses} \subseteq SUBSET BanAddrs /\ banFile \in RuleFiles
         /\ setupAt \in {"never", "tried", "done"} /\ ruleEventsN \in 0..MaxRuleEvents)'
    BY RulesAssumption DEF RulesTypeOK, RuleFiles, AsFiled
  <2> QED BY <2>1, <2>2, <2>3, <2>4 DEF RulesTypeOK
<1>2. RulesCanFail'
  BY DEF RulesCanFail, Passes, RulesTypeOK, TestOK
<1>3. OutStaysOut'
  BY DEF OutStaysOut, RulesTypeOK, AsFiled
<1> QED BY <1>1, <1>2, <1>3

LEMMA TakeOutKeeps ==
    ASSUME RulesInv, engine # NoEngine, TakeOut
    PROVE  RulesInv'
<1> USE DEF RulesInv, TakeOut, EngineFree, NowOff, ApacheRead, RuleEvent, NoEngine
<1>1. RulesTypeOK'
  <2>1. ({clash, ownPart, rulesAllowed, rulesOff, included, setUp, reloadedLately, reloadPending}
          \subseteq BOOLEAN)'
    BY DEF RulesTypeOK
  <2>2. ({takenOut, unloaded, tornRules} \subseteq BOOLEAN)'
    BY DEF RulesTypeOK
  <2>3. (engine = NoEngine \/ engine \in [pc : EngineSteps, included : BOOLEAN, banFile : RuleFiles,
                                      setUp : BOOLEAN])'
    BY DEF RulesTypeOK, EngineSteps, RuleFiles
  <2>4. (/\ {dashBans, banList, apacheRefuses} \subseteq SUBSET BanAddrs /\ banFile \in RuleFiles
         /\ setupAt \in {"never", "tried", "done"} /\ ruleEventsN \in 0..MaxRuleEvents)'
    BY RulesAssumption DEF RulesTypeOK, RuleFiles, AsFiled
  <2> QED BY <2>1, <2>2, <2>3, <2>4 DEF RulesTypeOK
<1>2. RulesCanFail'
  BY DEF RulesCanFail, Passes, RulesTypeOK, TestOK
<1>3. OutStaysOut'
  <2>1. ~takenOut
    BY DEF OutStaysOut
  <2>2. CASE TestOK /\ ApacheRead /\ UNCHANGED included
    <3>1. ~included /\ engine' = NoEngine
      BY DEF OutStaysOut
    <3> QED BY <2>2, <3>1 DEF OutStaysOut, AsFiled
  <2>3. CASE takenOut' = takenOut
    BY <2>1, <2>3 DEF OutStaysOut
  <2> QED BY <2>2, <2>3
<1> QED BY <1>1, <1>2, <1>3

LEMMA RulesStep == RulesInv /\ [RulesNext]_rulesVars => RulesInv'
<1> SUFFICES ASSUME RulesInv, [RulesNext]_rulesVars PROVE RulesInv'
  OBVIOUS
<1>1. CASE UNCHANGED rulesVars
  BY <1>1 DEF rulesVars, rulesOnDisk, rulesMemory, rulesWorld, rulesMarks, RulesInv, RulesTypeOK,
              RulesCanFail, OutStaysOut, Passes
<1>2. dashBans \in SUBSET BanAddrs /\ \A a : banList \ {a} \in SUBSET BanAddrs
  BY DEF RulesInv, RulesTypeOK
<1>3. CASE SyncRules \/ \E a \in BanAddrs : DropBans(a)
  BY <1>2, <1>3, UpdateBannedIPsKeeps DEF SyncRules, DropBans
<1>4. CASE EngineStep
  BY <1>4, SetupRulesKeeps, EnsureIncludeKeeps, SetupTryKeeps, SetupLoadKeeps, BansTestKeeps,
     ScheduleReloadKeeps, ExcludeKeeps, TakeOutKeeps DEF EngineStep
<1> QED BY <1>1, <1>3, <1>4, BanOrLiftKeeps, AllowRulesKeeps, OwnerChangesKeeps, OthersReloadKeeps,
           ReloadAllowedKeeps, ADayKeeps, AgentRestartKeeps, SetupBeginsKeeps, PendingReloadKeeps,
           DetachBeginsKeeps, BackOnKeeps
        DEF RulesNext

LEMMA RulesSafe == RulesInv => ApacheStarts /\ OutRefusesNobody
  BY DEF RulesInv, RulesCanFail, OutStaysOut, Passes, ApacheStarts, OutRefusesNobody, TestOK, NoEngine

----------------------------------------------------------------------------
(* MalwareScans: the scans.                                                *)

Roots == 1..LastRoot
Waiting == [pc : {"claimed"}, kind : {"server", "panel"}]
Started ==
    [pc : ScanPcs, kind : {"server", "panel"}, at : 0..LastRoot, cut : BOOLEAN, status : Statuses,
     walked : SUBSET Roots, skipped : SUBSET Roots, found : SUBSET (Roots \X Nat), left : SUBSET Files,
     file : Nat, upTo : Nat, next : Nat, asked : SUBSET ScanPcs]

ScanFlags ==
    /\ slot \in BOOLEAN /\ cancelScan \in BOOLEAN /\ running \in BOOLEAN /\ stopped \in BOOLEAN
    /\ ended \in BOOLEAN /\ late \in BOOLEAN /\ afterEnd \in BOOLEAN
    /\ watchdog \in {"off", "on", "stop", "beat"} /\ dashScan.state \in {"none", "open", "ended"}
ScanKind == scan \in {NoScan} \cup Waiting \cup Started
BuiltInLeads == (\E S : sigs \in Seq(S)) /\ Len(sigs) >= 1 /\ sigs[1] = 0

\* What ScansTypeOK says but for the order of the signatures, which a sort decides: the
\* built-in one is always the first.
ScanTypes == ScanFlags /\ ScanKind /\ BuiltInLeads

In(s) == scan.pc \in s

\* A scan has the slot, the dashboard knows of it as long as it runs, and its watch is
\* on only then; the watch stops it for a reason.
ScanHasSlot ==
    /\ slot <=> scan # NoScan
    /\ watchdog # "off" => In(ScanPcs \ {"roots"})
    /\ In(ScanPcs) => dashScan.state = "open"
    /\ watchdog = "stop" => cancelScan \/ late
    /\ In({"file", "check", "walked"}) /\ stopped => cancelScan \/ late

InRoot == {"file", "check"}

\* What is left of a cancellation until the status is known.
CancelKept ==
    In(ScanPcs) =>
        /\ cancelScan => scan.asked # {}
        /\ scan.asked \cap InRoot # {} => cancelScan
        /\ In({"roots"}) => scan.asked \cap InRoot = {}
        /\ In(ScanPcs \ {"rest", "unwatch", "watchEnds"}) => scan.status = "completed"
        /\ In({"chunk", "next", "open", "rest"}) /\ scan.asked \cap InRoot # {} =>
             scan.cut /\ scan.status = "completed"
        /\ In({"unwatch", "watchEnds"}) /\ scan.asked \cap InRoot # {} => scan.status = "cancelled"
        /\ scan.status = "cancelled" => scan.asked # {} /\ In({"unwatch", "watchEnds"})

\* What has been walked: the roots before this one, this one when the walk was not
\* stopped, and in each what the built-in signature finds.
Seen == scan.walked \cup scan.skipped

FoundSoFar  == 0 \in Files => \A r \in scan.walked : <<r, 0>> \in scan.found
RootAt      == /\ In({"roots"}) => scan.at = 0
               /\ In({"open", "file", "check", "walked"}) => scan.at >= 1
SeenBefore  == In({"open", "file", "check", "walked"}) /\ ~scan.cut => 1..(scan.at - 1) \subseteq Seen
SeenThis    == In({"walked"}) => scan.at \in Seen \/ stopped
SeenUpTo    == In({"chunk", "next"}) /\ ~scan.cut => 1..scan.at \subseteq Seen
SeenAll     == scan.status = "completed" /\ scan.kind = "server" =>
                 /\ In({"rest"}) /\ ~scan.cut => Roots \subseteq Seen
                 /\ In({"unwatch", "watchEnds"}) => Roots \subseteq Seen
FilesLeft   == In({"file"}) /\ 0 \in Files => 0 \in scan.left \/ <<scan.at, 0>> \in scan.found
FileAtHand  == In({"check"}) /\ 0 \in Files =>
                 \/ 0 \in scan.left \/ <<scan.at, 0>> \in scan.found
                 \/ scan.file = 0 /\ scan.next = 1 /\ scan.upTo >= 1
RootsKept ==
    In(ScanPcs) =>
        /\ FoundSoFar /\ RootAt /\ SeenBefore /\ SeenThis /\ SeenUpTo /\ SeenAll
        /\ FilesLeft /\ FileAtHand

ScansInv ==
    /\ ScanTypes /\ ScanHasSlot /\ CancelKept /\ RootsKept
    /\ ScoreIsWhole /\ CancelHeard /\ EndIsLast

LEMMA SignatureList ==
    ASSUME ScanTypes
    PROVE  Len(sigs) \in Nat /\ Len(sigs) >= 1 /\ sigs[1] = 0
<1> PICK S : sigs \in Seq(S)
  BY DEF ScanTypes, BuiltInLeads
<1> QED BY LenProperties DEF ScanTypes, BuiltInLeads

LEMMA BuiltInFirst == BuiltIn \in Seq({0}) /\ Len(BuiltIn) >= 1 /\ BuiltIn[1] = 0
  BY DEF BuiltIn

\* What a step of the scan knows of it.
LEMMA ScanKinds ==
    ASSUME ScanTypes
    PROVE  /\ NoScan.pc = "none" /\ ~(NoScan.pc \in ScanPcs)
           /\ In(ScanPcs) => scan \in Started
           /\ scan.pc = "claimed" => scan \in Waiting /\ scan # NoScan
           /\ In(ScanPcs) => scan # NoScan
           /\ ~In(ScanPcs) => scan = NoScan \/ scan \in Waiting
  BY DEF ScanTypes, ScanKind, In, NoScan, Waiting, Started, ScanPcs

scanSays == <<slot, cancelScan, scan, scanner, watchVars, dashScan, afterEnd>>

\* Signatures that come or go are nothing to what holds of the scan.
LEMMA SignaturesOnly ==
    ASSUME ScansInv, UNCHANGED scanSays, Len(sigs') >= 1, sigs'[1] = 0, NEW S, sigs' \in Seq(S)
    PROVE  ScansInv'
<1>1. ScanTypes'
  BY DEF ScansInv, ScanTypes, ScanFlags, ScanKind, BuiltInLeads, scanSays, scanner, watchVars,
        Waiting, Started
<1>2. ScanHasSlot' /\ CancelKept' /\ RootsKept'
  BY DEF ScansInv, ScanHasSlot, CancelKept, RootsKept, FoundSoFar, RootAt, SeenBefore, SeenThis,
        SeenUpTo, SeenAll, FilesLeft, FileAtHand, In, scanSays, scanner, watchVars, Seen
<1>3. ScoreIsWhole' /\ CancelHeard' /\ EndIsLast'
  BY DEF ScansInv, ScoreIsWhole, CancelHeard, EndIsLast, scanSays
<1> QED BY <1>1, <1>2, <1>3 DEF ScansInv

LEMMA ScanWorldSteps ==
    ASSUME ScansInv, \/ \E s \in SUBSET DynSigs : EditSignatures(s)
                     \/ EditSchedule \/ ScansSync \/ LoadSignature
                     \/ UNCHANGED scanVars
    PROVE  ScansInv'
<1> USE DEF scanSays
<1>1. CASE UNCHANGED <<scanSays, sigs>>
  <2> PICK S : sigs \in Seq(S)
    BY DEF ScansInv, ScanTypes, BuiltInLeads
  <2>1. Len(sigs') >= 1 /\ sigs'[1] = 0 /\ sigs' \in Seq(S)
    BY <1>1 DEF ScansInv, ScanTypes, BuiltInLeads
  <2> QED BY <1>1, <2>1, SignaturesOnly
<1>2. CASE UNCHANGED scanSays /\ sigs' = BuiltIn
  BY <1>2, BuiltInFirst, SignaturesOnly
<1>3. CASE LoadSignature
  <2> PICK S : sigs \in Seq(S)
    BY DEF ScansInv, ScanTypes, BuiltInLeads
  <2> DEFINE T == S \cup {Head(loader)}
  <2>1. sigs \in Seq(T) /\ Len(sigs) >= 1 /\ sigs[1] = 0 /\ Len(sigs) \in Nat
    BY LenProperties DEF ScansInv, ScanTypes, BuiltInLeads
  <2>2. sigs' = Append(sigs, Head(loader)) /\ Head(loader) \in T
    BY <1>3 DEF LoadSignature
  <2> HIDE DEF T
  <2>3. sigs' \in Seq(T) /\ Len(sigs') = Len(sigs) + 1 /\ sigs'[1] = sigs[1]
    BY <2>1, <2>2, AppendProperties
  <2>4. UNCHANGED scanSays
    BY <1>3 DEF LoadSignature
  <2>5. Len(sigs') >= 1 /\ sigs'[1] = 0
    BY <2>1, <2>3
  <2> QED BY <2>3, <2>4, <2>5, SignaturesOnly
<1>4. CASE UNCHANGED scanVars
  BY <1>1, <1>4 DEF scanVars, sigsVars
<1>5. CASE \E s \in SUBSET DynSigs : EditSignatures(s)
  BY <1>1, <1>5 DEF EditSignatures, sigsVars
<1>6. CASE EditSchedule
  BY <1>1, <1>6 DEF EditSchedule, sigsVars
<1>7. CASE ScansSync
  BY <1>1, <1>2, <1>7 DEF ScansSync, sigsVars
<1> QED BY <1>3, <1>4, <1>5, <1>6, <1>7

LEMMA ScanStartsAgain ==
    ASSUME ScansInv, ScanRestart \/ SignatureGone
    PROVE  ScansInv'
<1> USE DEF ScanFrame, scanWorld, sigsVars, schedule, scanner, watchVars, ScanPcs, In,
    ScanRestart, SignatureGone, StartsAgain
<1>1. ScanFlags' /\ BuiltInLeads'
  BY BuiltInFirst DEF ScansInv, ScanTypes, ScanFlags, BuiltInLeads
<1>2. ScanKind'
  BY SignatureList, ScanKinds, ScansAssumption DEF ScansInv, ScanKind, Waiting, Started,
      Roots, Statuses
<1>3. ScanHasSlot' /\ CancelKept'
  BY ScanKinds DEF ScansInv, ScanTypes, ScanFlags, ScanHasSlot, CancelKept, InRoot, Waiting,
      Started, Statuses
<1>4. RootsKept'
  BY ScanKinds, SignatureList, ScansAssumption DEF ScansInv, ScanHasSlot, RootsKept,
      FoundSoFar, RootAt, SeenBefore, SeenThis, SeenUpTo, SeenAll, FilesLeft, FileAtHand, RootsOf,
      Seen, Roots, Started, Waiting
<1>5. ScoreIsWhole' /\ CancelHeard' /\ EndIsLast'
  BY ScanKinds DEF ScansInv, ScanTypes, ScanFlags, ScanHasSlot, ScoreIsWhole, CancelHeard,
      EndIsLast
<1> QED BY <1>1, <1>2, <1>3, <1>4, <1>5 DEF ScansInv, ScanTypes

LEMMA ScanClaimed ==
    ASSUME ScansInv, Hour \/ (\E k \in {"server", "panel"} : AskScan(k))
    PROVE  ScansInv'
<1> USE DEF ScanFrame, scanWorld, sigsVars, schedule, scanner, watchVars, ScanPcs, In, Hour,
    AskScan, Claim
<1>1. ScanFlags' /\ BuiltInLeads'
  BY Zenon DEF ScansInv, ScanTypes, ScanFlags, BuiltInLeads
<1>2. ScanKind'
  BY SignatureList, ScanKinds, ScansAssumption DEF ScansInv, ScanKind, Waiting, Started,
      Roots, Statuses
<1>3. ScanHasSlot' /\ CancelKept'
  BY ScanKinds DEF ScansInv, ScanTypes, ScanFlags, ScanHasSlot, CancelKept, InRoot, Waiting,
      Started, Statuses
<1>4. RootsKept'
  <2> SUFFICES ASSUME (scan.pc \in ScanPcs)' PROVE RootsKept'
    BY DEF RootsKept
  <2>1. UNCHANGED <<scan, stopped>>
    OBVIOUS
  <2> QED
    BY <2>1 DEF ScansInv, RootsKept, FoundSoFar, RootAt, SeenBefore, SeenThis, SeenUpTo,
        SeenAll, FilesLeft, FileAtHand, Seen
<1>5. ScoreIsWhole' /\ CancelHeard' /\ EndIsLast'
  BY ScanKinds DEF ScansInv, ScanTypes, ScanFlags, ScanHasSlot, ScoreIsWhole, CancelHeard,
      EndIsLast
<1> QED BY <1>1, <1>2, <1>3, <1>4, <1>5 DEF ScansInv, ScanTypes

\* The steps at the roots, one alternative after the other.
LEMMA RootsAllRead ==
    ASSUME ScansInv, scan.pc = "next", scan.at + 1 \notin RootsOf(scan),
           UNCHANGED <<slot, cancelScan, scanner, watchVars, dashScan, afterEnd, sigs>>,
           scan' = [scan EXCEPT !.pc = "rest"]
    PROVE  ScansInv'
<1> USE DEF ScanFrame, scanWorld, sigsVars, schedule, scanner, watchVars, ScanPcs, In
<1>0. /\ scan \in Started /\ scan.at \in 0..LastRoot /\ LastRoot \in Nat
      /\ scan'.pc = "rest" /\ scan'.kind = scan.kind /\ scan'.at = scan.at
      /\ scan'.cut = scan.cut /\ scan'.status = scan.status /\ scan'.walked = scan.walked
      /\ scan'.skipped = scan.skipped /\ scan'.found = scan.found /\ scan'.left = scan.left
      /\ scan'.file = scan.file /\ scan'.upTo = scan.upTo /\ scan'.next = scan.next
      /\ scan'.asked = scan.asked
  BY ScanKinds, ScansAssumption DEF ScansInv, Started
<1>1. ScanFlags' /\ BuiltInLeads'
  BY DEF ScansInv, ScanTypes, ScanFlags, BuiltInLeads
<1>2. ScanKind'
  BY <1>0, SignatureList, ScanKinds, ScansAssumption DEF ScansInv, ScanKind, Waiting, Started,
      Roots, Statuses
<1>3. ScanHasSlot' /\ CancelKept'
  BY <1>0, ScanKinds DEF ScansInv, ScanTypes, ScanFlags, ScanHasSlot, CancelKept, InRoot,
      Waiting, Started, Statuses
<1>4. RootsKept'
  BY <1>0, ScanKinds, SignatureList, ScansAssumption DEF ScansInv, ScanHasSlot, RootsKept,
      FoundSoFar, RootAt, SeenBefore, SeenThis, SeenUpTo, SeenAll, FilesLeft, FileAtHand, RootsOf,
      Seen, Roots, Started, Waiting
<1>5. ScoreIsWhole' /\ CancelHeard' /\ EndIsLast'
  BY ScanKinds DEF ScansInv, ScanTypes, ScanFlags, ScanHasSlot, ScoreIsWhole, CancelHeard,
      EndIsLast
<1> QED BY <1>1, <1>2, <1>3, <1>4, <1>5 DEF ScansInv, ScanTypes

LEMMA StoppedAtNext ==
    ASSUME ScansInv, scan.pc = "next", NEW s \in {"timed_out", "cancelled"}, s = "cancelled" => cancelScan,
           s = "timed_out" => ~cancelScan,
           UNCHANGED <<slot, cancelScan, scanner, watchVars, dashScan, afterEnd, sigs>>,
           scan' = [scan EXCEPT !.pc = IF s = "cancelled" THEN "unwatch" ELSE "rest", !.status = s]
    PROVE  ScansInv'
<1> USE DEF ScanFrame, scanWorld, sigsVars, schedule, scanner, watchVars, ScanPcs, In
<1>0. /\ scan \in Started /\ scan.at \in 0..LastRoot /\ LastRoot \in Nat
      /\ scan'.pc = (IF s = "cancelled" THEN "unwatch" ELSE "rest") /\ scan'.kind = scan.kind
      /\ scan'.at = scan.at /\ scan'.cut = scan.cut /\ scan'.status = s
      /\ scan'.walked = scan.walked /\ scan'.skipped = scan.skipped /\ scan'.found = scan.found
      /\ scan'.left = scan.left /\ scan'.file = scan.file /\ scan'.upTo = scan.upTo
      /\ scan'.next = scan.next /\ scan'.asked = scan.asked
  BY ScanKinds, ScansAssumption DEF ScansInv, Started
<1>1. ScanFlags' /\ BuiltInLeads'
  BY DEF ScansInv, ScanTypes, ScanFlags, BuiltInLeads
<1>2. ScanKind'
  <2>1. scan' \in Started
    BY <1>0 DEF Started, Statuses
  <2> QED BY <2>1 DEF ScanKind
<1>3. ScanHasSlot' /\ CancelKept'
  <2>1. ScanHasSlot'
    BY <1>0, ScanKinds DEF ScansInv, ScanTypes, ScanFlags, ScanHasSlot, InRoot, Waiting, Started
  <2>2. CancelKept'
    BY <1>0, ScanKinds DEF ScansInv, ScanTypes, ScanFlags, CancelKept, Started, Statuses
  <2> QED BY <2>1, <2>2
<1>4. RootsKept'
  BY <1>0, ScanKinds, SignatureList, ScansAssumption DEF ScansInv, ScanHasSlot, RootsKept,
      FoundSoFar, RootAt, SeenBefore, SeenThis, SeenUpTo, SeenAll, FilesLeft, FileAtHand, RootsOf,
      Seen, Roots, Started, Waiting
<1>5. ScoreIsWhole' /\ CancelHeard' /\ EndIsLast'
  BY ScanKinds DEF ScansInv, ScanTypes, ScanFlags, ScanHasSlot, ScoreIsWhole, CancelHeard,
      EndIsLast
<1> QED BY <1>1, <1>2, <1>3, <1>4, <1>5 DEF ScansInv, ScanTypes

LEMMA RootBegins ==
    ASSUME ScansInv, scan.pc = "next", scan.at + 1 \in RootsOf(scan), running' = TRUE,
           UNCHANGED <<slot, cancelScan, stopped, watchVars, dashScan, afterEnd, sigs>>,
           scan' = [scan EXCEPT !.pc = "open", !.at = @ + 1]
    PROVE  ScansInv'
<1> USE DEF ScanFrame, scanWorld, sigsVars, schedule, scanner, watchVars, ScanPcs, In
<1>0. /\ scan \in Started /\ scan.at \in 0..LastRoot /\ LastRoot \in Nat
      /\ scan'.pc = "open" /\ scan'.kind = scan.kind /\ scan'.at = scan.at + 1
      /\ scan'.cut = scan.cut /\ scan'.status = scan.status /\ scan'.walked = scan.walked
      /\ scan'.skipped = scan.skipped /\ scan'.found = scan.found /\ scan'.left = scan.left
      /\ scan'.file = scan.file /\ scan'.upTo = scan.upTo /\ scan'.next = scan.next
      /\ scan'.asked = scan.asked
  BY ScanKinds, ScansAssumption DEF ScansInv, Started
<1>1. ScanFlags' /\ BuiltInLeads'
  BY DEF ScansInv, ScanTypes, ScanFlags, BuiltInLeads
<1>2. ScanKind'
  <2>1. scan.at + 1 \in 0..LastRoot
    BY <1>0, SignatureList, ScansAssumption DEF ScansInv, RootsKept, RootAt, RootsOf, Started, Roots
  <2>2. scan' \in Started
    BY <1>0, <2>1 DEF Started, Statuses
  <2> QED BY <2>2 DEF ScanKind
<1>3. ScanHasSlot' /\ CancelKept'
  BY <1>0, ScanKinds DEF ScansInv, ScanTypes, ScanFlags, ScanHasSlot, CancelKept, InRoot,
      Waiting, Started, Statuses
<1>4. RootsKept'
  BY <1>0, ScanKinds, SignatureList, ScansAssumption DEF ScansInv, ScanHasSlot, RootsKept,
      FoundSoFar, RootAt, SeenBefore, SeenThis, SeenUpTo, SeenAll, FilesLeft, FileAtHand, RootsOf,
      Seen, Roots, Started, Waiting
<1>5. ScoreIsWhole' /\ CancelHeard' /\ EndIsLast'
  BY ScanKinds DEF ScansInv, ScanTypes, ScanFlags, ScanHasSlot, ScoreIsWhole, CancelHeard,
      EndIsLast
<1> QED BY <1>1, <1>2, <1>3, <1>4, <1>5 DEF ScansInv, ScanTypes

LEMMA RootOpened ==
    ASSUME ScansInv, scan.pc = "open", stopped' = FALSE,
           UNCHANGED <<slot, cancelScan, running, watchVars, dashScan, afterEnd, sigs>>,
           scan' = [scan EXCEPT !.pc = "file", !.left = Files]
    PROVE  ScansInv'
<1> USE DEF ScanFrame, scanWorld, sigsVars, schedule, scanner, watchVars, ScanPcs, In
<1>0. /\ scan \in Started /\ scan.at \in 0..LastRoot /\ LastRoot \in Nat
      /\ scan'.pc = "file" /\ scan'.kind = scan.kind /\ scan'.at = scan.at
      /\ scan'.cut = scan.cut /\ scan'.status = scan.status /\ scan'.walked = scan.walked
      /\ scan'.skipped = scan.skipped /\ scan'.found = scan.found /\ scan'.left = Files
      /\ scan'.file = scan.file /\ scan'.upTo = scan.upTo /\ scan'.next = scan.next
      /\ scan'.asked = scan.asked
  BY ScanKinds, ScansAssumption DEF ScansInv, Started
<1>1. ScanFlags' /\ BuiltInLeads'
  BY DEF ScansInv, ScanTypes, ScanFlags, BuiltInLeads
<1>2. ScanKind'
  BY <1>0, SignatureList, ScanKinds, ScansAssumption DEF ScansInv, ScanKind, Waiting, Started,
      Roots, Statuses
<1>3. ScanHasSlot' /\ CancelKept'
  BY <1>0, ScanKinds DEF ScansInv, ScanTypes, ScanFlags, ScanHasSlot, CancelKept, InRoot,
      Waiting, Started, Statuses
<1>4. RootsKept'
  BY <1>0, ScanKinds, SignatureList, ScansAssumption DEF ScansInv, ScanHasSlot, RootsKept,
      FoundSoFar, RootAt, SeenBefore, SeenThis, SeenUpTo, SeenAll, FilesLeft, FileAtHand, RootsOf,
      Seen, Roots, Started, Waiting
<1>5. ScoreIsWhole' /\ CancelHeard' /\ EndIsLast'
  BY ScanKinds DEF ScansInv, ScanTypes, ScanFlags, ScanHasSlot, ScoreIsWhole, CancelHeard,
      EndIsLast
<1> QED BY <1>1, <1>2, <1>3, <1>4, <1>5 DEF ScansInv, ScanTypes

LEMMA RootRefused ==
    ASSUME ScansInv, scan.pc = "open", stopped' = FALSE,
           UNCHANGED <<slot, cancelScan, running, watchVars, dashScan, afterEnd, sigs>>,
           scan' = [scan EXCEPT !.pc = "walked", !.skipped = @ \cup {scan.at}]
    PROVE  ScansInv'
<1> USE DEF ScanFrame, scanWorld, sigsVars, schedule, scanner, watchVars, ScanPcs, In
<1>0. /\ scan \in Started /\ scan.at \in 0..LastRoot /\ LastRoot \in Nat
      /\ scan'.pc = "walked" /\ scan'.kind = scan.kind /\ scan'.at = scan.at
      /\ scan'.cut = scan.cut /\ scan'.status = scan.status /\ scan'.walked = scan.walked
      /\ scan'.skipped = scan.skipped \cup {scan.at} /\ scan'.found = scan.found
      /\ scan'.left = scan.left /\ scan'.file = scan.file /\ scan'.upTo = scan.upTo
      /\ scan'.next = scan.next /\ scan'.asked = scan.asked
  BY ScanKinds, ScansAssumption DEF ScansInv, Started
<1>1. ScanFlags' /\ BuiltInLeads'
  BY DEF ScansInv, ScanTypes, ScanFlags, BuiltInLeads
<1>2. ScanKind'
  <2>1. scan.skipped \cup {scan.at} \in SUBSET Roots
    BY <1>0, SignatureList, ScansAssumption DEF ScansInv, RootsKept, RootAt, RootsOf, Started, Roots
  <2>2. scan' \in Started
    BY <1>0, <2>1 DEF Started, Statuses
  <2> QED BY <2>2 DEF ScanKind
<1>3. ScanHasSlot' /\ CancelKept'
  BY <1>0, ScanKinds DEF ScansInv, ScanTypes, ScanFlags, ScanHasSlot, CancelKept, InRoot,
      Waiting, Started, Statuses
<1>4. RootsKept'
  BY <1>0, ScanKinds, SignatureList, ScansAssumption DEF ScansInv, ScanHasSlot, RootsKept,
      FoundSoFar, RootAt, SeenBefore, SeenThis, SeenUpTo, SeenAll, FilesLeft, FileAtHand, RootsOf,
      Seen, Roots, Started, Waiting
<1>5. ScoreIsWhole' /\ CancelHeard' /\ EndIsLast'
  BY ScanKinds DEF ScansInv, ScanTypes, ScanFlags, ScanHasSlot, ScoreIsWhole, CancelHeard,
      EndIsLast
<1> QED BY <1>1, <1>2, <1>3, <1>4, <1>5 DEF ScansInv, ScanTypes

LEMMA WalkStopped ==
    ASSUME ScansInv, scan.pc = "file", stopped,
           UNCHANGED <<slot, cancelScan, scanner, watchVars, dashScan, afterEnd, sigs>>,
           scan' = [scan EXCEPT !.pc = "walked"]
    PROVE  ScansInv'
<1> USE DEF ScanFrame, scanWorld, sigsVars, schedule, scanner, watchVars, ScanPcs, In
<1>0. /\ scan \in Started /\ scan.at \in 0..LastRoot /\ LastRoot \in Nat
      /\ scan'.pc = "walked" /\ scan'.kind = scan.kind /\ scan'.at = scan.at
      /\ scan'.cut = scan.cut /\ scan'.status = scan.status /\ scan'.walked = scan.walked
      /\ scan'.skipped = scan.skipped /\ scan'.found = scan.found /\ scan'.left = scan.left
      /\ scan'.file = scan.file /\ scan'.upTo = scan.upTo /\ scan'.next = scan.next
      /\ scan'.asked = scan.asked
  BY ScanKinds, ScansAssumption DEF ScansInv, Started
<1>1. ScanFlags' /\ BuiltInLeads'
  BY DEF ScansInv, ScanTypes, ScanFlags, BuiltInLeads
<1>2. ScanKind'
  BY <1>0, SignatureList, ScanKinds, ScansAssumption DEF ScansInv, ScanKind, Waiting, Started,
      Roots, Statuses
<1>3. ScanHasSlot' /\ CancelKept'
  BY <1>0, ScanKinds DEF ScansInv, ScanTypes, ScanFlags, ScanHasSlot, CancelKept, InRoot,
      Waiting, Started, Statuses
<1>4. RootsKept'
  BY <1>0, ScanKinds, SignatureList, ScansAssumption DEF ScansInv, ScanHasSlot, RootsKept,
      FoundSoFar, RootAt, SeenBefore, SeenThis, SeenUpTo, SeenAll, FilesLeft, FileAtHand, RootsOf,
      Seen, Roots, Started, Waiting
<1>5. ScoreIsWhole' /\ CancelHeard' /\ EndIsLast'
  BY ScanKinds DEF ScansInv, ScanTypes, ScanFlags, ScanHasSlot, ScoreIsWhole, CancelHeard,
      EndIsLast
<1> QED BY <1>1, <1>2, <1>3, <1>4, <1>5 DEF ScansInv, ScanTypes

LEMMA WalkDone ==
    ASSUME ScansInv, scan.pc = "file", ~stopped, scan.left = {},
           UNCHANGED <<slot, cancelScan, scanner, watchVars, dashScan, afterEnd, sigs>>,
           scan' = [scan EXCEPT !.pc = "walked", !.walked = @ \cup {scan.at}]
    PROVE  ScansInv'
<1> USE DEF ScanFrame, scanWorld, sigsVars, schedule, scanner, watchVars, ScanPcs, In
<1>0. /\ scan \in Started /\ scan.at \in 0..LastRoot /\ LastRoot \in Nat
      /\ scan'.pc = "walked" /\ scan'.kind = scan.kind /\ scan'.at = scan.at
      /\ scan'.cut = scan.cut /\ scan'.status = scan.status
      /\ scan'.walked = scan.walked \cup {scan.at} /\ scan'.skipped = scan.skipped
      /\ scan'.found = scan.found /\ scan'.left = scan.left /\ scan'.file = scan.file
      /\ scan'.upTo = scan.upTo /\ scan'.next = scan.next /\ scan'.asked = scan.asked
  BY ScanKinds, ScansAssumption DEF ScansInv, Started
<1>1. ScanFlags' /\ BuiltInLeads'
  BY DEF ScansInv, ScanTypes, ScanFlags, BuiltInLeads
<1>2. ScanKind'
  <2>1. scan.walked \cup {scan.at} \in SUBSET Roots
    BY <1>0, SignatureList, ScansAssumption DEF ScansInv, RootsKept, RootAt, RootsOf, Started, Roots
  <2>2. scan' \in Started
    BY <1>0, <2>1 DEF Started, Statuses
  <2> QED BY <2>2 DEF ScanKind
<1>3. ScanHasSlot' /\ CancelKept'
  BY <1>0, ScanKinds DEF ScansInv, ScanTypes, ScanFlags, ScanHasSlot, CancelKept, InRoot,
      Waiting, Started, Statuses
<1>4. RootsKept'
  BY <1>0, ScanKinds, SignatureList, ScansAssumption DEF ScansInv, ScanHasSlot, RootsKept,
      FoundSoFar, RootAt, SeenBefore, SeenThis, SeenUpTo, SeenAll, FilesLeft, FileAtHand, RootsOf,
      Seen, Roots, Started, Waiting
<1>5. ScoreIsWhole' /\ CancelHeard' /\ EndIsLast'
  BY ScanKinds DEF ScansInv, ScanTypes, ScanFlags, ScanHasSlot, ScoreIsWhole, CancelHeard,
      EndIsLast
<1> QED BY <1>1, <1>2, <1>3, <1>4, <1>5 DEF ScansInv, ScanTypes

LEMMA FileTaken ==
    ASSUME ScansInv, scan.pc = "file", NEW f \in scan.left, NEW left \in {scan.left, scan.left \ {f}},
           UNCHANGED <<slot, cancelScan, scanner, watchVars, dashScan, afterEnd, sigs>>,
           scan' = [scan EXCEPT !.pc = "check", !.left = left, !.file = f, !.upTo = Len(sigs), !.next = 1]
    PROVE  ScansInv'
<1> USE DEF ScanFrame, scanWorld, sigsVars, schedule, scanner, watchVars, ScanPcs, In
<1>0. /\ scan \in Started /\ scan.at \in 0..LastRoot /\ LastRoot \in Nat
      /\ scan'.pc = "check" /\ scan'.kind = scan.kind /\ scan'.at = scan.at
      /\ scan'.cut = scan.cut /\ scan'.status = scan.status /\ scan'.walked = scan.walked
      /\ scan'.skipped = scan.skipped /\ scan'.found = scan.found /\ scan'.left = left
      /\ scan'.file = f /\ scan'.upTo = Len(sigs) /\ scan'.next = 1 /\ scan'.asked = scan.asked
  BY ScanKinds, ScansAssumption DEF ScansInv, Started
<1>1. ScanFlags' /\ BuiltInLeads'
  BY DEF ScansInv, ScanTypes, ScanFlags, BuiltInLeads
<1>2. ScanKind'
  <2>1. left \in SUBSET Files /\ f \in Nat /\ Len(sigs) \in Nat
    BY <1>0, SignatureList, ScansAssumption DEF ScansInv, RootsKept, RootAt, RootsOf, Started, Roots
  <2>2. scan' \in Started
    BY <1>0, <2>1 DEF Started, Statuses
  <2> QED BY <2>2 DEF ScanKind
<1>3. ScanHasSlot' /\ CancelKept'
  BY <1>0, ScanKinds DEF ScansInv, ScanTypes, ScanFlags, ScanHasSlot, CancelKept, InRoot,
      Waiting, Started, Statuses
<1>4. RootsKept'
  BY <1>0, ScanKinds, SignatureList, ScansAssumption DEF ScansInv, ScanHasSlot, RootsKept,
      FoundSoFar, RootAt, SeenBefore, SeenThis, SeenUpTo, SeenAll, FilesLeft, FileAtHand, RootsOf,
      Seen, Roots, Started, Waiting
<1>5. ScoreIsWhole' /\ CancelHeard' /\ EndIsLast'
  BY ScanKinds DEF ScansInv, ScanTypes, ScanFlags, ScanHasSlot, ScoreIsWhole, CancelHeard,
      EndIsLast
<1> QED BY <1>1, <1>2, <1>3, <1>4, <1>5 DEF ScansInv, ScanTypes

LEMMA FileChecked ==
    ASSUME ScansInv, scan.pc = "check", scan.next > scan.upTo,
           UNCHANGED <<slot, cancelScan, scanner, watchVars, dashScan, afterEnd, sigs>>,
           scan' = [scan EXCEPT !.pc = "file"]
    PROVE  ScansInv'
<1> USE DEF ScanFrame, scanWorld, sigsVars, schedule, scanner, watchVars, ScanPcs, In
<1>0. /\ scan \in Started /\ scan.at \in 0..LastRoot /\ LastRoot \in Nat
      /\ scan'.pc = "file" /\ scan'.kind = scan.kind /\ scan'.at = scan.at
      /\ scan'.cut = scan.cut /\ scan'.status = scan.status /\ scan'.walked = scan.walked
      /\ scan'.skipped = scan.skipped /\ scan'.found = scan.found /\ scan'.left = scan.left
      /\ scan'.file = scan.file /\ scan'.upTo = scan.upTo /\ scan'.next = scan.next
      /\ scan'.asked = scan.asked
  BY ScanKinds, ScansAssumption DEF ScansInv, Started
<1>1. ScanFlags' /\ BuiltInLeads'
  BY DEF ScansInv, ScanTypes, ScanFlags, BuiltInLeads
<1>2. ScanKind'
  BY <1>0, SignatureList, ScanKinds, ScansAssumption DEF ScansInv, ScanKind, Waiting, Started,
      Roots, Statuses
<1>3. ScanHasSlot' /\ CancelKept'
  BY <1>0, ScanKinds DEF ScansInv, ScanTypes, ScanFlags, ScanHasSlot, CancelKept, InRoot,
      Waiting, Started, Statuses
<1>4. RootsKept'
  BY <1>0, ScanKinds, SignatureList, ScansAssumption DEF ScansInv, ScanHasSlot, RootsKept,
      FoundSoFar, RootAt, SeenBefore, SeenThis, SeenUpTo, SeenAll, FilesLeft, FileAtHand, RootsOf,
      Seen, Roots, Started, Waiting
<1>5. ScoreIsWhole' /\ CancelHeard' /\ EndIsLast'
  BY ScanKinds DEF ScansInv, ScanTypes, ScanFlags, ScanHasSlot, ScoreIsWhole, CancelHeard,
      EndIsLast
<1> QED BY <1>1, <1>2, <1>3, <1>4, <1>5 DEF ScansInv, ScanTypes

LEMMA SignatureTried ==
    ASSUME ScansInv, scan.pc = "check", scan.next <= scan.upTo,
           UNCHANGED <<slot, cancelScan, scanner, watchVars, dashScan, afterEnd, sigs>>,
           scan' = [scan EXCEPT !.next = @ + 1, !.found = IF sigs[scan.next] = scan.file
              THEN @ \cup {<<scan.at, scan.file>>} ELSE @]
    PROVE  ScansInv'
<1> USE DEF ScanFrame, scanWorld, sigsVars, schedule, scanner, watchVars, ScanPcs, In
<1>0. /\ scan \in Started /\ scan.at \in 0..LastRoot /\ LastRoot \in Nat
      /\ scan'.pc = scan.pc /\ scan'.kind = scan.kind /\ scan'.at = scan.at
      /\ scan'.cut = scan.cut /\ scan'.status = scan.status /\ scan'.walked = scan.walked
      /\ scan'.skipped = scan.skipped
      /\ scan'.found = (IF sigs[scan.next] = scan.file
              THEN scan.found \cup {<<scan.at, scan.file>>} ELSE scan.found)
      /\ scan'.left = scan.left /\ scan'.file = scan.file /\ scan'.upTo = scan.upTo
      /\ scan'.next = scan.next + 1 /\ scan'.asked = scan.asked
  BY ScanKinds, ScansAssumption DEF ScansInv, Started
<1>1. ScanFlags' /\ BuiltInLeads'
  BY DEF ScansInv, ScanTypes, ScanFlags, BuiltInLeads
<1>2. ScanKind'
  <2>1. scan.found \cup {<<scan.at, scan.file>>} \in SUBSET (Roots \X Nat) /\ scan.next + 1 \in Nat
    BY <1>0, SignatureList, ScansAssumption DEF ScansInv, RootsKept, RootAt, RootsOf, Started, Roots
  <2>2. scan' \in Started
    BY <1>0, <2>1 DEF Started, Statuses
  <2> QED BY <2>2 DEF ScanKind
<1>3. ScanHasSlot' /\ CancelKept'
  BY <1>0, ScanKinds DEF ScansInv, ScanTypes, ScanFlags, ScanHasSlot, CancelKept, InRoot,
      Waiting, Started, Statuses
<1>4. RootsKept'
  BY <1>0, ScanKinds, SignatureList, ScansAssumption DEF ScansInv, ScanHasSlot, RootsKept,
      FoundSoFar, RootAt, SeenBefore, SeenThis, SeenUpTo, SeenAll, FilesLeft, FileAtHand, RootsOf,
      Seen, Roots, Started, Waiting
<1>5. ScoreIsWhole' /\ CancelHeard' /\ EndIsLast'
  BY ScanKinds DEF ScansInv, ScanTypes, ScanFlags, ScanHasSlot, ScoreIsWhole, CancelHeard,
      EndIsLast
<1> QED BY <1>1, <1>2, <1>3, <1>4, <1>5 DEF ScansInv, ScanTypes

LEMMA AskCancelSafe ==
    ASSUME ScansInv, AskCancel
    PROVE  ScansInv'
<1> USE DEF ScanFrame, scanWorld, sigsVars, schedule, scanner, watchVars, ScanPcs, In, AskCancel
<1>1. ScanFlags' /\ BuiltInLeads'
  BY DEF ScansInv, ScanTypes, ScanFlags, BuiltInLeads
<1>2. ScanKind'
  BY SignatureList, ScanKinds, ScansAssumption DEF ScansInv, ScanKind, Waiting, Started,
      Roots, Statuses
<1>3. ScanHasSlot' /\ CancelKept'
  BY ScanKinds DEF ScansInv, ScanTypes, ScanFlags, ScanHasSlot, CancelKept, InRoot, Waiting,
      Started, Statuses
<1>4. RootsKept'
  BY ScanKinds, SignatureList, ScansAssumption DEF ScansInv, ScanHasSlot, RootsKept,
      FoundSoFar, RootAt, SeenBefore, SeenThis, SeenUpTo, SeenAll, FilesLeft, FileAtHand, RootsOf,
      Seen, Roots, Started, Waiting
<1>5. ScoreIsWhole' /\ CancelHeard' /\ EndIsLast'
  BY ScanKinds DEF ScansInv, ScanTypes, ScanFlags, ScanHasSlot, ScoreIsWhole, CancelHeard,
      EndIsLast
<1> QED BY <1>1, <1>2, <1>3, <1>4, <1>5 DEF ScansInv, ScanTypes

LEMMA NotStartedSafe ==
    ASSUME ScansInv, NotStarted
    PROVE  ScansInv'
<1> USE DEF ScanFrame, scanWorld, sigsVars, schedule, scanner, watchVars, ScanPcs, In,
    NotStarted, Over
<1>1. ScanFlags' /\ BuiltInLeads'
  BY DEF ScansInv, ScanTypes, ScanFlags, BuiltInLeads
<1>2. ScanKind'
  BY SignatureList, ScanKinds, ScansAssumption DEF ScansInv, ScanKind, Waiting, Started,
      Roots, Statuses
<1>3. ScanHasSlot' /\ CancelKept'
  BY ScanKinds DEF ScansInv, ScanTypes, ScanFlags, ScanHasSlot, CancelKept, InRoot, Waiting,
      Started, Statuses
<1>4. RootsKept'
  BY ScanKinds, SignatureList, ScansAssumption DEF ScansInv, ScanHasSlot, RootsKept,
      FoundSoFar, RootAt, SeenBefore, SeenThis, SeenUpTo, SeenAll, FilesLeft, FileAtHand, RootsOf,
      Seen, Roots, Started, Waiting
<1>5. ScoreIsWhole' /\ CancelHeard' /\ EndIsLast'
  BY ScanKinds DEF ScansInv, ScanTypes, ScanFlags, ScanHasSlot, ScoreIsWhole, CancelHeard,
      EndIsLast
<1> QED BY <1>1, <1>2, <1>3, <1>4, <1>5 DEF ScansInv, ScanTypes

LEMMA ScanBeginsSafe ==
    ASSUME ScansInv, ScanBegins
    PROVE  ScansInv'
<1> USE DEF ScanFrame, scanWorld, sigsVars, schedule, scanner, watchVars, ScanPcs, In, ScanBegins
<1>1. ScanFlags' /\ BuiltInLeads'
  BY DEF ScansInv, ScanTypes, ScanFlags, BuiltInLeads
<1>2. ScanKind'
  BY SignatureList, ScanKinds, ScansAssumption DEF ScansInv, ScanKind, Waiting, Started,
      Roots, Statuses
<1>3. ScanHasSlot' /\ CancelKept'
  BY ScanKinds DEF ScansInv, ScanTypes, ScanFlags, ScanHasSlot, CancelKept, InRoot, Waiting,
      Started, Statuses
<1>4. RootsKept'
  <2>1. scan'.walked = {}
    BY DEF ScanBegins
  <2>2. scan'.pc = "roots"
    BY DEF ScanBegins
  <2>3. scan'.at = 0
    BY DEF ScanBegins
  <2> QED BY <2>1, <2>2, <2>3 DEF RootsKept, FoundSoFar, RootAt, SeenBefore, SeenThis, SeenUpTo, SeenAll, FilesLeft,
              FileAtHand
<1>5. ScoreIsWhole' /\ CancelHeard' /\ EndIsLast'
  BY ScanKinds DEF ScansInv, ScanTypes, ScanFlags, ScanHasSlot, ScoreIsWhole, CancelHeard,
      EndIsLast
<1> QED BY <1>1, <1>2, <1>3, <1>4, <1>5 DEF ScansInv, ScanTypes

LEMMA DetectRootsSafe ==
    ASSUME ScansInv, DetectRoots
    PROVE  ScansInv'
<1> USE DEF ScanFrame, scanWorld, sigsVars, schedule, scanner, watchVars, ScanPcs, In,
    DetectRoots, Over, At
<1>1. ScanFlags' /\ BuiltInLeads'
  <2>1. /\ slot' \in BOOLEAN /\ ended' \in BOOLEAN /\ late' \in BOOLEAN
        /\ UNCHANGED <<cancelScan, running, stopped, afterEnd, sigs>>
    BY DEF ScansInv, ScanTypes, ScanFlags
  <2>2. /\ watchdog' \in {"off", "on", "stop", "beat"}
        /\ (dashScan.state \in {"none", "open", "ended"})'
    BY DEF ScansInv, ScanTypes, ScanFlags
  <2> QED BY <2>1, <2>2 DEF ScansInv, ScanTypes, ScanFlags, BuiltInLeads
<1>2. ScanKind'
  <2>1. scan \in Started
    BY ScanKinds DEF ScansInv
  <2>2. scan' = NoScan \/ scan' \in Started
    BY <2>1, ScansAssumption DEF Started, Statuses, Roots
  <2> QED BY <2>2 DEF ScanKind
<1>3. ScanHasSlot' /\ CancelKept'
  BY ScanKinds DEF ScansInv, ScanTypes, ScanFlags, ScanHasSlot, CancelKept, InRoot, Waiting,
      Started, Statuses
<1>4. RootsKept'
  BY ScanKinds, SignatureList, ScansAssumption DEF ScansInv, ScanHasSlot, RootsKept,
      FoundSoFar, RootAt, SeenBefore, SeenThis, SeenUpTo, SeenAll, FilesLeft, FileAtHand, RootsOf,
      Seen, Roots, Started, Waiting
<1>5. ScoreIsWhole' /\ CancelHeard' /\ EndIsLast'
  BY ScanKinds DEF ScansInv, ScanTypes, ScanFlags, ScanHasSlot, ScoreIsWhole, CancelHeard,
      EndIsLast
<1> QED BY <1>1, <1>2, <1>3, <1>4, <1>5 DEF ScansInv, ScanTypes

LEMMA RootDoneSafe ==
    ASSUME ScansInv, RootDone
    PROVE  ScansInv'
<1> USE DEF ScanFrame, scanWorld, sigsVars, schedule, scanner, watchVars, ScanPcs, In, RootDone
<1>1. ScanFlags' /\ BuiltInLeads'
  BY DEF ScansInv, ScanTypes, ScanFlags, BuiltInLeads
<1>2. ScanKind'
  <2>1. scan \in Started
    BY ScanKinds DEF ScansInv
  <2>2. scan' \in Started
    BY <2>1 DEF Started, Statuses
  <2> QED BY <2>2 DEF ScanKind
<1>3. ScanHasSlot' /\ CancelKept'
  BY ScanKinds DEF ScansInv, ScanTypes, ScanFlags, ScanHasSlot, CancelKept, InRoot, Waiting,
      Started, Statuses
<1>4. RootsKept'
  <2>0. scan \in Started
    BY ScanKinds DEF ScansInv
  <2>1. /\ scan'.at = scan.at /\ scan'.walked = scan.walked /\ scan'.skipped = scan.skipped
        /\ scan'.found = scan.found /\ scan'.pc = "chunk"
        /\ scan'.cut = (scan.cut \/ cancelScan \/ late)
    BY <2>0 DEF Started
  <2>2. ~scan'.cut => ~scan.cut /\ ~cancelScan /\ ~late
    BY <2>1, Zenon
  <2>3. SeenUpTo'
    <3>1. scan.at \in Int /\ Seen' = Seen
      BY <2>0, <2>1, ScansAssumption DEF Started, Seen
    <3>2. ~scan'.cut => 1..(scan.at - 1) \subseteq Seen /\ scan.at \in Seen
      BY <3>1, <2>2 DEF ScansInv, ScanHasSlot, RootsKept, SeenBefore, SeenThis
    <3> QED BY <3>1, <3>2, <2>1 DEF SeenUpTo
  <2> QED
    BY <2>1, <2>3 DEF ScansInv, RootsKept, FoundSoFar, RootAt, SeenBefore, SeenThis, SeenAll, FilesLeft,
        FileAtHand
<1>5. ScoreIsWhole' /\ CancelHeard' /\ EndIsLast'
  BY ScanKinds DEF ScansInv, ScanTypes, ScanFlags, ScanHasSlot, ScoreIsWhole, CancelHeard,
      EndIsLast
<1> QED BY <1>1, <1>2, <1>3, <1>4, <1>5 DEF ScansInv, ScanTypes

LEMMA SendChunkSafe ==
    ASSUME ScansInv, SendChunk
    PROVE  ScansInv'
<1> USE DEF ScanFrame, scanWorld, sigsVars, schedule, scanner, watchVars, ScanPcs, In,
    SendChunk, At, Tell
<1>1. ScanFlags' /\ BuiltInLeads'
  BY DEF ScansInv, ScanTypes, ScanFlags, BuiltInLeads
<1>2. ScanKind'
  <2>1. scan \in Started
    BY ScanKinds DEF ScansInv
  <2>2. scan' \in Started
    BY <2>1 DEF Started, Statuses
  <2> QED BY <2>2 DEF ScanKind
<1>3. ScanHasSlot' /\ CancelKept'
  BY ScanKinds DEF ScansInv, ScanTypes, ScanFlags, ScanHasSlot, CancelKept, InRoot, Waiting,
      Started, Statuses
<1>4. RootsKept'
  BY ScanKinds, SignatureList, ScansAssumption DEF ScansInv, ScanHasSlot, RootsKept,
      FoundSoFar, RootAt, SeenBefore, SeenThis, SeenUpTo, SeenAll, FilesLeft, FileAtHand, RootsOf,
      Seen, Roots, Started, Waiting
<1>5. ScoreIsWhole' /\ CancelHeard' /\ EndIsLast'
  BY ScanKinds DEF ScansInv, ScanTypes, ScanFlags, ScanHasSlot, ScoreIsWhole, CancelHeard,
      EndIsLast
<1> QED BY <1>1, <1>2, <1>3, <1>4, <1>5 DEF ScansInv, ScanTypes

LEMMA AfterRootsSafe ==
    ASSUME ScansInv, AfterRoots
    PROVE  ScansInv'
<1> USE DEF ScanFrame, scanWorld, sigsVars, schedule, scanner, watchVars, ScanPcs, In, AfterRoots
<1>1. ScanFlags' /\ BuiltInLeads'
  BY DEF ScansInv, ScanTypes, ScanFlags, BuiltInLeads
<1>2. ScanKind'
  <2>1. scan \in Started
    BY ScanKinds DEF ScansInv
  <2>2. scan' \in Started
    BY <2>1 DEF Started, Statuses
  <2> QED BY <2>2 DEF ScanKind
<1>3. ScanHasSlot' /\ CancelKept'
  BY ScanKinds DEF ScansInv, ScanTypes, ScanFlags, ScanHasSlot, CancelKept, InRoot, Waiting,
      Started, Statuses
<1>4. RootsKept'
  BY ScanKinds, SignatureList, ScansAssumption DEF ScansInv, ScanHasSlot, RootsKept,
      FoundSoFar, RootAt, SeenBefore, SeenThis, SeenUpTo, SeenAll, FilesLeft, FileAtHand, RootsOf,
      Seen, Roots, Started, Waiting
<1>5. ScoreIsWhole' /\ CancelHeard' /\ EndIsLast'
  BY ScanKinds DEF ScansInv, ScanTypes, ScanFlags, ScanHasSlot, ScoreIsWhole, CancelHeard,
      EndIsLast
<1> QED BY <1>1, <1>2, <1>3, <1>4, <1>5 DEF ScansInv, ScanTypes

LEMMA EndWatchSafe ==
    ASSUME ScansInv, EndWatch
    PROVE  ScansInv'
<1> USE DEF ScanFrame, scanWorld, sigsVars, schedule, scanner, watchVars, ScanPcs, In,
    EndWatch, At
<1>1. ScanFlags' /\ BuiltInLeads'
  BY DEF ScansInv, ScanTypes, ScanFlags, BuiltInLeads
<1>2. ScanKind'
  BY SignatureList, ScanKinds, ScansAssumption DEF ScansInv, ScanKind, Waiting, Started,
      Roots, Statuses
<1>3. ScanHasSlot' /\ CancelKept'
  BY ScanKinds DEF ScansInv, ScanTypes, ScanFlags, ScanHasSlot, CancelKept, InRoot, Waiting,
      Started, Statuses
<1>4. RootsKept'
  BY ScanKinds, SignatureList, ScansAssumption DEF ScansInv, ScanHasSlot, RootsKept,
      FoundSoFar, RootAt, SeenBefore, SeenThis, SeenUpTo, SeenAll, FilesLeft, FileAtHand, RootsOf,
      Seen, Roots, Started, Waiting
<1>5. ScoreIsWhole' /\ CancelHeard' /\ EndIsLast'
  BY ScanKinds DEF ScansInv, ScanTypes, ScanFlags, ScanHasSlot, ScoreIsWhole, CancelHeard,
      EndIsLast
<1> QED BY <1>1, <1>2, <1>3, <1>4, <1>5 DEF ScansInv, ScanTypes

LEMMA CompleteScanSafe ==
    ASSUME ScansInv, CompleteScan
    PROVE  ScansInv'
<1> USE DEF ScanFrame, scanWorld, sigsVars, schedule, scanner, watchVars, ScanPcs, In,
    CompleteScan, Over, Tell
<1>1. ScanFlags' /\ BuiltInLeads'
  BY DEF ScansInv, ScanTypes, ScanFlags, BuiltInLeads
<1>2. ScanKind'
  BY SignatureList, ScanKinds, ScansAssumption DEF ScansInv, ScanKind, Waiting, Started,
      Roots, Statuses
<1>3. ScanHasSlot' /\ CancelKept'
  BY ScanKinds DEF ScansInv, ScanTypes, ScanFlags, ScanHasSlot, CancelKept, InRoot, Waiting,
      Started, Statuses
<1>4. RootsKept'
  BY ScanKinds, SignatureList, ScansAssumption DEF ScansInv, ScanHasSlot, RootsKept,
      FoundSoFar, RootAt, SeenBefore, SeenThis, SeenUpTo, SeenAll, FilesLeft, FileAtHand, RootsOf,
      Seen, Roots, Started, Waiting
<1>5. ScoreIsWhole' /\ CancelHeard' /\ EndIsLast'
  <2>1. Seen = scan.walked \cup scan.skipped /\ scan \in Started
    BY ScanKinds DEF ScansInv, Seen
  <2>2. scan.status = "completed" /\ scan.kind = "server" =>
          1..LastRoot = scan.walked \cup scan.skipped
    BY <2>1 DEF ScansInv, RootsKept, SeenAll, Roots, Started
  <2>3. 0 \in Files => \A r \in scan.walked : <<r, 0>> \in scan.found
    BY DEF ScansInv, RootsKept, FoundSoFar
  <2>4. CancelHeard' /\ EndIsLast'
    BY DEF ScansInv, ScanHasSlot, CancelKept, InRoot, CancelHeard, EndIsLast
  <2> QED BY <2>2, <2>3, <2>4 DEF ScoreIsWhole
<1> QED BY <1>1, <1>2, <1>3, <1>4, <1>5 DEF ScansInv, ScanTypes

LEMMA WatchSafe ==
    ASSUME ScansInv, WatchStep \/ Beat \/ TimeLimit
    PROVE  ScansInv'
<1> USE DEF ScanFrame, scanWorld, sigsVars, schedule, scanner, watchVars, ScanPcs, In,
    WatchFrame, WatchStep, SeesStop, Stop, Beat, BeatSent, WatchEnds, TimeLimit, Tell
<1>1. ScanFlags' /\ BuiltInLeads'
  BY DEF ScansInv, ScanTypes, ScanFlags, BuiltInLeads
<1>2. ScanKind'
  BY SignatureList, ScanKinds, ScansAssumption DEF ScansInv, ScanKind, Waiting, Started,
      Roots, Statuses
<1>3. ScanHasSlot' /\ CancelKept'
  BY ScanKinds DEF ScansInv, ScanTypes, ScanFlags, ScanHasSlot, CancelKept, InRoot, Waiting,
      Started, Statuses
<1>4. RootsKept'
  BY ScanKinds, SignatureList, ScansAssumption DEF ScansInv, ScanHasSlot, RootsKept,
      FoundSoFar, RootAt, SeenBefore, SeenThis, SeenUpTo, SeenAll, FilesLeft, FileAtHand, RootsOf,
      Seen, Roots, Started, Waiting
<1>5. ScoreIsWhole' /\ CancelHeard' /\ EndIsLast'
  BY ScanKinds DEF ScansInv, ScanTypes, ScanFlags, ScanHasSlot, ScoreIsWhole, CancelHeard,
      EndIsLast
<1> QED BY <1>1, <1>2, <1>3, <1>4, <1>5 DEF ScansInv, ScanTypes

LEMMA ScanStepSafe == ASSUME ScansInv, ScanStep PROVE ScansInv'
<1> USE DEF ScanFrame, sigsVars, scanner, At
<1>1. CASE NextRoot
  <2>1. CASE scan.at + 1 \notin RootsOf(scan) /\ At("rest") /\ UNCHANGED running
    BY <1>1, <2>1, RootsAllRead DEF NextRoot
  <2>2. ASSUME NEW s \in {"timed_out", "cancelled"}, StopAs(s), UNCHANGED running,
               s = "cancelled" => cancelScan, s = "timed_out" => ~cancelScan
        PROVE  ScansInv'
    <3>1. scan' = [scan EXCEPT !.pc = IF s = "cancelled" THEN "unwatch" ELSE "rest", !.status = s]
      BY <2>2, <1>1 DEF StopAs, NextRoot
    <3> HIDE DEF At
    <3> QED BY <1>1, <2>2, <3>1, StoppedAtNext DEF NextRoot
  <2>3. CASE /\ scan.at + 1 \in RootsOf(scan) /\ running' = TRUE
             /\ scan' = [scan EXCEPT !.at = @ + 1, !.pc = "open"]
    <3>1. scan' = [scan EXCEPT !.pc = "open", !.at = @ + 1]
      BY <2>3
    <3> QED BY <1>1, <2>3, <3>1, RootBegins DEF NextRoot
  <2> QED BY <1>1, <2>1, <2>2, <2>3 DEF NextRoot
<1>2. CASE OpenRoot
  BY <1>2, RootOpened, RootRefused DEF OpenRoot
<1>3. CASE WalkFile
  <2>1. ASSUME NEW f \in scan.left,
               scan' = [scan EXCEPT !.pc = "check", !.file = f, !.upTo = Len(sigs), !.next = 1,
                                    !.left = IF scan.at \in BigRoots THEN @ ELSE @ \ {f}]
        PROVE  ScansInv'
    <3>1. PICK left \in {scan.left, scan.left \ {f}} :
            scan' = [scan EXCEPT !.pc = "check", !.left = left, !.file = f, !.upTo = Len(sigs),
                                 !.next = 1]
      BY <2>1
    <3> QED BY <1>3, <3>1, FileTaken DEF WalkFile
  <2> QED BY <1>3, <2>1, WalkStopped, WalkDone DEF WalkFile
<1>4. CASE CheckFile
  BY <1>4, FileChecked, SignatureTried DEF CheckFile
<1> QED
  BY <1>1, <1>2, <1>3, <1>4, ScanBeginsSafe, DetectRootsSafe, ScanStartsAgain, RootDoneSafe,
     SendChunkSafe, AfterRootsSafe, EndWatchSafe, CompleteScanSafe DEF ScanStep

LEMMA ScansInitially == ScansInit => ScansInv
<1> SUFFICES ASSUME ScansInit PROVE ScansInv
  OBVIOUS
<1>1. ~(scan.pc \in ScanPcs) /\ scan = NoScan
  BY DEF ScansInit, NoScan, ScanPcs
<1>2. ScanTypes
  BY BuiltInFirst DEF ScansInit, ScanTypes, ScanFlags, ScanKind, BuiltInLeads
<1>3. ScanHasSlot /\ CancelKept /\ RootsKept
  BY <1>1 DEF ScansInit, ScanHasSlot, CancelKept, RootsKept, In, ScanPcs
<1>4. ScoreIsWhole /\ CancelHeard /\ EndIsLast
  BY DEF ScansInit, ScoreIsWhole, CancelHeard, EndIsLast
<1> QED BY <1>2, <1>3, <1>4 DEF ScansInv

LEMMA ScansSteps == ScansInv /\ [ScansNext]_scanVars => ScansInv'
  BY ScanWorldSteps, ScanStartsAgain, ScanClaimed, AskCancelSafe, NotStartedSafe, ScanStepSafe,
     WatchSafe DEF ScansNext

LEMMA ScansSafe ==
    ASSUME ScansInv
    PROVE  ScoreIsWhole /\ CancelHeard /\ EndIsLast /\ WatchedScan
  BY DEF ScansInv, ScanTypes, ScanFlags, ScanHasSlot, WatchedScan, In, NoScan, ScanPcs

----------------------------------------------------------------------------
(* MalwareScans: the watcher of the upload directories.                     *)

LoopKinds ==
    [pc : {"walk", "note", "scan", "select", "told"}, initial : BOOLEAN, todo : SUBSET UploadDirs,
     at : UploadDirs \cup {"none"}, m : Nat]

\* What UploadsTypeOK says but for the bounds of the counts; a file that is not there has no
\* version and no mtime.
UploadTypes ==
    /\ second \in Nat /\ there \in SUBSET UploadDirs /\ dirs \in SUBSET UploadDirs
    /\ upload \in [UploadDirs -> [v : Nat, m : Nat]]
    /\ alerts \in [UploadDirs -> Nat] /\ mtimes \in [UploadDirs -> Nat]
    /\ poller \in [Loops -> {NoLoop} \cup LoopKinds]
    /\ polling \in BOOLEAN /\ twice \in BOOLEAN
    /\ \A d \in UploadDirs : d \notin there \/ upload[d].v = 0 => upload[d].m = 0

\* A loop at a file knows which; the first walk is over when it waits.
LoopKnows ==
    \A l \in Active : /\ poller[l].pc \in {"note", "scan"} => poller[l].at \in UploadDirs
                      /\ poller[l].pc \in {"select", "told"} => ~poller[l].initial

\* There is one loop at most unless one outlived a Stop.
OneLoop == ~twice => \A k, l \in Active : k = l

\* What a loop has found and not yet reported, and what it has still to find: a file
\* that is newer than what it knows and is not just recorded by the first walk.
FoundBy(l, d) ==
    /\ poller[l].at = d
    /\ \/ poller[l].pc = "scan"
       \/ poller[l].pc = "note" /\ ~poller[l].initial /\ poller[l].m > mtimes[d]
KnownTo(l, d) == IF poller[l].pc = "note" /\ poller[l].at = d THEN poller[l].m ELSE mtimes[d]
NewTo(l, d) == upload[d].m > KnownTo(l, d) /\ ~(poller[l].initial /\ d \in poller[l].todo)
OneIf(b) == IF b THEN 1 ELSE 0
Reported ==
    ~twice => \A d \in UploadDirs :
                /\ alerts[d] <= upload[d].v
                /\ \A l \in Active : alerts[d] + OneIf(FoundBy(l, d)) + OneIf(NewTo(l, d)) <= upload[d].v

UploadsInv == UploadTypes /\ LoopKnows /\ LoopsListen /\ OneLoop /\ Reported

LEMMA OneIfCounts == ASSUME NEW b \in BOOLEAN PROVE OneIf(b) \in 0..1
  BY DEF OneIf

LEMMA NoLoopIsNone == NoLoop \notin LoopKinds /\ NoLoop.pc = "off"
  BY DEF NoLoop, LoopKinds

\* Who reports a file next, in numbers.
LEMMA ReportedIs ==
    ASSUME UploadTypes, NEW l \in Active, NEW d \in UploadDirs
    PROVE  /\ poller[l] \in LoopKinds /\ alerts[d] \in Nat /\ upload[d] \in [v : Nat, m : Nat]
           /\ mtimes[d] \in Nat /\ poller[l].m \in Nat
           /\ FoundBy(l, d) \in BOOLEAN /\ NewTo(l, d) \in BOOLEAN /\ l \in Loops
  BY DEF UploadTypes, Active, LoopKinds, FoundBy, NewTo

LEMMA UploadsInitially == UploadsInit => UploadsInv
<1> SUFFICES ASSUME UploadsInit PROVE UploadsInv
  OBVIOUS
<1>1. UploadTypes
  BY DEF UploadsInit, UploadTypes
<1>2. Active = {} /\ \A d \in UploadDirs : alerts[d] = 0 /\ upload[d].v = 0
  BY DEF UploadsInit, Active
<1> QED BY <1>1, <1>2 DEF UploadsInv, LoopKnows, LoopsListen, OneLoop, Reported

----------------------------------------------------------------------------

\* What leaves the files and the loops alone, but for the loops that are told to end.
LEMMA StoppedAtMost ==
    ASSUME UploadsInv, second' \in Nat, UNCHANGED <<there, upload, dirs, mtimes, alerts, twice>>,
           UNCHANGED <<polling, poller>> \/ StopPolling
    PROVE  UploadsInv'
<1>1. UploadTypes' /\ LoopsListen' /\ Active' = Active
      /\ \A l \in Active : \/ poller'[l] = poller[l]
                           \/ poller[l].pc = "select" /\ poller'[l] = [poller[l] EXCEPT !.pc = "told"]
  <2>1. CASE UNCHANGED <<polling, poller>>
    BY <2>1 DEF UploadsInv, UploadTypes, LoopsListen, Active
  <2>2. CASE StopPolling /\ ~polling
    BY <2>2 DEF UploadsInv, UploadTypes, LoopsListen, Active, StopPolling
  <2>3. CASE StopPolling /\ polling
    <3>1. /\ polling' = FALSE
          /\ poller' = [l \in Loops |-> IF poller[l].pc # "select" THEN poller[l]
                                        ELSE [poller[l] EXCEPT !.pc = "told"]]
      BY <2>3 DEF StopPolling
    <3>2. \A l \in Loops : /\ poller[l] \in LoopKinds => poller'[l] \in LoopKinds
                           /\ poller[l] = NoLoop => poller'[l] = NoLoop
                           /\ poller'[l].pc # "select"
      BY <3>1, NoLoopIsNone DEF LoopKinds, UploadsInv, UploadTypes
    <3>3. poller' \in [Loops -> {NoLoop} \cup LoopKinds]
      BY <3>1, <3>2 DEF UploadsInv, UploadTypes
    <3>4. UploadTypes'
      BY <3>1, <3>3 DEF UploadsInv, UploadTypes
    <3>5. Active' = Active /\ LoopsListen'
      BY <3>1, <3>2, NoLoopIsNone DEF UploadsInv, UploadTypes, Active, LoopsListen
    <3> QED BY <3>1, <3>4, <3>5 DEF Active
  <2> QED BY <2>1, <2>2, <2>3
<1>2. \A l \in Active : /\ poller'[l].initial = poller[l].initial /\ poller'[l].todo = poller[l].todo
                        /\ poller'[l].at = poller[l].at /\ poller'[l].m = poller[l].m
                        /\ \/ poller'[l].pc = poller[l].pc
                           \/ poller[l].pc = "select" /\ poller'[l].pc = "told"
  BY <1>1, ReportedIs DEF UploadsInv, LoopKinds, UploadTypes, Active
<1>3. LoopKnows' /\ OneLoop'
  BY <1>1, <1>2 DEF UploadsInv, LoopKnows, OneLoop
<1>4. \A l \in Active, d \in UploadDirs : FoundBy(l, d)' = FoundBy(l, d) /\ NewTo(l, d)' = NewTo(l, d)
  BY <1>2 DEF FoundBy, NewTo, KnownTo
<1>5. Reported'
  BY <1>1, <1>4 DEF UploadsInv, Reported
<1> QED BY <1>1, <1>3, <1>5 DEF UploadsInv

LEMMA RestartSafe == ASSUME UploadsInv, WatcherRestart PROVE UploadsInv'
<1>0. /\ poller' = [l \in Loops |-> NoLoop] /\ mtimes' = [d \in UploadDirs |-> 0] /\ dirs' = {}
      /\ polling' = FALSE /\ UNCHANGED <<second, there, upload, twice, alerts>>
  BY DEF WatcherRestart, alertVars
<1>1. UploadTypes'
  BY <1>0 DEF UploadsInv, UploadTypes
<1>2. Active' = {}
  BY <1>0 DEF Active
<1> QED BY <1>0, <1>1, <1>2 DEF UploadsInv, LoopKnows, LoopsListen, OneLoop, Reported

LEMMA PutFileSafe ==
    ASSUME UploadsInv, NEW e \in UploadDirs, NEW m \in {1, second}, PutFile(e, m)
    PROVE  UploadsInv'
<1>1. /\ upload' = [upload EXCEPT ![e] = [v |-> @.v + 1, m |-> m]] /\ m \in Nat
      /\ there' = there \cup {e}
      /\ UNCHANGED <<second, dirs, mtimes, alerts, twice, poller, polling>>
  BY DEF PutFile, watcher, alertVars, UploadsInv, UploadTypes
<1>2. /\ upload'[e].v = upload[e].v + 1 /\ upload'[e].m = m /\ upload[e].v \in Nat
      /\ \A d \in UploadDirs \ {e} : upload'[d] = upload[d]
  BY <1>1 DEF UploadsInv, UploadTypes
<1>3. UploadTypes'
  BY <1>1, <1>2 DEF UploadsInv, UploadTypes
<1>4. LoopKnows' /\ LoopsListen' /\ OneLoop' /\ Active' = Active
  BY <1>1 DEF UploadsInv, LoopKnows, LoopsListen, OneLoop, Active
<1>5. Reported'
  <2> SUFFICES ASSUME ~twice, NEW d \in UploadDirs
               PROVE  /\ alerts[d] <= upload'[d].v
                      /\ \A l \in Active :
                           alerts[d] + OneIf(FoundBy(l, d))' + OneIf(NewTo(l, d))' <= upload'[d].v
    BY <1>1, <1>4 DEF Reported
  <2>1. CASE d # e
    BY <1>1, <1>2, <2>1 DEF UploadsInv, Reported, FoundBy, NewTo, KnownTo
  <2>2. CASE d = e
    <3>1. \A l \in Active : FoundBy(l, d)' = FoundBy(l, d)
      BY <1>1 DEF FoundBy
    <3>2. alerts[d] <= upload[d].v /\ alerts[d] \in Nat
      BY DEF UploadsInv, Reported, UploadTypes
    <3>3. ASSUME NEW l \in Active
          PROVE  alerts[d] + OneIf(FoundBy(l, d))' + OneIf(NewTo(l, d))' <= upload'[d].v
      <4>1. OneIf(FoundBy(l, d))' = OneIf(FoundBy(l, d))
        BY <3>1 DEF OneIf
      <4>2. /\ alerts[d] + OneIf(FoundBy(l, d)) + OneIf(NewTo(l, d)) <= upload[d].v
            /\ OneIf(FoundBy(l, d)) \in 0..1 /\ OneIf(NewTo(l, d)) \in 0..1
        BY ReportedIs, OneIfCounts DEF UploadsInv, Reported
      <4>3. OneIf(NewTo(l, d))' \in 0..1
        BY DEF OneIf
      <4> QED BY <1>2, <2>2, <3>2, <4>1, <4>2, <4>3
    <3> QED BY <1>2, <2>2, <3>2, <3>3
  <2> QED BY <2>1, <2>2
<1> QED BY <1>3, <1>4, <1>5 DEF UploadsInv

LEMMA RootsDetectedSafe == ASSUME UploadsInv, RootsDetected PROVE UploadsInv'
<1> USE DEF RootsDetected, uploadWorld, alertVars
<1>1. CASE there = {} \/ polling
  <2>1. UNCHANGED <<polling, poller, twice, upload, there, second, mtimes, alerts>>
        /\ (dirs' = dirs \/ dirs' = there)
    BY <1>1 DEF StartPolling
  <2>2. UploadTypes'
    BY <2>1 DEF UploadsInv, UploadTypes
  <2>3. LoopKnows' /\ LoopsListen' /\ OneLoop' /\ Active' = Active
    BY <2>1 DEF UploadsInv, LoopKnows, LoopsListen, OneLoop, Active
  <2>4. \A l, d : (FoundBy(l, d)' <=> FoundBy(l, d)) /\ (NewTo(l, d)' <=> NewTo(l, d))
    BY <2>1 DEF FoundBy, NewTo, KnownTo
  <2>5. Reported'
    BY <2>1, <2>3, <2>4 DEF UploadsInv, Reported, OneIf
  <2> QED BY <2>2, <2>3, <2>5 DEF UploadsInv
<1>2. CASE there # {} /\ ~polling
  <2> DEFINE first == [pc |-> "walk", initial |-> TRUE, todo |-> there, at |-> "none", m |-> 0]
  <2>1. PICK k \in Loops \ Active :
          /\ poller' = [poller EXCEPT ![k] = first] /\ dirs' = there /\ polling' = TRUE
          /\ twice' = (twice \/ Active # {})
          /\ UNCHANGED <<upload, there, second, mtimes, alerts>>
    BY <1>2 DEF StartPolling
  <2>2. first \in LoopKinds
    BY DEF UploadsInv, UploadTypes, LoopKinds
  <2>3. poller'[k] = first /\ \A l \in Loops \ {k} : poller'[l] = poller[l]
    BY <2>1 DEF UploadsInv, UploadTypes
  <2>4. UploadTypes'
    <3>1. poller' \in [Loops -> {NoLoop} \cup LoopKinds]
      BY <2>1, <2>2 DEF UploadsInv, UploadTypes
    <3>2. twice' \in BOOLEAN
      BY <2>1
    <3> QED BY <2>1, <3>1, <3>2 DEF UploadsInv, UploadTypes
  <2>5. Active' = Active \cup {k}
    BY <2>2, <2>3, NoLoopIsNone DEF Active
  <2>6. LoopKnows' /\ LoopsListen'
    BY <2>1, <2>3, <2>5 DEF UploadsInv, LoopKnows, LoopsListen, Active
  <2>7. ~twice' => ~twice /\ Active = {}
    BY <2>1
  <2>8. OneLoop'
    BY <2>5, <2>7 DEF OneLoop
  <2>9. Reported'
    <3> SUFFICES ASSUME ~twice', NEW d \in UploadDirs
                 PROVE  /\ alerts[d] <= upload[d].v
                        /\ alerts[d] + OneIf(FoundBy(k, d))' + OneIf(NewTo(k, d))' <= upload[d].v
      BY <2>1, <2>5, <2>7 DEF Reported
    <3>1. alerts[d] <= upload[d].v /\ alerts[d] \in Nat /\ upload[d].v \in Nat
      BY <2>7 DEF UploadsInv, Reported, UploadTypes
    <3>2. ~FoundBy(k, d)'
      BY <2>3 DEF FoundBy
    <3>3. ~NewTo(k, d)'
      <4>1. CASE d \in there
        BY <2>1, <2>3, <4>1 DEF NewTo
      <4>2. CASE d \notin there
        <5>1. upload'[d].m = 0 /\ mtimes'[d] \in Nat /\ KnownTo(k, d)' = mtimes'[d]
          BY <2>1, <2>3, <4>2 DEF UploadsInv, UploadTypes, KnownTo
        <5> QED BY <5>1 DEF NewTo
      <4> QED BY <4>1, <4>2
    <3>4. OneIf(FoundBy(k, d))' = 0 /\ OneIf(NewTo(k, d))' = 0
      BY <3>2, <3>3 DEF OneIf
    <3> QED BY <3>1, <3>4
  <2> QED BY <2>4, <2>6, <2>8, <2>9 DEF UploadsInv
<1> QED BY <1>1, <1>2

----------------------------------------------------------------------------

\* What a step of a loop has to show: the loop stays of its kind, and for each file what
\* is reported, found and new to it does not become more than the versions.
LEMMA LoopStepSafe ==
    ASSUME UploadsInv, NEW k \in Active, NEW p,
           poller' = [poller EXCEPT ![k] = p], p \in {NoLoop} \cup LoopKinds,
           UNCHANGED <<second, there, upload, dirs, polling, twice>>,
           mtimes' \in [UploadDirs -> Nat], alerts' \in [UploadDirs -> Nat],
           p.pc \in {"note", "scan"} => p.at \in UploadDirs,
           p.pc \in {"select", "told"} => ~p.initial,
           p.pc = "select" => polling,
           \A d \in UploadDirs : alerts'[d] + OneIf(FoundBy(k, d))' + OneIf(NewTo(k, d))' <=
                                 alerts[d] + OneIf(FoundBy(k, d)) + OneIf(NewTo(k, d))
    PROVE  UploadsInv'
<1>1. k \in Loops /\ poller'[k] = p /\ \A l \in Loops \ {k} : poller'[l] = poller[l]
  BY DEF UploadsInv, UploadTypes, Active
<1>2. UploadTypes'
  BY <1>1 DEF UploadsInv, UploadTypes
<1>3. Active' \subseteq Active
  BY <1>1 DEF Active
<1>4. LoopKnows' /\ LoopsListen' /\ OneLoop'
  BY <1>1, <1>3 DEF UploadsInv, LoopKnows, LoopsListen, OneLoop, Active
<1>5. Reported'
  <2> SUFFICES ASSUME ~twice, NEW d \in UploadDirs
               PROVE  /\ alerts'[d] <= upload[d].v
                      /\ \A l \in Active' :
                          alerts'[d] + OneIf(FoundBy(l, d))' + OneIf(NewTo(l, d))' <= upload[d].v
    BY DEF Reported
  <2>1. \A l \in Active' : l = k
    BY <1>3 DEF UploadsInv, OneLoop
  <2>2. /\ alerts[d] + OneIf(FoundBy(k, d)) + OneIf(NewTo(k, d)) <= upload[d].v
        /\ OneIf(FoundBy(k, d)) \in 0..1 /\ OneIf(NewTo(k, d)) \in 0..1
        /\ alerts[d] \in Nat /\ upload[d].v \in Nat /\ alerts'[d] \in Nat
    BY ReportedIs, OneIfCounts DEF UploadsInv, Reported
  <2>3. OneIf(FoundBy(k, d))' \in 0..1 /\ OneIf(NewTo(k, d))' \in 0..1
    BY DEF OneIf
  <2>4. alerts'[d] + OneIf(FoundBy(k, d))' + OneIf(NewTo(k, d))' <= upload[d].v
    BY <2>2, <2>3
  <2>5. alerts'[d] <= upload[d].v
    BY <2>2, <2>3, <2>4
  <2> QED BY <2>1, <2>4, <2>5
<1> QED BY <1>2, <1>4, <1>5 DEF UploadsInv


LEMMA StatFileSafe ==
    ASSUME UploadsInv, NEW l \in Loops, NEW e \in UploadDirs, StatFile(l, e)
    PROVE  UploadsInv'
<1> USE DEF LoopFrame, uploadWorld, alertVars
<1> DEFINE p == [poller[l] EXCEPT !.pc = IF upload[e].v = 0 THEN "walk" ELSE "note",
                                  !.todo = @ \ {e}, !.at = e, !.m = upload[e].m]
<1>1. l \in Active /\ poller[l] \in LoopKinds /\ poller[l].pc = "walk" /\ e \in poller[l].todo
  BY NoLoopIsNone DEF StatFile, Active, UploadsInv, UploadTypes
<1>2. /\ upload[e].v \in Nat /\ upload[e].m \in Nat /\ (upload[e].v = 0 => upload[e].m = 0)
      /\ mtimes[e] \in Nat
  BY DEF UploadsInv, UploadTypes
<1>3. /\ p \in LoopKinds /\ p.at = e /\ p.m = upload[e].m /\ p.initial = poller[l].initial
      /\ p.todo = poller[l].todo \ {e} /\ p.pc = IF upload[e].v = 0 THEN "walk" ELSE "note"
  BY <1>1, <1>2 DEF LoopKinds
<1> HIDE DEF p
<1>4. poller' = [poller EXCEPT ![l] = p]
  BY DEF StatFile, UploadsInv, UploadTypes, p
<1>5. poller'[l] = p /\ UNCHANGED <<upload, mtimes, alerts>>
  BY <1>4 DEF StatFile, UploadsInv, UploadTypes
<1>6. ASSUME NEW d \in UploadDirs
      PROVE  alerts'[d] + OneIf(FoundBy(l, d))' + OneIf(NewTo(l, d))' <=
             alerts[d] + OneIf(FoundBy(l, d)) + OneIf(NewTo(l, d))
  <2>0. ~FoundBy(l, d) /\ alerts[d] \in Nat
    BY <1>1 DEF FoundBy, UploadsInv, UploadTypes
  <2>1. CASE d # e
    <3>1. ~FoundBy(l, d)' /\ NewTo(l, d)' = NewTo(l, d)
      BY <1>1, <1>3, <1>5, <2>1 DEF FoundBy, NewTo, KnownTo
    <3> QED BY <2>0, <3>1, <1>5 DEF OneIf
  <2>2. CASE d = e
    <3>1. ~NewTo(l, d)'
      <4>1. KnownTo(l, d)' = IF upload[e].v = 0 THEN mtimes[e] ELSE upload[e].m
        BY <1>3, <1>5, <2>2 DEF KnownTo
      <4> QED BY <1>2, <1>5, <2>2, <4>1 DEF NewTo
    <3>2. FoundBy(l, d)' => NewTo(l, d)
      BY <1>1, <1>2, <1>3, <1>5, <2>2 DEF FoundBy, NewTo, KnownTo
    <3> QED BY <2>0, <3>1, <3>2, <1>5 DEF OneIf
  <2> QED BY <2>1, <2>2
<1>7. mtimes' \in [UploadDirs -> Nat] /\ alerts' \in [UploadDirs -> Nat]
  BY <1>5 DEF UploadsInv, UploadTypes
<1>8. UNCHANGED <<second, there, upload, dirs, polling, twice>>
  BY DEF StatFile
<1> QED BY <1>1, <1>3, <1>4, <1>6, <1>7, <1>8, LoopStepSafe

LEMMA NoteFileSafe == ASSUME UploadsInv, NEW l \in Loops, NoteFile(l) PROVE UploadsInv'
<1> USE DEF LoopFrame, uploadWorld, alertVars
<1> DEFINE e == poller[l].at
           p == [poller[l] EXCEPT !.pc = IF ~poller[l].initial /\ poller[l].m > mtimes[e]
                                         THEN "scan" ELSE "walk"]
<1>1. /\ l \in Active /\ poller[l] \in LoopKinds /\ poller[l].pc = "note" /\ e \in UploadDirs
      /\ poller[l].m \in Nat /\ mtimes[e] \in Nat
  BY NoLoopIsNone DEF NoteFile, Active, UploadsInv, UploadTypes, LoopKnows, LoopKinds
<1>2. /\ p \in LoopKinds /\ p.at = e /\ p.m = poller[l].m /\ p.initial = poller[l].initial
      /\ p.todo = poller[l].todo
      /\ p.pc = IF ~poller[l].initial /\ poller[l].m > mtimes[e] THEN "scan" ELSE "walk"
  BY <1>1 DEF LoopKinds
<1>3. mtimes' = [mtimes EXCEPT ![e] = poller[l].m] /\ UNCHANGED <<upload, alerts>>
  BY DEF NoteFile
<1>4. poller' = [poller EXCEPT ![l] = p]
  BY DEF NoteFile, UploadsInv, UploadTypes
<1> HIDE DEF p, e
<1>5. poller'[l] = p
  BY <1>4 DEF UploadsInv, UploadTypes
<1>6. ASSUME NEW d \in UploadDirs
      PROVE  alerts'[d] + OneIf(FoundBy(l, d))' + OneIf(NewTo(l, d))' <=
             alerts[d] + OneIf(FoundBy(l, d)) + OneIf(NewTo(l, d))
  <2>1. mtimes'[d] = (IF d = e THEN poller[l].m ELSE mtimes[d]) /\ alerts[d] \in Nat
    BY <1>3 DEF UploadsInv, UploadTypes
  <2>2. FoundBy(l, d)' <=> FoundBy(l, d)
    BY <1>1, <1>2, <1>5, <2>1 DEF FoundBy, e
  <2>3. KnownTo(l, d)' = KnownTo(l, d)
    BY <1>1, <1>2, <1>5, <2>1 DEF KnownTo, e
  <2>4. NewTo(l, d)' <=> NewTo(l, d)
    BY <1>2, <1>3, <1>5, <2>3 DEF NewTo
  <2> QED BY <1>3, <2>1, <2>2, <2>4 DEF OneIf
<1>7. mtimes' \in [UploadDirs -> Nat] /\ alerts' \in [UploadDirs -> Nat]
  BY <1>1, <1>3 DEF UploadsInv, UploadTypes
<1>8. UNCHANGED <<second, there, upload, dirs, polling, twice>>
  BY DEF NoteFile
<1> QED BY <1>1, <1>2, <1>4, <1>6, <1>7, <1>8, LoopStepSafe

LEMMA ScanFileSafe == ASSUME UploadsInv, NEW l \in Loops, ScanFile(l) PROVE UploadsInv'
<1> USE DEF LoopFrame, uploadWorld, alertVars
<1> DEFINE e == poller[l].at
           p == [poller[l] EXCEPT !.pc = "walk"]
<1>1. l \in Active /\ poller[l] \in LoopKinds /\ poller[l].pc = "scan" /\ e \in UploadDirs
  BY NoLoopIsNone DEF ScanFile, Active, UploadsInv, UploadTypes, LoopKnows
<1>2. /\ p \in LoopKinds /\ p.at = e /\ p.m = poller[l].m /\ p.initial = poller[l].initial
      /\ p.todo = poller[l].todo /\ p.pc = "walk"
  BY <1>1 DEF LoopKinds
<1>3. alerts' = [alerts EXCEPT ![e] = @ + 1] /\ UNCHANGED <<upload, mtimes>>
  BY DEF ScanFile
<1>4. poller' = [poller EXCEPT ![l] = p]
  BY DEF ScanFile, UploadsInv, UploadTypes
<1> HIDE DEF p, e
<1>5. poller'[l] = p
  BY <1>4 DEF UploadsInv, UploadTypes
<1>6. ASSUME NEW d \in UploadDirs
      PROVE  alerts'[d] + OneIf(FoundBy(l, d))' + OneIf(NewTo(l, d))' <=
             alerts[d] + OneIf(FoundBy(l, d)) + OneIf(NewTo(l, d))
  <2>1. alerts'[d] = (IF d = e THEN alerts[d] + 1 ELSE alerts[d]) /\ alerts[d] \in Nat
    BY <1>3 DEF UploadsInv, UploadTypes
  <2>2. ~FoundBy(l, d)' /\ (FoundBy(l, d) <=> d = e)
    BY <1>1, <1>2, <1>5 DEF FoundBy, e
  <2>3. NewTo(l, d)' <=> NewTo(l, d)
    BY <1>1, <1>2, <1>3, <1>5 DEF NewTo, KnownTo
  <2> QED BY <2>1, <2>2, <2>3 DEF OneIf
<1>7. mtimes' \in [UploadDirs -> Nat] /\ alerts' \in [UploadDirs -> Nat]
  BY <1>1, <1>3 DEF UploadsInv, UploadTypes
<1>8. UNCHANGED <<second, there, upload, dirs, polling, twice>>
  BY DEF ScanFile
<1> QED BY <1>1, <1>2, <1>4, <1>6, <1>7, <1>8, LoopStepSafe

\* The other steps of a loop are at no file.
LEMMA BetweenWalksSafe ==
    ASSUME UploadsInv, NEW l \in Loops, WalkEnds(l) \/ Poll(l) \/ LoopEnds(l)
    PROVE  UploadsInv'
<1> USE DEF LoopFrame, uploadWorld, alertVars
<1>1. /\ l \in Active /\ poller[l] \in LoopKinds /\ poller[l].pc \in {"walk", "select", "told"}
      /\ poller[l].pc = "walk" => poller[l].todo = {}
      /\ poller[l].pc # "walk" => ~poller[l].initial
      /\ UNCHANGED <<second, there, upload, dirs, polling, twice, mtimes, alerts>>
  BY NoLoopIsNone DEF WalkEnds, Poll, LoopEnds, Active, UploadsInv, UploadTypes, LoopKnows
<1>2. PICK p \in {NoLoop} \cup LoopKinds :
        /\ poller' = [poller EXCEPT ![l] = p] /\ p.pc \notin {"note", "scan"}
        /\ p.pc = "select" => polling
        /\ p.pc \in {"select", "told"} => ~p.initial
  <2>1. CASE WalkEnds(l)
    <3> DEFINE T  == [Loops -> {NoLoop} \cup LoopKinds]
               f1 == [poller EXCEPT ![l].pc = IF polling THEN "select" ELSE "told"]
               f2 == [f1 EXCEPT ![l].initial = FALSE]
               f3 == [f2 EXCEPT ![l].at = "none"]
               f4 == [f3 EXCEPT ![l].m = 0]
    <3>1. poller' = f4
      BY <2>1 DEF WalkEnds
    <3>2. /\ f1 \in T /\ f1[l] \in LoopKinds /\ f1[l].pc = (IF polling THEN "select" ELSE "told")
          /\ \A j \in Loops \ {l} : f1[j] = poller[j]
      BY <1>1 DEF UploadsInv, UploadTypes, LoopKinds
    <3> HIDE DEF f1
    <3>3. /\ f2 \in T /\ f2[l] \in LoopKinds /\ f2[l].pc = f1[l].pc /\ ~f2[l].initial
          /\ \A j \in Loops \ {l} : f2[j] = f1[j]
      BY <3>2 DEF LoopKinds
    <3> HIDE DEF f2
    <3>4. /\ f3 \in T /\ f3[l] \in LoopKinds /\ f3[l].pc = f2[l].pc /\ f3[l].initial = f2[l].initial
          /\ \A j \in Loops \ {l} : f3[j] = f2[j]
      BY <3>3 DEF LoopKinds
    <3> HIDE DEF f3
    <3>5. /\ f4 \in T /\ f4[l] \in LoopKinds /\ f4[l].pc = f3[l].pc /\ f4[l].initial = f3[l].initial
          /\ \A j \in Loops \ {l} : f4[j] = f3[j]
      BY <3>4 DEF LoopKinds
    <3> HIDE DEF f4
    <3>6. f4 = [poller EXCEPT ![l] = f4[l]]
      BY <3>2, <3>3, <3>4, <3>5 DEF UploadsInv, UploadTypes
    <3>7. f4[l].pc = (IF polling THEN "select" ELSE "told") /\ ~f4[l].initial
      BY <3>2, <3>3, <3>4, <3>5
    <3> QED BY <3>1, <3>5, <3>6, <3>7
  <2>2. CASE Poll(l)
    <3> DEFINE p == [poller[l] EXCEPT !.pc = "walk", !.todo = dirs]
    <3>1. p \in LoopKinds /\ ~p.initial /\ p.pc = "walk"
      BY <1>1, <2>2 DEF LoopKinds, UploadsInv, UploadTypes, LoopKnows, Poll
    <3>2. poller' = [poller EXCEPT ![l] = p]
      BY <2>2 DEF Poll, UploadsInv, UploadTypes
    <3> QED BY <3>1, <3>2
  <2>3. CASE LoopEnds(l)
    BY <2>3, NoLoopIsNone DEF LoopEnds
  <2> QED BY <2>1, <2>2, <2>3
<1>3. poller'[l] = p
  BY <1>2 DEF UploadsInv, UploadTypes
<1>4. ASSUME NEW d \in UploadDirs
      PROVE  alerts'[d] + OneIf(FoundBy(l, d))' + OneIf(NewTo(l, d))' <=
             alerts[d] + OneIf(FoundBy(l, d)) + OneIf(NewTo(l, d))
  <2>1. ~FoundBy(l, d)' /\ ~FoundBy(l, d)
    BY <1>1, <1>2, <1>3 DEF FoundBy
  <2>2. NewTo(l, d)' => NewTo(l, d)
    BY <1>1, <1>2, <1>3 DEF NewTo, KnownTo
  <2>3. alerts'[d] = alerts[d] /\ alerts[d] \in Nat
    BY <1>1 DEF UploadsInv, UploadTypes
  <2> QED BY <2>1, <2>2, <2>3 DEF OneIf
<1>5. mtimes' \in [UploadDirs -> Nat] /\ alerts' \in [UploadDirs -> Nat]
  BY <1>1 DEF UploadsInv, UploadTypes
<1> QED BY <1>1, <1>2, <1>4, <1>5, NoLoopIsNone, LoopStepSafe

LEMMA UploadsSteps == UploadsInv /\ [UploadsNext]_uploadVars => UploadsInv'
<1> SUFFICES ASSUME UploadsInv, [UploadsNext]_uploadVars PROVE UploadsInv'
  OBVIOUS
<1>1. CASE SecondPasses \/ EditScans \/ SyncScans \/ SwitchScansOff \/ UNCHANGED uploadVars
  <2>1. /\ second' \in Nat /\ UNCHANGED <<there, upload, dirs, mtimes, alerts, twice>>
        /\ UNCHANGED <<polling, poller>> \/ StopPolling
    BY <1>1 DEF SecondPasses, EditScans, SyncScans, SwitchScansOff, uploadVars, uploadWorld, watcher,
                alertVars, UploadsInv, UploadTypes
  <2> QED BY <2>1, StoppedAtMost
<1>2. CASE \E l \in Loops : LoopStep(l)
  BY <1>2, StatFileSafe, NoteFileSafe, ScanFileSafe, BetweenWalksSafe DEF LoopStep
<1> QED BY <1>1, <1>2, RestartSafe, PutFileSafe, RootsDetectedSafe DEF UploadsNext

LEMMA UploadsSafe == ASSUME UploadsInv PROVE AlertedOnce /\ LoopsListen
  BY DEF UploadsInv, UploadTypes, Reported, AlertedOnce

----------------------------------------------------------------------------
(* HostAlarms.                                                             *)

\* What makes AlarmsTrue inductive: between two scans whose counters were read, the
\* counters have risen by rise.
RiseIsSince == prevTCPExt # NoCounters => \A k \in DOMAIN rise : tcpExt[k] = prevTCPExt[k] + rise[k]

AlarmsInv == AlarmsTypeOK /\ RiseIsSince /\ AlarmsTrue

Counters == [{"cookies", "drops"} -> Nat]

LEMMA FlatCounts == Flat \in Counters
  BY DEF Flat, Counters

LEMMA BaselineKnown ==
    ASSUME NEW held \in [SystemFiles -> Versions \cup {NotThere, TooBig}]
    PROVE  Baseline(held) \in [SystemFiles -> Versions \cup {NotThere}]
  BY DEF Baseline

LEMMA AlarmsInitially == AlarmsInit => AlarmsInv
<1> SUFFICES ASSUME AlarmsInit PROVE AlarmsInv
  OBVIOUS
<1>1. AlarmsTypeOK
  <2>1. Baseline(content) \in [SystemFiles -> Versions \cup {NotThere}] /\ Flat \in Counters
    BY FlatCounts, BaselineKnown DEF AlarmsInit
  <2>2. {zombies, lastReported} \subseteq Nat
    BY DEF AlarmsInit
  <2>3. groundless \in BOOLEAN
    BY DEF AlarmsInit
  <2> QED BY <2>1, <2>2, <2>3 DEF AlarmsInit, AlarmsTypeOK, Counters
<1>2. RiseIsSince /\ AlarmsTrue
  BY DEF AlarmsInit, RiseIsSince, AlarmsTrue
<1> QED BY <1>1, <1>2 DEF AlarmsInv

\* A flood that is told is one of what the counters rose since the last scan.
LEMMA FloodIsOfRise ==
    ASSUME AlarmsInv, IsFlood, NEW k \in DOMAIN rise
    PROVE  rise[k] > MinRise
<1>1. /\ tcpExt \in Counters /\ rise \in Counters /\ prevTCPExt \in Counters
      /\ MinRise \in Nat
  BY HostAlarmsConstants DEF AlarmsInv, AlarmsTypeOK, Counters, IsFlood
<1>2. /\ tcpExt[k] = prevTCPExt[k] + rise[k] /\ SafeDelta(k) > MinRise
      /\ k \in {"cookies", "drops"}
  BY <1>1 DEF AlarmsInv, RiseIsSince, IsFlood, Counters
<1>3. tcpExt[k] \in Nat /\ rise[k] \in Nat /\ prevTCPExt[k] \in Nat
  BY <1>1, <1>2 DEF Counters
<1> QED BY <1>1, <1>2, <1>3 DEF SafeDelta

LEMMA FloodScanTrue ==
    ASSUME AlarmsInv, NEW a \in BOOLEAN, NEW b \in BOOLEAN, FloodScan(a, b)
    PROVE  AlarmsInv'
<1> DEFINE told == (IF a THEN crowds \ cooling ELSE {})
                   \cup (IF b /\ IsFlood THEN {SynFlood} \ cooling ELSE {})
<1>1. /\ cooling' = cooling \cup told
      /\ groundless' = (groundless \/ (SynFlood \in told /\ \E k \in DOMAIN rise : rise[k] <= MinRise))
      /\ prevTCPExt' = CountersAfter(b) /\ rise' = Flat
      /\ UNCHANGED <<hostState, baselines, lastReported, lastTold, hushed>>
  BY Zenon DEF FloodScan
<1>2. SynFlood \in told => IsFlood
  BY HostAlarmsConstants DEF AlarmsInv, AlarmsTypeOK
<1>3. told \subseteq SystemFiles \cup Peers \cup {SynFlood}
  BY DEF AlarmsInv, AlarmsTypeOK
<1> HIDE DEF told
<1>4. IsFlood => \A k \in DOMAIN rise : ~(rise[k] <= MinRise)
  <2> SUFFICES ASSUME IsFlood, NEW k \in DOMAIN rise PROVE ~(rise[k] <= MinRise)
    OBVIOUS
  <2>1. rise[k] > MinRise
    BY FloodIsOfRise
  <2>2. rise[k] \in Nat /\ MinRise \in Nat
    BY HostAlarmsConstants DEF AlarmsInv, AlarmsTypeOK
  <2> QED BY <2>1, <2>2
<1>5. groundless' = FALSE
  BY <1>1, <1>2, <1>4 DEF AlarmsInv, AlarmsTrue
<1>6. tcpExt' = tcpExt /\ tcpExt \in Counters
  BY <1>1 DEF hostState, AlarmsInv, AlarmsTypeOK, Counters
<1>7. AlarmsTypeOK'
  BY <1>1, <1>3, <1>5, <1>6, FlatCounts DEF AlarmsInv, AlarmsTypeOK, Counters, hostState, CountersAfter
<1>8. RiseIsSince'
  <2>1. DOMAIN Flat = {"cookies", "drops"} /\ \A k \in DOMAIN Flat : Flat[k] = 0
    BY DEF Flat
  <2>2. b => \A k \in {"cookies", "drops"} : tcpExt[k] = tcpExt[k] + 0
    BY <1>6 DEF Counters
  <2> QED BY <1>1, <1>6, <2>1, <2>2 DEF RiseIsSince, CountersAfter
<1>9. AlarmsTrue'
  BY <1>1, <1>5 DEF AlarmsInv, AlarmsTrue
<1> QED BY <1>7, <1>8, <1>9 DEF AlarmsInv

LEMMA FileCheckTrue ==
    ASSUME AlarmsInv, NEW f \in SystemFiles, CheckSystemFile(f)
    PROVE  AlarmsInv'
<1>1. /\ content[f] # TooBig /\ NowKnown(f) = content[f] /\ NowKnown(f) \in Versions \cup {NotThere}
  BY DEF CheckSystemFile, NowKnown, AlarmsInv, AlarmsTypeOK
<1>2. AlarmsTypeOK'
  BY <1>1 DEF CheckSystemFile, AlarmsInv, AlarmsTypeOK, hostState
<1>3. RiseIsSince'
  BY DEF CheckSystemFile, AlarmsInv, RiseIsSince, hostState
<1>4. AlarmsTrue'
  <2>1. ~groundless'
    BY DEF CheckSystemFile, AlarmsInv, AlarmsTrue
  <2>2. ASSUME NEW g \in SystemFiles \ hushed' PROVE baselines'[g] = lastTold'[g]
    <3>1. CASE g # f
      BY <2>2, <3>1 DEF CheckSystemFile, AlarmsInv, AlarmsTrue, AlarmsTypeOK
    <3>2. CASE g = f
      BY <1>1, <2>2, <3>2 DEF CheckSystemFile, AlarmsInv, AlarmsTrue, AlarmsTypeOK
    <3> QED BY <3>1, <3>2
  <2> QED BY <2>1, <2>2 DEF AlarmsTrue
<1> QED BY <1>2, <1>3, <1>4 DEF AlarmsInv

LEMMA TrafficTrue ==
    ASSUME AlarmsInv, Traffic
    PROVE  AlarmsInv'
<1>1. PICK k \in {"cookies", "drops"} :
        tcpExt' = [tcpExt EXCEPT ![k] = @ + 1] /\ rise' = [rise EXCEPT ![k] = @ + 1]
  BY DEF Traffic
<1>2. tcpExt \in Counters /\ rise \in Counters
  BY DEF AlarmsInv, AlarmsTypeOK, Counters
<1>3. tcpExt' \in Counters /\ rise' \in Counters
  BY <1>1, <1>2 DEF Counters
<1>4. AlarmsTypeOK'
  BY <1>3 DEF Traffic, detectors, AlarmsInv, AlarmsTypeOK, Counters
<1>5. RiseIsSince'
  <2> SUFFICES ASSUME prevTCPExt' # NoCounters, NEW j \in DOMAIN rise'
               PROVE  tcpExt'[j] = prevTCPExt'[j] + rise'[j]
    BY DEF RiseIsSince
  <2>1. j \in {"cookies", "drops"} /\ j \in DOMAIN rise /\ prevTCPExt' = prevTCPExt
    BY <1>2, <1>3 DEF Traffic, detectors, Counters
  <2>2. prevTCPExt \in Counters /\ tcpExt[j] = prevTCPExt[j] + rise[j]
    BY <2>1 DEF AlarmsInv, AlarmsTypeOK, Counters, RiseIsSince
  <2> QED BY <1>1, <1>2, <2>1, <2>2 DEF Counters
<1>6. AlarmsTrue'
  BY DEF Traffic, detectors, AlarmsInv, AlarmsTrue
<1> QED BY <1>4, <1>5, <1>6 DEF AlarmsInv

LEMMA AlarmsStep == AlarmsInv /\ [AlarmsNext]_alarmVars => AlarmsInv'
<1> SUFFICES ASSUME AlarmsInv, [AlarmsNext]_alarmVars PROVE AlarmsInv'
  OBVIOUS
<1> USE DEF AlarmsInv
<1>1. CASE UNCHANGED alarmVars
  BY <1>1 DEF alarmVars, hostState, detectors, AlarmsTypeOK, RiseIsSince, AlarmsTrue, SafeDelta
<1>2. ASSUME NEW f \in SystemFiles, FileChanges(f) PROVE AlarmsInv'
  BY <1>2 DEF FileChanges, detectors, AlarmsTypeOK, RiseIsSince, AlarmsTrue
<1>3. ASSUME NEW f \in SystemFiles, CheckSystemFile(f) PROVE AlarmsInv'
  BY <1>3, FileCheckTrue
<1>4. ASSUME NEW p \in Peers, CrowdChanges(p) PROVE AlarmsInv'
  BY <1>4 DEF CrowdChanges, detectors, AlarmsTypeOK, RiseIsSince, AlarmsTrue
<1>5. CASE Traffic
  BY <1>5, TrafficTrue
<1>6. CASE ZombiesChange
  BY <1>6 DEF ZombiesChange, detectors, AlarmsTypeOK, RiseIsSince, AlarmsTrue
<1>7. CASE AlarmsRestart
  BY <1>7, FlatCounts, BaselineKnown
     DEF AlarmsRestart, hostState, AlarmsTypeOK, RiseIsSince, AlarmsTrue, Counters
<1>8. ASSUME NEW k, CoolingEnds(k) PROVE AlarmsInv'
  BY <1>8 DEF CoolingEnds, hostState, AlarmsTypeOK, RiseIsSince, AlarmsTrue
<1>9. ASSUME NEW a \in BOOLEAN, ZombieTick(a) PROVE AlarmsInv'
  <2>1. ScanZombies(a) \in Nat /\ lastReported' \in Nat
    BY <1>9 DEF ZombieTick, ScanZombies, AlarmsTypeOK
  <2> QED BY <1>9, <2>1 DEF ZombieTick, hostState, AlarmsTypeOK, RiseIsSince, AlarmsTrue
<1>10. ASSUME NEW a \in BOOLEAN, NEW b \in BOOLEAN, FloodScan(a, b) PROVE AlarmsInv'
  BY <1>10, FloodScanTrue
<1> QED BY <1>1, <1>2, <1>3, <1>4, <1>5, <1>6, <1>7, <1>8, <1>9, <1>10 DEF AlarmsNext

----------------------------------------------------------------------------
(* The composition: a component that does not run stays as it began.       *)

LEMMA EachByItself ==
    [WatchNext]_<<which, banVars, linkVars, serverVars, fileVars>> =>
        /\ [GuardNext]_guardVars
        /\ [ConnectionNext]_connectionVars
        /\ [HistoryNext]_historyVars
        /\ [SignalsNext]_signalVars
        /\ [WebNext]_webVars /\ [BotsNext]_botVars /\ [RulesNext]_rulesVars
        /\ [ScansNext]_scanVars /\ [UploadsNext]_uploadVars /\ [AlarmsNext]_alarmVars
  BY DEF WatchNext, banVars, linkVars, serverVars, fileVars

\* What is tried again on the link and the firewall is tried in time and not too often.
THEOREM RetriesInTime == WatchSpec => RetriesSpaced
<1>1. WatchSpec => GuardSpec
  <2>1. WatchInit => GuardInit
    BY DEF WatchInit
  <2> QED BY <2>1, EachByItself, PTL DEF WatchSpec, GuardSpec
<1>2. WatchSpec => ConnectionSpec
  <2>1. WatchInit => ConnectionInit
    BY DEF WatchInit
  <2> QED BY <2>1, EachByItself, PTL DEF WatchSpec, ConnectionSpec
<1> QED BY <1>1, <1>2, GuardInTime, RefusalsInTime DEF RetriesSpaced

\* Who has logged in is guarded as the history says, and stays in it.
THEOREM LoginsAreKept == WatchSpec => LoginsKept
<1>1. WatchSpec => HistorySpec
  <2>1. WatchInit => HistoryInit
    BY DEF WatchInit
  <2> QED BY <2>1, EachByItself, PTL DEF WatchSpec, HistorySpec
<1> QED BY <1>1, PersonsAreKept DEF LoginsKept

\* What decides on the visitors of the web sites, edits the web server, scans the sites
\* and tells of the host is safe, for any visitors, signatures, roots and loops.
WatchInv == WebInv /\ BotsInv /\ RulesInv /\ ScansInv /\ UploadsInv /\ AlarmsInv

\* No crawler that is verified is banned and an ask of the dashboard only escalates; the
\* web server goes on whatever change fails, and what was taken out of it refuses nobody;
\* the score is of a whole scan, a cancellation is heard, nothing follows the end; a file
\* is reported once; and no alarm about the host is without ground.
THEOREM WatchIsSafe == WatchSpec => []WebSafe
<1>1. WatchInit => WatchInv
  BY WebInitially, BotsInitially, RulesInitially, ScansInitially, UploadsInitially,
     AlarmsInitially DEF WatchInit, WatchInv
<1>2. WatchInv /\ [WatchNext]_<<which, banVars, linkVars, serverVars, fileVars>> => WatchInv'
  BY EachByItself, WebStep, BotsStep, RulesStep, ScansSteps, UploadsSteps, AlarmsStep DEF WatchInv
<1>3. WatchInv => WebSafe
  BY BotsSafe, RulesSafe, ScansSafe, UploadsSafe
     DEF WatchInv, WebInv, AlarmsInv, WebSafe
<1> QED BY <1>1, <1>2, <1>3, PTL DEF WatchSpec
=============================================================================
