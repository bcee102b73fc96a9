--------------------------- MODULE FirewallGuard ----------------------------
(***************************************************************************)
(* The firewall guard (cmd/infrafence-agent/fwguard.go) against tools that *)
(* rewrite the firewall: a quick look at the INPUT jump, a full Ensure, a  *)
(* second look after a repair, the back-off, the lock of csf, the reports. *)
(*                                                                         *)
(* The guard's times are in gd as what is left until they come (quick,     *)
(* full, follow, retry) or as ages (trouble, repair, repairs, conflict,    *)
(* event, csfAge), which stop where nothing tells them apart any more: an  *)
(* age at its end is also "never".  Of the host, jump says that the INPUT  *)
(* jump is in its place and rest that everything else of Ensure's is.      *)
(*                                                                         *)
(* A definition whose name begins with Mut is the one after it with a      *)
(* mistake planted, to see a property fail.                                *)
(*                                                                         *)
(* Ensure is many commands of iptables and ipset: it begins, puts each     *)
(* part in its place, and ends or gives up, and the tools go on meanwhile. *)
(* It takes no time of the model.                                          *)
(***************************************************************************)
EXTENDS Integers, Sequences, SequencesExt

CONSTANTS
    Quick, Full, FollowUp, BackToBack, BackoffMin, BackoffMax, CalmFor, CSFWait,
    EventEvery, Conflict, \* the times at the head of fwguard.go
    SlowQuick,            \* when a look was slow: until the next one
    MaxRewrites, MaxCSF, MaxGuardFaults \* bounds

ASSUME GuardTimes ==
    /\ {Quick, Full, FollowUp, BackToBack, BackoffMin, BackoffMax, CalmFor, CSFWait,
        EventEvery, Conflict, SlowQuick} \subseteq Nat \ {0}
    /\ BackoffMin <= BackoffMax /\ Quick <= SlowQuick
ASSUME GuardBounds == {MaxRewrites, MaxCSF, MaxGuardFaults} \subseteq Nat

VARIABLES
    gd,          \* the guard
    mending,    \* the Ensure under way: the check it follows, what it has still
                \* to look at, whether it has restored anything
    jump, rest, \* the host's firewall
    csf,        \* the process that holds csf's lock, 0 for none
    csfHeld,    \* history: for how long it has
    bare,       \* history: for how long the jump has been missing, with csf
                \* away and iptables answering
    rewrites, csfRuns, guardFaults

guardVars == <<gd, mending, jump, rest, csf, csfHeld, bare, rewrites, csfRuns, guardFaults>>

NoFollowUp == -1
Least(a, b) == IF a < b THEN a ELSE b
\* The longest back-off or spacing, and a look that came just before its end.
Worst == (IF SlowQuick > BackoffMax THEN SlowQuick ELSE BackoffMax) + Quick

Parts == {"jump", "rest"}
NoEnsure == [due |-> "nothing", todo |-> {}, restored |-> FALSE]

\* start
GuardInit ==
    /\ gd = [quick |-> Quick, full |-> Full, follow |-> NoFollowUp, backoff |-> 0, retry |-> 0,
            trouble |-> CalmFor, repair |-> BackToBack, repairs |-> <<>>, conflict |-> Conflict,
            event |-> EventEvery, pending |-> FALSE, csfPid |-> 0, csfAge |-> 0,
            forced |-> FALSE]
    /\ mending = NoEnsure
    /\ jump = TRUE /\ rest = TRUE /\ csf = 0 /\ csfHeld = 0 /\ bare = 0
    /\ rewrites = 0 /\ csfRuns = 0 /\ guardFaults = 0

----------------------------------------------------------------------------
(* Other tools.                                                            *)

\* A reload of ufw or firewalld, an iptables-restore.
Rewrite ==
    /\ rewrites < MaxRewrites /\ rewrites' = rewrites + 1
    /\ \/ jump' = FALSE /\ rest' \in {rest, FALSE}
       \/ rest' = FALSE /\ UNCHANGED jump
    /\ UNCHANGED <<gd, mending, csf, csfHeld, bare, csfRuns, guardFaults>>

\* csf takes its lock and flushes; every run is another process.
CSFBegin ==
    /\ csf = 0 /\ csfRuns < MaxCSF
    /\ csfRuns' = csfRuns + 1 /\ csf' = csfRuns + 1 /\ csfHeld' = 0
    /\ jump' = FALSE /\ rest' = FALSE
    /\ UNCHANGED <<gd, mending, bare, rewrites, guardFaults>>

CSFEnd ==
    /\ csf # 0 /\ csf' = 0
    /\ UNCHANGED <<gd, mending, jump, rest, csfHeld, bare, rewrites, csfRuns, guardFaults>>

----------------------------------------------------------------------------
(* tick: one second later.                                                 *)

Sooner(x) == IF x > 0 THEN x - 1 ELSE x
Longer(x, end) == Least(x + 1, end)

\* flushEvents: at most one event in so long a time.
Flushed(r) ==
    IF r.pending /\ r.event = EventEvery THEN [r EXCEPT !.pending = FALSE, !.event = 0] ELSE r

\* The back-off ends when all was quiet.
Calmed(r) ==
    IF r.backoff > 0 /\ r.trouble = CalmFor THEN [r EXCEPT !.backoff = 0, !.retry = 0] ELSE r

Now == Calmed(Flushed(
    [gd EXCEPT !.quick = Sooner(@), !.full = Sooner(@), !.follow = Sooner(@), !.retry = Sooner(@),
              !.trouble = Longer(@, CalmFor), !.repair = Longer(@, BackToBack),
              !.repairs = SelectSeq([i \in DOMAIN @ |-> @[i] + 1], LAMBDA a : a < Conflict),
              !.conflict = Longer(@, Conflict), !.event = Longer(@, EventEvery),
              !.csfAge = Longer(@, CSFWait)]))

Due ==
    CASE Now.follow = 0 -> "follow"
      [] Now.follow # 0 /\ Now.full = 0 -> "full"
      [] Now.follow # 0 /\ Now.full # 0 /\ Now.quick = 0 -> "quick"
      [] OTHER -> "nothing"

\* trouble
MutTroubled(r) ==
    LET b == IF r.backoff = 0 THEN BackoffMin ELSE 2 * r.backoff
    IN [r EXCEPT !.backoff = b, !.retry = b, !.trouble = 0]

Troubled(r) ==
    LET b == IF r.backoff = 0 THEN BackoffMin ELSE Least(2 * r.backoff, BackoffMax)
    IN [r EXCEPT !.backoff = b, !.retry = b, !.trouble = 0]

\* waitForCSF: the guard with what it knows of the holder, and whether it waits.
MutNeverForced(r) ==
    IF csf = 0 THEN [r EXCEPT !.csfPid = 0, !.csfAge = 0, !.forced = FALSE]
    ELSE IF csf = r.csfPid THEN r ELSE [r EXCEPT !.csfPid = csf, !.csfAge = 0]

MutCSFSeen(r) ==
    IF csf = 0 THEN [r EXCEPT !.csfPid = 0]
    ELSE LET s == IF csf = r.csfPid THEN r ELSE [r EXCEPT !.csfPid = csf, !.csfAge = 0]
         IN [s EXCEPT !.forced = @ \/ s.csfAge = CSFWait]

CSFSeen(r) ==
    IF csf = 0 THEN [r EXCEPT !.csfPid = 0, !.csfAge = 0, !.forced = FALSE]
    ELSE LET s == IF csf = r.csfPid THEN r
                  ELSE [r EXCEPT !.csfPid = csf, !.csfAge = 0, !.forced = FALSE]
         IN [s EXCEPT !.forced = @ \/ s.csfAge = CSFWait]

\* The guard once what is due is begun.
Begun == LET r == CSFSeen(Now) IN
    CASE Due = "follow" -> [r EXCEPT !.follow = NoFollowUp]
      [] Due = "full"   -> [r EXCEPT !.full = Full]
      [] OTHER          -> [r EXCEPT !.quick = Quick]

\* noteRepair: the repairs of the last hour, the report and the conflict.
Noted(r, back) ==
    LET kept == IF r.repairs = <<>> \/ Last(r.repairs) >= BackToBack
                THEN Append(r.repairs, 0) ELSE r.repairs
        told == Flushed([r EXCEPT !.pending = TRUE, !.repairs = kept])
    IN IF (back \/ Len(kept) >= 3) /\ told.conflict = Conflict
       THEN [told EXCEPT !.conflict = 0] ELSE told

GuardFault == guardFaults < MaxGuardFaults /\ guardFaults' = guardFaults + 1

\* A second has passed for the rest of the host since the last tick; ok says that
\* the guard met no error.
Second(ok) ==
    /\ mending = NoEnsure
    /\ csfHeld' = IF csf = 0 THEN 0 ELSE Longer(csfHeld, CSFWait)
    /\ bare' = IF jump \/ csf # 0 \/ ~ok THEN 0 ELSE Least(bare + 1, Worst + 1)
    /\ UNCHANGED <<jump, rest, csf, rewrites, csfRuns>>

NothingDue ==
    /\ Second(TRUE) /\ Due = "nothing" /\ gd' = Now
    /\ UNCHANGED <<mending, guardFaults>>

\* NeedsRepair fails: no verdict.
LookFails ==
    /\ Second(FALSE) /\ Due = "quick" /\ GuardFault
    /\ gd' = LET r == Troubled(Now) IN [r EXCEPT !.quick = r.retry]
    /\ UNCHANGED mending

LookFinds ==
    /\ Second(TRUE) /\ Due = "quick" /\ jump
    /\ \E next \in {Quick, SlowQuick} : gd' = [Now EXCEPT !.quick = next]
    /\ UNCHANGED <<mending, guardFaults>>

Wanted == Due \in {"follow", "full"} \/ (Due = "quick" /\ ~jump)

\* The back-off or csf: what is due stays due, except that the quick look is
\* made again later.
Waits ==
    /\ Second(TRUE) /\ Wanted
    /\ LET looked == IF Due = "quick" THEN [Now EXCEPT !.quick = Quick] ELSE Now IN
       \/ Now.retry > 0 /\ gd' = looked
       \/ /\ Now.retry = 0 /\ csf # 0 /\ ~CSFSeen(Now).forced
          /\ gd' = CSFSeen(looked)
    /\ UNCHANGED <<mending, guardFaults>>

MayRepair == Wanted /\ Now.retry = 0 /\ (csf = 0 \/ CSFSeen(Now).forced)

\* csf has been looked for: Ensure begins.
EnsureBegins ==
    /\ Second(TRUE) /\ MayRepair
    /\ gd' = Begun
    /\ mending' = [due |-> Due, todo |-> Parts, restored |-> FALSE]
    /\ UNCHANGED guardFaults

\* Ensure looks at one part and puts it in its place.
EnsurePart(p) ==
    /\ p \in mending.todo
    /\ \/ /\ p = "jump" /\ jump' = TRUE /\ bare' = 0 /\ UNCHANGED rest
          /\ mending' = [mending EXCEPT !.todo = @ \ {p}, !.restored = @ \/ ~jump]
       \/ /\ p = "rest" /\ rest' = TRUE /\ UNCHANGED <<jump, bare>>
          /\ mending' = [mending EXCEPT !.todo = @ \ {p}, !.restored = @ \/ ~rest]
    /\ UNCHANGED <<gd, csf, csfHeld, rewrites, csfRuns, guardFaults>>

\* A command fails: what Ensure restored before it stays, and is not told.
EnsureFails ==
    /\ mending.todo # {} /\ GuardFault
    /\ gd' = Troubled(gd) /\ mending' = NoEnsure /\ bare' = 0
    /\ UNCHANGED <<jump, rest, csf, csfHeld, rewrites, csfRuns>>

\* What it restored is noted, and looked at again after a quick look.
Restored ==
    LET back  == mending.due # "follow" /\ gd.repair < BackToBack
        again == [gd EXCEPT !.repair = 0,
                            !.follow = IF mending.due = "quick" THEN FollowUp ELSE @]
    IN Noted(IF back THEN Troubled(again) ELSE again, back)

EnsureEnds ==
    /\ mending # NoEnsure /\ mending.todo = {}
    /\ gd' = IF mending.restored THEN Restored ELSE gd
    /\ mending' = NoEnsure
    /\ UNCHANGED <<jump, rest, csf, csfHeld, bare, rewrites, csfRuns, guardFaults>>

Ensuring == (\E p \in Parts : EnsurePart(p)) \/ EnsureFails \/ EnsureEnds
GuardTick == NothingDue \/ LookFails \/ LookFinds \/ Waits \/ EnsureBegins

GuardNext == Rewrite \/ CSFBegin \/ CSFEnd \/ GuardTick \/ Ensuring

GuardSpec == GuardInit /\ [][GuardNext]_guardVars

\* The guard ticks for ever, and every Ensure ends.
GuardFairness == WF_guardVars(GuardTick \/ Ensuring)

----------------------------------------------------------------------------

GuardTypeOK ==
    /\ gd.quick \in 0..SlowQuick + BackoffMax /\ gd.full \in 0..Full
    /\ gd.follow \in {NoFollowUp} \cup 0..FollowUp
    /\ gd.backoff \in 0..BackoffMax /\ gd.retry \in 0..gd.backoff /\ gd.trouble \in 0..CalmFor
    /\ gd.repair \in 0..BackToBack /\ gd.repairs \in Seq(0..Conflict - 1)
    /\ gd.conflict \in 0..Conflict /\ gd.event \in 0..EventEvery
    /\ gd.pending \in BOOLEAN /\ gd.forced \in BOOLEAN
    /\ gd.csfPid \in 0..MaxCSF /\ gd.csfAge \in 0..CSFWait
    /\ mending \in [due : {"nothing", "follow", "full", "quick"}, todo : SUBSET Parts,
                   restored : BOOLEAN]
    /\ jump \in BOOLEAN /\ rest \in BOOLEAN
    /\ csf \in 0..MaxCSF /\ csfHeld \in 0..CSFWait /\ bare \in 0..Worst + 1
    /\ rewrites \in 0..MaxRewrites /\ csfRuns \in 0..MaxCSF
    /\ guardFaults \in 0..MaxGuardFaults

\* While iptables answers and csf is away, the jump is missing no longer than
\* one back-off and one spacing of the looks, whatever the tools do: neither
\* the doubling nor a slow look puts a repair off beyond that (fwguard.go:19,
\* "repaired within seconds"; :29, "Back-off from 5 s to 60 s").
RepairedInTime == bare <= Worst

\* No Ensure is begun in the first minutes of a csf run, though the end of the run
\* before it may have gone unseen (fwguard.go:26, "Nothing is repaired while csf
\* rebuilds the firewall ... for at most 2 minutes per lock holder").
CSFSpared ==
    [][mending = NoEnsure /\ mending' # NoEnsure => csf = 0 \/ csfHeld + 1 >= CSFWait]_guardVars

\* What that sentence says, of every repair: it does not hold, csf may take its lock
\* between the look for it and the commands of Ensure.
NoRepairDuringCSF ==
    [][(jump' /\ ~jump) \/ (rest' /\ ~rest) => csf = 0 \/ csfHeld >= CSFWait]_guardVars

\* Once the tools leave the firewall alone, it is whole and stays so, and every
\* repair of an Ensure that met no error is reported; a csf that never ends does
\* not prevent it.
Whole == jump /\ rest /\ ~gd.pending
GuardConverges == <>[]Whole

=============================================================================
