------------------------ MODULE FirewallActionsProofs ------------------------
(***************************************************************************)
(* Theorems about FirewallActions, for any ports and addresses, any        *)
(* sequence of requests and every limit on how many a sync runs: types,    *)
(* that nothing is enforced that was not verified, that nothing is run     *)
(* twice.                                                                  *)
(***************************************************************************)
EXTENDS FirewallActions, SequenceTheorems, WellFoundedInduction, TLAPS

----------------------------------------------------------------------------
(* The operators.                                                          *)

Less == {ss \in Nat \X Nat : ss[1] < ss[2]}

\* Some numbers have a least one.
LEMMA LeastNumber ==
    ASSUME NEW T \in SUBSET Nat, T # {}
    PROVE  \E x \in T : \A y \in T : x <= y
<1>1. IsWellFoundedOn(Less, Nat)
  BY NatLessThanWellFounded DEF OpToRel, Less
<1>2. PICK x \in T : \A y \in T : ~(<<y, x>> \in Less)
  BY <1>1, WFMin
<1>3. ASSUME NEW y \in T PROVE x <= y
  <2>1. x \in Nat /\ y \in Nat
    OBVIOUS
  <2>2. ~(y < x)
    BY <1>2, <2>1 DEF Less
  <2> QED BY <2>1, <2>2
<1> QED BY <1>3

LEMMA IdsAreNumbers == Len(Requests) \in Nat /\ Ids = 1..Len(Requests) /\ Ids \subseteq Nat
  BY RequestAssumption DEF Ids

\* Some requests have a last one, and a first.
LEMMA HasLast ==
    ASSUME NEW S \in SUBSET Ids, S # {}
    PROVE  LastOf(S) \in S /\ \A j \in S : j <= LastOf(S)
<1> DEFINE n == Len(Requests)  T == {n - i : i \in S}
<1>1. n \in Nat /\ \A i \in S : i \in 1..n
  BY IdsAreNumbers
<1>2. T \in SUBSET Nat /\ T # {}
  BY <1>1
<1>3. PICK x \in T : \A y \in T : x <= y
  <2> HIDE DEF T
  <2> QED BY <1>2, LeastNumber
<1>4. PICK i \in S : x = n - i
  BY <1>3
<1>5. \A j \in S : j <= i
  <2>1. \A j \in S : n - i <= n - j
    BY <1>3, <1>4
  <2> QED BY <1>1, <2>1
<1> QED BY <1>5 DEF LastOf

LEMMA HasFirst ==
    ASSUME NEW S \in SUBSET Ids, S # {}
    PROVE  FirstOf(S) \in S
  BY IdsAreNumbers, LeastNumber DEF FirstOf

LEMMA RequestType ==
    ASSUME NEW i \in Ids
    PROVE  Kind(i) \in {"close", "open"} /\ Target(i) \in Targets
<1>1. i \in 1..Len(Requests)
  BY IdsAreNumbers
<1>2. Requests[i] \in [kind : {"close", "open"}, target : Targets]
  BY <1>1, RequestAssumption, ElementOfSeq
<1> QED BY <1>2 DEF Kind, Target

\* A target that is closed, by the last of some requests, is one that one of them closes.
LEMMA ClosedIsAsked ==
    ASSUME NEW S \in SUBSET Ids
    PROVE  ClosedBy(S) \subseteq Closes(S) /\ Closes(S) \subseteq Targets
<1>1. Closes(S) \subseteq Targets
  BY RequestType DEF Closes
<1>2. ASSUME NEW t \in ClosedBy(S) PROVE t \in Closes(S)
  <2> DEFINE on == {i \in S : Target(i) = t}
  <2>1. on # {} /\ Kind(LastOf(on)) = "close" /\ on \in SUBSET Ids
    BY DEF ClosedBy
  <2>2. LastOf(on) \in on
    <3> HIDE DEF on
    <3> QED BY <2>1, HasLast
  <2> QED BY <2>1, <2>2 DEF Closes
<1> QED BY <1>1, <1>2

\* What is rendered was enforced or asked for, and nothing of a close that waits
\* for its own run.
LEMMA RenderedFrom ==
    ASSUME NEW b \in SUBSET Targets, NEW pend \in SUBSET Ids, NEW mon \in BOOLEAN,
           NEW over \in SUBSET Ids
    PROVE  /\ Rendered(b, pend, mon, over) \subseteq Targets
           /\ Rendered(b, pend, mon, over) \subseteq (b \ Closes(pend)) \cup Closes(over)
<1>1. Effective(b, pend, over) \subseteq (b \ Closes(pend \ over)) \cup Closes(over)
  BY ClosedIsAsked DEF Effective, HeldBack
<1>2. ASSUME NEW t \in Effective(b, pend, over)
      PROVE  t \in (b \ Closes(pend)) \cup Closes(over)
  <2>1. CASE t \in ClosedBy(over)
    BY <2>1, ClosedIsAsked
  <2>2. CASE t \notin ClosedBy(over)
    <3>1. t \in b /\ t \notin Closes(pend \ over) /\ t \notin {Target(i) : i \in over}
      BY <2>2 DEF Effective, HeldBack
    <3>2. t \notin Closes(pend)
      BY <3>1 DEF Closes
    <3> QED BY <3>1, <3>2
  <2> QED BY <2>1, <2>2
<1>3. Rendered(b, pend, mon, over) \subseteq Effective(b, pend, over)
  BY DEF Rendered
<1>4. Effective(b, pend, over) \subseteq Targets
  BY <1>1, ClosedIsAsked
<1> QED BY <1>2, <1>3, <1>4

----------------------------------------------------------------------------
(* Types.                                                                  *)

\* A goroutine beyond its pick is at a request.
AtRequest == run.pc \notin {"idle", "pick"} => run.id \in Ids

TypeInv == TypeOK /\ AtRequest

Runs == [pc : RunStates, list : SUBSET Ids, all : SUBSET Ids, ran : 0..MaxPerSync,
         id : Ids \cup {0}, res : Results, closed : BOOLEAN]
Syncs == [want : SUBSET Targets, listed : SUBSET Ids, monitor : BOOLEAN]

\* What Enforce leaves, and that it enforces what it is given.
LEMMA EnforceKeeps ==
    ASSUME TypeOK, NEW targets \in SUBSET Targets, NEW err \in BOOLEAN, Enforce(targets, err)
    PROVE  /\ desired' = targets /\ applied' = targets
           /\ file' \subseteq Targets /\ pe' \in BOOLEAN /\ failed' \subseteq Targets
           /\ fails' \in 0..MaxFails
<1>1. desired' = targets /\ applied' = targets /\ file' \subseteq Targets
  BY DEF Enforce, TypeOK
<1>2. fails' \in 0..MaxFails
  BY BoundAssumption DEF Enforce, TypeOK
<1>3. pe' \in BOOLEAN /\ failed' \subseteq Targets
  BY DEF Enforce, TypeOK
<1> QED BY <1>1, <1>2, <1>3

LEMMA WantType == TypeOK => Want \subseteq Targets /\ Listed \subseteq Ids
  BY ClosedIsAsked DEF Want, Listed

\* What was listed is of a type whatever it is kept from.
LEMMA SyncIs == TypeOK /\ sync # NoSync => sync \in Syncs
  BY DEF TypeOK, Syncs

LEMMA SyncsTypes ==
    ASSUME TypeInv, SyncFetch \/ SyncApply \/ Begin
    PROVE  TypeInv'
<1> USE DEF TypeInv
<1>1. run \in Runs /\ NoRun \in Runs /\ NoRun.pc = "idle"
  BY BoundAssumption DEF TypeOK, Runs, NoRun, RunStates, Results
<1>2. CASE SyncFetch
  <2>1. sync' \in Syncs
    BY <1>2, WantType DEF SyncFetch, TypeOK, Syncs
  <2>2. UNCHANGED <<dash, host, base, pending, monitor, overlay, done, unsent, applied, desired,
                    pe, failed, file, saver, spawned, run, up, ran, verified, proven, fed, turns,
                    fails>>
    BY <1>2 DEF SyncFetch, world, state, results, history
  <2> QED BY <2>1, <2>2 DEF TypeOK, AtRequest, Syncs
<1>3. CASE SyncApply
  <2>1. sync \in Syncs
    BY <1>3, SyncIs DEF SyncApply
  <2>2. /\ base' = sync.want /\ pending' = sync.listed /\ monitor' = sync.monitor
        /\ overlay' = Kept(sync.listed) /\ spawned' = sync.listed /\ sync' = NoSync /\ fed' = TRUE
        /\ UNCHANGED <<dash, host, turns, done, unsent, saver, run, up, ran, verified, proven>>
    BY <1>3 DEF SyncApply, world, results, history
  <2>3. /\ base' \subseteq Targets /\ pending' \subseteq Ids /\ monitor' \in BOOLEAN
        /\ overlay' \subseteq Ids /\ spawned' \subseteq Ids
    BY <2>1, <2>2 DEF Syncs, Kept, TypeOK
  <2>4. PICK err \in BOOLEAN :
           Enforce(Rendered(sync.want, sync.listed, sync.monitor, overlay'), err)
    BY <1>3 DEF SyncApply
  <2>5. Rendered(sync.want, sync.listed, sync.monitor, overlay') \in SUBSET Targets
    BY <2>1, <2>2, <2>3, RenderedFrom DEF Syncs
  <2>6. /\ desired' \subseteq Targets /\ applied' \subseteq Targets /\ file' \subseteq Targets
        /\ pe' \in BOOLEAN /\ failed' \subseteq Targets /\ fails' \in 0..MaxFails
    BY <2>4, <2>5, EnforceKeeps
  <2> QED BY <2>2, <2>3, <2>6 DEF TypeOK, AtRequest
<1>4. CASE Begin
  <2>1. run' \in Runs /\ (run' = run \/ run'.pc = "pick")
    BY <1>1, <1>4 DEF Begin, Runs, RunStates, TypeOK
  <2>2. spawned' = {}
        /\ UNCHANGED <<dash, host, base, pending, monitor, overlay, done, unsent, applied, desired,
                       pe, failed, file, saver, sync, up, ran, verified, proven, fed, turns, fails>>
    BY <1>4 DEF Begin, world, state, results, history
  <2> QED BY <2>1, <2>2 DEF TypeOK, AtRequest, Runs
<1> QED BY <1>2, <1>3, <1>4

\* The steps that leave the firewall alone.
LEMMA QuietTypes ==
    ASSUME TypeInv, Pick \/ Read \/ Decide \/ Confirm \/ Verify \/ End
    PROVE  TypeInv'
<1> USE DEF TypeInv
<1>1. run \in Runs /\ NoRun \in Runs /\ NoRun.pc = "idle"
  BY BoundAssumption DEF TypeOK, Runs, NoRun, RunStates, Results
<1>2. UNCHANGED <<dash, host, turns, base, pending, monitor, overlay, applied, desired, pe, failed,
                  file, saver, sync, spawned, up, fed, fails>>
  BY DEF Pick, Read, Decide, Confirm, Verify, End, RunOnly, world, state
<1>3. /\ run' \in Runs /\ (run'.pc \notin {"idle", "pick"} => run'.id \in Ids)
      /\ done' \subseteq Ids /\ ran' \subseteq Ids
      /\ verified' \subseteq Ids /\ proven' \subseteq Ids
      /\ unsent' \in [Ids -> Results]
  <2>1. CASE Pick
    <3> DEFINE i == FirstOf(run.list)
    <3>1. i \in run.list /\ i \in Ids
      BY <1>1, <2>1, HasFirst DEF Pick, Runs
    <3>2. unsent[i] \in Results
      BY <3>1 DEF TypeOK
    <3>3. MayRun => run.ran + 1 \in 0..MaxPerSync
      BY <1>1, BoundAssumption DEF MayRun, Runs
    <3> HIDE DEF i
    <3>4. \/ /\ run' = [run EXCEPT !.list = run.list \ {i}, !.id = i]
             /\ UNCHANGED <<done, ran>>
          \/ /\ run' = [run EXCEPT !.list = run.list \ {i}, !.id = i, !.pc = "report",
                                   !.res = unsent[i]]
             /\ UNCHANGED <<done, ran>>
          \/ /\ run' = [run EXCEPT !.list = run.list \ {i}, !.id = i, !.pc = "read",
                                   !.ran = run.ran + 1]
             /\ MayRun /\ done' = done \cup {i} /\ ran' = ran \cup {i}
      BY <1>1, <2>1 DEF Pick, i, Runs
    <3>5. UNCHANGED <<unsent, verified, proven>> /\ run.pc = "pick"
      BY <2>1 DEF Pick
    <3>6. run' \in Runs /\ run'.id \in Ids
      <4>1. run.list \ {i} \in SUBSET Ids
        BY <1>1 DEF Runs
      <4>2. CASE run' = [run EXCEPT !.list = run.list \ {i}, !.id = i]
        BY <1>1, <3>1, <4>1, <4>2 DEF Runs
      <4>3. CASE run' = [run EXCEPT !.list = run.list \ {i}, !.id = i, !.pc = "report",
                                    !.res = unsent[i]]
        BY <1>1, <3>1, <3>2, <4>1, <4>3 DEF Runs, RunStates
      <4>4. CASE /\ run' = [run EXCEPT !.list = run.list \ {i}, !.id = i, !.pc = "read",
                                       !.ran = run.ran + 1]
                 /\ MayRun
        BY <1>1, <3>1, <3>3, <4>1, <4>4 DEF Runs, RunStates
      <4> QED BY <3>4, <4>2, <4>3, <4>4
    <3>7. done' \subseteq Ids /\ ran' \subseteq Ids
      BY <3>1, <3>4 DEF TypeOK
    <3> QED BY <3>5, <3>6, <3>7 DEF TypeOK
  <2>2. CASE Read \/ Confirm
    <3>1. run' \in Runs /\ run'.id = run.id /\ run.pc \notin {"idle", "pick"}
      <4>1. run.pc \in {"read", "confirm"}
        BY <2>2 DEF Read, Confirm
      <4>2. \/ run' = [run EXCEPT !.pc = "report", !.res = "failed"]
            \/ \E c \in BOOLEAN : run' = [run EXCEPT !.pc = "decide", !.closed = c]
            \/ \E pc \in {"verify", "undo"} : run' = [run EXCEPT !.pc = pc]
        <5>1. (Target(run.id) \in Effective(base, pending, overlay)) \in BOOLEAN
          OBVIOUS
        <5> QED BY <2>2, <5>1 DEF Read, Confirm
      <4> QED BY <1>1, <4>1, <4>2 DEF Runs, RunStates, Results
    <3>2. UNCHANGED <<done, unsent, ran, verified, proven>>
      BY <2>2 DEF Read, Confirm, results, history
    <3> QED BY <3>1, <3>2 DEF TypeOK, AtRequest
  <2>3. CASE Decide
    <3>1. run' \in Runs /\ run'.id = run.id /\ run.pc \notin {"idle", "pick"}
      BY <1>1, <2>3 DEF Decide, Runs, RunStates, Results
    <3>2. UNCHANGED <<done, unsent, ran, verified, proven>>
      BY <2>3 DEF Decide, results, history
    <3> QED BY <3>1, <3>2 DEF TypeOK, AtRequest
  <2>4. CASE Verify
    <3>1. run' \in Runs /\ run'.id = run.id /\ run.id \in Ids
      BY <1>1, <2>4 DEF Verify, Runs, RunStates, Results, AtRequest
    <3>2. /\ UNCHANGED <<done, unsent, ran>>
          /\ verified' \subseteq verified \cup {run.id} /\ proven' \subseteq proven \cup {run.id}
      BY <2>4 DEF Verify, results
    <3> QED BY <3>1, <3>2 DEF TypeOK
  <2>5. CASE End
    <3>1. run' = NoRun /\ done' \subseteq done /\ UNCHANGED <<ran, verified, proven>>
      BY <2>5 DEF End, history
    <3>2. unsent' \in [Ids -> Results]
      BY <2>5 DEF End, TypeOK, Results
    <3> QED BY <1>1, <3>1, <3>2 DEF TypeOK
  <2> QED BY <2>1, <2>2, <2>3, <2>4, <2>5
<1> QED BY <1>2, <1>3 DEF TypeOK, AtRequest, Runs

LEMMA FirewallTypes ==
    ASSUME TypeInv, Apply \/ Undo \/ Report
    PROVE  TypeInv'
<1> USE DEF TypeInv
<1>1. run \in Runs /\ run.id \in Ids
  BY DEF TypeOK, Runs, AtRequest, Apply, Undo, Report
<1>2. CASE Apply \/ Undo
  <2>1. overlay' \subseteq Ids
    BY <1>1, <1>2 DEF Apply, Undo, TypeOK
  <2>2. Rendered(base, pending, monitor, overlay') \in SUBSET Targets
    BY <2>1, RenderedFrom DEF TypeOK
  <2>3. \E err \in BOOLEAN : Enforce(Rendered(base, pending, monitor, overlay'), err)
    BY <1>2 DEF Apply, Undo
  <2>4. /\ desired' \subseteq Targets /\ applied' \subseteq Targets /\ file' \subseteq Targets
        /\ pe' \in BOOLEAN /\ failed' \subseteq Targets /\ fails' \in 0..MaxFails
    BY <2>2, <2>3, EnforceKeeps
  <2>5. run' \in Runs /\ run'.id = run.id
    <3>1. \/ \E pc \in {"undo", "confirm"} : run' = [run EXCEPT !.pc = pc]
          \/ run' = [run EXCEPT !.pc = "report", !.res = "failed"]
      BY <1>2 DEF Apply, Undo
    <3> QED BY <1>1, <3>1 DEF Runs, RunStates, Results
  <2>6. UNCHANGED <<dash, host, turns, base, pending, monitor, done, unsent, saver, sync, spawned,
                    up, ran, verified, proven, fed>>
    BY <1>2 DEF Apply, Undo, world, state, results, history
  <2> QED BY <1>1, <2>1, <2>4, <2>5, <2>6 DEF TypeOK, AtRequest, Runs
<1>3. CASE Report
  <2>1. run.res \in Results /\ run.res \in Status /\ "none" \in Results
    BY <1>1 DEF Runs, Results, Status
  <2>2. dash' \in [status : [Ids -> Status], monitor : BOOLEAN]
    BY <1>1, <1>3, <2>1 DEF Report, TypeOK
  <2>3. unsent' \in [Ids -> Results]
    BY <1>1, <1>3, <2>1 DEF Report, UnsentAfter, TypeOK
  <2>4. fails' \in 0..MaxFails
    BY <1>3, BoundAssumption DEF Report, TypeOK
  <2>5. run' \in Runs /\ run'.pc = "pick"
    BY <1>1, <1>3 DEF Report, Runs, RunStates
  <2>6. UNCHANGED <<host, turns, base, pending, monitor, overlay, done, applied, desired, pe,
                    failed, file, saver, sync, spawned, up, ran, verified, proven, fed>>
    BY <1>3 DEF Report, state, history
  <2> QED BY <2>2, <2>3, <2>4, <2>5, <2>6 DEF TypeOK, AtRequest, Runs
<1> QED BY <1>2, <1>3

LEMMA HostTypes ==
    ASSUME TypeInv, NoteBegin \/ NoteEnd \/ Guard \/ Crash \/ Start \/ Ask \/ Turn
    PROVE  TypeInv'
<1> USE DEF TypeInv
<1>1. NoRun \in Runs /\ NoRun.pc = "idle"
  BY BoundAssumption DEF Runs, NoRun, RunStates, Results
<1>2. turns < MaxTurns => turns + 1 \in 0..MaxTurns
  BY BoundAssumption DEF TypeOK
<1>3. CASE NoteBegin
  <2>1. saver' \in [targets : SUBSET Targets] /\ turns' \in 0..MaxTurns
    BY <1>2, <1>3 DEF NoteBegin, TypeOK
  <2>2. UNCHANGED <<dash, host, base, pending, monitor, overlay, done, unsent, applied, desired,
                    pe, failed, file, sync, spawned, run, up, ran, verified, proven, fed, fails>>
    BY <1>3 DEF NoteBegin, state, results, history
  <2> QED BY <2>1, <2>2 DEF TypeOK, AtRequest
<1>4. CASE NoteEnd
  <2>1. file' \subseteq Targets /\ saver' = NoSave
    BY <1>4 DEF NoteEnd, TypeOK
  <2>2. UNCHANGED <<dash, host, turns, base, pending, monitor, overlay, done, unsent, applied,
                    desired, pe, failed, sync, spawned, run, up, ran, verified, proven, fed, fails>>
    BY <1>4 DEF NoteEnd, world, state, results, history
  <2> QED BY <2>1, <2>2 DEF TypeOK, AtRequest
<1>5. CASE Guard
  <2>1. pe' \in BOOLEAN
        /\ UNCHANGED <<dash, host, turns, base, pending, monitor, overlay, done, unsent, applied,
                       desired, failed, file, saver, sync, spawned, run, up, ran, verified, proven,
                       fed, fails>>
    BY <1>5 DEF Guard, world, state, results, history
  <2> QED BY <2>1 DEF TypeOK, AtRequest
<1>6. CASE Crash
  <2>1. /\ turns' \in 0..MaxTurns /\ up' \in BOOLEAN /\ pe' \in BOOLEAN /\ monitor' \in BOOLEAN
        /\ fed' \in BOOLEAN /\ base' = {} /\ pending' = {} /\ overlay' = {}
        /\ done' = {} /\ unsent' = [i \in Ids |-> "none"] /\ applied' = {} /\ desired' = {}
        /\ failed' = {} /\ saver' = NoSave /\ sync' = NoSync /\ spawned' = {} /\ run' = NoRun
        /\ ran' = {} /\ verified' = {} /\ UNCHANGED <<dash, host, file, proven, fails>>
    BY <1>2, <1>6 DEF Crash
  <2> QED BY <1>1, <2>1 DEF TypeOK, AtRequest, Runs, Results
<1>7. CASE Start
  <2>1. Loaded \subseteq Targets
    BY DEF Loaded, TypeOK
  <2>2. /\ base' \subseteq Targets /\ applied' \subseteq Targets /\ desired' \subseteq Targets
        /\ file' \subseteq Targets /\ up' \in BOOLEAN
    BY <1>7, <2>1 DEF Start, TypeOK
  <2>3. pe' \in BOOLEAN /\ failed' \subseteq Targets
    BY <1>7, <2>1 DEF Start, TypeOK
  <2>4. fails' \in 0..MaxFails
    BY <1>7, BoundAssumption DEF Start, TypeOK
  <2>5. UNCHANGED <<dash, host, turns, pending, monitor, overlay, done, unsent, saver, sync,
                    spawned, run, ran, verified, proven, fed>>
    BY <1>7 DEF Start, world, results, history
  <2> QED BY <2>2, <2>3, <2>4, <2>5 DEF TypeOK, AtRequest
<1>8. CASE Ask
  <2>1. dash' \in [status : [Ids -> Status], monitor : BOOLEAN]
    BY <1>8 DEF Ask, TypeOK, Status
  <2>2. UNCHANGED <<host, turns, base, pending, monitor, overlay, done, unsent, applied, desired,
                    pe, failed, file, saver, sync, spawned, run, up, ran, verified, proven, fed,
                    fails>>
    BY <1>8 DEF Ask, state, results, history
  <2> QED BY <2>1, <2>2 DEF TypeOK, AtRequest
<1>9. CASE Turn
  <2>1. /\ dash' \in [status : [Ids -> Status], monitor : BOOLEAN]
        /\ host' \in [Targets -> Seen] /\ turns' \in 0..MaxTurns
    <3>1. dash \in [status : [Ids -> Status], monitor : BOOLEAN] /\ host \in [Targets -> Seen]
      BY DEF TypeOK
    <3>2. \/ dash' = dash /\ \E t \in Targets, h \in Seen : host' = [host EXCEPT ![t] = h]
          \/ dash' = [dash EXCEPT !.monitor = ~@] /\ host' = host
      BY <1>9 DEF Turn
    <3>3. turns' \in 0..MaxTurns
      BY <1>2, <1>9 DEF Turn
    <3> QED BY <3>1, <3>2, <3>3
  <2>2. UNCHANGED <<base, pending, monitor, overlay, done, unsent, applied, desired, pe, failed,
                    file, saver, sync, spawned, run, up, ran, verified, proven, fed, fails>>
    BY <1>9 DEF Turn, state, results, history
  <2> QED BY <2>1, <2>2 DEF TypeOK, AtRequest
<1> QED BY <1>3, <1>4, <1>5, <1>6, <1>7, <1>8, <1>9

LEMMA TypesInit == Init => TypeInv
<1> SUFFICES ASSUME Init PROVE TypeInv
  OBVIOUS
<1>1. NoRun \in Runs /\ NoRun.pc = "idle" /\ 0 \in 0..MaxTurns /\ 0 \in 0..MaxFails
  BY BoundAssumption DEF Runs, NoRun, RunStates, Results
<1> QED BY <1>1 DEF Init, TypeInv, TypeOK, AtRequest, Runs, Status, Seen, Results

LEMMA TypesNext == TypeInv /\ [Next]_vars => TypeInv'
<1> SUFFICES ASSUME TypeInv, [Next]_vars PROVE TypeInv'
  OBVIOUS
<1>1. CASE Next
  BY <1>1, SyncsTypes, QuietTypes, FirewallTypes, HostTypes DEF Next, RunStep
<1>2. CASE UNCHANGED vars
  BY <1>2 DEF vars, TypeInv, TypeOK, AtRequest
<1> QED BY <1>1, <1>2

\* Every variable keeps its type.
THEOREM ActionsTypes == Spec => []TypeOK
<1>1. TypeInv => TypeOK
  BY DEF TypeInv
<1> QED BY <1>1, TypesInit, TypesNext, PTL DEF Spec

----------------------------------------------------------------------------
(* Nothing is enforced that was not verified.                              *)

\* The request that is being tried.
Under == IF run.pc \in {"confirm", "verify", "undo"} THEN {run.id} ELSE {}

\* What makes PendingWaits inductive.  What is enforced is closed by a request that is
\* done, verified or being tried; the overlay holds what was verified and what is
\* being tried; a target the dashboard's state closes is closed by a request it counts
\* as done, or by one that is pending and held back.
Proven == verified \cup Under
HeldInv ==
    /\ fed => desired \subseteq Closes(Proven \cup Answered("done"))
    /\ overlay \subseteq Proven
    /\ fed => base \subseteq Closes(Answered("done")) \cup Closes(pending)
    /\ sync # NoSync => sync.want \subseteq Closes(Answered("done")) \cup Closes(sync.listed)
    /\ ~up => ~fed /\ sync = NoSync

LEMMA WantIsAsked == TypeOK => Want \subseteq Closes(Answered("done")) \cup Closes(Listed)
<1>1. Want \subseteq Closes({i \in Ids : dash.status[i] \in {"done", "early"}})
  BY ClosedIsAsked DEF Want
<1>2. {i \in Ids : dash.status[i] \in {"done", "early"}} \subseteq Answered("done") \cup Listed
  BY DEF Answered, Listed
<1> HIDE DEF Want
<1> QED BY <1>1, <1>2 DEF Closes

\* What is done stays done: its status is final.
LEMMA DoneStays ==
    ASSUME TypeInv, [Next]_vars
    PROVE  /\ Answered("done") \subseteq Answered("done")'
           /\ Answered("failed") \subseteq Answered("failed")'
<1>1. CASE UNCHANGED dash.status
  BY <1>1 DEF Answered
<1>2. CASE Report
  <2>1. dash' = dash \/ (run.id \in Listed /\ dash' = [dash EXCEPT !.status[run.id] = run.res])
    BY <1>2 DEF Report
  <2> QED BY <1>1, <2>1 DEF Answered, Listed, TypeInv, TypeOK
<1>3. CASE Ask
  <2>1. PICK i \in Ids : dash.status[i] = "none" /\ \E s \in {"late", "early"} :
                             dash' = [dash EXCEPT !.status[i] = s]
    BY <1>3 DEF Ask
  <2> QED BY <2>1 DEF Answered, TypeInv, TypeOK
<1>4. ASSUME [Next]_vars, ~Report, ~Ask PROVE UNCHANGED dash.status
  <2>1. CASE Turn
    BY <2>1 DEF Turn, TypeInv, TypeOK
  <2>2. CASE SyncFetch \/ SyncApply \/ Begin \/ Pick \/ Read \/ Decide \/ Apply \/ Confirm \/ Verify
               \/ Undo \/ End
    BY <2>2 DEF SyncFetch, SyncApply, Begin, Pick, Read, Decide, Apply, Confirm, Verify, Undo, End,
       RunOnly, world
  <2>3. CASE NoteBegin \/ NoteEnd \/ Guard \/ Crash \/ Start \/ UNCHANGED vars
    BY <2>3 DEF NoteBegin, NoteEnd, Guard, Crash, Start, world, vars
  <2> QED BY <1>4, <2>1, <2>2, <2>3 DEF Next, RunStep
<1> QED BY <1>1, <1>2, <1>3, <1>4

\* Whether a request is under way, and what is verified, changes only by these steps.
LEMMA UnderStays ==
    ASSUME TypeInv, [Next]_vars, ~Crash
    PROVE  verified \subseteq verified' /\ (~Undo => Under \subseteq verified' \cup Under')
<1>1. run \in Runs
  BY DEF TypeInv, TypeOK, Runs
<1>2. CASE UNCHANGED <<run, verified>>
  BY <1>2 DEF Under
<1>3. CASE Begin \/ Pick \/ Read \/ Decide \/ Apply \/ Report \/ End
  <2>1. run.pc \in {"confirm", "verify", "undo"} => run' = run
    BY <1>3 DEF Begin, Pick, Read, Decide, Apply, Report, End
  <2>2. UNCHANGED verified
    BY <1>3 DEF Begin, Pick, Read, Decide, Apply, Report, End, history
  <2> QED BY <2>1, <2>2 DEF Under
<1>4. CASE Confirm
  BY <1>1, <1>4 DEF Confirm, Under, history, Runs
<1>5. CASE Verify
  BY <1>1, <1>5 DEF Verify, Under, Runs
<1>6. CASE Undo
  BY <1>6 DEF Undo, history
<1>7. CASE SyncFetch \/ SyncApply \/ NoteBegin \/ NoteEnd \/ Guard \/ Start \/ Ask \/ Turn
           \/ UNCHANGED vars
  BY <1>2, <1>7 DEF SyncFetch, SyncApply, NoteBegin, NoteEnd, Guard, Start, Ask, Turn, vars, history
<1> QED BY <1>3, <1>4, <1>5, <1>6, <1>7 DEF Next, RunStep

LEMMA HeldNext ==
    ASSUME TypeInv, HeldInv, [Next]_vars
    PROVE  HeldInv'
<1> DEFINE Done == Answered("done")
           Answer == [want |-> Want, listed |-> Listed, monitor |-> dash.monitor]
<1>1. Done \subseteq Done' /\ \A S, T : S \subseteq T => Closes(S) \subseteq Closes(T)
  BY DoneStays DEF Closes
<1>2. TypeOK /\ run \in Runs
  BY DEF TypeInv, TypeOK, Runs
<1> HIDE DEF Done
<1>3. Closes(Done) \subseteq Closes(Done')
  BY <1>1
<1>12. /\ fed => desired \subseteq Closes(Proven \cup Done)
       /\ overlay \subseteq Proven
       /\ fed => base \subseteq Closes(Done) \cup Closes(pending)
       /\ sync # NoSync => sync.want \subseteq Closes(Done) \cup Closes(sync.listed)
       /\ ~up => ~fed /\ sync = NoSync
  BY DEF HeldInv, Done
<1>13. SUFFICES /\ fed' => desired' \subseteq Closes(Proven' \cup Done')
                /\ overlay' \subseteq Proven'
                /\ fed' => base' \subseteq Closes(Done') \cup Closes(pending')
                /\ sync' # NoSync => sync'.want \subseteq Closes(Done') \cup Closes(sync'.listed)
                /\ ~up' => ~fed' /\ sync' = NoSync
  BY DEF HeldInv, Done
\* What is rendered, once the requests in the overlay are verified or tried.
<1>4. ASSUME NEW b \in SUBSET Targets, NEW pend \in SUBSET Ids, NEW mon \in BOOLEAN,
             NEW over \in SUBSET Ids, b \subseteq Closes(Done) \cup Closes(pend),
             over \subseteq Proven'
      PROVE  Rendered(b, pend, mon, over) \subseteq Closes(Proven' \cup Done')
  <2>1. Rendered(b, pend, mon, over) \subseteq (b \ Closes(pend)) \cup Closes(over)
    BY RenderedFrom
  <2>2. over \subseteq Proven' \cup Done' /\ Done \subseteq Proven' \cup Done'
    BY <1>1, <1>4
  <2>3. /\ Closes(over) \subseteq Closes(Proven' \cup Done')
        /\ Closes(Done) \subseteq Closes(Proven' \cup Done')
    BY <1>1, <2>2
  <2> QED BY <1>4, <2>1, <2>3
<1>5. CASE Crash
  <2>1. desired' = {} /\ overlay' = {} /\ base' = {} /\ sync' = NoSync /\ fed' = FALSE
    BY <1>5 DEF Crash
  <2> QED BY <2>1
<1>6. CASE SyncApply
  <2>1. sync \in Syncs /\ sync # NoSync
    BY <1>2, <1>6, SyncIs DEF SyncApply
  <2>2. /\ base' = sync.want /\ pending' = sync.listed /\ overlay' = overlay \cap sync.listed
        /\ sync' = NoSync /\ fed' = TRUE /\ up' = up
        /\ \E err \in BOOLEAN :
              Enforce(Rendered(sync.want, sync.listed, sync.monitor, overlay'), err)
    BY <1>6 DEF SyncApply, Kept
  <2>3. sync.want \in SUBSET Targets /\ sync.listed \in SUBSET Ids /\ sync.monitor \in BOOLEAN
    BY <2>1 DEF Syncs
  <2>4. Proven \subseteq Proven'
    BY <1>6 DEF SyncApply, Proven, Under, history
  <2>5. overlay' \in SUBSET Ids /\ overlay' \subseteq Proven'
    BY <1>12, <2>2, <2>3, <2>4
  <2>6. desired' \subseteq Closes(Proven' \cup Done')
    <3>1. desired' = Rendered(sync.want, sync.listed, sync.monitor, overlay')
      BY <2>2 DEF Enforce
    <3> QED BY <1>4, <1>12, <2>1, <2>3, <2>5, <3>1
  <2>7. ~(~up')
    BY <1>12, <2>1, <2>2, <1>2 DEF TypeOK
  <2> QED BY <1>3, <1>12, <2>1, <2>2, <2>5, <2>6, <2>7
<1>7. CASE Apply \/ Undo
  <2>1. run.id \in Ids
    BY <1>7 DEF TypeInv, AtRequest, Apply, Undo
  <2>2. /\ \E err \in BOOLEAN : Enforce(Rendered(base, pending, monitor, overlay'), err)
        /\ UNCHANGED <<base, pending, monitor, sync, up, fed, verified>>
    BY <1>7 DEF Apply, Undo, state, history
  <2>3. overlay' \in SUBSET Ids /\ overlay' \subseteq Proven'
    <3>1. CASE Apply
      <4>1. run.pc = "apply" /\ overlay' = overlay \cup {run.id} /\ run'.pc \in {"undo", "confirm"}
            /\ run'.id = run.id
        BY <1>2, <3>1 DEF Apply, Runs
      <4> QED BY <1>2, <1>12, <2>1, <2>2, <4>1 DEF TypeOK, Proven, Under
    <3>2. CASE Undo
      <4>1. run.pc = "undo" /\ overlay' = overlay \ {run.id}
        BY <3>2 DEF Undo
      <4> QED BY <1>2, <1>12, <2>2, <4>1 DEF TypeOK, Proven, Under
    <3> QED BY <1>7, <3>1, <3>2
  <2>4. fed' => desired' \subseteq Closes(Proven' \cup Done')
    <3>1. desired' = Rendered(base, pending, monitor, overlay')
      BY <2>2 DEF Enforce
    <3>2. base \in SUBSET Targets /\ pending \in SUBSET Ids /\ monitor \in BOOLEAN
      BY <1>2 DEF TypeOK
    <3> QED BY <1>4, <1>12, <2>2, <2>3, <3>1, <3>2
  <2> QED BY <1>3, <1>12, <2>2, <2>3, <2>4
\* The other steps enforce nothing, and only a fetch reads what is wanted.
<1>8. ASSUME UNCHANGED <<base, pending, overlay, desired, fed, up>>, Proven \subseteq Proven',
             sync' = sync \/ (up /\ sync' = Answer)
      PROVE  HeldInv'
  <2>1. Proven \cup Done \subseteq Proven' \cup Done'
    BY <1>1, <1>8
  <2>2. Closes(Proven \cup Done) \subseteq Closes(Proven' \cup Done')
    BY <1>1, <2>1
  <2>3. sync' # NoSync => sync'.want \subseteq Closes(Done') \cup Closes(sync'.listed)
    <3>1. CASE sync' = sync
      BY <1>3, <1>12, <3>1
    <3>2. CASE sync' = Answer
      BY <1>2, <1>3, <3>2, WantIsAsked DEF Done
    <3> QED BY <1>8, <3>1, <3>2
  <2> QED BY <1>3, <1>8, <1>12, <2>2, <2>3 DEF HeldInv, Done
<1>9. CASE Start
  <2>1. ~up /\ up' = TRUE
        /\ UNCHANGED <<fed, sync, overlay, pending, verified, run>>
    BY <1>9 DEF Start, history
  <2>2. Proven' = Proven
    BY <2>1 DEF Proven, Under
  <2> QED BY <1>12, <2>1, <2>2
<1>10. ASSUME [Next]_vars, ~Crash, ~SyncApply, ~Apply, ~Undo, ~Start PROVE HeldInv'
  <2>1. Proven \subseteq Proven'
    BY <1>10, UnderStays DEF Proven
  <2>2. UNCHANGED <<base, pending, overlay, desired, fed, up>>
        /\ (sync' = sync \/ (up /\ sync' = Answer))
    <3>1. CASE SyncFetch
      BY <3>1 DEF SyncFetch, state
    <3>2. CASE Begin \/ Pick \/ Read \/ Decide \/ Confirm \/ Verify \/ Report \/ End
      BY <3>2 DEF Begin, Pick, Read, Decide, Confirm, Verify, Report, End, RunOnly, state
    <3>3. CASE NoteBegin \/ NoteEnd \/ Guard \/ Ask \/ Turn \/ UNCHANGED vars
      BY <3>3 DEF NoteBegin, NoteEnd, Guard, Ask, Turn, state, vars
    <3> QED BY <1>10, <3>1, <3>2, <3>3 DEF Next, RunStep
  <2> QED BY <1>8, <2>1, <2>2
<1> QED BY <1>5, <1>6, <1>7, <1>9, <1>10 DEF HeldInv, Done

\* From the first sync of a life of the process on, nothing is enforced but what a
\* request closed that was verified, that the dashboard knows as done, or that is
\* being verified: not by a state that has a pending close already, not by a crash.
THEOREM PendingIsHeld == Spec => []PendingWaits
<1>1. Init => HeldInv
  BY DEF Init, HeldInv, NoSync
<1>2. HeldInv => PendingWaits
  <2> SUFFICES ASSUME HeldInv, fed
               PROVE  desired \subseteq Closes(verified \cup Answered("done")) \cup Trial
    BY DEF PendingWaits
  <2>1. desired \subseteq Closes((verified \cup Under) \cup Answered("done"))
    BY DEF HeldInv, Proven
  <2> QED BY <2>1 DEF Closes, Under, Trial
<1>3. HeldInv /\ TypeInv /\ [Next]_vars => HeldInv'
  BY HeldNext
<1> QED BY <1>1, <1>2, <1>3, TypesInit, TypesNext, PTL DEF Spec

----------------------------------------------------------------------------
(* Nothing is run twice.                                                   *)

Gone    == Answered("done") \cup Answered("failed")
Listing == IF sync = NoSync THEN {} ELSE sync.listed

\* What makes RunsOnce inductive.  Only requests a person made are on their way.  A
\* request that was run, and is neither with the goroutine, nor with the one to come,
\* nor in the sync's answer, has been answered for the dashboard, so no later answer
\* lists it: it can leave fwDone.
RunInv ==
    /\ (ran \cup run.all \cup spawned \cup Listing) \cap Answered("none") = {}
    /\ run.pc # "idle" => ran \ run.all \subseteq Gone \ (spawned \cup Listing)
    /\ spawned # {} => (ran \cup run.all) \ spawned \subseteq Gone \ Listing
    /\ sync # NoSync => (ran \cup run.all \cup spawned) \ Listing \subseteq Gone
    /\ ran \ done \subseteq Gone \ (run.all \cup spawned \cup Listing)
    /\ run.list \subseteq run.all
    /\ run.pc = "idle" => run.all = {}
    /\ run.pc = "report" => run.res # "none"

\* Answers are final, and nothing becomes unasked.
LEMMA StatusMoves ==
    ASSUME TypeInv, RunInv, [Next]_vars
    PROVE  Gone \subseteq Gone' /\ Answered("none")' \subseteq Answered("none")
<1>1. Gone \subseteq Gone'
  BY DoneStays DEF Gone
<1>2. ASSUME NEW i \in Ids, dash'.status[i] = "none" PROVE dash.status[i] = "none"
  <2>1. CASE Report
    <3>1. dash' = dash \/ (run.id \in Listed /\ dash' = [dash EXCEPT !.status[run.id] = run.res])
      BY <2>1 DEF Report
    <3>2. CASE dash' = dash
      BY <1>2, <3>2
    <3>3. CASE run.id \in Listed /\ dash' = [dash EXCEPT !.status[run.id] = run.res]
      <4>1. run.res # "none"
        BY <2>1 DEF Report, RunInv
      <4> QED BY <1>2, <3>3, <4>1 DEF TypeInv, TypeOK
    <3> QED BY <3>1, <3>2, <3>3
  <2>2. CASE Ask
    <3>1. PICK j \in Ids : dash.status[j] = "none" /\ \E s \in {"late", "early"} :
                               dash' = [dash EXCEPT !.status[j] = s]
      BY <2>2 DEF Ask
    <3> QED BY <1>2, <3>1 DEF TypeInv, TypeOK
  <2>3. CASE Turn
    BY <1>2, <2>3 DEF Turn, TypeInv, TypeOK
  <2>4. CASE SyncFetch \/ SyncApply \/ Begin \/ Pick \/ Read \/ Decide \/ Apply \/ Confirm \/ Verify
               \/ Undo \/ End
    BY <1>2, <2>4 DEF SyncFetch, SyncApply, Begin, Pick, Read, Decide, Apply, Confirm, Verify, Undo,
       End, RunOnly, world
  <2>5. CASE NoteBegin \/ NoteEnd \/ Guard \/ Crash \/ Start \/ UNCHANGED vars
    BY <1>2, <2>5 DEF NoteBegin, NoteEnd, Guard, Crash, Start, world, vars
  <2> QED BY <2>1, <2>2, <2>3, <2>4, <2>5 DEF Next, RunStep
<1> QED BY <1>1, <1>2 DEF Answered

LEMMA RunNext ==
    ASSUME TypeInv, RunInv, [Next]_vars
    PROVE  RunInv'
<1>1. /\ TypeOK /\ run \in Runs /\ NoRun.pc = "idle" /\ NoRun.all = {} /\ NoRun.list = {}
      /\ Gone \subseteq Gone' /\ Answered("none")' \subseteq Answered("none")
      /\ Listed \cap Gone = {} /\ Listed \cap Answered("none") = {}
      /\ Ids = Listed \cup Gone \cup Answered("none")
      /\ ran \subseteq Ids /\ run.all \subseteq Ids /\ spawned \subseteq Ids
  <2>1. TypeOK /\ run \in Runs
    BY DEF TypeInv, TypeOK, Runs
  <2>2. Ids = Listed \cup Gone \cup Answered("none")
    BY <2>1 DEF TypeOK, Listed, Gone, Answered, Status
  <2>3. Listed \cap Gone = {} /\ Listed \cap Answered("none") = {}
    BY DEF Listed, Gone, Answered
  <2>4. ran \subseteq Ids /\ run.all \subseteq Ids /\ spawned \subseteq Ids
    BY <2>1 DEF TypeOK, Runs
  <2> QED BY <2>1, <2>2, <2>3, <2>4, StatusMoves DEF NoRun
\* A step that leaves alone who has which request.
<1>2. ASSUME UNCHANGED <<ran, done, spawned, sync>>, run'.all = run.all,
             run'.list \subseteq run.list, run'.pc = "idle" <=> run.pc = "idle",
             run'.pc = "report" => run'.res # "none"
      PROVE  RunInv'
  BY <1>1, <1>2 DEF RunInv, Listing
<1>3. CASE SyncFetch
  <2>1. sync = NoSync /\ Listing' = Listed /\ UNCHANGED <<ran, done, spawned, run>>
    <3>1. [want |-> Want, listed |-> Listed, monitor |-> dash.monitor] # NoSync
      BY DEF NoSync
    <3> QED BY <1>3, <3>1 DEF SyncFetch, Listing, results, history
  <2> QED BY <1>1, <2>1 DEF RunInv, Listing
<1>4. CASE SyncApply
  <2>1. /\ sync # NoSync /\ sync' = NoSync /\ spawned = {} /\ spawned' = Listing /\ Listing' = {}
        /\ UNCHANGED <<ran, done, run>>
    BY <1>4 DEF SyncApply, Listing, results, history
  <2> QED BY <1>1, <2>1 DEF RunInv
<1>5. CASE Begin
  <2>1. /\ spawned # {} /\ spawned' = {} /\ UNCHANGED <<ran, done, sync>>
        /\ \/ run.pc # "idle" /\ run' = run
           \/ run.pc = "idle" /\ run'.pc = "pick" /\ run'.all = spawned /\ run'.list = spawned
    BY <1>5 DEF Begin, results, history, NoRun
  <2> QED BY <1>1, <2>1 DEF RunInv, Listing
<1>6. CASE Pick
  <2> DEFINE i == FirstOf(run.list)
  <2>1. i \in run.list /\ i \in run.all /\ run.pc = "pick"
    BY <1>1, <1>6, HasFirst DEF Pick, Runs, RunInv
  <2>2. UNCHANGED <<spawned, sync>>
    BY <1>6 DEF Pick, RunOnly
  <2>8. \/ /\ run' = [run EXCEPT !.list = run.list \ {i}, !.id = i]
           /\ UNCHANGED <<done, ran>>
        \/ /\ run' = [run EXCEPT !.list = run.list \ {i}, !.id = i, !.pc = "report",
                                 !.res = unsent[i]]
           /\ unsent[i] # "none" /\ UNCHANGED <<done, ran>>
        \/ /\ run' = [run EXCEPT !.list = run.list \ {i}, !.id = i, !.pc = "read",
                                 !.ran = run.ran + 1]
           /\ done' = done \cup {i} /\ ran' = ran \cup {i}
    BY <1>1, <1>6 DEF Pick, Runs
  <2> HIDE DEF i
  <2>3. /\ run'.all = run.all /\ run'.list \subseteq run.list /\ run'.pc # "idle"
        /\ (run'.pc = "report" => run'.res # "none")
        /\ \/ UNCHANGED <<done, ran>>
           \/ done' = done \cup {i} /\ ran' = ran \cup {i}
    <3>1. CASE run' = [run EXCEPT !.list = run.list \ {i}, !.id = i] /\ UNCHANGED <<done, ran>>
      BY <1>1, <2>1, <3>1 DEF Runs
    <3>2. CASE /\ run' = [run EXCEPT !.list = run.list \ {i}, !.id = i, !.pc = "report",
                                     !.res = unsent[i]]
               /\ unsent[i] # "none" /\ UNCHANGED <<done, ran>>
      BY <1>1, <3>2 DEF Runs
    <3>3. CASE /\ run' = [run EXCEPT !.list = run.list \ {i}, !.id = i, !.pc = "read",
                                     !.ran = run.ran + 1]
               /\ done' = done \cup {i} /\ ran' = ran \cup {i}
      BY <1>1, <3>3 DEF Runs
    <3> QED BY <2>8, <3>1, <3>2, <3>3
  <2>4. Listing' = Listing /\ ran' \ run.all = ran \ run.all /\ ran' \ done' \subseteq ran \ done
        /\ ran' \cup run.all = ran \cup run.all
    BY <2>1, <2>2, <2>3 DEF Listing
  <2> QED BY <1>1, <2>1, <2>2, <2>3, <2>4 DEF RunInv
<1>7. CASE End
  <2>1. /\ run.pc = "pick" /\ run' = NoRun /\ done' = done \cap run.all
        /\ UNCHANGED <<ran, spawned, sync>>
    <3>1. done \ (Ids \ run.all) = done \cap run.all
      BY <1>1 DEF TypeOK
    <3> QED BY <1>7, <3>1 DEF End, Settled, RunOnly, history
  <2>2. ran \ done' = (ran \ done) \cup (ran \ run.all)
    BY <2>1
  <2> QED BY <1>1, <2>1, <2>2 DEF RunInv, Listing
<1>8. CASE Crash
  <2>1. /\ ran' = {} /\ spawned' = {} /\ sync' = NoSync /\ run' = NoRun /\ Listing' = {}
    BY <1>8 DEF Crash, Listing
  <2> QED BY <1>1, <2>1 DEF RunInv
<1>9. CASE Read \/ Decide \/ Apply \/ Confirm \/ Verify \/ Undo \/ Report
  <2>1. UNCHANGED <<ran, done, spawned, sync>>
    BY <1>9 DEF Read, Decide, Apply, Confirm, Verify, Undo, Report, RunOnly, results, history
  <2>2. /\ run.pc # "idle" /\ run'.pc # "idle" /\ run'.all = run.all /\ run'.list = run.list
        /\ run'.pc = "report" => run'.res # "none"
    <3>1. CASE Read
      BY <1>1, <3>1 DEF Read, Runs
    <3>2. CASE Decide
      BY <1>1, <3>2 DEF Decide, Runs
    <3>3. CASE Apply
      BY <1>1, <3>3 DEF Apply, Runs
    <3>4. CASE Confirm
      BY <1>1, <3>4 DEF Confirm, Runs
    <3>5. CASE Verify
      BY <1>1, <3>5 DEF Verify, Runs
    <3>6. CASE Undo \/ Report
      BY <1>1, <3>6 DEF Undo, Report, Runs
    <3> QED BY <1>9, <3>1, <3>2, <3>3, <3>4, <3>5, <3>6
  <2> QED BY <1>2, <2>1, <2>2
<1>10. CASE NoteBegin \/ NoteEnd \/ Guard \/ Start \/ Ask \/ Turn \/ UNCHANGED vars
  <2>1. UNCHANGED <<ran, done, spawned, sync, run>>
    BY <1>10 DEF NoteBegin, NoteEnd, Guard, Start, Ask, Turn, vars, results, history
  <2> QED BY <1>2, <2>1 DEF RunInv
<1> QED BY <1>3, <1>4, <1>5, <1>6, <1>7, <1>8, <1>9, <1>10 DEF Next, RunStep

\* A request is run once in a life of the process, whatever syncs cross its result and
\* whatever results are sent again.
THEOREM RunAtMostOnce == Spec => [][RunsOnce]_vars
<1>1. Init => RunInv
  BY DEF Init, RunInv, NoRun, NoSync, Listing
<1>2. TypeInv /\ RunInv /\ [Next]_vars => RunInv'
  BY RunNext
<1>3. TypeInv /\ RunInv /\ [Next]_vars => [RunsOnce]_vars
  <2> SUFFICES ASSUME TypeInv, RunInv, [Next]_vars, NEW i \in Ids, i \in done' \ done
               PROVE  i \notin ran
    BY DEF RunsOnce
  <2>1. CASE Pick
    <3>1. run.list \in SUBSET Ids /\ run.list # {} /\ run.list \subseteq run.all
      BY <2>1 DEF Pick, TypeInv, TypeOK, RunInv
    <3>2. i = FirstOf(run.list)
      BY <2>1 DEF Pick
    <3> QED BY <3>1, <3>2, HasFirst DEF RunInv
  <2>2. CASE End \/ Crash
    BY <2>2 DEF End, Crash
  <2>3. ASSUME ~Pick, ~End, ~Crash PROVE UNCHANGED done
    <3>1. CASE SyncFetch \/ SyncApply \/ Begin \/ Read \/ Decide \/ Apply \/ Confirm \/ Verify
                 \/ Undo \/ Report
      BY <3>1 DEF SyncFetch, SyncApply, Begin, Read, Decide, Apply, Confirm, Verify, Undo, Report,
         results
    <3>2. CASE NoteBegin \/ NoteEnd \/ Guard \/ Start \/ Ask \/ Turn \/ UNCHANGED vars
      BY <3>2 DEF NoteBegin, NoteEnd, Guard, Start, Ask, Turn, vars, results
    <3> QED BY <2>3, <3>1, <3>2 DEF Next, RunStep
  <2> QED BY <2>1, <2>2, <2>3
<1> QED BY <1>1, <1>2, <1>3, TypesInit, TypesNext, PTL DEF Spec
=============================================================================
