------------------------ MODULE FirewallRulesProofs ------------------------
(***************************************************************************)
(* Theorems about FirewallRules, for every set of rules, every assignment  *)
(* of arguments to them and every bound: the chain is the table's, and a   *)
(* sync takes out no rule the dashboard has.                               *)
(***************************************************************************)
EXTENDS FirewallRules, TLAPS

\* What each section under the lock does to the types.
LEMMA ApplyType ==
    ASSUME TypeOK, NEW id \in ID, Apply(id)
    PROVE  /\ known' \subseteq ID /\ userRules' \subseteq Arg
           /\ touched' \subseteq ID /\ ruleRemoved' \subseteq ID
  BY ArgsAssumption DEF TypeOK, Apply

LEMMA RemoveType ==
    ASSUME TypeOK, NEW id \in ID, Remove(id)
    PROVE  /\ known' \subseteq ID /\ userRules' \subseteq Arg
           /\ touched' \subseteq ID /\ ruleRemoved' \subseteq ID
  BY DEF TypeOK, Remove, Used

LEMMA ReconcileType ==
    ASSUME TypeOK, NEW keep, Reconcile(keep)
    PROVE  /\ known' \subseteq ID /\ userRules' \subseteq Arg
           /\ touched' \subseteq ID /\ ruleRemoved' \subseteq ID
  BY DEF TypeOK, Reconcile, Used, Dropped

LEMMA EnsureType ==
    ASSUME TypeOK, EnsureOK \/ EnsureFail
    PROVE  kernel' \subseteq Arg /\ fails' \in Nat
  BY DEF TypeOK, EnsureOK, EnsureFail

LEMMA AckType ==
    ASSUME TypeOK, NEW id \in ID, NEW s \in Status, Ack(id, s)
    PROVE  dash' \in [ID -> Status]
  BY DEF TypeOK, Ack

LEMMA AppendType ==
    ASSUME NEW S, NEW s \in Seq(S), NEW e \in S
    PROVE  Append(s, e) \in Seq(S)
  OBVIOUS

LEMMA PushType ==
    ASSUME TypeOK, NEW id \in ID, NEW kind \in {"created", "removed"}, Push(kind, id)
    PROVE  wire' \in Seq(Message) /\ lost' \in BOOLEAN
<1>1. [kind |-> kind, id |-> id] \in Message
  BY DEF Message
<1>2. wire \in Seq(Message) /\ lost \in BOOLEAN
  BY DEF TypeOK
<1>3. Append(wire, [kind |-> kind, id |-> id]) \in Seq(Message)
  BY <1>1, <1>2, AppendType
<1> QED BY <1>2, <1>3 DEF Push

\* The message at the head of the wire is one, and those behind it too.
LEMMA HeadType ==
    ASSUME TypeOK, wire # <<>>
    PROVE  Head(wire) \in Message /\ Head(wire).id \in ID /\ Tail(wire) \in Seq(Message)
<1>1. Head(wire) \in Message /\ Tail(wire) \in Seq(Message)
  BY DEF TypeOK
<1> QED BY <1>1 DEF Message

\* Every step keeps the types.
LEMMA TypeNext ==
    ASSUME TypeOK, [Next]_vars
    PROVE  TypeOK'
<1>1. ASSUME NEW id \in ID, DashCreate(id) PROVE TypeOK'
  BY <1>1, PushType DEF DashCreate, TypeOK, Status, table, bounds
<1>2. ASSUME NEW id \in ID, DashDelete(id) PROVE TypeOK'
  BY <1>2, PushType DEF DashDelete, TypeOK, Status, table, bounds
<1>3. ASSUME RuleCreated PROVE TypeOK'
  BY <1>3, HeadType, ApplyType DEF RuleCreated, TypeOK, WsState, bounds
<1>4. ASSUME RuleRemoved PROVE TypeOK'
  BY <1>4, HeadType, RemoveType DEF RuleRemoved, TypeOK, WsState, bounds, IdleWs
<1>5. ASSUME WsEnsure PROVE TypeOK'
  BY <1>5, EnsureType DEF WsEnsure, TypeOK, WsState, table, IdleWs
<1>6. ASSUME WsAck PROVE TypeOK'
  BY <1>6, AckType DEF WsAck, TypeOK, WsState, table, bounds, IdleWs, Status
<1>7. ASSUME SyncBegin PROVE TypeOK'
  BY <1>7 DEF SyncBegin, TypeOK, SyncState, OnRule, bounds, IdleSync
<1>8. ASSUME SyncFetch PROVE TypeOK'
  <2> DEFINE some == \E i \in ID : Listed(dash[i])
             list == {i \in ID : InForce(dash[i])}
  <2>1. some \in BOOLEAN /\ list \in SUBSET ID
    OBVIOUS
  <2>2. \/ sync' = [sync EXCEPT !.pc = "rules", !.any = some, !.todo = list]
        \/ sync' = [sync EXCEPT !.pc = "rules"]
    BY <1>8 DEF SyncFetch
  <2>3. faults' \in Nat
    BY <1>8 DEF SyncFetch, TypeOK
  <2>4. UNCHANGED <<dash, wire, table, kernel, ws, lost, fails, restarts>>
    BY <1>8 DEF SyncFetch
  <2> HIDE DEF some, list
  <2> QED BY <2>1, <2>2, <2>3, <2>4 DEF TypeOK, table, SyncState, OnRule
<1>9. ASSUME NEW id \in ID, SyncCheck(id) PROVE TypeOK'
  BY <1>9 DEF SyncCheck, TypeOK, SyncState, OnRule, table, bounds
<1>10. ASSUME SyncApply PROVE TypeOK'
  BY <1>10, ApplyType DEF SyncApply, TypeOK, SyncState, OnRule, bounds
<1>11. ASSUME SyncEnsure PROVE TypeOK'
  BY <1>11, EnsureType DEF SyncEnsure, TypeOK, SyncState, OnRule, table
<1>12. ASSUME SyncAck PROVE TypeOK'
  BY <1>12, AckType DEF SyncAck, TypeOK, SyncState, OnRule, table, bounds, Status
<1>13. ASSUME SyncReconcile PROVE TypeOK'
  <2>1. /\ known' \subseteq ID /\ userRules' \subseteq Arg
        /\ touched' \subseteq ID /\ ruleRemoved' \subseteq ID
    <3>1. CASE sync.any
      BY <1>13, <3>1, ReconcileType DEF SyncReconcile
    <3>2. CASE ~sync.any
      BY <1>13, <3>2 DEF SyncReconcile, table, TypeOK
    <3> QED BY <3>1, <3>2
  <2>2. sync' = IdleSync \/ sync' = [IdleSync EXCEPT !.pc = "ensure_last"]
    BY <1>13 DEF SyncReconcile
  <2>3. UNCHANGED <<dash, wire, kernel, ws, lost, bounds>>
    BY <1>13 DEF SyncReconcile
  <2>4. sync' \in SyncState /\ sync'.pc \notin OnRule
    <3>1. IdleSync \in SyncState /\ IdleSync.pc \notin OnRule
      BY DEF IdleSync, SyncState, OnRule
    <3>2. CASE sync' = [IdleSync EXCEPT !.pc = "ensure_last"]
      BY <3>1, <3>2 DEF SyncState, OnRule
    <3> QED BY <2>2, <3>1, <3>2
  <2> QED BY <2>1, <2>3, <2>4 DEF TypeOK, bounds
<1>14. ASSUME SyncLastEnsure PROVE TypeOK'
  BY <1>14, EnsureType DEF SyncLastEnsure, TypeOK, SyncState, OnRule, table, IdleSync
<1>15. ASSUME Guard PROVE TypeOK'
  BY <1>15, EnsureType DEF Guard, TypeOK, table
<1>16. ASSUME Restart PROVE TypeOK'
  BY <1>16 DEF Restart, TypeOK, WsState, SyncState, OnRule, IdleWs, IdleSync
<1>17. CASE UNCHANGED vars
  BY <1>17 DEF TypeOK, vars
<1> QED BY <1>1, <1>2, <1>3, <1>4, <1>5, <1>6, <1>7, <1>8, <1>9, <1>10, <1>11, <1>12, <1>13,
           <1>14, <1>15, <1>16, <1>17 DEF Next, Listen, SyncStep

LEMMA TypeInit == Init => TypeOK
<1> SUFFICES ASSUME Init PROVE TypeOK
  OBVIOUS
<1>1. wire \in Seq(Message)
  BY DEF Init
<1> QED BY <1>1 DEF Init, TypeOK, WsState, SyncState, OnRule, Status, IdleWs, IdleSync

\* Every variable keeps its type, and a goroutine about to apply or answer
\* for a rule names one.
THEOREM TypeCorrect == Spec => []TypeOK
  BY TypeInit, TypeNext, PTL DEF Spec

---------------------------------------------------------------------------
\* fw.userRules is at every moment the arguments of the IDs in force, however
\* many IDs share them.
THEOREM ChainIsTable == Spec => []ChainMatchesTable
<1>1. Init => ChainMatchesTable
  BY DEF Init, ChainMatchesTable
<1>2. TypeOK /\ ChainMatchesTable /\ [Next]_vars => ChainMatchesTable'
  <2> SUFFICES ASSUME TypeOK, ChainMatchesTable, [Next]_vars PROVE ChainMatchesTable'
    OBVIOUS
  <2>1. CASE UNCHANGED <<known, userRules>>
    BY <2>1 DEF ChainMatchesTable
  <2>2. ASSUME NEW id, Apply(id) PROVE ChainMatchesTable'
    BY <2>2 DEF Apply, ChainMatchesTable
  <2>3. ASSUME NEW id, Remove(id) PROVE ChainMatchesTable'
    <3>1. CASE id \in known
      BY <2>3, <3>1 DEF Remove, Used, ChainMatchesTable
    <3>2. CASE id \notin known
      BY <2>3, <3>2 DEF Remove, ChainMatchesTable
    <3> QED BY <3>1, <3>2
  <2>4. ASSUME NEW keep, Reconcile(keep) PROVE ChainMatchesTable'
    BY <2>4 DEF Reconcile, Used, Dropped, ChainMatchesTable
  <2>5. CASE SyncReconcile
    BY <2>1, <2>4, <2>5 DEF SyncReconcile, table
  <2>6. CASE Restart
    BY <2>6 DEF Restart, ChainMatchesTable
  <2> QED BY <2>1, <2>2, <2>3, <2>5, <2>6
          DEF Next, Listen, SyncStep, DashCreate, DashDelete, RuleCreated, RuleRemoved,
              WsEnsure, WsAck, SyncBegin, SyncFetch, SyncCheck, SyncApply, SyncEnsure,
              SyncAck, SyncLastEnsure, Guard, table, vars
<1> QED BY <1>1, <1>2, TypeCorrect, PTL DEF Spec

---------------------------------------------------------------------------
(* A sync takes out no rule the dashboard has.                             *)

\* Why it holds: once the answer has come, a rule in force there that the
\* table has and nobody touched since the request is one of those the sync
\* has applied, is applying or has still to look at.  The other conjuncts
\* make that inductive: a rule the agent has heard of has been created, and
\* without a failure of iptables none is marked failed.
NoneFailed  == /\ ws.pc # "ack_failed" /\ sync.pc # "ack_failed"
               /\ \A i \in ID : dash[i] # "failed"
KnownHeard  == \A i \in known : dash[i] # "absent"
ListHeard   == /\ \A i \in sync.todo : dash[i] # "absent"
               /\ sync.pc \in OnRule => dash[sync.id] # "absent"
WireHeard   == \A n \in 1..Len(wire) : dash[wire[n].id] # "absent"
InHand      == sync.todo \cup sync.keep \cup {i \in ID : sync.pc = "apply" /\ i = sync.id}
AllInHand   == \A i \in known \ touched : InForce(dash[i]) => i \in InHand
Answered    == sync.pc \in OnRule \cup {"rules"} /\ sync.any
FetchFresh  == sync.pc = "fetch" => ~sync.any
RulesInv    == /\ fails = 0 => NoneFailed
               /\ KnownHeard /\ ListHeard /\ WireHeard /\ FetchFresh
               /\ Answered /\ fails = 0 => AllInHand

LEMMA InvInit == Init => RulesInv
  BY DEF Init, RulesInv, FetchFresh, KnownHeard, ListHeard, WireHeard, Answered, NoneFailed, IdleWs, IdleSync, OnRule

\* A rule once created never is absent again.
LEMMA CreatedStays ==
    ASSUME TypeOK, Next, NEW i \in ID, dash[i] # "absent"
    PROVE  dash'[i] # "absent"
<1>0. dash \in [ID -> Status] /\ (ws.pc # "idle" => ws.id \in ID)
      /\ (sync.pc \in OnRule => sync.id \in ID)
  BY DEF TypeOK
<1>1. ASSUME NEW id \in ID, NEW s \in {"synced", "failed"}, Ack(id, s) PROVE dash'[i] # "absent"
  BY <1>0, <1>1 DEF Ack
<1>2. ASSUME NEW id \in ID, DashCreate(id) \/ DashDelete(id) PROVE dash'[i] # "absent"
  BY <1>0, <1>2 DEF DashCreate, DashDelete
<1>3. CASE WsAck
  BY <1>0, <1>1, <1>3 DEF WsAck
<1>4. CASE SyncAck
  BY <1>0, <1>1, <1>4 DEF SyncAck, OnRule
<1>5. CASE dash' = dash
  BY <1>5
<1> QED BY <1>2, <1>3, <1>4, <1>5
        DEF Next, Listen, SyncStep, RuleCreated, RuleRemoved, WsEnsure, SyncBegin, SyncFetch,
            SyncCheck, SyncApply, SyncEnsure, SyncReconcile, SyncLastEnsure, Guard, Restart

\* While iptables never failed, no rule is marked failed and nobody is about
\* to say so.
LEMMA NoneFailedStays ==
    ASSUME TypeOK, Next, fails = 0 => NoneFailed, fails' = 0
    PROVE  NoneFailed'
<1>1. fails = 0
  <2>1. fails' = fails \/ EnsureFail
    BY DEF Next, Listen, SyncStep, DashCreate, DashDelete, RuleCreated, RuleRemoved, WsEnsure,
           WsAck, SyncBegin, SyncFetch, SyncCheck, SyncApply, SyncEnsure, SyncAck,
           SyncReconcile, SyncLastEnsure, Guard, Restart, EnsureOK, bounds
  <2> QED BY <2>1 DEF EnsureFail, TypeOK
<1>2. NoneFailed /\ ~EnsureFail
  BY <1>1 DEF EnsureFail
<1>3. \A i \in ID : dash'[i] # "failed"
  <2>1. ASSUME NEW id \in ID, Ack(id, "synced") PROVE \A i \in ID : dash'[i] # "failed"
    BY <1>2, <2>1 DEF Ack, NoneFailed, TypeOK
  <2>2. ASSUME NEW id \in ID, DashCreate(id) \/ DashDelete(id)
        PROVE  \A i \in ID : dash'[i] # "failed"
    BY <1>2, <2>2 DEF DashCreate, DashDelete, NoneFailed, TypeOK
  <2>3. CASE WsAck
    BY <1>2, <2>1, <2>3 DEF WsAck, NoneFailed, TypeOK
  <2>4. CASE SyncAck
    BY <1>2, <2>1, <2>4 DEF SyncAck, NoneFailed, TypeOK, OnRule
  <2>5. CASE dash' = dash
    BY <1>2, <2>5 DEF NoneFailed
  <2> QED BY <2>2, <2>3, <2>4, <2>5
          DEF Next, Listen, SyncStep, RuleCreated, RuleRemoved, WsEnsure, SyncBegin, SyncFetch,
              SyncCheck, SyncApply, SyncEnsure, SyncReconcile, SyncLastEnsure, Guard, Restart
<1>4. ws'.pc # "ack_failed"
  <2>1. CASE ws' = ws
    BY <1>2, <2>1 DEF NoneFailed
  <2>2. CASE RuleCreated
    BY <2>2 DEF RuleCreated
  <2>3. CASE RuleRemoved
    BY <2>3 DEF RuleRemoved, IdleWs
  <2>4. CASE WsEnsure
    BY <1>2, <2>4 DEF WsEnsure, IdleWs, TypeOK, WsState
  <2>5. CASE WsAck \/ Restart
    BY <2>5 DEF WsAck, Restart, IdleWs
  <2> QED BY <2>1, <2>2, <2>3, <2>4, <2>5
          DEF Next, Listen, SyncStep, DashCreate, DashDelete, SyncBegin, SyncFetch, SyncCheck,
              SyncApply, SyncEnsure, SyncAck, SyncReconcile, SyncLastEnsure, Guard
<1>5. sync'.pc # "ack_failed"
  <2>1. CASE sync' = sync
    BY <1>2, <2>1 DEF NoneFailed
  <2>2. CASE SyncEnsure
    BY <1>2, <2>2 DEF SyncEnsure, TypeOK, SyncState
  <2>3. CASE SyncApply
    BY <2>3 DEF SyncApply, TypeOK, SyncState
  <2>4. CASE SyncReconcile \/ SyncBegin \/ SyncLastEnsure \/ Restart
    BY <2>4 DEF SyncReconcile, SyncBegin, SyncLastEnsure, Restart, IdleSync
  <2>5. CASE SyncFetch \/ SyncAck
    BY <2>5 DEF SyncFetch, SyncAck, TypeOK, SyncState
  <2>6. ASSUME NEW id \in ID, SyncCheck(id) PROVE sync'.pc # "ack_failed"
    BY <2>6 DEF SyncCheck, TypeOK, SyncState
  <2> QED BY <2>1, <2>2, <2>3, <2>4, <2>5, <2>6
          DEF Next, Listen, SyncStep, DashCreate, DashDelete, RuleCreated, RuleRemoved,
              WsEnsure, WsAck, Guard
<1> QED BY <1>3, <1>4, <1>5 DEF NoneFailed

\* What the agent has heard of has been created: on the wire,
LEMMA WireHeardStays ==
    ASSUME TypeOK, Next, WireHeard
    PROVE  WireHeard'
<1>0. \A i \in ID : dash[i] # "absent" => dash'[i] # "absent"
  BY CreatedStays
<1>1. wire \in Seq(Message)
  BY DEF TypeOK
<1>2. \A n \in 1..Len(wire) : wire[n].id \in ID
  <2>1. \A n \in 1..Len(wire) : wire[n] \in Message
    BY <1>1
  <2> QED BY <2>1 DEF Message
<1>3. \A n \in 1..Len(wire) : dash'[wire[n].id] # "absent"
  BY <1>0, <1>2 DEF WireHeard
<1>4. CASE wire' = wire
  BY <1>3, <1>4 DEF WireHeard
<1>5. CASE wire' = Tail(wire) /\ wire # <<>>
  <2>1. Len(wire') = Len(wire) - 1 /\ \A n \in 1..Len(wire') : wire'[n] = wire[n + 1]
    BY <1>1, <1>5
  <2>2. \A n \in 1..Len(wire') : n + 1 \in 1..Len(wire)
    BY <1>1, <2>1
  <2> QED BY <1>3, <2>1, <2>2 DEF WireHeard
<1>6. ASSUME NEW kind, NEW id \in ID, wire' = Append(wire, [kind |-> kind, id |-> id]),
             dash'[id] # "absent"
      PROVE  WireHeard'
  <2>1. /\ Len(wire') = Len(wire) + 1
        /\ \A n \in 1..Len(wire) : wire'[n] = wire[n]
        /\ wire'[Len(wire) + 1].id = id
    BY <1>1, <1>6
  <2>2. Len(wire) \in Nat
    BY <1>1
  <2>3. \A n \in 1..Len(wire') : n \in 1..Len(wire) \/ n = Len(wire) + 1
    BY <2>1, <2>2
  <2> QED BY <1>3, <1>6, <2>1, <2>3 DEF WireHeard
<1>7. ASSUME NEW id \in ID, DashCreate(id) \/ DashDelete(id) PROVE WireHeard'
  <2>1. dash'[id] # "absent"
    BY <1>7 DEF DashCreate, DashDelete, TypeOK
  <2>2. \E kind \in {"created", "removed"} : Push(kind, id)
    BY <1>7 DEF DashCreate, DashDelete
  <2> QED BY <1>4, <1>6, <2>1, <2>2 DEF Push
<1>8. CASE wire' = <<>>
  BY <1>8 DEF WireHeard
<1> QED BY <1>4, <1>5, <1>7, <1>8
        DEF Next, Listen, SyncStep, RuleCreated, RuleRemoved, WsEnsure, WsAck, SyncBegin,
            SyncFetch, SyncCheck, SyncApply, SyncEnsure, SyncAck, SyncReconcile,
            SyncLastEnsure, Guard, Restart

\* in the list of a sync,
LEMMA ListHeardStays ==
    ASSUME TypeOK, Next, ListHeard
    PROVE  ListHeard'
<1>0. \A i \in ID : dash[i] # "absent" => dash'[i] # "absent"
  BY CreatedStays
<1>1. /\ sync \in SyncState
      /\ sync.pc \in OnRule => sync.id \in ID /\ dash'[sync.id] # "absent"
      /\ \A i \in sync.todo : i \in ID /\ dash'[i] # "absent"
  BY <1>0 DEF ListHeard, TypeOK, SyncState
<1>2. CASE sync' = sync
  BY <1>1, <1>2 DEF ListHeard
<1>3. CASE SyncFetch
  <2>1. \A i \in sync'.todo : i \in sync.todo \/ (i \in ID /\ InForce(dash[i]))
    <3> DEFINE some == \E i \in ID : Listed(dash[i])
               list == {i \in ID : InForce(dash[i])}
    <3>1. \/ sync' = [sync EXCEPT !.pc = "rules", !.any = some, !.todo = list]
          \/ sync' = [sync EXCEPT !.pc = "rules"]
      BY <1>3 DEF SyncFetch
    <3> HIDE DEF some, list
    <3>2. sync'.todo = list \/ sync'.todo = sync.todo
      BY <1>1, <3>1 DEF SyncState
    <3> QED BY <3>2 DEF list
  <2>2. sync'.pc \notin OnRule /\ dash' = dash
    BY <1>1, <1>3 DEF SyncFetch, SyncState, OnRule
  <2> QED BY <1>1, <2>1, <2>2 DEF ListHeard, InForce
<1>4. ASSUME NEW id \in ID, SyncCheck(id) PROVE ListHeard'
  BY <1>1, <1>4 DEF SyncCheck, SyncState, OnRule, ListHeard
<1>5. CASE SyncApply
  BY <1>1, <1>5 DEF SyncApply, SyncState, OnRule, ListHeard
<1>6. CASE SyncEnsure
  BY <1>1, <1>6 DEF SyncEnsure, SyncState, OnRule, ListHeard
<1>7. CASE SyncAck
  <2>1. sync'.todo = sync.todo /\ sync'.pc = "rules"
    BY <1>1, <1>7 DEF SyncAck, SyncState
  <2> QED BY <1>1, <2>1 DEF OnRule, ListHeard
<1>8. CASE SyncReconcile \/ SyncBegin \/ SyncLastEnsure \/ Restart
  <2>1. sync'.todo = {} /\ sync'.pc \notin OnRule
    BY <1>8 DEF SyncReconcile, SyncBegin, SyncLastEnsure, Restart, IdleSync, OnRule
  <2> QED BY <2>1 DEF ListHeard
<1> QED BY <1>2, <1>3, <1>4, <1>5, <1>6, <1>7, <1>8
        DEF Next, Listen, SyncStep, DashCreate, DashDelete, RuleCreated, RuleRemoved,
            WsEnsure, WsAck, Guard

\* and in the table.
LEMMA KnownHeardStays ==
    ASSUME TypeOK, Next, KnownHeard, ListHeard, WireHeard
    PROVE  KnownHeard'
<1>0. \A i \in ID : dash[i] # "absent" => dash'[i] # "absent"
  BY CreatedStays
<1>1. \A i \in known : i \in ID /\ dash'[i] # "absent"
  BY <1>0 DEF KnownHeard, TypeOK
<1>2. CASE known' \subseteq known
  BY <1>1, <1>2 DEF KnownHeard
<1>3. CASE RuleCreated
  <2>1. known' = known \cup {Head(wire).id} /\ Head(wire).id \in ID
    BY <1>3, HeadType DEF RuleCreated, Apply
  <2>2. Head(wire) = wire[1] /\ 1 \in 1..Len(wire)
    BY <1>3 DEF RuleCreated, TypeOK
  <2> QED BY <1>0, <1>1, <2>1, <2>2 DEF WireHeard, KnownHeard
<1>4. CASE SyncApply
  <2>1. known' = known \cup {sync.id} /\ sync.id \in ID /\ dash[sync.id] # "absent"
    BY <1>4 DEF SyncApply, Apply, ListHeard, TypeOK, OnRule
  <2> QED BY <1>0, <1>1, <2>1 DEF KnownHeard
<1>5. CASE RuleRemoved \/ SyncReconcile \/ Restart
  BY <1>2, <1>5 DEF RuleRemoved, SyncReconcile, Restart, Remove, Reconcile, table
<1> QED BY <1>2, <1>3, <1>4, <1>5
        DEF Next, Listen, SyncStep, DashCreate, DashDelete, WsEnsure, WsAck, SyncBegin,
            SyncFetch, SyncCheck, SyncEnsure, SyncAck, SyncLastEnsure, Guard, table

LEMMA FetchFreshStays ==
    ASSUME TypeOK, Next, FetchFresh
    PROVE  FetchFresh'
<1>0. sync \in SyncState
  BY DEF TypeOK
<1>1. CASE sync' = sync
  BY <1>1 DEF FetchFresh
<1>2. CASE SyncBegin
  BY <1>2 DEF SyncBegin, IdleSync, FetchFresh
<1>3. CASE sync'.pc # "fetch"
  BY <1>3 DEF FetchFresh
<1>4. ASSUME NEW id \in ID, SyncCheck(id) PROVE sync'.pc # "fetch"
  BY <1>0, <1>4 DEF SyncCheck, SyncState
<1>5. CASE SyncFetch
  <2>1. sync'.pc = "rules"
    BY <1>0, <1>5 DEF SyncFetch, SyncState
  <2> QED BY <1>3, <2>1
<1>6. CASE SyncApply \/ SyncEnsure \/ SyncAck
  <2>1. sync'.pc # "fetch"
    BY <1>0, <1>6 DEF SyncApply, SyncEnsure, SyncAck, SyncState
  <2> QED BY <1>3, <2>1
<1>7. CASE SyncReconcile \/ SyncLastEnsure \/ Restart
  <2>1. sync'.pc # "fetch"
    BY <1>7 DEF SyncReconcile, SyncLastEnsure, Restart, IdleSync
  <2> QED BY <1>3, <2>1
<1> QED BY <1>1, <1>2, <1>3, <1>4, <1>5, <1>6, <1>7
        DEF Next, Listen, SyncStep, DashCreate, DashDelete, RuleCreated, RuleRemoved,
            WsEnsure, WsAck, Guard

\* What is in hand stays so until the sync is over.
LEMMA InHandStays ==
    ASSUME TypeOK, Next, RulesInv, NoneFailed, fails = 0, Answered'
    PROVE  AllInHand'
<1>0. /\ known \subseteq ID /\ touched \subseteq ID /\ sync \in SyncState
      /\ \A i \in known : dash[i] # "absent"
      /\ Answered => AllInHand
      /\ FetchFresh
      /\ dash \in [ID -> Status]
      /\ sync.pc \in OnRule => sync.id \in ID
  BY DEF RulesInv, KnownHeard, TypeOK
\* A created rule comes into force only by an answer about a failed one.
<1> DEFINE NoneBack == \A i \in ID : dash[i] # "absent" /\ InForce(dash'[i]) => InForce(dash[i])
<1>1. NoneBack
  <2>0. \A i \in ID : dash[i] # "failed"
    BY DEF NoneFailed
  <2>1. ASSUME NEW id \in ID, NEW s, Ack(id, s) PROVE NoneBack
    BY <1>0, <2>0, <2>1 DEF Ack, InForce, Listed
  <2>2. ASSUME NEW id \in ID, DashCreate(id) \/ DashDelete(id) PROVE NoneBack
    BY <1>0, <2>2 DEF DashCreate, DashDelete, InForce
  <2>3. CASE WsAck
    BY <2>1, <2>3 DEF WsAck, TypeOK
  <2>4. CASE SyncAck
    BY <1>0, <2>1, <2>4 DEF SyncAck, OnRule
  <2>5. CASE dash' = dash
    BY <2>5
  <2> QED BY <2>2, <2>3, <2>4, <2>5
          DEF Next, Listen, SyncStep, RuleCreated, RuleRemoved, WsEnsure, SyncBegin, SyncFetch,
              SyncCheck, SyncApply, SyncEnsure, SyncReconcile, SyncLastEnsure, Guard, Restart
<1>2. ASSUME Answered, AllInHand, known' \ touched' \subseteq known \ touched,
             InHand \subseteq InHand' \cup touched'
      PROVE  AllInHand'
  BY <1>0, <1>1, <1>2 DEF AllInHand
<1>3. CASE sync' = sync
  <2>1. Answered /\ AllInHand /\ InHand' = InHand
    BY <1>0, <1>3 DEF Answered, InHand
  <2>2. known' \ touched' \subseteq known \ touched
    <3>0. sync.pc \in OnRule \cup {"rules"} /\ sync'.pc = sync.pc
      BY <1>3, <2>1 DEF Answered
    <3>1. CASE SyncApply
      BY <1>0, <1>3, <3>1 DEF SyncApply, SyncState
    <3>2. CASE SyncReconcile
      BY <3>0, <3>2 DEF SyncReconcile, IdleSync, OnRule
    <3>3. CASE SyncBegin \/ Restart
      BY <3>0, <3>3 DEF SyncBegin, Restart, IdleSync, OnRule
    <3>4. CASE RuleCreated \/ RuleRemoved
      BY <3>4 DEF RuleCreated, RuleRemoved, Apply, Remove
    <3>5. CASE UNCHANGED <<known, touched>>
      BY <3>5
    <3> QED BY <3>1, <3>2, <3>3, <3>4, <3>5
            DEF Next, Listen, SyncStep, DashCreate, DashDelete, WsEnsure, WsAck, SyncFetch,
                SyncCheck, SyncEnsure, SyncAck, SyncLastEnsure, Guard, table
  <2> QED BY <1>2, <2>1, <2>2
<1>4. CASE SyncFetch
  <2> DEFINE some == \E i \in ID : Listed(dash[i])
             list == {i \in ID : InForce(dash[i])}
  <2>1. dash' = dash /\ known' = known /\ touched' = touched
    BY <1>4 DEF SyncFetch, table
  <2>2. \/ sync' = [sync EXCEPT !.pc = "rules", !.any = some, !.todo = list]
        \/ sync.pc = "fetch" /\ sync' = [sync EXCEPT !.pc = "rules"]
    BY <1>4 DEF SyncFetch
  <2>3. CASE sync' = [sync EXCEPT !.pc = "rules", !.any = some, !.todo = list]
    <3> HIDE DEF some
    <3>1. sync'.todo = list
      BY <1>0, <2>3 DEF SyncState
    <3> QED BY <1>0, <2>1, <3>1 DEF AllInHand, InHand
  <2>4. CASE sync.pc = "fetch" /\ sync' = [sync EXCEPT !.pc = "rules"]
    BY <1>0, <2>1, <2>4 DEF FetchFresh, Answered, SyncState
  <2> HIDE DEF some, list
  <2> QED BY <2>2, <2>3, <2>4
<1>5. ASSUME NEW id \in ID, SyncCheck(id) PROVE AllInHand'
  <2>1. Answered /\ UNCHANGED <<known, touched>>
    BY <1>0, <1>5 DEF SyncCheck, Answered, table, SyncState
  <2>2. InHand \subseteq InHand' \cup touched'
    BY <1>0, <1>5 DEF SyncCheck, InHand, SyncState, RemovedSince, table
  <2> QED BY <1>0, <1>2, <2>1, <2>2
<1>6. CASE SyncApply
  <2>1. Answered /\ known' \ touched' \subseteq known \ touched
    BY <1>0, <1>6 DEF SyncApply, Apply, Answered, OnRule, SyncState
  <2>2. InHand \subseteq InHand'
    BY <1>0, <1>6 DEF SyncApply, InHand, SyncState
  <2> QED BY <1>0, <1>2, <2>1, <2>2
<1>7. CASE SyncEnsure \/ SyncAck
  <2>1. Answered /\ UNCHANGED <<known, touched>>
    BY <1>0, <1>7 DEF SyncEnsure, SyncAck, Answered, OnRule, SyncState, table
  <2>2. InHand \subseteq InHand'
    BY <1>0, <1>7 DEF SyncEnsure, SyncAck, InHand, SyncState
  <2> QED BY <1>0, <1>2, <2>1, <2>2
<1>8. CASE SyncBegin \/ SyncReconcile \/ SyncLastEnsure \/ Restart
  <2>1. sync'.any = FALSE
    BY <1>8 DEF SyncBegin, SyncReconcile, SyncLastEnsure, Restart, IdleSync
  <2> QED BY <2>1 DEF Answered
<1> QED BY <1>3, <1>4, <1>5, <1>6, <1>7, <1>8
        DEF Next, Listen, SyncStep, DashCreate, DashDelete, RuleCreated, RuleRemoved, WsEnsure,
            WsAck, Guard

LEMMA InvNext ==
    ASSUME TypeOK, RulesInv, [Next]_vars
    PROVE  RulesInv'
<1>1. CASE UNCHANGED vars
  BY <1>1 DEF vars, RulesInv, NoneFailed, KnownHeard, ListHeard, WireHeard,
         Answered, AllInHand, InHand, FetchFresh
<1>2. CASE Next
  <2>1. fails' = 0 => fails = 0
    <3>1. fails' = fails \/ EnsureFail
      BY <1>2 DEF Next, Listen, SyncStep, DashCreate, DashDelete, RuleCreated, RuleRemoved,
             WsEnsure, WsAck, SyncBegin, SyncFetch, SyncCheck, SyncApply, SyncEnsure, SyncAck,
             SyncReconcile, SyncLastEnsure, Guard, Restart, EnsureOK, bounds
    <3> QED BY <3>1 DEF EnsureFail, TypeOK
  <2>2. fails' = 0 => NoneFailed'
    BY <1>2, NoneFailedStays DEF RulesInv
  <2>3. KnownHeard' /\ ListHeard' /\ WireHeard' /\ FetchFresh'
    BY <1>2, FetchFreshStays, KnownHeardStays, ListHeardStays, WireHeardStays DEF RulesInv
  <2>4. Answered' /\ fails' = 0 => AllInHand'
    BY <1>2, <2>1, InHandStays DEF RulesInv
  <2> QED BY <2>2, <2>3, <2>4 DEF RulesInv
<1> QED BY <1>1, <1>2

\* While iptables does not fail, a sync takes no rule out of the table that
\* the dashboard has in force, however old its list is.
THEOREM NoLiveRuleDropped == Spec => SyncKeepsLiveRules
<1>1. TypeOK /\ RulesInv /\ [Next]_vars
        => (fails = 0 /\ Reconciling => \A i \in known \ known' : ~InForce(dash[i]))
  <2> SUFFICES ASSUME TypeOK, RulesInv, [Next]_vars, fails = 0, Reconciling,
                      NEW i \in known \ known'
               PROVE  ~InForce(dash[i])
    OBVIOUS
  <2>0. sync \in SyncState /\ sync.pc = "rules" /\ sync'.pc \notin {"rules", "apply", "fetch"}
    BY DEF Reconciling, TypeOK
  <2>1. SyncReconcile
    <3>1. CASE SyncFetch \/ SyncApply \/ SyncEnsure \/ SyncAck \/ SyncLastEnsure \/ SyncBegin
      BY <2>0, <3>1 DEF SyncFetch, SyncApply, SyncEnsure, SyncAck, SyncLastEnsure, SyncBegin
    <3>2. ASSUME NEW id \in ID, SyncCheck(id) PROVE FALSE
      BY <2>0, <3>2 DEF SyncCheck, SyncState
    <3>3. CASE Restart
      BY <3>3 DEF Restart, Reconciling, TypeOK
    <3>4. CASE sync' = sync
      BY <2>0, <3>4
    <3> QED BY <3>1, <3>2, <3>3, <3>4
            DEF Next, Listen, SyncStep, DashCreate, DashDelete, RuleCreated, RuleRemoved,
                WsEnsure, WsAck, Guard, vars
  <2>2. sync.any /\ sync.todo = {} /\ Reconcile(sync.keep)
    BY <2>1 DEF SyncReconcile, table
  <2>3. i \in known \ touched /\ i \notin sync.keep
    BY <2>2 DEF Reconcile, Dropped
  <2>4. i \notin InHand
    BY <2>2, <2>3 DEF InHand, Reconciling
  <2>5. AllInHand
    BY <2>2 DEF RulesInv, Answered, Reconciling
  <2> QED BY <2>3, <2>4, <2>5 DEF AllInHand
<1> QED BY <1>1, InvInit, InvNext, TypeCorrect, PTL DEF Spec, SyncKeepsLiveRules
=============================================================================
