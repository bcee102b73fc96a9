------------------------- MODULE FirewallBansProofs -------------------------
(* Theorems about the ban table and the kernel set, for every capacity,    *)
(* every set of addresses and any number of goroutines.                    *)
EXTENDS FirewallBans, FiniteSetTheorems, TLAPS

---------------------------------------------------------------------------
(* Tables and room.                                                        *)

\* A table is a function from some addresses to entries.
LEMMA TableDef ==
    ASSUME NEW b
    PROVE  b \in Tables <=> DOMAIN b \subseteq Addr /\ b \in [DOMAIN b -> Entry]
BY DEF Tables

\* The empty table, a table without some bans, with one more, and the rest
\* of the table as a step found it.
LEMMA TableOps ==
    ASSUME NEW b \in Tables
    PROVE  /\ \A gone : Without(b, gone) \in Tables
           /\ \A ip \in Addr, e \in Entry : WithBan(b, ip, e) \in Tables
           /\ \A gone : DOMAIN Without(b, gone) = DOMAIN b \ gone
           /\ \A ip, e : DOMAIN WithBan(b, ip, e) = DOMAIN b \cup {ip}
BY TableDef DEF Tables, Without, WithBan

\* Counting two disjoint sets, and what is left of one without a part.
LEMMA DisjointCount ==
    ASSUME NEW S, IsFiniteSet(S), NEW T, IsFiniteSet(T), S \cap T = {}
    PROVE  Cardinality(S \cup T) = Cardinality(S) + Cardinality(T)
<1>1. Cardinality(S \cup T) = Cardinality(S) + Cardinality(T) - Cardinality(S \cap T)
  BY FS_Union
<1>2. Cardinality(S \cap T) = 0
  BY FS_EmptySet
<1>3. Cardinality(S) \in Nat /\ Cardinality(T) \in Nat
  BY FS_CardinalityType
<1> QED BY <1>1, <1>2, <1>3

LEMMA PartCount ==
    ASSUME NEW S, IsFiniteSet(S), NEW T \in SUBSET S
    PROVE  Cardinality(S \ T) = Cardinality(S) - Cardinality(T)
<1>1. S \cap T = T
  OBVIOUS
<1> QED BY <1>1, FS_Difference

\* makeRoomLocked makes enough room: whatever it evicts, a list of at most
\* Cap bans it must keep fits beside what stays.
LEMMA MakeRoomFits ==
    ASSUME NEW b \in Tables, Cardinality(DOMAIN b) <= Cap,
           NEW safe \in SUBSET Addr, Cardinality(safe) <= Cap,
           NEW keep, DOMAIN b \ keep = DOMAIN b \ safe,
           NEW out \in MakeRoom(b, Cardinality(safe \ DOMAIN b), keep)
    PROVE  /\ out \subseteq DOMAIN b
           /\ Cardinality((DOMAIN b \ out) \cup safe) <= Cap
<1> DEFINE D == DOMAIN b
           F == D \ safe
           over == Over(b, Cardinality(safe \ D))
<1>1. IsFiniteSet(D) /\ IsFiniteSet(safe) /\ IsFiniteSet(F) /\ IsFiniteSet(safe \ D)
          /\ IsFiniteSet(D \cup safe)
  BY AddrAssumption, TableDef, FS_Subset, FS_Union, FS_Difference
<1>2. /\ Cardinality(D) \in Nat /\ Cardinality(safe) \in Nat /\ Cardinality(F) \in Nat
      /\ Cardinality(safe \ D) \in Nat /\ Cardinality(D \cup safe) \in Nat
  BY <1>1, FS_CardinalityType
<1>3. Cardinality(D \cup safe) = Cardinality(D) + Cardinality(safe \ D)
  <2>1. D \cup safe = D \cup (safe \ D) /\ D \cap (safe \ D) = {}
    OBVIOUS
  <2>2. Cardinality(D \cup (safe \ D)) = Cardinality(D) + Cardinality(safe \ D)
    BY <2>1, <1>1, DisjointCount
  <2> QED BY <2>1, <2>2
<1>4. Cardinality(D \cup safe) = Cardinality(F) + Cardinality(safe)
  <2>1. D \cup safe = F \cup safe /\ F \cap safe = {}
    OBVIOUS
  <2>2. Cardinality(F \cup safe) = Cardinality(F) + Cardinality(safe)
    BY <2>1, <1>1, DisjointCount
  <2> QED BY <2>1, <2>2
<1>5. over = Cardinality(D \cup safe) - Cap /\ over \in Int /\ over <= Cardinality(F)
  BY <1>2, <1>3, <1>4, CapAssumption DEF Over
<1>6. CASE over <= 0
  <2>1. out = {}
    BY <1>6 DEF MakeRoom
  <2>2. (D \ out) \cup safe = D \cup safe
    BY <2>1
  <2> QED BY <2>1, <2>2, <1>2, <1>5, <1>6, CapAssumption
<1>7. CASE ~(over <= 0)
  <2>1. out \in SUBSET F /\ Cardinality(out) = over
    BY <1>5, <1>7, <1>2 DEF MakeRoom
  <2>2. (D \ out) \cup safe = (D \cup safe) \ out
    BY <2>1
  <2>3. Cardinality((D \cup safe) \ out) = Cardinality(D \cup safe) - Cardinality(out)
    <3>1. out \in SUBSET (D \cup safe)
      BY <2>1
    <3> HIDE DEF D, F
    <3> QED BY <3>1, <1>1, PartCount
  <2>4. Cardinality((D \cup safe) \ out) = Cap
    BY <2>1, <2>3, <1>2, <1>5, CapAssumption
  <2>5. out \subseteq D
    BY <2>1
  <2> QED BY <2>2, <2>4, <2>5, CapAssumption
<1> QED BY <1>6, <1>7

---------------------------------------------------------------------------
(* Type correctness.                                                       *)

\* The kernel set stays a set of addresses, whatever part of a command ran.
LEMMA BatchType ==
    ASSUME NEW k \in SUBSET Addr, NEW ips \in SUBSET Addr
    PROVE  /\ \A r \in BatchAdd(k, ips) : r \subseteq Addr
           /\ \A r \in BatchDel(k, ips) : r \subseteq Addr
BY AddrAssumption DEF BatchAdd, BatchDel

LEMMA EnsureType ==
    ASSUME NEW b \in Tables, NEW k \in SUBSET Addr, NEW ex \in BOOLEAN, NEW rest \in BOOLEAN,
           NEW o \in EnsureOutcomes(b, k, ex, rest)
    PROVE  o.k \subseteq Addr /\ o.rest \in BOOLEAN
<1> DEFINE v4 == DOMAIN b \ V6
           filled == IF ~ex THEN BatchAdd({}, DOMAIN b)
                     ELSE IF Cardinality(k) < Cardinality(v4) THEN {k \cup v4} ELSE {k}
<1>1. DOMAIN b \subseteq Addr
  BY TableDef
<1>2. \A f \in filled : f \subseteq Addr
  BY <1>1, BatchType
<1>3. CASE ~rest
  <2>1. PICK f \in filled : o = [k |-> f, rest |-> FALSE]
    BY <1>3 DEF EnsureOutcomes
  <2> QED BY <2>1, <1>2
<1>4. CASE rest
  <2>1. PICK f \in filled : \E g \in BatchAdd(f, DOMAIN b) :
                              o = [k |-> g, rest |-> DOMAIN b \cap V6 # {}]
    <3>1. o \in UNION {{[k |-> g, rest |-> DOMAIN b \cap V6 # {}] : g \in BatchAdd(f, DOMAIN b)} : f \in filled}
      BY <1>4 DEF EnsureOutcomes
    <3> HIDE DEF filled
    <3> QED BY <3>1
  <2>2. PICK g \in BatchAdd(f, DOMAIN b) : o = [k |-> g, rest |-> DOMAIN b \cap V6 # {}]
    BY <2>1
  <2> QED BY <2>1, <2>2, <1>1, <1>2, BatchType
<1> QED BY <1>3, <1>4

LEMMA IdleType == Idle \in Local
BY TimeAssumption DEF Idle, Local, Locals, BanSteps, PCs, Expiry, Never

\* The type invariant holds initially and every step keeps it.
LEMMA TypeInit == Init => TypeOK
<1> SUFFICES ASSUME Init PROVE TypeOK
  OBVIOUS
<1>1. bans \in Tables
  BY TableDef DEF Init
<1>2. th \in [Threads -> Local]
  BY IdleType DEF Init
<1>3. now \in Time /\ ops \in 0..MaxOps /\ flushes \in 0..MaxFlushes /\ restarts \in 0..MaxRestarts
  BY TimeAssumption, BoundAssumption DEF Init, Time
<1> QED BY <1>1, <1>2, <1>3 DEF Init, TypeOK

\* What Become and Goto do to the goroutines' locals.
LEMMA LocalsType ==
    ASSUME th \in [Threads -> Local], NEW t \in Threads
    PROVE  /\ \A l \in Local : Become(t, l) => th' \in [Threads -> Local]
           /\ \A pc \in PCs : (pc \in BanSteps => th[t].ip \in Addr) /\ Goto(t, pc) => th' \in [Threads -> Local]
           /\ \A pc \in PCs : (pc \in BanSteps => th[t].ip \in Addr) /\ th' = [th EXCEPT ![t].pc = pc, ![t].ips = {}] => th' \in [Threads -> Local]
           /\ \A pc \in PCs : (pc \in BanSteps => th[t].ip \in Addr) /\ th' = [th EXCEPT ![t].pc = pc, ![t].rows = {}] => th' \in [Threads -> Local]
BY DEF Become, Goto, Local, Locals

LEMMA DropType ==
    ASSUME TypeOK, NEW t \in Threads, DropFromKernel(t)
    PROVE  /\ kset' \subseteq Addr
           /\ UNCHANGED <<bans, setExists, disabled, restored, env, bounds>>
<1>1. th[t].ips \subseteq Addr
  BY DEF TypeOK, Local, Locals
<1>2. Gone(th[t].ips) \in SUBSET Addr
  BY <1>1 DEF Gone
<1> QED BY <1>2, BatchType DEF DropFromKernel, TypeOK

LEMMA EnsureSetType ==
    ASSUME TypeOK, EnsureSet
    PROVE  kset' \subseteq Addr /\ restored' \in BOOLEAN /\ setExists' \in BOOLEAN
BY EnsureType DEF EnsureSet, TypeOK

LEMMA ClaimType ==
    ASSUME TypeOK, NEW t \in Threads, NEW ip \in Addr, NEW e \in Expiry, ClaimBan(t, ip, e)
    PROVE  TypeOK'
<1>0. ops' \in 0..MaxOps /\ UNCHANGED <<kernel, disabled, restored, env, flushes, restarts>>
  <2>1. ops < MaxOps /\ ops' = ops + 1
            /\ UNCHANGED <<kernel, disabled, restored, env, flushes, restarts>>
    BY DEF ClaimBan
  <2>2. ops \in 0..MaxOps
    BY DEF TypeOK
  <2> QED BY <2>1, <2>2, BoundAssumption
<1>1. CASE ip \in Banned /\ bans' = bans
              /\ Become(t, [Idle EXCEPT !.pc = "ban_check", !.ip = ip, !.exp = e])
  <2>1. [Idle EXCEPT !.pc = "ban_check", !.ip = ip, !.exp = e] \in Local
    BY IdleType DEF Local, Locals, BanSteps, PCs
  <2> QED BY <1>0, <1>1, <2>1, LocalsType DEF TypeOK, kernel, env
<1>2. ASSUME NEW out \in MakeRoom(bans, 1, {}),
             bans' = WithBan(Without(bans, out), ip, [added |-> now, expires |-> e]),
             Become(t, [Idle EXCEPT !.pc = IF out = {} THEN "ban_check" ELSE "ban_evict",
                                    !.ip = ip, !.exp = e, !.added = TRUE, !.ips = out])
      PROVE  TypeOK'
  <2>1. out \subseteq Addr
    BY TableDef DEF MakeRoom, TypeOK
  <2>2. [Idle EXCEPT !.pc = IF out = {} THEN "ban_check" ELSE "ban_evict",
                     !.ip = ip, !.exp = e, !.added = TRUE, !.ips = out] \in Local
    BY <2>1, IdleType DEF Local, Locals, BanSteps, PCs
  <2>3. [added |-> now, expires |-> e] \in Entry
    BY DEF TypeOK, Entry
  <2>4. bans' \in Tables
    BY <1>2, <2>3, TableOps DEF TypeOK
  <2> QED BY <1>0, <1>2, <2>2, <2>4, LocalsType DEF TypeOK, kernel, env
<1> QED BY <1>1, <1>2 DEF ClaimBan

\* The section of ApplyBans under the lock.
LEMMA ApplyType ==
    ASSUME TypeOK, NEW t \in Threads, NEW monitor \in BOOLEAN, SyncApply(t, monitor)
    PROVE  TypeOK'
<1> DEFINE rows   == {r \in th[t].rows : ~Expired(r[2])}
           active == {r[1] : r \in rows}
<1>0. rows \subseteq Rows /\ active \subseteq Addr
  BY DEF TypeOK, Local, Locals, Rows
<1>1. CASE monitor /\ bans' = bans
             /\ Become(t, [Idle EXCEPT !.pc = "clean_table", !.active = active])
  <2>1. [Idle EXCEPT !.pc = "clean_table", !.active = active] \in Local
    BY <1>0, IdleType DEF Local, Locals, BanSteps, PCs
  <2> QED BY <1>1, <2>1, LocalsType DEF TypeOK, SyncApply, kernel, env, bounds
<1>2. ASSUME NEW safe \in SUBSET active,
             NEW out \in MakeRoom(bans, Cardinality(safe \ Banned), safe),
             NEW expires \in [safe -> Expiry],
             bans' = [a \in (Banned \ out) \cup safe |->
                        IF a \notin safe THEN bans[a]
                        ELSE [added   |-> IF a \in Banned THEN bans[a].added ELSE now,
                              expires |-> expires[a]]],
             Become(t, [Idle EXCEPT !.pc = IF out = {} THEN "sync_check" ELSE "sync_evict",
                                    !.ips = out, !.active = active,
                                    !.rows = {r \in rows : r[1] \in safe}])
      PROVE  TypeOK'
  <2>1. out \subseteq Addr
    BY TableDef DEF MakeRoom, TypeOK
  <2>2. [Idle EXCEPT !.pc = IF out = {} THEN "sync_check" ELSE "sync_evict",
                     !.ips = out, !.active = active,
                     !.rows = {r \in rows : r[1] \in safe}] \in Local
    BY <1>0, <2>1, IdleType DEF Local, Locals, BanSteps, PCs
  <2>3. bans \in [Banned -> Entry] /\ Banned \subseteq Addr /\ now \in Time
    BY TableDef DEF TypeOK, Banned
  <2>4. \A a \in (Banned \ out) \cup safe : bans'[a] \in Entry
    BY <1>2, <2>3 DEF Entry
  <2>5. bans' \in Tables
    BY <1>0, <1>2, <2>3, <2>4, TableDef
  <2> QED BY <1>2, <2>2, <2>5, LocalsType DEF TypeOK, SyncApply, kernel, env, bounds
<1> QED BY <1>1, <1>2 DEF SyncApply, Banned

\* A bounded counter, one more.
LEMMA OneMore == ASSUME NEW n, NEW m \in Nat, n \in 0..m, n < m PROVE n + 1 \in 0..m
OBVIOUS

LEMMA TypeNext == TypeOK /\ [Next]_vars => TypeOK'
<1> SUFFICES ASSUME TypeOK, [Next]_vars PROVE TypeOK'
  OBVIOUS
<1>1. ASSUME Tick PROVE TypeOK'
  BY <1>1, TimeAssumption DEF Tick, TypeOK, Time, kernel, bounds
<1>2. ASSUME NEW ip \in Addr, NEW e \in Expiry, DashBan(ip, e) PROVE TypeOK'
  BY <1>2, BoundAssumption DEF DashBan, TypeOK, Rows, kernel
<1>3. ASSUME NEW ip \in Addr, DashLift(ip) PROVE TypeOK'
  BY <1>3, BoundAssumption DEF DashLift, TypeOK, Rows, kernel
<1>4. ASSUME NEW t \in Threads, Ask(t) PROVE TypeOK'
  <2>1. ASSUME NEW ip \in Addr, Detect(t, ip) PROVE TypeOK'
    <3>1. now + LocalFor \in Expiry
      BY TimeAssumption DEF TypeOK, Time, Expiry
    <3> QED BY <2>1, <3>1, ClaimType DEF Detect
  <2>2. ASSUME NEW ip \in Addr, Unban(t, ip) PROVE TypeOK'
    <3>1. [Idle EXCEPT !.pc = "unban_check", !.ip = ip] \in Local
      BY IdleType DEF Local, Locals, BanSteps, PCs
    <3>2. bans' \in Tables
      BY <2>2, TableOps DEF Unban, TypeOK
    <3> QED BY <2>2, <3>1, <3>2, LocalsType, BoundAssumption DEF Unban, TypeOK, kernel, env
  <2>3. ASSUME NEW ip \in Addr, NEW e \in {Never} \cup (now + 1)..MaxTime, PushBan(t, ip, e)
        PROVE  TypeOK'
    <3>1. e \in Expiry
      BY TimeAssumption DEF TypeOK, Time, Expiry, Never
    <3> QED BY <2>3, <3>1, ClaimType DEF PushBan
  <2>4. ASSUME SyncFetch(t) PROVE TypeOK'
    <3>1. [Idle EXCEPT !.pc = "sync_apply", !.rows = dash] \in Local
      BY IdleType DEF Local, Locals, BanSteps, PCs, TypeOK
    <3> QED BY <2>4, <3>1, LocalsType DEF SyncFetch, TypeOK, kernel, env, bounds
  <2>5. ASSUME ExpireBans(t) PROVE TypeOK'
    <3> DEFINE gone == {a \in Banned : Expired(bans[a].expires)}
    <3>1. gone \subseteq Addr
      BY TableDef DEF TypeOK, Banned
    <3>2. [Idle EXCEPT !.pc = "exp_drop", !.ips = gone] \in Local
      BY <3>1, IdleType DEF Local, Locals, BanSteps, PCs
    <3>3. bans' \in Tables
      BY <2>5, TableOps DEF ExpireBans, TypeOK
    <3> QED BY <2>5, <3>2, <3>3, LocalsType DEF ExpireBans, TypeOK, kernel, env, bounds
  <2>6. ASSUME Disable(t) PROVE TypeOK'
    <3>1. ops' \in 0..MaxOps
      BY <2>6, OneMore, BoundAssumption DEF Disable, TypeOK
    <3>2. th' \in [Threads -> Local]
      BY <2>6, LocalsType DEF Disable, TypeOK, PCs, BanSteps
    <3> QED BY <2>6, <3>1, <3>2 DEF Disable, TypeOK, kernel, env
  <2>7. ASSUME Enable(t) PROVE TypeOK'
    BY <2>7, LocalsType DEF Enable, TypeOK, kernel, bounds, PCs, BanSteps
  <2> QED BY <1>4, <2>1, <2>2, <2>3, <2>4, <2>5, <2>6, <2>7 DEF Ask
<1>5. ASSUME NEW t \in Threads, Continue(t) PROVE TypeOK'
  <2>1. ASSUME BanEvict(t) PROVE TypeOK'
    BY <2>1, DropType, LocalsType DEF BanEvict, At, Local, TypeOK, env, bounds, PCs, BanSteps
  <2>2. ASSUME BanCheck(t) PROVE TypeOK'
    BY <2>2, LocalsType, IdleType DEF BanCheck, At, Local, TypeOK, kernel, env, bounds, PCs, BanSteps
  <2>3. ASSUME BanAdd(t) PROVE TypeOK'
    <3>1. th[t].ip \in Addr
      BY <2>3 DEF BanAdd, At, TypeOK, Local, BanSteps
    <3> QED BY <2>3, <3>1, LocalsType, IdleType DEF BanAdd, TypeOK, env, bounds, PCs, BanSteps
  <2>4. ASSUME BanExpiry(t) PROVE TypeOK'
    <3>1. th[t].exp \in Expiry
      BY DEF TypeOK, Local, Locals
    <3>2. bans' \in Tables
      BY <2>4, <3>1, TableDef DEF BanExpiry, TypeOK, Banned, Entry
    <3> QED BY <2>4, <3>2, LocalsType, IdleType DEF BanExpiry, TypeOK, kernel, env, bounds
  <2>5. ASSUME UnbanCheck(t) PROVE TypeOK'
    BY <2>5, LocalsType, IdleType DEF UnbanCheck, TypeOK, kernel, env, bounds, PCs, BanSteps
  <2>6. ASSUME UnbanDel(t) PROVE TypeOK'
    BY <2>6, LocalsType, IdleType DEF UnbanDel, TypeOK, env, bounds
  <2>7. ASSUME ExpireDrop(t) PROVE TypeOK'
    BY <2>7, DropType, LocalsType, IdleType DEF ExpireDrop, TypeOK, env, bounds
  <2>8. ASSUME NEW monitor \in MonitorModes, SyncApply(t, monitor) PROVE TypeOK'
    BY <2>8, ApplyType, KeepAssumption
  <2>9. ASSUME SyncEvict(t) PROVE TypeOK'
    BY <2>9, DropType, LocalsType DEF SyncEvict, TypeOK, env, bounds, PCs, BanSteps
  <2>10. ASSUME SyncCheck(t) PROVE TypeOK'
    BY <2>10, LocalsType DEF SyncCheck, TypeOK, kernel, env, bounds, PCs, BanSteps
  <2>11. ASSUME SyncAdd(t) PROVE TypeOK'
    <3>1. {r[1] : r \in th[t].rows} \in SUBSET Addr
      BY DEF TypeOK, Local, Locals, Rows
    <3>2. kset' \subseteq Addr
      BY <2>11, <3>1, BatchType DEF SyncAdd, TypeOK
    <3> QED BY <2>11, <3>2, LocalsType DEF SyncAdd, TypeOK, env, bounds, PCs, BanSteps
  <2>12. ASSUME NEW keep \in KeepSets, CleanTable(t, keep) PROVE TypeOK'
    <3>1. th[t].active \cup keep \subseteq Addr
      BY KeepAssumption DEF TypeOK, Local, Locals
    <3>2. [Idle EXCEPT !.pc = "clean_check", !.active = th[t].active \cup keep] \in Local
      BY <3>1, IdleType DEF Local, Locals, BanSteps, PCs
    <3>3. bans' \in Tables
      BY <2>12, TableOps DEF CleanTable, TypeOK
    <3> QED BY <2>12, <3>2, <3>3, LocalsType DEF CleanTable, TypeOK, kernel, env, bounds
  <2>13. ASSUME CleanCheck(t) PROVE TypeOK'
    BY <2>13, LocalsType, IdleType DEF CleanCheck, TypeOK, kernel, env, bounds, PCs, BanSteps
  <2>14. ASSUME CleanList(t) PROVE TypeOK'
    <3>1. StaleMembers(kset, th[t].active) \subseteq Addr
      BY DEF TypeOK, StaleMembers
    <3>2. [Idle EXCEPT !.pc = "clean_del", !.ips = StaleMembers(kset, th[t].active)] \in Local
      BY <3>1, IdleType DEF Local, Locals, BanSteps, PCs
    <3> QED BY <2>14, <3>2, LocalsType, IdleType DEF CleanList, TypeOK, kernel, env, bounds
  <2>15. ASSUME NEW ip \in Addr, CleanDel(t, ip) PROVE TypeOK'
    <3>1. th' \in [Threads -> Local]
      BY <2>15, LocalsType, IdleType DEF CleanDel, TypeOK, Local, Locals, BanSteps, Become
    <3> QED BY <2>15, <3>1 DEF CleanDel, TypeOK, env, bounds
  <2>16. ASSUME RemoveAll(t) PROVE TypeOK'
    <3>1. kset' \subseteq Addr /\ setExists' \in BOOLEAN
      BY <2>16 DEF RemoveAll, DestroySet, kernel, TypeOK
    <3> QED BY <2>16, <3>1, LocalsType, IdleType DEF RemoveAll, TypeOK, bounds
  <2>17. ASSUME EnableEnsure(t) PROVE TypeOK'
    BY <2>17, EnsureSetType, LocalsType, IdleType DEF EnableEnsure, TypeOK, bounds
  <2> QED BY <1>5, <2>1, <2>2, <2>3, <2>4, <2>5, <2>6, <2>7, <2>8, <2>9, <2>10, <2>11,
             <2>12, <2>13, <2>14, <2>15, <2>16, <2>17 DEF Continue
<1>6. ASSUME NEW t \in Threads, Ensure(t) PROVE TypeOK'
  BY <1>6, EnsureSetType DEF Ensure, TypeOK, env, bounds
<1>7. ASSUME SaveBans PROVE TypeOK'
  BY <1>7 DEF SaveBans, TypeOK, kernel, bounds
<1>8. ASSUME Restart PROVE TypeOK'
  <2>1. PICK T \in Restorable(saved.bans) :
          /\ bans' = [a \in T |-> saved.bans[a]]
          /\ IF saved.off
             THEN restored' = (T # {}) /\ DestroySet
             ELSE /\ \E o \in EnsureOutcomes(bans', kset, setExists, T # {}) :
                       kset' = o.k /\ restored' = o.rest
                  /\ setExists' = TRUE
    BY <1>8 DEF Restart
  <2>2. T \subseteq DOMAIN saved.bans
    BY DEF Restorable
  <2>3. bans' \in Tables
    BY <2>1, <2>2, TableDef DEF TypeOK
  <2>4. kset' \subseteq Addr /\ restored' \in BOOLEAN /\ setExists' \in BOOLEAN
    <3>1. CASE saved.off
      BY <2>1, <3>1 DEF DestroySet, kernel, TypeOK
    <3>2. CASE ~saved.off
      <4>1. PICK o \in EnsureOutcomes(bans', kset, setExists, T # {}) :
              kset' = o.k /\ restored' = o.rest
        BY <2>1, <3>2
      <4>2. (T # {}) \in BOOLEAN
        OBVIOUS
      <4>3. o.k \subseteq Addr /\ o.rest \in BOOLEAN
        BY <2>3, <4>2, EnsureType DEF TypeOK
      <4> QED BY <2>1, <3>2, <4>1, <4>3
    <3> QED BY <3>1, <3>2
  <2>5. th' \in [Threads -> Local]
    BY <1>8, IdleType DEF Restart
  <2>6. restarts' \in 0..MaxRestarts
    BY <1>8, OneMore, BoundAssumption DEF Restart, TypeOK
  <2> QED BY <1>8, <2>3, <2>4, <2>5, <2>6 DEF Restart, TypeOK
<1>9. ASSUME HostFlush PROVE TypeOK'
  BY <1>9, BoundAssumption DEF HostFlush, TypeOK, env
<1>10. CASE UNCHANGED vars
  BY <1>10 DEF vars, TypeOK
<1> QED BY <1>1, <1>2, <1>3, <1>4, <1>5, <1>6, <1>7, <1>8, <1>9, <1>10 DEF Next

\* The table, the kernel set and every goroutine's locals keep their types
\* in every behaviour, whatever the constants.
THEOREM TypeCorrect == Spec => []TypeOK
<1> QED BY TypeInit, TypeNext, PTL DEF Spec

---------------------------------------------------------------------------
(* Capacity.                                                               *)

\* Dropping bans never makes more of them.
LEMMA FewerBans ==
    ASSUME NEW b \in Tables, Cardinality(DOMAIN b) <= Cap, NEW S \in SUBSET (DOMAIN b)
    PROVE  Cardinality(S) <= Cap
<1>1. IsFiniteSet(DOMAIN b)
  BY AddrAssumption, TableDef, FS_Subset
<1>2. Cardinality(S) <= Cardinality(DOMAIN b) /\ Cardinality(S) \in Nat /\ Cardinality(DOMAIN b) \in Nat
  BY <1>1, FS_Subset, FS_CardinalityType
<1> QED BY <1>2, CapAssumption

LEMMA RestoredFit ==
    ASSUME NEW b \in Tables, NEW T \in Restorable(b)
    PROVE  T \subseteq DOMAIN b /\ Cardinality(T) <= Cap
<1>1. CASE Cardinality({a \in DOMAIN b : ~Expired(b[a].expires)}) <= Cap
  BY <1>1 DEF Restorable
<1>2. CASE ~(Cardinality({a \in DOMAIN b : ~Expired(b[a].expires)}) <= Cap)
  BY <1>2, CapAssumption DEF Restorable
<1> QED BY <1>1, <1>2

LEMMA ClaimFits ==
    ASSUME TypeOK, WithinCapacity, NEW t \in Threads, NEW ip \in Addr, NEW e \in Expiry,
           ClaimBan(t, ip, e)
    PROVE  WithinCapacity'
<1>1. CASE bans' = bans
  BY <1>1 DEF WithinCapacity, Banned
<1>2. ASSUME ip \notin Banned, NEW out \in MakeRoom(bans, 1, {}),
             bans' = WithBan(Without(bans, out), ip, [added |-> now, expires |-> e])
      PROVE  WithinCapacity'
  <2>1. Cardinality({ip}) = 1
    BY FS_Singleton
  <2>2. {ip} \ DOMAIN bans = {ip} /\ DOMAIN bans \ {} = DOMAIN bans \ {ip}
    BY <1>2 DEF Banned
  <2>3. out \in MakeRoom(bans, Cardinality({ip} \ DOMAIN bans), {})
    BY <1>2, <2>1, <2>2
  <2>4. Cardinality({ip}) <= Cap
    BY <2>1, CapAssumption
  <2>5. bans \in Tables /\ Cardinality(DOMAIN bans) <= Cap
    BY DEF TypeOK, WithinCapacity, Banned
  <2>6. Cardinality((DOMAIN bans \ out) \cup {ip}) <= Cap
    BY <2>2, <2>3, <2>4, <2>5, MakeRoomFits
  <2>7. DOMAIN bans' = (DOMAIN bans \ out) \cup {ip}
    BY <1>2 DEF Without, WithBan
  <2> QED BY <2>6, <2>7 DEF WithinCapacity, Banned
<1> QED BY <1>1, <1>2 DEF ClaimBan

LEMMA ApplyFits ==
    ASSUME TypeOK, WithinCapacity, NEW t \in Threads, NEW monitor, SyncApply(t, monitor)
    PROVE  WithinCapacity'
<1> DEFINE rows   == {r \in th[t].rows : ~Expired(r[2])}
           active == {r[1] : r \in rows}
<1>1. CASE bans' = bans
  BY <1>1 DEF WithinCapacity, Banned
<1>2. ASSUME NEW safe \in SUBSET active,
             Cardinality(safe) = IF Cardinality(active) > Cap THEN Cap ELSE Cardinality(active),
             NEW out \in MakeRoom(bans, Cardinality(safe \ Banned), safe),
             DOMAIN bans' = (Banned \ out) \cup safe
      PROVE  WithinCapacity'
  <2>1. active \subseteq Addr
    BY DEF TypeOK, Local, Locals, Rows
  <2>2. Cardinality(active) \in Nat
    BY <2>1, AddrAssumption, FS_Subset, FS_CardinalityType
  <2>3. Cardinality(safe) <= Cap /\ safe \in SUBSET Addr
    BY <1>2, <2>1, <2>2, CapAssumption
  <2>4. bans \in Tables /\ Cardinality(DOMAIN bans) <= Cap
    BY DEF TypeOK, WithinCapacity, Banned
  <2>5. Cardinality((DOMAIN bans \ out) \cup safe) <= Cap
    BY <1>2, <2>3, <2>4, MakeRoomFits DEF Banned
  <2> QED BY <1>2, <2>5 DEF WithinCapacity, Banned
<1>3. \/ bans' = bans
      \/ \E safe \in SUBSET active :
           /\ Cardinality(safe) = IF Cardinality(active) > Cap THEN Cap ELSE Cardinality(active)
           /\ \E out \in MakeRoom(bans, Cardinality(safe \ Banned), safe) :
                DOMAIN bans' = (Banned \ out) \cup safe
  BY DEF SyncApply
<1> QED BY <1>1, <1>2, <1>3

\* The table never holds more bans than the capacity: claims, lists from the
\* dashboard and restored files included, in any order.
THEOREM CapacityHolds == Spec => []WithinCapacity
<1>1. Init => WithinCapacity
  BY FS_EmptySet, CapAssumption DEF Init, WithinCapacity, Banned
<1>2. TypeOK /\ WithinCapacity /\ [Next]_vars => WithinCapacity'
  <2> SUFFICES ASSUME TypeOK, WithinCapacity, [Next]_vars PROVE WithinCapacity'
    OBVIOUS
  <2>0. bans \in Tables /\ Cardinality(DOMAIN bans) <= Cap
    BY DEF TypeOK, WithinCapacity, Banned
  <2>1. CASE UNCHANGED bans
    BY <2>1 DEF WithinCapacity, Banned
  <2>2. ASSUME NEW gone, bans' = Without(bans, gone) PROVE WithinCapacity'
    <3>1. DOMAIN bans' = DOMAIN bans \ gone
      BY <2>0, <2>2, TableOps
    <3> QED BY <2>0, <3>1, FewerBans DEF WithinCapacity, Banned
  <2>3. ASSUME NEW t \in Threads, NEW ip \in Addr, Detect(t, ip) PROVE WithinCapacity'
    <3>1. now + LocalFor \in Expiry
      BY TimeAssumption DEF TypeOK, Time, Expiry
    <3> QED BY <2>3, <3>1, ClaimFits DEF Detect
  <2>4. ASSUME NEW t \in Threads, NEW ip \in Addr, NEW e \in {Never} \cup (now + 1)..MaxTime,
               PushBan(t, ip, e)
        PROVE  WithinCapacity'
    <3>1. e \in Expiry
      BY TimeAssumption DEF TypeOK, Time, Expiry, Never
    <3> QED BY <2>4, <3>1, ClaimFits DEF PushBan
  <2>5. ASSUME NEW t \in Threads, NEW monitor \in MonitorModes, SyncApply(t, monitor)
        PROVE  WithinCapacity'
    BY <2>5, ApplyFits
  <2>6. ASSUME NEW t \in Threads, BanExpiry(t) PROVE WithinCapacity'
    <3>1. DOMAIN bans' = DOMAIN bans
      BY <2>0, <2>6, TableDef DEF BanExpiry
    <3> QED BY <2>0, <3>1 DEF WithinCapacity, Banned
  <2>7. ASSUME Restart PROVE WithinCapacity'
    <3>1. PICK T \in Restorable(saved.bans) : DOMAIN bans' = T
      BY <2>7 DEF Restart
    <3> QED BY <3>1, RestoredFit DEF WithinCapacity, Banned, TypeOK
  <2>8. ASSUME NEW t \in Threads, Ask(t) PROVE WithinCapacity'
    BY <2>8, <2>1, <2>2, <2>3, <2>4
       DEF Ask, Unban, SyncFetch, ExpireBans, Disable, Enable
  <2>9. ASSUME NEW t \in Threads, Continue(t) PROVE WithinCapacity'
    BY <2>9, <2>1, <2>2, <2>5, <2>6
       DEF Continue, BanEvict, BanCheck, BanAdd, UnbanCheck, UnbanDel, ExpireDrop, SyncEvict,
           SyncCheck, SyncAdd, CleanTable, CleanCheck, CleanList, CleanDel, RemoveAll,
           EnableEnsure, DropFromKernel
  <2>10. CASE UNCHANGED vars
    BY <2>1, <2>10 DEF vars
  <2> QED BY <2>1, <2>7, <2>8, <2>9, <2>10
          DEF Next, Tick, DashBan, DashLift, Ensure, SaveBans, HostFlush
<1> QED BY <1>1, <1>2, TypeCorrect, PTL DEF Spec

---------------------------------------------------------------------------
(* Off means off.                                                          *)

\* Why it holds: Ensure does nothing while the flag is up, nothing but Ensure
\* makes the set, and no goroutine passes Disabled().  A complete switch-off
\* has the flag up, and the flag cannot fall in the middle of one, because
\* only the holder of protCtl.op, which is busy, lets it fall.
OffInv ==
    /\ off => disabled
    /\ \A t \in Threads : th[t].pc = "off_remove" => t \in Switches /\ disabled

\* What a step may do while the protection is off.
KeepsOut ==
    /\ setExists' => setExists
    /\ Adding' \subseteq Adding
    /\ kset' \ kset \subseteq UNION {Adds(t) : t \in Adding}

NoneJoins == \A u \in Threads : th'[u].pc = "off_remove" => th[u].pc = "off_remove"

\* A goroutine that goes elsewhere does not begin a switch-off, nor an add.
LEMMA BecomeElse ==
    ASSUME th \in [Threads -> Local], NEW t \in Threads, NEW l, Become(t, l)
    PROVE  /\ l.pc # "off_remove" => NoneJoins
           /\ l.pc \notin {"ban_add", "sync_add"} => Adding' \subseteq Adding
  BY DEF Become, NoneJoins, Adding

LEMMA GotoElse ==
    ASSUME th \in [Threads -> Local], NEW t \in Threads, NEW pc, Goto(t, pc)
    PROVE  /\ pc # "off_remove" => NoneJoins
           /\ pc \notin {"ban_add", "sync_add"} => Adding' \subseteq Adding
<1>1. th[t] \in Locals
  BY DEF Local
<1> QED BY <1>1 DEF Goto, NoneJoins, Locals, Adding

\* What leaves the flags alone keeps the invariant.
LEMMA KeepsOff ==
    ASSUME OffInv, NoneJoins, UNCHANGED <<off, disabled>>
    PROVE  OffInv'
  BY DEF OffInv, NoneJoins

\* What adds nothing to the set and moves nobody to an add keeps it out.
LEMMA OnlyLess ==
    ASSUME setExists' = setExists, kset' \subseteq kset, Adding' \subseteq Adding
    PROVE  KeepsOut
  BY DEF KeepsOut

\* Recording a ban has nothing to do with the switch.
LEMMA ClaimKeepsOff ==
    ASSUME TypeOK, OffInv, NEW t \in Threads, NEW ip, NEW e, ClaimBan(t, ip, e)
    PROVE  OffInv' /\ KeepsOut
<1>0. th \in [Threads -> Local]
  BY DEF TypeOK
<1>1. UNCHANGED <<off, disabled, kset, setExists>>
  BY DEF ClaimBan, kernel, env
<1>2. PICK l : l.pc \notin {"off_remove", "ban_add", "sync_add"} /\ Become(t, l)
  <2>1. CASE Become(t, [Idle EXCEPT !.pc = "ban_check", !.ip = ip, !.exp = e])
    BY <2>1 DEF Idle
  <2>2. CASE \E out : Become(t, [Idle EXCEPT !.pc = IF out = {} THEN "ban_check" ELSE "ban_evict",
                                             !.ip = ip, !.exp = e, !.added = TRUE, !.ips = out])
    BY <2>2 DEF Idle
  <2> QED BY <2>1, <2>2 DEF ClaimBan
<1> QED BY <1>0, <1>1, <1>2, BecomeElse, KeepsOff, OnlyLess

\* A command that removes addresses adds none.
LEMMA BatchDelLess ==
    ASSUME NEW k, NEW ips, NEW r \in BatchDel(k, ips)
    PROVE  r \subseteq k
BY DEF BatchDel

LEMMA DropKeepsOff ==
    ASSUME TypeOK, NEW t \in Threads, DropFromKernel(t)
    PROVE  UNCHANGED <<off, disabled, setExists>> /\ kset' \subseteq kset
<1>1. kset' = kset \/ kset' \in BatchDel(kset, Gone(th[t].ips))
  BY DEF DropFromKernel
<1> QED BY <1>1, BatchDelLess DEF DropFromKernel, env

\* A command that adds addresses adds no other.
LEMMA BatchAddOnly ==
    ASSUME NEW k, NEW ips, NEW r \in BatchAdd(k, ips)
    PROVE  r \ k \subseteq ips
BY DEF BatchAdd

\* Every step of a goroutine that is not the switch-on's own.
LEMMA AsksKeepOff ==
    ASSUME TypeOK, OffInv, NEW t \in Threads, Ask(t)
    PROVE  OffInv' /\ (disabled' => KeepsOut)
<1>0. th \in [Threads -> Local] /\ th[t] \in Locals
  BY DEF TypeOK, Local
<1>1. ASSUME NEW ip \in Addr, Detect(t, ip) PROVE OffInv' /\ KeepsOut
  BY <1>1, ClaimKeepsOff DEF Detect
<1>2. ASSUME NEW ip \in Addr, Unban(t, ip) PROVE OffInv' /\ KeepsOut
  <2>1. UNCHANGED <<off, disabled, kset, setExists>>
    BY <1>2 DEF Unban, kernel, env
  <2>2. PICK l : l.pc \notin {"off_remove", "ban_add", "sync_add"} /\ Become(t, l)
    BY <1>2 DEF Unban, Idle
  <2> QED BY <1>0, <2>1, <2>2, BecomeElse, KeepsOff, OnlyLess
<1>3. ASSUME NEW ip \in Addr, NEW e, PushBan(t, ip, e) PROVE OffInv' /\ KeepsOut
  BY <1>3, ClaimKeepsOff DEF PushBan
<1>4. ASSUME SyncFetch(t) PROVE OffInv' /\ KeepsOut
  <2>1. UNCHANGED <<off, disabled, kset, setExists>>
    BY <1>4 DEF SyncFetch, kernel, env
  <2>2. PICK l : l.pc \notin {"off_remove", "ban_add", "sync_add"} /\ Become(t, l)
    BY <1>4 DEF SyncFetch, Idle
  <2> QED BY <1>0, <2>1, <2>2, BecomeElse, KeepsOff, OnlyLess
<1>5. ASSUME ExpireBans(t) PROVE OffInv' /\ KeepsOut
  <2>1. UNCHANGED <<off, disabled, kset, setExists>>
    BY <1>5 DEF ExpireBans, kernel, env
  <2>2. PICK l : l.pc \notin {"off_remove", "ban_add", "sync_add"} /\ Become(t, l)
    BY <1>5 DEF ExpireBans, Idle
  <2> QED BY <1>0, <2>1, <2>2, BecomeElse, KeepsOff, OnlyLess
<1>6. ASSUME Disable(t) PROVE OffInv' /\ KeepsOut
  <2>1. UNCHANGED <<off, kset, setExists>> /\ disabled' /\ t \in Switches
    BY <1>6 DEF Disable, kernel, env
  <2>2. Adding' \subseteq Adding
    BY <1>0, <1>6, GotoElse DEF Disable
  <2>3. OffInv'
    BY <1>0, <1>6, <2>1 DEF OffInv, Disable, Goto, Locals
  <2> QED BY <2>1, <2>2, <2>3, OnlyLess
<1>7. ASSUME Enable(t) PROVE OffInv' /\ ~disabled'
  <2>1. \A u \in Threads : th[u].pc # "off_remove"
    BY <1>7, SwitchAssumption DEF Enable, At, OffInv
  <2>2. NoneJoins
    BY <1>0, <1>7, GotoElse DEF Enable
  <2> QED BY <1>7, <2>1, <2>2 DEF Enable, OffInv, NoneJoins
<1> QED BY <1>1, <1>2, <1>3, <1>4, <1>5, <1>6, <1>7 DEF Ask

LEMMA StepsKeepOff ==
    ASSUME TypeOK, OffInv, NEW t \in Threads, Continue(t)
    PROVE  OffInv' /\ (disabled => KeepsOut)
<1>0. th \in [Threads -> Local] /\ th[t] \in Locals
  BY DEF TypeOK, Local
<1>1. ASSUME BanEvict(t) PROVE OffInv' /\ KeepsOut
  <2>1. UNCHANGED <<off, disabled, setExists>> /\ kset' \subseteq kset
    BY <1>1, DropKeepsOff DEF BanEvict
  <2>2. NoneJoins /\ Adding' \subseteq Adding
    BY <1>0, <1>1, BecomeElse DEF BanEvict, Idle, NoneJoins, Adding, Locals
  <2> QED BY <2>1, <2>2, KeepsOff, OnlyLess
<1>2. ASSUME BanCheck(t) PROVE OffInv' /\ (disabled => KeepsOut)
  <2>1. UNCHANGED <<off, disabled, setExists, kset>>
    BY <1>2 DEF BanCheck, kernel, env
  <2>2. NoneJoins /\ (disabled => Adding' \subseteq Adding)
    BY <1>0, <1>2, BecomeElse, GotoElse DEF BanCheck, Idle
  <2> QED BY <2>1, <2>2, KeepsOff, OnlyLess
<1>3. ASSUME BanAdd(t) PROVE OffInv' /\ KeepsOut
  <2>1. UNCHANGED <<off, disabled, setExists>>
    BY <1>3 DEF BanAdd, env
  <2>2. NoneJoins /\ Adding' \subseteq Adding
    BY <1>0, <1>3, BecomeElse, GotoElse DEF BanAdd, Idle, NoneJoins, Adding, Locals
  <2>3. t \in Adding /\ kset' \ kset \subseteq Adds(t)
    BY <1>0, <1>3, BatchAddOnly DEF BanAdd, At, Adding, Adds
  <2> QED BY <2>1, <2>2, <2>3, KeepsOff DEF KeepsOut
<1>4. ASSUME BanExpiry(t) PROVE OffInv' /\ KeepsOut
  <2>1. UNCHANGED <<off, disabled, setExists>> /\ kset' \subseteq kset
    BY <1>4 DEF BanExpiry, kernel, env
  <2>2. NoneJoins /\ Adding' \subseteq Adding
    BY <1>0, <1>4, BecomeElse DEF BanExpiry, Idle
  <2> QED BY <2>1, <2>2, KeepsOff, OnlyLess
<1>5. ASSUME UnbanCheck(t) PROVE OffInv' /\ KeepsOut
  <2>1. UNCHANGED <<off, disabled, setExists>> /\ kset' \subseteq kset
    BY <1>5 DEF UnbanCheck, kernel, env
  <2>2. NoneJoins /\ Adding' \subseteq Adding
    BY <1>0, <1>5, BecomeElse, GotoElse DEF UnbanCheck, Idle
  <2> QED BY <2>1, <2>2, KeepsOff, OnlyLess
<1>6. ASSUME UnbanDel(t) PROVE OffInv' /\ KeepsOut
  <2>1. UNCHANGED <<off, disabled, setExists>> /\ kset' \subseteq kset
    BY <1>6 DEF UnbanDel, kernel, env
  <2>2. NoneJoins /\ Adding' \subseteq Adding
    BY <1>0, <1>6, BecomeElse DEF UnbanDel, Idle
  <2> QED BY <2>1, <2>2, KeepsOff, OnlyLess
<1>7. ASSUME ExpireDrop(t) PROVE OffInv' /\ KeepsOut
  <2>1. UNCHANGED <<off, disabled, setExists>> /\ kset' \subseteq kset
    BY <1>7, DropKeepsOff DEF ExpireDrop
  <2>2. NoneJoins /\ Adding' \subseteq Adding
    BY <1>0, <1>7, BecomeElse DEF ExpireDrop, Idle, NoneJoins, Adding, Locals
  <2> QED BY <2>1, <2>2, KeepsOff, OnlyLess
<1>8. ASSUME NEW monitor, SyncApply(t, monitor) PROVE OffInv' /\ KeepsOut
  <2>1. UNCHANGED <<off, disabled, kset, setExists>>
    BY <1>8 DEF SyncApply, kernel, env
  <2>2. PICK l : l.pc \notin {"off_remove", "ban_add", "sync_add"} /\ Become(t, l)
    BY <1>8 DEF SyncApply, Idle
  <2> QED BY <1>0, <2>1, <2>2, BecomeElse, KeepsOff, OnlyLess
<1>9. ASSUME SyncEvict(t) PROVE OffInv' /\ KeepsOut
  <2>1. UNCHANGED <<off, disabled, setExists>> /\ kset' \subseteq kset
    BY <1>9, DropKeepsOff DEF SyncEvict
  <2>2. NoneJoins /\ Adding' \subseteq Adding
    BY <1>0, <1>9, BecomeElse DEF SyncEvict, Idle, NoneJoins, Adding, Locals
  <2> QED BY <2>1, <2>2, KeepsOff, OnlyLess
<1>10. ASSUME SyncCheck(t) PROVE OffInv' /\ (disabled => KeepsOut)
  <2>1. UNCHANGED <<off, disabled, setExists, kset>>
    BY <1>10 DEF SyncCheck, kernel, env
  <2>2. NoneJoins /\ (disabled => Adding' \subseteq Adding)
    BY <1>0, <1>10, BecomeElse, GotoElse DEF SyncCheck, Idle, NoneJoins, Adding, Locals
  <2> QED BY <2>1, <2>2, KeepsOff, OnlyLess
<1>11. ASSUME SyncAdd(t) PROVE OffInv' /\ KeepsOut
  <2>1. UNCHANGED <<off, disabled, setExists>>
    BY <1>11 DEF SyncAdd, env
  <2>2. NoneJoins /\ Adding' \subseteq Adding
    BY <1>0, <1>11, BecomeElse, GotoElse DEF SyncAdd, Idle, NoneJoins, Adding, Locals
  <2>3. t \in Adding /\ kset' \ kset \subseteq Adds(t)
    BY <1>0, <1>11, BatchAddOnly DEF SyncAdd, At, Adding, Adds
  <2> QED BY <2>1, <2>2, <2>3, KeepsOff DEF KeepsOut
<1>12. ASSUME NEW keep, CleanTable(t, keep) PROVE OffInv' /\ KeepsOut
  <2>1. UNCHANGED <<off, disabled, setExists>> /\ kset' \subseteq kset
    BY <1>12 DEF CleanTable, kernel, env
  <2>2. PICK l : l.pc \notin {"off_remove", "ban_add", "sync_add"} /\ Become(t, l)
    BY <1>12 DEF CleanTable, Idle
  <2> QED BY <1>0, <2>1, <2>2, BecomeElse, KeepsOff, OnlyLess
<1>13. ASSUME CleanCheck(t) PROVE OffInv' /\ KeepsOut
  <2>1. UNCHANGED <<off, disabled, setExists>> /\ kset' \subseteq kset
    BY <1>13 DEF CleanCheck, kernel, env
  <2>2. NoneJoins /\ Adding' \subseteq Adding
    BY <1>0, <1>13, BecomeElse, GotoElse DEF CleanCheck, Idle
  <2> QED BY <2>1, <2>2, KeepsOff, OnlyLess
<1>14. ASSUME CleanList(t) PROVE OffInv' /\ KeepsOut
  <2>1. UNCHANGED <<off, disabled, kset, setExists>>
    BY <1>14 DEF CleanList, kernel, env
  <2>2. PICK l : l.pc \notin {"off_remove", "ban_add", "sync_add"} /\ Become(t, l)
    BY <1>14 DEF CleanList, Idle
  <2> QED BY <1>0, <2>1, <2>2, BecomeElse, KeepsOff, OnlyLess
<1>15. ASSUME NEW ip, CleanDel(t, ip) PROVE OffInv' /\ KeepsOut
  <2>1. UNCHANGED <<off, disabled, setExists>> /\ kset' \subseteq kset
    BY <1>15 DEF CleanDel, kernel, env
  <2>2. NoneJoins /\ Adding' \subseteq Adding
    BY <1>0, <1>15, BecomeElse DEF CleanDel, Idle, NoneJoins, Adding, Locals
  <2> QED BY <2>1, <2>2, KeepsOff, OnlyLess
<1>16. ASSUME RemoveAll(t) PROVE OffInv' /\ KeepsOut
  <2>1. NoneJoins /\ Adding' \subseteq Adding
    BY <1>0, <1>16, BecomeElse DEF RemoveAll, Idle
  <2>2. disabled /\ disabled' = disabled /\ kset' \subseteq kset /\ (setExists' => setExists)
    BY <1>16 DEF RemoveAll, DestroySet, kernel, OffInv, At
  <2> QED BY <2>1, <2>2 DEF OffInv, NoneJoins, KeepsOut
<1>17. ASSUME EnableEnsure(t) PROVE OffInv' /\ ~disabled
  <2>1. NoneJoins
    BY <1>0, <1>17, BecomeElse DEF EnableEnsure, Idle
  <2> QED BY <1>17, <2>1, KeepsOff DEF EnableEnsure, EnsureSet, MayEnsure
<1> QED BY <1>1, <1>2, <1>3, <1>4, <1>5, <1>6, <1>7, <1>8, <1>9, <1>10, <1>11, <1>12, <1>13, <1>14, <1>15, <1>16, <1>17 DEF Continue

\* Once the flag is up, and until the next switch-on, nobody brings back what
\* was removed, restarts in between included.
THEOREM OffStaysOff == Spec => OffMeansOff
<1>1. Init => OffInv
  BY DEF Init, OffInv, Idle
<1>2. TypeOK /\ OffInv /\ [Next]_vars =>
        OffInv' /\ [(disabled \/ off) /\ (disabled' \/ off') => KeepsOut]_vars
  <2> SUFFICES ASSUME TypeOK, OffInv, [Next]_vars
               PROVE  OffInv' /\ (UNCHANGED vars \/ (disabled /\ disabled' => KeepsOut))
    BY DEF OffInv
  <2>1. CASE UNCHANGED vars
    BY <2>1 DEF vars, OffInv
  <2>2. CASE \/ Tick \/ SaveBans \/ HostFlush
             \/ \E ip \in Addr, e \in Expiry : DashBan(ip, e)
             \/ \E ip \in Addr : DashLift(ip)
    <3>1. UNCHANGED <<off, disabled, th>> /\ kset' \subseteq kset /\ (setExists' => setExists)
      BY <2>2 DEF Tick, SaveBans, HostFlush, DashBan, DashLift, kernel, env
    <3>2. NoneJoins /\ Adding' \subseteq Adding
      BY <3>1 DEF NoneJoins, Adding
    <3> QED BY <3>1, <3>2, KeepsOff DEF KeepsOut
  <2>3. ASSUME NEW t \in Threads, Ensure(t) PROVE OffInv' /\ ~disabled
    BY <2>3 DEF Ensure, EnsureSet, MayEnsure, env, OffInv
  <2>4. CASE Restart
    <3>1. /\ th' = [t \in Threads |-> Idle]
          /\ disabled' = saved.off /\ off' = saved.off
          /\ saved.off => DestroySet
      BY <2>4 DEF Restart
    <3>2. OffInv' /\ Adding' = {}
      BY <3>1 DEF Idle, OffInv, Adding
    <3> QED BY <3>1, <3>2 DEF DestroySet, kernel, KeepsOut
  <2> QED BY <2>1, <2>2, <2>3, <2>4, AsksKeepOff, StepsKeepOff DEF Next
<1>3. [(disabled \/ off) /\ (disabled' \/ off') => KeepsOut]_vars =>
        [(disabled \/ off) /\ (disabled' \/ off') =>
           /\ setExists' => setExists
           /\ Adding' \subseteq Adding
           /\ kset' \ kset \subseteq UNION {Adds(t) : t \in Adding}]_vars
  BY DEF KeepsOut
<1> QED BY <1>1, <1>2, <1>3, TypeCorrect, PTL DEF Spec, OffMeansOff

---------------------------------------------------------------------------
(* What leaves the kernel set, and who makes room.                         *)

\* A goroutine changes nobody's locals but its own.
LEMMA OthersRest ==
    ASSUME TypeOK, NEW t \in Threads, NEW u \in Threads, u # t,
           Ask(u) \/ Continue(u) \/ Ensure(u)
    PROVE  th'[t] = th[t]
<1>0. th \in [Threads -> Local]
  BY DEF TypeOK
<1>1. \A l : Become(u, l) => th'[t] = th[t]
  BY <1>0 DEF Become
<1>2. \A pc : Goto(u, pc) => th'[t] = th[t]
  BY <1>0 DEF Goto
<1>3. CASE Ask(u)
  BY <1>1, <1>2, <1>3
     DEF Ask, Detect, Unban, PushBan, ClaimBan, SyncFetch, ExpireBans, Disable, Enable
<1>4. CASE Continue(u)
  <2>1. CASE \/ BanEvict(u) \/ SyncEvict(u)
             \/ \E ip \in Addr : CleanDel(u, ip)
             \/ SyncCheck(u) \/ SyncAdd(u)
    BY <1>0, <1>1, <1>2, <2>1 DEF BanEvict, SyncEvict, CleanDel, SyncCheck, SyncAdd
  <2>2. CASE \/ BanCheck(u) \/ BanAdd(u) \/ BanExpiry(u)
             \/ UnbanCheck(u) \/ UnbanDel(u) \/ ExpireDrop(u)
    BY <1>1, <1>2, <2>2 DEF BanCheck, BanAdd, BanExpiry, UnbanCheck, UnbanDel, ExpireDrop
  <2>3. CASE \/ \E monitor \in MonitorModes : SyncApply(u, monitor)
             \/ \E keep \in KeepSets : CleanTable(u, keep)
             \/ CleanCheck(u) \/ CleanList(u)
             \/ RemoveAll(u) \/ EnableEnsure(u)
    BY <1>1, <1>2, <2>3
       DEF SyncApply, CleanTable, CleanCheck, CleanList, RemoveAll, EnableEnsure
  <2> QED BY <1>4, <2>1, <2>2, <2>3 DEF Continue
<1>5. CASE Ensure(u)
  BY <1>5 DEF Ensure
<1> QED BY <1>3, <1>4, <1>5

\* Where a goroutine is after it has moved.
LEMMA AfterMove ==
    ASSUME TypeOK, NEW t \in Threads
    PROVE  /\ \A l : Become(t, l) => th'[t] = l
           /\ \A pc : Goto(t, pc) => th'[t].pc = pc
<1>1. th \in [Threads -> Local] /\ th[t] \in Locals
  BY DEF TypeOK, Local
<1>2. ASSUME NEW l, Become(t, l) PROVE th'[t] = l
  BY <1>1, <1>2 DEF Become
<1>3. ASSUME NEW pc, Goto(t, pc) PROVE th'[t].pc = pc
  BY <1>1, <1>3 DEF Goto, Locals
<1> QED BY <1>2, <1>3

\* A step that moves a goroutine is its own, unless the process starts anew.
LEMMA OwnStep ==
    ASSUME TypeOK, [Next]_vars, NEW t \in Threads, th'[t] # th[t], restarts' = restarts
    PROVE  Ask(t) \/ Continue(t)
<1>1. ~Restart
  BY DEF Restart, TypeOK
<1>2. ~UNCHANGED th
  OBVIOUS
<1>3. \E u \in Threads : Ask(u) \/ Continue(u) \/ Ensure(u)
  BY <1>1, <1>2 DEF Next, vars, Tick, DashBan, DashLift, SaveBans, HostFlush
<1>4. Ask(t) \/ Continue(t) \/ Ensure(t)
  BY <1>3, OthersRest
<1>5. ~Ensure(t)
  BY <1>2 DEF Ensure
<1> QED BY <1>4, <1>5

\* A goroutine that is to take addresses out of the set does just that.
LEMMA DropStep ==
    ASSUME TypeOK, [Next]_vars, NEW t \in Threads, Dropping(t), restarts' = restarts
    PROVE  DropFromKernel(t)
<1>1. Ask(t) \/ Continue(t)
  BY OwnStep DEF Dropping
<1>2. ~Ask(t)
  BY DEF Dropping, Ask, Detect, Unban, PushBan, ClaimBan, SyncFetch, ExpireBans, Disable,
         Enable, At
<1>3. BanEvict(t) \/ SyncEvict(t) \/ ExpireDrop(t)
  BY <1>1, <1>2
     DEF Dropping, Continue, BanCheck, BanAdd, BanExpiry, UnbanCheck, UnbanDel, SyncApply,
         SyncCheck, SyncAdd, CleanTable, CleanCheck, CleanList, CleanDel, RemoveAll,
         EnableEnsure, At
<1> QED BY <1>3 DEF BanEvict, SyncEvict, ExpireDrop

\* A command that removes addresses removes no other.
LEMMA BatchDelOnly ==
    ASSUME NEW k, NEW ips, NEW r \in BatchDel(k, ips)
    PROVE  k \ r \subseteq ips
BY DEF BatchDel

\* What was evicted or has expired is taken out of the kernel set unless it
\* was banned again meanwhile: any number of goroutines may have changed the
\* table between the two.
THEOREM RebannedSpared == Spec => DropSparesRebanned
<1>1. TypeOK /\ [Next]_vars =>
        [(\E t \in Threads : Dropping(t)) /\ restarts' = restarts
           => (kset \ kset') \cap Banned = {}]_vars
  <2> SUFFICES ASSUME TypeOK, [Next]_vars, NEW t \in Threads, Dropping(t), restarts' = restarts
               PROVE  (kset \ kset') \cap Banned = {}
    OBVIOUS
  <2>1. DropFromKernel(t)
    BY DropStep
  <2>2. kset' = kset \/ kset' \in BatchDel(kset, Gone(th[t].ips))
    BY <2>1 DEF DropFromKernel
  <2>3. kset \ kset' \subseteq Gone(th[t].ips)
    BY <2>2, BatchDelOnly
  <2> QED BY <2>3 DEF Gone
<1> QED BY <1>1, TypeCorrect, PTL DEF Spec, DropSparesRebanned

\* A ban that ended with its time is out of the kernel set when ExpireBans
\* returns, unless it was banned again - or unless an address that is to go is
\* an IPv6 one, which ipset, keeping a set of IPv4 addresses, stops at.
THEOREM ExpiredGone == Spec => ExpiredLeaveKernel
<1>1. TypeOK /\ [Next]_vars =>
        [\A t \in Timers : Expiring(t) /\ Gone(th[t].ips) \cap V6 = {}
          => kset' \cap (th[t].ips \ Banned) = {}]_vars
  <2> SUFFICES ASSUME TypeOK, [Next]_vars, NEW t \in Timers, Expiring(t),
                      Gone(th[t].ips) \cap V6 = {}
               PROVE  kset' \cap (th[t].ips \ Banned) = {}
    OBVIOUS
  <2>1. t \in Threads /\ Dropping(t) /\ restarts' = restarts /\ setExists /\ ~disabled
    BY DEF Threads, Dropping, Expiring
  <2>2. DropFromKernel(t)
    BY <2>1, DropStep
  <2>3. kset' = kset \ Gone(th[t].ips)
    BY <2>1, <2>2 DEF DropFromKernel, BatchDel
  <2> QED BY <2>3 DEF Gone
<1> QED BY <1>1, TypeCorrect, PTL DEF Spec, ExpiredLeaveKernel

\* Only the goroutine of the sync is ever in the middle of one, so that the
\* rows it applies are rows Listed knows.
SyncSteps == {"sync_apply", "sync_evict", "sync_check", "sync_add"}
SyncsOwn == \A t \in Threads : th[t].pc \in SyncSteps => t \in Syncs

\* The number of restarts grows when the agent is restarted, and never else.
LEMMA OnlyRestart ==
    ASSUME [Next]_vars, ~Restart
    PROVE  restarts' = restarts
<1>1. CASE UNCHANGED vars
  BY <1>1 DEF vars, bounds
<1>2. CASE \/ Tick \/ SaveBans \/ HostFlush
           \/ \E ip \in Addr, e \in Expiry : DashBan(ip, e)
           \/ \E ip \in Addr : DashLift(ip)
  BY <1>2 DEF Tick, DashBan, DashLift, SaveBans, HostFlush, bounds
<1>3. ASSUME NEW t \in Threads, Ask(t) PROVE restarts' = restarts
  <2>1. CASE \/ \E ip \in Addr : Detect(t, ip) \/ Unban(t, ip)
             \/ \E ip \in Addr, e \in {Never} \cup (now + 1)..MaxTime : PushBan(t, ip, e)
    BY <2>1 DEF Detect, PushBan, ClaimBan, Unban, bounds
  <2>2. CASE SyncFetch(t) \/ ExpireBans(t) \/ Disable(t) \/ Enable(t)
    BY <2>2 DEF SyncFetch, ExpireBans, Disable, Enable, bounds
  <2> QED BY <1>3, <2>1, <2>2 DEF Ask
<1>4. ASSUME NEW t \in Threads, Continue(t) PROVE restarts' = restarts
  <2>1. CASE BanEvict(t) \/ BanCheck(t) \/ BanAdd(t) \/ BanExpiry(t)
    BY <2>1 DEF BanEvict, BanCheck, BanAdd, BanExpiry, DropFromKernel, bounds
  <2>2. CASE UnbanCheck(t) \/ UnbanDel(t) \/ ExpireDrop(t)
    BY <2>2 DEF UnbanCheck, UnbanDel, ExpireDrop, DropFromKernel, bounds
  <2>3. CASE \/ \E monitor \in MonitorModes : SyncApply(t, monitor)
             \/ SyncEvict(t) \/ SyncCheck(t) \/ SyncAdd(t)
    BY <2>3 DEF SyncApply, SyncEvict, SyncCheck, SyncAdd, DropFromKernel, bounds
  <2>4. CASE \/ \E keep \in KeepSets : CleanTable(t, keep)
             \/ CleanCheck(t) \/ CleanList(t) \/ \E ip \in Addr : CleanDel(t, ip)
             \/ RemoveAll(t) \/ EnableEnsure(t)
    BY <2>4 DEF CleanTable, CleanCheck, CleanList, CleanDel, RemoveAll, EnableEnsure, bounds
  <2> QED BY <1>4, <2>1, <2>2, <2>3, <2>4 DEF Continue
<1>5. ASSUME NEW t \in Threads, Ensure(t) PROVE restarts' = restarts
  BY <1>5 DEF Ensure, bounds
<1> QED BY <1>1, <1>2, <1>3, <1>4, <1>5 DEF Next

\* A goroutine comes to a step of a sync by fetching or from an earlier step.
LEMMA SyncsOwnNext == TypeOK /\ SyncsOwn /\ [Next]_vars => SyncsOwn'
<1> SUFFICES ASSUME TypeOK, SyncsOwn, [Next]_vars,
                    NEW t \in Threads, th'[t].pc \in SyncSteps
             PROVE  t \in Syncs
  BY DEF SyncsOwn
<1>0. th \in [Threads -> Local] /\ th[t] \in Locals
  BY DEF TypeOK, Local
<1>1. CASE th'[t] = th[t]
  BY <1>1 DEF SyncsOwn
<1>2. CASE th'[t] # th[t] /\ restarts' = restarts
  <2>0. \A l : Become(t, l) => th'[t] = l
    BY AfterMove
  <2>1. \A pc : Goto(t, pc) => th'[t].pc = pc
    BY AfterMove
  <2>2. CASE Ask(t)
    <3>1. ASSUME NEW ip, NEW e, ClaimBan(t, ip, e) PROVE FALSE
      <4>1. \/ Become(t, [Idle EXCEPT !.pc = "ban_check", !.ip = ip, !.exp = e])
            \/ \E out : Become(t, [Idle EXCEPT !.pc = IF out = {} THEN "ban_check" ELSE "ban_evict",
                                              !.ip = ip, !.exp = e, !.added = TRUE, !.ips = out])
        BY <3>1 DEF ClaimBan
      <4>2. th'[t].pc \in {"ban_check", "ban_evict"}
        BY <2>0, <4>1 DEF Idle
      <4> QED BY <4>2 DEF SyncSteps
    <3>2. ASSUME NEW ip, Unban(t, ip) PROVE FALSE
      BY <2>0, <3>2 DEF Unban, Idle, SyncSteps
    <3>3. ASSUME ExpireBans(t) PROVE FALSE
      BY <2>0, <3>3 DEF ExpireBans, Idle, SyncSteps
    <3>4. ASSUME Disable(t) \/ Enable(t) PROVE FALSE
      BY <2>1, <3>4 DEF Disable, Enable, SyncSteps
    <3> QED BY <2>2, <3>1, <3>2, <3>3, <3>4 DEF Ask, Detect, PushBan, SyncFetch
  <2>3. CASE BanEvict(t) \/ \E ip \in Addr : CleanDel(t, ip)
    BY <1>0, <2>0, <2>3 DEF BanEvict, CleanDel, Idle, Locals, SyncSteps, At
  <2>4. CASE \/ BanCheck(t) \/ BanAdd(t) \/ BanExpiry(t)
             \/ UnbanCheck(t) \/ UnbanDel(t) \/ ExpireDrop(t)
    <3>1. ~(th'[t].pc \in SyncSteps) \/ (BanCheck(t) \/ BanAdd(t) \/ BanExpiry(t))
      BY <2>0, <2>1, <2>4 DEF UnbanCheck, UnbanDel, ExpireDrop, Idle, SyncSteps
    <3>2. ASSUME BanCheck(t) PROVE FALSE
      BY <2>0, <2>1, <3>2 DEF BanCheck, Idle, SyncSteps
    <3>3. ASSUME BanAdd(t) PROVE FALSE
      BY <2>0, <2>1, <3>3 DEF BanAdd, Idle, SyncSteps
    <3>4. ASSUME BanExpiry(t) PROVE FALSE
      BY <2>0, <3>4 DEF BanExpiry, Idle, SyncSteps
    <3> QED BY <3>1, <3>2, <3>3, <3>4
  <2>5. CASE \/ \E keep \in KeepSets : CleanTable(t, keep)
             \/ CleanCheck(t) \/ CleanList(t) \/ RemoveAll(t) \/ EnableEnsure(t)
    <3>1. ASSUME NEW keep, CleanTable(t, keep) PROVE FALSE
      BY <2>0, <3>1 DEF CleanTable, Idle, SyncSteps
    <3>2. ASSUME CleanCheck(t) PROVE FALSE
      BY <2>0, <2>1, <3>2 DEF CleanCheck, Idle, SyncSteps
    <3>3. ASSUME CleanList(t) PROVE FALSE
      <4> DEFINE stale == StaleMembers(kset, th[t].active)
      <4>1. Become(t, IF stale = {} THEN Idle ELSE [Idle EXCEPT !.pc = "clean_del", !.ips = stale])
        BY <3>3, Zenon DEF CleanList
      <4> HIDE DEF stale
      <4>2. CASE stale = {}
        BY <2>0, <4>1, <4>2 DEF Idle, SyncSteps
      <4>3. CASE stale # {}
        <5>1. th'[t] = [Idle EXCEPT !.pc = "clean_del", !.ips = stale]
          BY <2>0, <4>1, <4>3
        <5> QED BY <5>1 DEF Idle, SyncSteps
      <4> QED BY <4>2, <4>3
    <3>4. ASSUME RemoveAll(t) \/ EnableEnsure(t) PROVE FALSE
      BY <2>0, <3>4 DEF RemoveAll, EnableEnsure, Idle, SyncSteps
    <3> QED BY <2>5, <3>1, <3>2, <3>3, <3>4
  <2>6. CASE \/ \E monitor \in MonitorModes : SyncApply(t, monitor)
             \/ SyncEvict(t) \/ SyncCheck(t) \/ SyncAdd(t)
    BY <2>6 DEF SyncApply, SyncEvict, SyncCheck, SyncAdd, At, SyncSteps, SyncsOwn
  <2> QED BY <1>2, <2>2, <2>3, <2>4, <2>5, <2>6, OwnStep DEF Continue
<1>3. CASE restarts' # restarts
  <2>1. Restart
    BY <1>3, OnlyRestart
  <2> QED BY <2>1 DEF Restart, Idle, SyncSteps
<1> QED BY <1>1, <1>2, <1>3

\* makeRoomLocked's order: while a ban that ends could have gone, none
\* without an end goes.
LEMMA EvictsEndingFirst ==
    ASSUME NEW b, NEW n, NEW keep, NEW out \in MakeRoom(b, n, keep),
           NEW x \in out, NEW y \in DOMAIN b, y \notin keep, y \notin out,
           b[x].expires = Never
    PROVE  b[y].expires = Never
<1>1. ~Before(b, y, x)
  BY DEF MakeRoom
<1> QED BY <1>1 DEF Before

\* A flood of short bans evicts no permanent ban of the dashboard while there
\* is another to evict, for every capacity and however many goroutines.
THEOREM PermanentBansSpared == Spec => PermanentSpared
<1>1. Init => SyncsOwn
  BY DEF Init, SyncsOwn, SyncSteps, Idle
<1>2. TypeOK /\ SyncsOwn /\ [Next]_vars =>
        [MadeRoom =>
           \A a \in Banned \ DOMAIN bans' : bans[a].expires = Never =>
              \A b \in (Banned \cap DOMAIN bans') \ Listed : bans[b].expires = Never]_vars
  <2> SUFFICES ASSUME TypeOK, SyncsOwn, [Next]_vars, NEW t \in Threads,
                      th'[t].pc \in {"ban_evict", "sync_evict"}, th[t].pc # th'[t].pc,
                      NEW a \in Banned \ DOMAIN bans', bans[a].expires = Never,
                      NEW b \in (Banned \cap DOMAIN bans') \ Listed
               PROVE  bans[b].expires = Never
    BY DEF MadeRoom
  <2>0. th \in [Threads -> Local] /\ bans \in Tables
    BY DEF TypeOK
  <2>1. \A l : Become(t, l) => th'[t] = l
    BY AfterMove
  <2>2. \A pc : Goto(t, pc) => th'[t].pc = pc
    BY AfterMove
  <2>3. restarts' = restarts
    <3>1. ~Restart
      BY DEF Restart, Idle
    <3> QED BY <3>1, OnlyRestart
  <2>4. Ask(t) \/ Continue(t)
    BY <2>3, OwnStep
  <2>5. ASSUME NEW ip \in Addr, NEW e, ClaimBan(t, ip, e) PROVE bans[b].expires = Never
    <3>1. bans' # bans
      BY DEF Banned
    <3>2. PICK out \in MakeRoom(bans, 1, {}) :
             bans' = WithBan(Without(bans, out), ip, [added |-> now, expires |-> e])
      BY <2>5, <3>1 DEF ClaimBan
    <3>3. DOMAIN bans' = (Banned \ out) \cup {ip} /\ ip \notin Banned
      BY <2>5, <3>1, <3>2 DEF ClaimBan, WithBan, Without, Banned
    <3>4. a \in out /\ b \in DOMAIN bans /\ b \notin {} /\ b \notin out
      BY <3>3 DEF Banned
    <3> QED BY <3>2, <3>4, EvictsEndingFirst
  <2>6. ASSUME NEW monitor, SyncApply(t, monitor) PROVE bans[b].expires = Never
    <3> DEFINE rows   == {r \in th[t].rows : ~Expired(r[2])}
               active == {r[1] : r \in rows}
    <3>1. bans' # bans
      BY DEF Banned
    <3>2. PICK safe \in SUBSET active :
             \E out \in MakeRoom(bans, Cardinality(safe \ Banned), safe) :
               DOMAIN bans' = (Banned \ out) \cup safe
      BY <2>6, <3>1 DEF SyncApply
    <3>3. PICK out \in MakeRoom(bans, Cardinality(safe \ Banned), safe) :
             DOMAIN bans' = (Banned \ out) \cup safe
      BY <3>2
    <3>4. t \in Syncs
      BY <2>6 DEF SyncApply, At, SyncsOwn, SyncSteps
    <3>5. b \notin safe
      <4>1. safe \subseteq {r[1] : r \in th[t].rows}
        OBVIOUS
      <4> QED BY <3>4, <4>1 DEF Listed
    <3>6. a \in out /\ b \in DOMAIN bans /\ b \notin out
      BY <3>3, <3>5 DEF Banned
    <3> QED BY <3>3, <3>5, <3>6, EvictsEndingFirst
  <2>7. CASE Ask(t)
    BY <2>1, <2>2, <2>5, <2>7
       DEF Ask, Detect, Unban, PushBan, SyncFetch, ExpireBans, Disable, Enable, Idle
  <2>8. CASE Continue(t)
    <3>1. bans' # bans
      BY DEF Banned
    <3>2. ~(BanExpiry(t) \/ \E keep \in KeepSets : CleanTable(t, keep))
      <4>1. ASSUME BanExpiry(t) PROVE FALSE
        BY <2>1, <4>1 DEF BanExpiry, Idle
      <4>2. ASSUME NEW keep, CleanTable(t, keep) PROVE FALSE
        BY <2>1, <4>2 DEF CleanTable, Idle
      <4> QED BY <4>1, <4>2
    <3> QED BY <2>6, <2>8, <3>1, <3>2
         DEF Continue, BanEvict, BanCheck, BanAdd, UnbanCheck, UnbanDel, ExpireDrop,
             DropFromKernel, SyncEvict, SyncCheck, SyncAdd, CleanCheck, CleanList, CleanDel,
             RemoveAll, EnableEnsure
  <2> QED BY <2>4, <2>7, <2>8
<1> QED BY <1>1, <1>2, SyncsOwnNext, TypeCorrect, PTL DEF Spec, PermanentSpared
=============================================================================
