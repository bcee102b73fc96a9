--------------------------- MODULE ReportsProofs ---------------------------
(***************************************************************************)
(* Theorems about what is reported to the dashboard, for any addresses,    *)
(* watchers, requests, events and bounds, whatever fails: EventQueue       *)
(* implements EventDelivery; BanOutbox and PanelAllow; and of the          *)
(* composition of the three (MCReports), that the outboxes keep to their   *)
(* limits, that a sync's cleanup spares the agent's own bans, and that     *)
(* what a hosting panel allows is told in order.                           *)
(***************************************************************************)
EXTENDS MCReports, FiniteSetTheorems, SequenceTheorems, TLAPS

----------------------------------------------------------------------------
(* Some positions of a queue, in order.                                    *)

Below(S, i) == Cardinality({j \in S : j < i})

LEMMA RankGrows ==
    ASSUME NEW S \in SUBSET Int, IsFiniteSet(S), NEW i \in S
    PROVE  /\ Below(S, i) \in 0..(Cardinality(S) - 1)
           /\ \A j \in S : i < j => Below(S, i) < Below(S, j)
<1>1. IsFiniteSet({j \in S : j < i}) /\ Below(S, i) \in Nat /\ Cardinality(S) \in Nat
  BY FS_Subset, FS_CardinalityType DEF Below
\* A smaller part of a finite set has fewer members.
<1>2. ASSUME NEW U, IsFiniteSet(U), NEW T \in SUBSET U, T # U
      PROVE  Cardinality(T) < Cardinality(U)
  <2>1. Cardinality(T) \in Nat /\ Cardinality(U) \in Nat
    BY <1>2, FS_Subset, FS_CardinalityType
  <2>2. Cardinality(T) <= Cardinality(U) /\ (Cardinality(U) = Cardinality(T) => U = T)
    BY <1>2, FS_Subset
  <2> QED BY <1>2, <2>1, <2>2
<1>3. Below(S, i) < Cardinality(S)
  <2>1. {j \in S : j < i} \in SUBSET S /\ {j \in S : j < i} # S
    OBVIOUS
  <2> QED BY <1>2, <2>1 DEF Below
<1>4. ASSUME NEW j \in S, i < j PROVE Below(S, i) < Below(S, j)
  <2> DEFINE T == {k \in S : k < i}  U == {k \in S : k < j}
  <2>1. T \in SUBSET U /\ i \in U /\ i \notin T
    <3>1. i \in Int /\ j \in Int /\ \A k \in S : k \in Int
      OBVIOUS
    <3>2. \A k \in S : k < i => k < j
      BY <1>4, <3>1
    <3>3. ~(i < i)
      BY <3>1
    <3> QED BY <1>4, <3>2, <3>3
  <2>2. U \in SUBSET S
    OBVIOUS
  <2>3. IsFiniteSet(U)
    <3> HIDE DEF U
    <3> QED BY <2>2, FS_Subset
  <2>4. Cardinality(T) < Cardinality(U)
    <3> HIDE DEF T, U
    <3> QED BY <1>2, <2>1, <2>3
  <2> QED BY <2>4 DEF Below
<1> QED BY <1>1, <1>3, <1>4

\* A finite set of positions has a k-th one, for each k up to their number, and they
\* come in order.
LEMMA NthInOrder ==
    ASSUME NEW S \in SUBSET Int, IsFiniteSet(S)
    PROVE  /\ \A k \in 1..Cardinality(S) : Nth(S, k) \in S /\ Below(S, Nth(S, k)) = k - 1
           /\ \A i \in S : \E k \in 1..Cardinality(S) : Nth(S, k) = i
           /\ \A k, l \in 1..Cardinality(S) : k < l => Nth(S, k) < Nth(S, l)
<1> DEFINE n == Cardinality(S)
           rank == [i \in S |-> Below(S, i)]
<1>1. n \in Nat
  BY FS_CardinalityType
<1>2. \A i \in S : /\ Below(S, i) \in 0..(n - 1)
                   /\ \A j \in S : i < j => Below(S, i) < Below(S, j)
  BY RankGrows
<1>3. \A i, j \in S : Below(S, i) = Below(S, j) => i = j
  <2> SUFFICES ASSUME NEW i \in S, NEW j \in S, Below(S, i) = Below(S, j), i # j PROVE FALSE
    OBVIOUS
  <2>1. i < j \/ j < i
    OBVIOUS
  <2>2. Below(S, i) \in Int /\ Below(S, j) \in Int
    BY <1>2
  <2> QED BY <1>2, <2>1, <2>2
<1>4. rank \in Injection(S, 0..(n - 1))
  BY <1>2, <1>3 DEF Injection, IsInjective
<1>5. IsFiniteSet(0..(n - 1)) /\ Cardinality(0..(n - 1)) = n
  BY <1>1, FS_Interval
<1>6. rank \in Surjection(S, 0..(n - 1))
  BY <1>4, <1>5, FS_Injection
<1>7. ASSUME NEW k \in 1..n PROVE Nth(S, k) \in S /\ Below(S, Nth(S, k)) = k - 1
  <2>1. k - 1 \in 0..(n - 1)
    BY <1>1
  <2>2. \E i \in S : rank[i] = k - 1
    BY <1>6, <2>1 DEF Surjection
  <2>3. \E i \in S : Cardinality({j \in S : j < i}) = k - 1
    BY <2>2 DEF Below
  <2> QED BY <2>3 DEF Nth, Below
<1>8. ASSUME NEW i \in S PROVE \E k \in 1..n : Nth(S, k) = i
  <2>1. Below(S, i) + 1 \in 1..n
    BY <1>1, <1>2
  <2>2. Below(S, Nth(S, Below(S, i) + 1)) = Below(S, i) /\ Nth(S, Below(S, i) + 1) \in S
    BY <1>2, <1>7, <2>1
  <2> QED BY <1>3, <2>1, <2>2
<1>9. ASSUME NEW k \in 1..n, NEW l \in 1..n, k < l PROVE Nth(S, k) < Nth(S, l)
  <2> DEFINE i == Nth(S, k)  j == Nth(S, l)
  <2>1. i \in S /\ Below(S, i) = k - 1 /\ j \in S /\ Below(S, j) = l - 1
    BY <1>7
  <2> HIDE DEF i, j
  <2>2. (j < i => Below(S, j) < Below(S, i)) /\ i \in Int /\ j \in Int
    BY <1>2, <2>1
  <2>3. i # j /\ ~(j < i)
    BY <1>1, <1>9, <2>1, <2>2
  <2>4. i < j
    BY <2>2, <2>3
  <2> QED BY <2>4 DEF i, j
<1> QED BY <1>7, <1>8, <1>9

\* What is kept of a queue: a shorter queue, with its events in their order.
Picked(s, t) ==
    \E at \in [DOMAIN t -> DOMAIN s] :
        /\ \A k \in DOMAIN t : t[k] = s[at[k]]
        /\ \A k, l \in DOMAIN t : k < l => at[k] < at[l]

LEMMA KeepPicks ==
    ASSUME NEW s \in Seq(Event), NEW S \in SUBSET DOMAIN s
    PROVE  /\ Keep(s, S) \in Seq(Event) /\ Len(Keep(s, S)) = Cardinality(S)
           /\ Picked(s, Keep(s, S))
           /\ \A i \in S : \E k \in DOMAIN Keep(s, S) : Keep(s, S)[k] = s[i]
           /\ \A k \in DOMAIN Keep(s, S) : \E i \in S : Keep(s, S)[k] = s[i]
<1> DEFINE n == Cardinality(S)  t == Keep(s, S)
<1>1. DOMAIN s = 1..Len(s) /\ Len(s) \in Nat /\ \A i \in DOMAIN s : s[i] \in Event
  BY LenProperties, ElementOfSeq
<1>2. IsFiniteSet(S) /\ S \in SUBSET Int /\ n \in Nat
  <2>1. IsFiniteSet(1..Len(s))
    BY <1>1, FS_Interval
  <2> QED BY <1>1, <2>1, FS_Subset, FS_CardinalityType
<1>3. /\ \A k \in 1..n : Nth(S, k) \in S
      /\ \A i \in S : \E k \in 1..n : Nth(S, k) = i
      /\ \A k, l \in 1..n : k < l => Nth(S, k) < Nth(S, l)
  BY <1>2, NthInOrder
<1>4. t = [k \in 1..n |-> s[Nth(S, k)]]
  BY DEF Keep
<1> HIDE DEF t, n
<1>5. t \in [1..n -> Event] /\ \A k \in 1..n : t[k] = s[Nth(S, k)]
  BY <1>1, <1>3, <1>4
<1>6. t \in Seq(Event) /\ DOMAIN t = 1..n /\ Len(t) = n
  BY <1>2, <1>5, SeqDef, LenProperties
<1>7. Picked(s, t)
  <2> DEFINE at == [k \in 1..n |-> Nth(S, k)]
  <2>1. at \in [DOMAIN t -> DOMAIN s]
    BY <1>3, <1>6
  <2>2. \A k \in DOMAIN t : t[k] = s[at[k]]
    BY <1>5, <1>6
  <2>3. \A k, l \in DOMAIN t : k < l => at[k] < at[l]
    BY <1>3, <1>6
  <2> HIDE DEF at
  <2> QED BY <2>1, <2>2, <2>3 DEF Picked
<1> QED BY <1>3, <1>5, <1>6, <1>7 DEF t, n

----------------------------------------------------------------------------
(* What stays in line.                                                     *)

\* The events of s stand in the order of their numbers, all of them accepted (below n)
\* and none dropped (in d); u are the urgent ones; and of those the dashboard has (g), no
\* older one is missing.
InLine(s, g, d, u, n) ==
    /\ s \in Seq(Event)
    /\ \A i \in DOMAIN s : s[i].id < n /\ s[i].id \notin d /\ (s[i].urgent <=> s[i].id \in u)
    /\ \A i, j \in DOMAIN s : i < j /\ s[i].id # 0 /\ s[j].id # 0 => s[i].id < s[j].id
    /\ \A i, j \in DOMAIN s : i < j /\ s[i].id # 0 /\ s[j].id \in g => s[i].id \in g

LEMMA PickedInLine ==
    ASSUME NEW s, NEW t \in Seq(Event), Picked(s, t), NEW g, NEW d, NEW u, NEW n
    PROVE  /\ InLine(s, g, d, u, n) => InLine(t, g, d, u, n)
           /\ Ids(t) \subseteq Ids(s)
<1>1. PICK at \in [DOMAIN t -> DOMAIN s] :
        /\ \A k \in DOMAIN t : t[k] = s[at[k]]
        /\ \A k, l \in DOMAIN t : k < l => at[k] < at[l]
  BY DEF Picked
<1>2. \A k \in DOMAIN t : at[k] \in DOMAIN s
  OBVIOUS
<1>3. ASSUME InLine(s, g, d, u, n) PROVE InLine(t, g, d, u, n)
  <2>1. \A k \in DOMAIN t : t[k].id < n /\ t[k].id \notin d /\ (t[k].urgent <=> t[k].id \in u)
    BY <1>1, <1>2, <1>3 DEF InLine
  <2>2. \A k, l \in DOMAIN t : k < l /\ t[k].id # 0 /\ t[l].id # 0 => t[k].id < t[l].id
    BY <1>1, <1>2, <1>3 DEF InLine
  <2>3. \A k, l \in DOMAIN t : k < l /\ t[k].id # 0 /\ t[l].id \in g => t[k].id \in g
    BY <1>1, <1>2, <1>3 DEF InLine
  <2> QED BY <2>1, <2>2, <2>3 DEF InLine
<1>4. Ids(t) \subseteq Ids(s)
  BY <1>1, <1>2 DEF Ids
<1> QED BY <1>3, <1>4

\* The tail of a queue is picked from it.
LEMMA SubSeqPicked ==
    ASSUME NEW s \in Seq(Event), NEW n \in 0..Len(s)
    PROVE  /\ SubSeq(s, n + 1, Len(s)) \in Seq(Event)
           /\ Len(SubSeq(s, n + 1, Len(s))) = Len(s) - n
           /\ \A i \in 1..(Len(s) - n) : SubSeq(s, n + 1, Len(s))[i] = s[n + i]
           /\ Picked(s, SubSeq(s, n + 1, Len(s)))
<1> DEFINE t == SubSeq(s, n + 1, Len(s))
<1>1. Len(s) \in Nat /\ DOMAIN s = 1..Len(s) /\ \A i \in 1..Len(s) : s[i] \in Event
  BY LenProperties, ElementOfSeq
<1>2. /\ t \in Seq(Event)
      /\ Len(t) = IF n + 1 <= Len(s) THEN Len(s) - (n + 1) + 1 ELSE 0
      /\ \A i \in 1..(Len(s) - (n + 1) + 1) : t[i] = s[n + 1 + i - 1]
  <2>1. \A i \in (n + 1)..Len(s) : s[i] \in Event
    BY <1>1
  <2>2. n + 1 \in Int /\ Len(s) \in Int
    BY <1>1
  <2> QED BY <2>1, <2>2, SubSeqProperties
<1> HIDE DEF t
<1>3. Len(t) = Len(s) - n
  <2>1. n \in Nat /\ n <= Len(s) /\ Len(s) \in Nat
    BY <1>1
  <2>2. CASE n + 1 <= Len(s)
    BY <1>2, <2>1, <2>2
  <2>3. CASE ~(n + 1 <= Len(s))
    <3>1. n = Len(s)
      BY <2>1, <2>3
    <3> QED BY <1>2, <2>1, <2>3, <3>1
  <2> QED BY <2>2, <2>3
<1>4. \A i \in 1..(Len(s) - n) : t[i] = s[n + i]
  <2> TAKE i \in 1..(Len(s) - n)
  <2>1. i \in 1..(Len(s) - (n + 1) + 1) /\ n + 1 + i - 1 = n + i
    BY <1>1
  <2> QED BY <1>2, <2>1
<1>5. DOMAIN t = 1..(Len(s) - n)
  BY <1>2, <1>3, LenProperties
<1>6. Picked(s, t)
  <2> DEFINE at == [i \in 1..(Len(s) - n) |-> n + i]
  <2>1. at \in [DOMAIN t -> DOMAIN s]
    BY <1>1, <1>5
  <2>2. \A i \in DOMAIN t : t[i] = s[at[i]]
    BY <1>4, <1>5
  <2>3. \A i, j \in DOMAIN t : i < j => at[i] < at[j]
    BY <1>1, <1>5
  <2> HIDE DEF at
  <2> QED BY <2>1, <2>2, <2>3 DEF Picked
<1> QED BY <1>2, <1>3, <1>4, <1>6 DEF t

\* What is picked from the second of two queues is picked from both.
LEMMA ConcatPicked ==
    ASSUME NEW p \in Seq(Event), NEW s \in Seq(Event), NEW t \in Seq(Event), Picked(s, t)
    PROVE  Picked(p \o s, p \o t)
<1>1. PICK at \in [DOMAIN t -> DOMAIN s] :
        /\ \A k \in DOMAIN t : t[k] = s[at[k]]
        /\ \A k, l \in DOMAIN t : k < l => at[k] < at[l]
  BY DEF Picked
<1>2. /\ Len(p) \in Nat /\ Len(s) \in Nat /\ Len(t) \in Nat
      /\ DOMAIN s = 1..Len(s) /\ DOMAIN t = 1..Len(t)
  BY LenProperties
<1>3. /\ DOMAIN (p \o s) = 1..(Len(p) + Len(s)) /\ DOMAIN (p \o t) = 1..(Len(p) + Len(t))
      /\ \A i \in 1..(Len(p) + Len(s)) : (p \o s)[i] = IF i <= Len(p) THEN p[i] ELSE s[i - Len(p)]
      /\ \A i \in 1..(Len(p) + Len(t)) : (p \o t)[i] = IF i <= Len(p) THEN p[i] ELSE t[i - Len(p)]
  <2>1. p \o s \in Seq(Event) /\ Len(p \o s) = Len(p) + Len(s)
    BY ConcatProperties
  <2>2. p \o t \in Seq(Event) /\ Len(p \o t) = Len(p) + Len(t)
    BY ConcatProperties
  <2>3. DOMAIN (p \o s) = 1..(Len(p) + Len(s)) /\ DOMAIN (p \o t) = 1..(Len(p) + Len(t))
    BY <2>1, <2>2, LenProperties
  <2> QED BY <2>3, ConcatProperties
<1> DEFINE m == Len(p)
           to == [i \in 1..(m + Len(t)) |-> IF i <= m THEN i ELSE m + at[i - m]]
<1>0. \A k \in 1..Len(t) : at[k] \in 1..Len(s) /\ t[k] = s[at[k]]
  BY <1>1, <1>2
<1>4. ASSUME NEW i \in 1..(m + Len(t))
      PROVE  \/ i <= m /\ to[i] = i /\ i \in 1..m /\ i \in 1..(m + Len(s))
             \/ /\ ~(i <= m) /\ i - m \in 1..Len(t) /\ to[i] = m + at[i - m] /\ at[i - m] \in 1..Len(s)
                /\ to[i] \in 1..(m + Len(s)) /\ ~(to[i] <= m) /\ to[i] - m = at[i - m]
  <2>1. m \in Nat /\ Len(t) \in Nat /\ Len(s) \in Nat
    BY <1>2
  <2>2. CASE i <= m
    BY <2>1, <2>2
  <2>3. CASE ~(i <= m)
    <3>1. i - m \in 1..Len(t) /\ to[i] = m + at[i - m]
      BY <2>1, <2>3
    <3>2. at[i - m] \in 1..Len(s)
      BY <1>0, <3>1
    <3> HIDE DEF to
    <3> QED BY <2>1, <2>3, <3>1, <3>2
  <2> QED BY <2>2, <2>3
<1>5. to \in [1..(m + Len(t)) -> 1..(m + Len(s))]
  BY <1>4
<1>6. ASSUME NEW i \in 1..(m + Len(t)) PROVE (p \o t)[i] = (p \o s)[to[i]]
  <2> HIDE DEF to
  <2>1. CASE i <= m
    BY <1>3, <1>4, <2>1
  <2>2. CASE ~(i <= m)
    <3>1. (p \o t)[i] = t[i - m] /\ (p \o s)[to[i]] = s[to[i] - m]
      BY <1>3, <1>4, <2>2
    <3> QED BY <1>0, <1>4, <2>2, <3>1
  <2> QED BY <2>1, <2>2
<1>7. \A i, j \in 1..(m + Len(t)) : i < j => to[i] < to[j]
  <2> SUFFICES ASSUME NEW i \in 1..(m + Len(t)), NEW j \in 1..(m + Len(t)), i < j
               PROVE  to[i] < to[j]
    OBVIOUS
  <2>1. CASE i <= m /\ j <= m
    BY <1>4, <2>1
  <2>2. CASE i <= m /\ ~(j <= m)
    BY <1>2, <1>4, <2>2
  <2>3. CASE ~(i <= m)
    <3>1. /\ i - m \in 1..Len(t) /\ to[i] = m + at[i - m] /\ at[i - m] \in 1..Len(s)
          /\ j - m \in 1..Len(t) /\ to[j] = m + at[j - m] /\ at[j - m] \in 1..Len(s)
      BY <1>2, <1>4, <2>3
    <3>2. at[i - m] < at[j - m]
      <4>1. i - m < j - m /\ i - m \in DOMAIN t /\ j - m \in DOMAIN t
        BY <1>2, <3>1
      <4> QED BY <1>1, <4>1
    <3> QED BY <1>2, <3>1, <3>2
  <2> QED BY <1>2, <2>1, <2>2, <2>3
<1> HIDE DEF to, m
<1> QED BY <1>3, <1>5, <1>6, <1>7 DEF Picked, m

LEMMA IdsOfAppend ==
    ASSUME NEW s \in Seq(Event), NEW e \in Event
    PROVE  /\ Append(s, e) \in Seq(Event) /\ Len(Append(s, e)) = Len(s) + 1
           /\ DOMAIN Append(s, e) = 1..(Len(s) + 1)
           /\ \A i \in DOMAIN s : Append(s, e)[i] = s[i] /\ i \in DOMAIN Append(s, e)
           /\ \A i \in DOMAIN Append(s, e) :
                \/ i \in DOMAIN s /\ Append(s, e)[i] = s[i] /\ i < Len(s) + 1
                \/ i = Len(s) + 1 /\ Append(s, e)[i] = e
           /\ Ids(Append(s, e)) = Ids(s) \cup ({e.id} \ {0})
<1> DEFINE t == Append(s, e)
<1>1. DOMAIN s = 1..Len(s) /\ Len(s) \in Nat
  BY LenProperties
<1>2. /\ t \in Seq(Event) /\ Len(t) = Len(s) + 1
      /\ \A i \in 1..Len(s) : t[i] = s[i]
      /\ t[Len(s) + 1] = e
  BY AppendProperties
<1> HIDE DEF t
<1>3. DOMAIN t = 1..(Len(s) + 1)
  BY <1>2, LenProperties
<1>4. \A i \in DOMAIN s : t[i] = s[i] /\ i \in DOMAIN t
  BY <1>1, <1>2, <1>3
<1>5. \A i \in DOMAIN t :
        \/ i \in DOMAIN s /\ t[i] = s[i] /\ i < Len(s) + 1
        \/ i = Len(s) + 1 /\ t[i] = e
  BY <1>1, <1>2, <1>3
<1>6. Len(s) + 1 \in DOMAIN t
  BY <1>1, <1>3
<1>7. {t[i].id : i \in DOMAIN t} = {s[i].id : i \in DOMAIN s} \cup {e.id}
  BY <1>2, <1>4, <1>5, <1>6
<1> QED BY <1>2, <1>3, <1>4, <1>5, <1>7 DEF Ids, t

\* A new event, with the next number, goes last.
LEMMA NewInLine ==
    ASSUME NEW s, NEW g, NEW d, NEW u, NEW n \in Nat \ {0}, InLine(s, g, d, u, n), NEW b \in BOOLEAN,
           g \subseteq 1..(n - 1), u \subseteq 1..(n - 1),
           NEW D \in SUBSET (1..(n - 1)), d \subseteq 1..(n - 1), D \cap Ids(s) = {}
    PROVE  InLine(Append(s, [id |-> n, urgent |-> b]), g, d \cup D, IF b THEN u \cup {n} ELSE u, n + 1)
<1> DEFINE e == [id |-> n, urgent |-> b]
           t == Append(s, e)
           v == IF b THEN u \cup {n} ELSE u
<1>1. s \in Seq(Event) /\ e \in Event /\ e.id = n /\ e.urgent = b
  BY DEF InLine, Event
<1>2. /\ t \in Seq(Event)
      /\ \A i \in DOMAIN t :
           \/ i \in DOMAIN s /\ t[i] = s[i] /\ i < Len(s) + 1
           \/ i = Len(s) + 1 /\ t[i] = e
  <2> HIDE DEF e
  <2> QED BY <1>1, IdsOfAppend
<1>3. \A i \in DOMAIN s : i \in Int /\ Len(s) \in Nat /\ i <= Len(s) /\ s[i].id \in Nat
  <2>1. DOMAIN s = 1..Len(s) /\ Len(s) \in Nat
    BY <1>1, LenProperties
  <2>2. \A i \in 1..Len(s) : s[i] \in Event
    BY <1>1, ElementOfSeq
  <2> QED BY <2>1, <2>2 DEF Event
<1>4. \A i \in DOMAIN s : s[i].id \notin D
  BY DEF Ids
<1> HIDE DEF e, t
<1>5. ASSUME NEW i \in DOMAIN t
      PROVE  t[i].id < n + 1 /\ t[i].id \notin d \cup D /\ (t[i].urgent <=> t[i].id \in v)
  <2>1. CASE i \in DOMAIN s /\ t[i] = s[i]
    <3>1. s[i].id < n /\ s[i].id \notin d /\ s[i].id \notin D /\ (s[i].urgent <=> s[i].id \in u) /\ s[i].id \in Nat
      BY <1>3, <1>4, <2>1 DEF InLine
    <3>2. s[i].id < n + 1 /\ s[i].id # n
      BY <3>1
    <3> QED BY <2>1, <3>1, <3>2
  <2>2. CASE t[i] = e
    <3>1. n < n + 1 /\ n \notin d /\ n \notin D /\ n \notin u
      OBVIOUS
    <3> QED BY <1>1, <2>2, <3>1
  <2> QED BY <1>2, <2>1, <2>2
<1>6. ASSUME NEW i \in DOMAIN t, NEW j \in DOMAIN t, i < j, t[i].id # 0
      PROVE  (t[j].id # 0 => t[i].id < t[j].id) /\ (t[j].id \in g => t[i].id \in g)
  <2>1. i \in DOMAIN s /\ t[i] = s[i]
    <3>1. SUFFICES ASSUME i = Len(s) + 1 PROVE FALSE
      BY <1>2
    <3>2. CASE j \in DOMAIN s
      BY <1>3, <1>6, <3>1, <3>2
    <3>3. CASE j = Len(s) + 1
      <4>1. Len(s) + 1 \in Int
        BY <1>1, LenProperties
      <4> QED BY <1>6, <3>1, <3>3, <4>1
    <3> QED BY <1>2, <3>2, <3>3
  <2>2. CASE j \in DOMAIN s /\ t[j] = s[j]
    BY <1>6, <2>1, <2>2 DEF InLine
  <2>3. CASE t[j] = e
    <3>1. s[i].id < n /\ n \notin g
      BY <2>1 DEF InLine
    <3> QED BY <1>1, <2>1, <2>3, <3>1
  <2> QED BY <1>2, <2>2, <2>3
<1> QED BY <1>2, <1>5, <1>6 DEF InLine, e, t

\* A warning has no number and may follow any.
LEMMA WarningInLine ==
    ASSUME NEW s, NEW g, NEW d, NEW u, NEW n \in Nat \ {0}, InLine(s, g, d, u, n),
           0 \notin g, 0 \notin d, 0 \notin u
    PROVE  InLine(Append(s, Warning), g, d, u, n) /\ Ids(Append(s, Warning)) = Ids(s)
<1> DEFINE t == Append(s, Warning)
<1>1. s \in Seq(Event) /\ Warning \in Event /\ Warning.id = 0 /\ Warning.urgent = FALSE
  BY DEF InLine, Event, Warning
<1>2. /\ t \in Seq(Event)
      /\ \A i \in DOMAIN t :
           \/ i \in DOMAIN s /\ t[i] = s[i]
           \/ i = Len(s) + 1 /\ t[i] = Warning
      /\ Ids(t) = Ids(s) \cup ({Warning.id} \ {0})
  BY <1>1, IdsOfAppend
<1> HIDE DEF t
<1>3. \A i \in DOMAIN t : t[i].id < n /\ t[i].id \notin d /\ (t[i].urgent <=> t[i].id \in u)
  BY <1>1, <1>2 DEF InLine
<1>4. \A i, j \in DOMAIN t : i < j /\ t[i].id # 0 /\ t[j].id # 0 => t[i].id < t[j].id
  BY <1>1, <1>2 DEF InLine
<1>5. \A i, j \in DOMAIN t : i < j /\ t[i].id # 0 /\ t[j].id \in g => t[i].id \in g
  BY <1>1, <1>2 DEF InLine
<1> QED BY <1>1, <1>2, <1>3, <1>4, <1>5 DEF InLine, t

\* A queue cut in two: the numbers of the first part come before those of the second,
\* and with the first part delivered no older one is missing.
LEMMA CutInLine ==
    ASSUME NEW s, NEW g, NEW d, NEW u, NEW n, InLine(s, g, d, u, n), NEW k \in 0..Len(s)
    PROVE  /\ Ids(s) = Ids(SubSeq(s, 1, k)) \cup Ids(SubSeq(s, k + 1, Len(s)))
           /\ \A x \in Ids(SubSeq(s, 1, k)), y \in Ids(SubSeq(s, k + 1, Len(s))) : x < y
           /\ InLine(s, g \cup Ids(SubSeq(s, 1, k)), d, u, n)
           /\ InLine(SubSeq(s, k + 1, Len(s)), g, d, u, n)
<1> DEFINE a == SubSeq(s, 1, k)  b == SubSeq(s, k + 1, Len(s))
<1>1. s \in Seq(Event) /\ DOMAIN s = 1..Len(s) /\ Len(s) \in Nat
  BY LenProperties DEF InLine
<1>2. \A i \in 1..Len(s) : s[i] \in Event
  BY <1>1, ElementOfSeq
<1>3. DOMAIN a = 1..k /\ \A i \in 1..k : a[i] = s[i]
  <2>1. /\ a \in Seq(Event)
        /\ Len(a) = IF 1 <= k THEN k - 1 + 1 ELSE 0
        /\ \A i \in 1..(k - 1 + 1) : a[i] = s[1 + i - 1]
    <3>1. \A i \in 1..k : s[i] \in Event
      BY <1>1, <1>2
    <3>2. 1 \in Int /\ k \in Int
      BY <1>1
    <3> QED BY <3>1, <3>2, SubSeqProperties
  <2> HIDE DEF a
  <2>2. Len(a) = k
    <3>1. k \in Nat
      BY <1>1
    <3>2. CASE 1 <= k
      BY <2>1, <3>1, <3>2
    <3>3. CASE ~(1 <= k)
      BY <2>1, <3>1, <3>3
    <3> QED BY <3>2, <3>3
  <2>3. \A i \in 1..k : i \in 1..(k - 1 + 1) /\ 1 + i - 1 = i
    BY <1>1
  <2> QED BY <2>1, <2>2, <2>3, LenProperties
<1>4. b \in Seq(Event) /\ DOMAIN b = 1..(Len(s) - k) /\ (\A i \in 1..(Len(s) - k) : b[i] = s[k + i]) /\ Picked(s, b)
  <2>1. b \in Seq(Event) /\ Len(b) = Len(s) - k /\ (\A i \in 1..(Len(s) - k) : b[i] = s[k + i]) /\ Picked(s, b)
    BY <1>1, SubSeqPicked
  <2> QED BY <2>1, LenProperties
<1> HIDE DEF a, b
<1>5. k \in Nat /\ k <= Len(s)
  BY <1>1
<1>6. \A i \in 1..Len(s) : (i \in 1..k /\ a[i] = s[i]) \/ (i - k \in 1..(Len(s) - k) /\ b[i - k] = s[i])
  <2> TAKE i \in 1..Len(s)
  <2>1. CASE i <= k
    BY <1>1, <1>3, <2>1
  <2>2. CASE ~(i <= k)
    <3>1. i - k \in 1..(Len(s) - k) /\ k + (i - k) = i
      BY <1>1, <1>5, <2>2
    <3> QED BY <1>4, <3>1
  <2> QED BY <2>1, <2>2
<1>7. \A i \in 1..k : i \in 1..Len(s)
  BY <1>1, <1>5
<1>8. \A i \in 1..(Len(s) - k) : k + i \in 1..Len(s)
  BY <1>1, <1>5
<1>9. Ids(s) = Ids(a) \cup Ids(b)
  <2>1. Ids(s) \subseteq Ids(a) \cup Ids(b)
    <3> SUFFICES ASSUME NEW i \in 1..Len(s), s[i].id # 0 PROVE s[i].id \in Ids(a) \cup Ids(b)
      BY <1>1 DEF Ids
    <3>1. CASE i \in 1..k /\ a[i] = s[i]
      BY <1>3, <3>1 DEF Ids
    <3>2. CASE i - k \in 1..(Len(s) - k) /\ b[i - k] = s[i]
      BY <1>4, <3>2 DEF Ids
    <3> QED BY <1>6, <3>1, <3>2
  <2>2. Ids(a) \subseteq Ids(s)
    BY <1>1, <1>3, <1>7 DEF Ids
  <2>3. Ids(b) \subseteq Ids(s)
    BY <1>1, <1>4, <1>8 DEF Ids
  <2> QED BY <2>1, <2>2, <2>3
<1>10. \A x \in Ids(a), y \in Ids(b) : x < y
  <2> SUFFICES ASSUME NEW i \in 1..k, NEW j \in 1..(Len(s) - k), a[i].id # 0, b[j].id # 0
               PROVE  a[i].id < b[j].id
    BY <1>3, <1>4 DEF Ids
  <2>1. a[i] = s[i] /\ b[j] = s[k + j] /\ i < k + j /\ i \in DOMAIN s /\ k + j \in DOMAIN s
    BY <1>1, <1>3, <1>4, <1>5, <1>7, <1>8
  <2> QED BY <2>1 DEF InLine
<1>11. InLine(s, g \cup Ids(a), d, u, n)
  <2> DEFINE h == g \cup Ids(a)
  <2>1. ASSUME NEW i \in DOMAIN s, NEW j \in DOMAIN s, i < j, s[i].id # 0, s[j].id \in h
        PROVE  s[i].id \in h
    <3>1. CASE s[j].id \in g
      BY <2>1, <3>1 DEF InLine
    <3>2. CASE s[j].id \in Ids(a)
      <4>1. PICK l \in 1..k : s[j].id = s[l].id /\ s[j].id # 0
        BY <1>3, <3>2 DEF Ids
      <4>2. l \in DOMAIN s /\ j \in Int /\ l \in Int /\ s[j].id \in Nat
        BY <1>1, <1>2, <1>7 DEF Event
      <4>3. ~(l < j)
        BY <4>1, <4>2 DEF InLine
      <4>4. i <= k
        BY <1>1, <1>5, <2>1, <4>2, <4>3
      <4>5. a[i] = s[i] /\ i \in DOMAIN a
        BY <1>1, <1>3, <1>5, <4>4
      <4> QED BY <2>1, <4>5 DEF Ids
    <3> QED BY <2>1, <3>1, <3>2
  <2> HIDE DEF h
  <2>2. InLine(s, h, d, u, n)
    BY <2>1 DEF InLine
  <2> QED BY <2>2 DEF h
<1>12. InLine(b, g, d, u, n)
  BY <1>4, PickedInLine
<1> QED BY <1>9, <1>10, <1>11, <1>12 DEF a, b

\* To cut pending is to cut it and what follows it.
LEMMA CutOfConcat ==
    ASSUME NEW p \in Seq(Event), NEW q \in Seq(Event), NEW k \in 0..Len(p)
    PROVE  /\ p \o q \in Seq(Event) /\ Len(p \o q) = Len(p) + Len(q) /\ k \in 0..Len(p \o q)
           /\ SubSeq(p \o q, 1, k) = SubSeq(p, 1, k)
           /\ SubSeq(p \o q, k + 1, Len(p \o q)) = SubSeq(p, k + 1, Len(p)) \o q
           /\ SubSeq(p, k + 1, Len(p)) \in Seq(Event) /\ SubSeq(p, 1, k) \in Seq(Event)
<1> DEFINE s == p \o q  b == SubSeq(p, k + 1, Len(p))  c == SubSeq(s, k + 1, Len(s))
<1>1. /\ s \in Seq(Event) /\ Len(s) = Len(p) + Len(q)
      /\ \A i \in 1..(Len(p) + Len(q)) : s[i] = IF i <= Len(p) THEN p[i] ELSE q[i - Len(p)]
  BY ConcatProperties
<1> HIDE DEF s
<1>2. Len(p) \in Nat /\ Len(q) \in Nat /\ k \in Nat /\ k <= Len(p) /\ k \in 0..Len(s)
  BY <1>1, LenProperties
<1>3. /\ c \in Seq(Event) /\ Len(c) = Len(s) - k
      /\ \A i \in 1..(Len(s) - k) : c[i] = s[k + i]
  BY <1>1, <1>2, SubSeqPicked
<1>4. /\ b \in Seq(Event) /\ Len(b) = Len(p) - k
      /\ \A i \in 1..(Len(p) - k) : b[i] = p[k + i]
  BY <1>2, SubSeqPicked
<1> HIDE DEF b, c
<1>5. /\ b \o q \in Seq(Event) /\ Len(b \o q) = Len(b) + Len(q)
      /\ \A i \in 1..(Len(b) + Len(q)) : (b \o q)[i] = IF i <= Len(b) THEN b[i] ELSE q[i - Len(b)]
  BY <1>4, ConcatProperties
<1>6. Len(c) = Len(b \o q)
  BY <1>1, <1>2, <1>3, <1>4, <1>5
<1>7. ASSUME NEW i \in 1..Len(c) PROVE c[i] = (b \o q)[i]
  <2>1. /\ i \in 1..(Len(s) - k) /\ k + i \in 1..(Len(p) + Len(q)) /\ i \in 1..(Len(b) + Len(q))
        /\ i \in Int /\ Len(b) \in Int
    BY <1>1, <1>2, <1>3, <1>4
  <2>2. CASE i <= Len(b)
    <3>1. k + i <= Len(p) /\ i \in 1..(Len(p) - k)
      BY <1>2, <1>4, <2>1, <2>2
    <3> QED BY <1>1, <1>3, <1>4, <1>5, <2>1, <2>2, <3>1
  <2>3. CASE ~(i <= Len(b))
    <3>1. ~(k + i <= Len(p)) /\ (k + i) - Len(p) = i - Len(b)
      BY <1>2, <1>4, <2>1, <2>3
    <3> QED BY <1>1, <1>3, <1>5, <2>1, <2>3, <3>1
  <2> QED BY <2>2, <2>3
<1>8. c = b \o q
  BY <1>3, <1>5, <1>6, <1>7, SeqEqual
<1>9. SubSeq(s, 1, k) = SubSeq(p, 1, k) /\ SubSeq(p, 1, k) \in Seq(Event)
  <2>1. \A i \in 1..k : s[i] = p[i] /\ s[i] \in Event /\ p[i] \in Event
    <3>1. \A i \in 1..k : i \in 1..(Len(p) + Len(q)) /\ i <= Len(p) /\ i \in 1..Len(p)
      BY <1>2
    <3>2. \A i \in 1..Len(p) : p[i] \in Event
      BY ElementOfSeq
    <3> QED BY <1>1, <3>1, <3>2
  <2>2. 1 \in Int /\ k \in Int /\ (1 <= k \/ k = 0)
    BY <1>2
  <2>3. /\ SubSeq(s, 1, k) \in Seq(Event) /\ SubSeq(p, 1, k) \in Seq(Event)
        /\ Len(SubSeq(s, 1, k)) = Len(SubSeq(p, 1, k))
        /\ Len(SubSeq(s, 1, k)) = (IF 1 <= k THEN k - 1 + 1 ELSE 0)
        /\ \A i \in 1..(k - 1 + 1) : SubSeq(s, 1, k)[i] = s[1 + i - 1]
        /\ \A i \in 1..(k - 1 + 1) : SubSeq(p, 1, k)[i] = p[1 + i - 1]
    <3>1. /\ SubSeq(s, 1, k) \in Seq(Event)
          /\ Len(SubSeq(s, 1, k)) = (IF 1 <= k THEN k - 1 + 1 ELSE 0)
          /\ \A i \in 1..(k - 1 + 1) : SubSeq(s, 1, k)[i] = s[1 + i - 1]
      BY <2>1, <2>2, SubSeqProperties
    <3>2. /\ SubSeq(p, 1, k) \in Seq(Event)
          /\ Len(SubSeq(p, 1, k)) = (IF 1 <= k THEN k - 1 + 1 ELSE 0)
          /\ \A i \in 1..(k - 1 + 1) : SubSeq(p, 1, k)[i] = p[1 + i - 1]
      BY <2>1, <2>2, SubSeqProperties
    <3> QED BY <3>1, <3>2
  <2> DEFINE x == SubSeq(s, 1, k)  y == SubSeq(p, 1, k)
  <2>4. \A i \in 1..Len(x) : x[i] = y[i]
    <3> TAKE i \in 1..Len(x)
    <3>1. Len(x) = k
      <4> HIDE DEF x, y
      <4>1. CASE 1 <= k
        BY <1>2, <2>3, <4>1 DEF x
      <4>2. CASE k = 0
        BY <2>3, <4>2 DEF x
      <4> QED BY <2>2, <4>1, <4>2
    <3>2. i \in 1..(k - 1 + 1) /\ 1 + i - 1 = i /\ i \in 1..k
      BY <1>2, <3>1
    <3>3. x[i] = s[i] /\ y[i] = p[i]
      BY <2>3, <3>2
    <3> QED BY <2>1, <3>2, <3>3
  <2> HIDE DEF x, y
  <2>5. x \in Seq(Event) /\ y \in Seq(Event) /\ Len(x) = Len(y)
    BY <2>3 DEF x, y
  <2>6. x = y
    BY <2>4, <2>5, SeqEqual
  <2> QED BY <2>5, <2>6 DEF x, y
<1> QED BY <1>1, <1>2, <1>4, <1>8, <1>9 DEF s, b, c

----------------------------------------------------------------------------
(* What a full queue drops, and the parts of a batch.                      *)

\* makeRoom drops of the queue alone, and an urgent event only with all the others.
LEMMA OutSparesUrgent ==
    ASSUME NEW q \in Seq(Event)
    PROVE  /\ Out(q) \subseteq DOMAIN q /\ IsFiniteSet(Out(q))
           /\ \A i \in Out(q), j \in DOMAIN q \ Out(q) : q[i].urgent => q[j].urgent
<1> DEFINE plain == {i \in DOMAIN q : ~q[i].urgent}
           c == Cardinality(plain)
           below(j) == {k \in plain : k < j}
<1>1. DOMAIN q = 1..Len(q) /\ Len(q) \in Nat
  BY LenProperties
<1>2. IsFiniteSet(DOMAIN q)
  BY <1>1, FS_Interval
<1>3. plain \in SUBSET Int /\ IsFiniteSet(plain) /\ c \in Nat
  <2>1. plain \in SUBSET DOMAIN q /\ plain \in SUBSET Int
    BY <1>1
  <2> HIDE DEF plain
  <2> QED BY <1>2, <2>1, FS_Subset, FS_CardinalityType
<1>4. Out(q) \subseteq DOMAIN q
  BY DEF Out, Oldest
<1>5. ASSUME NEW i \in Out(q), NEW j \in DOMAIN q \ Out(q), q[i].urgent, ~q[j].urgent PROVE FALSE
  <2>1. j \in plain /\ i \in DOMAIN q \ plain
    BY <1>4, <1>5
  <2>2. /\ i \in Oldest(plain, DropChunk) \cup Oldest(DOMAIN q \ plain, DropChunk - c)
        /\ j \notin Oldest(plain, DropChunk)
    BY <1>5, <2>1 DEF Out
  <2> HIDE DEF plain
  <2>3. i \in Oldest(DOMAIN q \ plain, DropChunk - c)
    BY <2>1, <2>2 DEF Oldest
  <2>4. Cardinality({k \in DOMAIN q \ plain : k < i}) < DropChunk - c
    BY <2>3 DEF Oldest
  <2>5. Cardinality({k \in DOMAIN q \ plain : k < i}) \in Nat
    <3>1. {k \in DOMAIN q \ plain : k < i} \subseteq DOMAIN q
      OBVIOUS
    <3> QED BY <1>2, <3>1, FS_Subset, FS_CardinalityType
  <2>6. Cardinality({k \in plain : k < j}) \in 0..(c - 1)
    BY <1>3, <2>1, RankGrows DEF Below
  <2>7. Cardinality({k \in plain : k < j}) < DropChunk
    BY <1>3, <2>4, <2>5, <2>6, SizeAssumption
  <2> QED BY <2>1, <2>2, <2>7 DEF Oldest
<1>6. IsFiniteSet(Out(q))
  BY <1>2, <1>4, FS_Subset
<1> QED BY <1>4, <1>5, <1>6

\* The parts of a batch of n events: end says after how many events each part ends.
Parts(p, n) ==
    \E end \in [0..Len(p) -> 0..n] :
       /\ end[0] = 0 /\ end[Len(p)] = n
       /\ \A j, k \in 0..Len(p) : j < k => end[j] < end[k]
       /\ \A k \in 1..Len(p) : p[k] = end[k] - end[k - 1]

LEMMA OnePart == ASSUME NEW n \in Nat \ {0} PROVE <<n>> \in Seq(Nat \ {0}) /\ Parts(<<n>>, n)
<1>1. Len(<<n>>) = 1 /\ <<n>>[1] = n /\ <<n>> \in Seq(Nat \ {0})
  OBVIOUS
<1> DEFINE p == <<n>>  end == [k \in 0..1 |-> IF k = 0 THEN 0 ELSE n]
<1>2. Len(p) = 1 /\ p[1] = n
  BY <1>1
<1> HIDE DEF p
<1>3. end \in [0..Len(p) -> 0..n] /\ end[0] = 0 /\ end[Len(p)] = n
  BY <1>2
<1>4. \A j, k \in 0..Len(p) : j < k => end[j] < end[k]
  BY <1>2
<1>5. \A k \in 1..Len(p) : p[k] = end[k] - end[k - 1]
  <2>1. end[1] = n /\ end[0] = 0 /\ 1 - 1 = 0
    OBVIOUS
  <2> HIDE DEF end
  <2> QED BY <1>2, <2>1
<1> HIDE DEF end
<1> QED BY <1>1, <1>3, <1>4, <1>5 DEF Parts, p

LEMMA NoParts == Parts(<<>>, 0)
<1> DEFINE end == [k \in 0..0 |-> 0]
<1>1. end \in [0..0 -> 0..0] /\ end[0] = 0
  OBVIOUS
<1>2. Len(<<>>) = 0
  OBVIOUS
<1> HIDE DEF end
<1> QED BY <1>1, <1>2 DEF Parts

\* The first part is not empty and no larger than the batch; without it the others are
\* the parts of what is left; and its halves, put in its place, are parts of the batch.
LEMMA FirstPart ==
    ASSUME NEW p \in Seq(Nat \ {0}), NEW n \in Nat \ {0}, Parts(p, n)
    PROVE  /\ p # <<>> /\ p[1] \in 1..n /\ Head(p) = p[1]
           /\ Tail(p) \in Seq(Nat \ {0}) /\ Parts(Tail(p), n - p[1])
           /\ p[1] # 1 => Halves(p[1]) \o Tail(p) \in Seq(Nat \ {0}) /\ Parts(Halves(p[1]) \o Tail(p), n)
<1>1. PICK end \in [0..Len(p) -> 0..n] :
        /\ end[0] = 0 /\ end[Len(p)] = n
        /\ \A j, k \in 0..Len(p) : j < k => end[j] < end[k]
        /\ \A k \in 1..Len(p) : p[k] = end[k] - end[k - 1]
  BY DEF Parts
<1>2. p # <<>>
  <2> SUFFICES ASSUME p = <<>> PROVE FALSE
    OBVIOUS
  <2>1. Len(p) = 0
    OBVIOUS
  <2> QED BY <1>1, <2>1
<1>3. /\ Len(p) \in Nat \ {0} /\ Len(Tail(p)) = Len(p) - 1 /\ Tail(p) \in Seq(Nat \ {0})
      /\ \A k \in 1..(Len(p) - 1) : Tail(p)[k] = p[k + 1]
  <2>1. Len(p) \in Nat \ {0}
    BY <1>2, EmptySeq
  <2> QED BY <1>2, <2>1, HeadTailProperties
<1>4. \A k \in 0..Len(p) : end[k] \in 0..n
  OBVIOUS
<1>5. /\ p[1] = end[1] /\ p[1] \in 1..n /\ Head(p) = p[1]
      /\ \A k \in 1..Len(p) : end[k] \in p[1]..n
  <2>1. 1 \in 1..Len(p) /\ 0 \in 0..Len(p) /\ 1 \in 0..Len(p) /\ 1 - 1 = 0
    BY <1>3
  <2>2. p[1] = end[1] - end[0] /\ end[0] < end[1] /\ end[1] \in 0..n
    BY <1>1, <1>4, <2>1
  <2>3. p[1] = end[1] /\ end[1] \in 1..n
    BY <1>1, <2>2
  <2>4. ASSUME NEW k \in 1..Len(p) PROVE end[k] \in p[1]..n
    <3>1. k \in 0..Len(p) /\ (k = 1 \/ 1 < k)
      BY <1>3
    <3>2. end[k] \in 0..n /\ (k = 1 \/ end[1] < end[k])
      BY <1>1, <1>4, <2>1, <3>1
    <3> QED BY <2>3, <3>2
  <2>5. Head(p) = p[1]
    BY <1>2, HeadTailProperties
  <2> QED BY <2>3, <2>4, <2>5
<1>6. Parts(Tail(p), n - p[1])
  <2> DEFINE m == Len(p) - 1  t == Tail(p)  left == [k \in 0..m |-> end[k + 1] - p[1]]
  <2>1. m \in Nat /\ Len(t) = m /\ m + 1 = Len(p)
    BY <1>3
  <2>2. \A k \in 0..m : k + 1 \in 1..Len(p) /\ k + 1 \in 0..Len(p) /\ k \in Int
    BY <1>3
  <2>3. \A k \in 0..m : left[k] = end[k + 1] - p[1] /\ end[k + 1] \in p[1]..n
    BY <1>5, <2>2
  <2> HIDE DEF m, t
  <2>4. left \in [0..m -> 0..(n - p[1])]
    BY <1>5, <2>3
  <2> HIDE DEF left
  <2>5. left[0] = 0 /\ left[m] = n - p[1]
    <3>1. 0 \in 0..m /\ m \in 0..m /\ 0 + 1 = 1 /\ m + 1 = Len(p)
      BY <2>1
    <3>2. left[0] = end[1] - p[1] /\ left[m] = end[Len(p)] - p[1]
      BY <2>3, <3>1
    <3> QED BY <1>1, <1>5, <3>2
  <2>6. ASSUME NEW j \in 0..m, NEW k \in 0..m, j < k PROVE left[j] < left[k]
    <3>1. end[j + 1] < end[k + 1]
      <4>1. j + 1 < k + 1
        BY <2>1, <2>6
      <4> QED BY <1>1, <2>2, <4>1
    <3> QED BY <1>5, <2>3, <3>1
  <2>7. ASSUME NEW k \in 1..m PROVE t[k] = left[k] - left[k - 1]
    <3>1. k \in 0..m /\ k - 1 \in 0..m /\ (k - 1) + 1 = k /\ k + 1 \in 1..Len(p) /\ (k + 1) - 1 = k
      BY <2>1
    <3>2. t[k] = p[k + 1] /\ p[k + 1] = end[k + 1] - end[(k + 1) - 1]
      BY <1>1, <1>3, <3>1 DEF m, t
    <3>3. left[k] = end[k + 1] - p[1] /\ left[k - 1] = end[k] - p[1] /\ end[k + 1] \in Int /\ end[k] \in Int
      BY <1>5, <2>3, <3>1
    <3> QED BY <1>5, <3>1, <3>2, <3>3
  <2>8. Parts(t, n - p[1])
    BY <2>1, <2>4, <2>5, <2>6, <2>7 DEF Parts
  <2> QED BY <2>8 DEF t
<1>7. ASSUME p[1] # 1
      PROVE  Halves(p[1]) \o Tail(p) \in Seq(Nat \ {0}) /\ Parts(Halves(p[1]) \o Tail(p), n)
  <2> DEFINE h == Halves(p[1])  t == Tail(p)  q == h \o t  m == Len(p) + 1
             cut == [k \in 0..m |-> IF k = 0 THEN 0 ELSE IF k = 1 THEN p[1] \div 2 ELSE end[k - 1]]
  <2>1. p[1] \div 2 \in 1..(p[1] - 1) /\ p[1] - (p[1] \div 2) \in Nat \ {0}
    BY <1>5, <1>7
  <2>2. h \in Seq(Nat \ {0}) /\ Len(h) = 2 /\ h[1] = p[1] \div 2 /\ h[2] = p[1] - (p[1] \div 2)
    BY <2>1 DEF Halves
  <2> HIDE DEF h
  <2>3. /\ q \in Seq(Nat \ {0}) /\ Len(q) = m
        /\ q[1] = p[1] \div 2 /\ q[2] = p[1] - (p[1] \div 2)
        /\ \A k \in 3..m : q[k] = p[k - 1]
    <3>1. /\ q \in Seq(Nat \ {0}) /\ Len(q) = Len(h) + Len(t)
          /\ \A i \in 1..(Len(h) + Len(t)) : q[i] = IF i <= Len(h) THEN h[i] ELSE t[i - Len(h)]
      <4>1. h \in Seq(Nat \ {0}) /\ t \in Seq(Nat \ {0})
        BY <1>3, <2>2
      <4> HIDE DEF t
      <4> QED BY ONLY <4>1, ConcatProperties DEF q
    <3> HIDE DEF q
    <3>2. Len(h) + Len(t) = m /\ 1 \in 1..m /\ 2 \in 1..m
      BY <1>3, <2>2
    <3>3. \A k \in 3..m : q[k] = t[k - 2] /\ k - 2 \in 1..(Len(p) - 1) /\ (k - 2) + 1 = k - 1
      BY <1>3, <2>2, <3>1, <3>2
    <3>4. q[1] = h[1] /\ q[2] = h[2]
      BY <2>2, <3>1, <3>2
    <3> QED BY <1>3, <2>2, <3>1, <3>2, <3>3, <3>4
  <2>4. cut[0] = 0 /\ cut[1] = p[1] \div 2 /\ \A k \in 2..m : cut[k] = end[k - 1] /\ k - 1 \in 1..Len(p) /\ end[k - 1] \in p[1]..n
    BY <1>3, <1>5
  <2>5. cut \in [0..m -> 0..n]
    <3>1. \A k \in 0..m : k = 0 \/ k = 1 \/ k \in 2..m
      BY <1>3
    <3>2. \A k \in 0..m : cut[k] \in 0..n
      <4>0. p[1] \in 1..n /\ p[1] \div 2 \in 1..(p[1] - 1)
        BY <1>5, <2>1
      <4> DEFINE a == p[1]  c == p[1] \div 2
      <4> HIDE DEF a, c
      <4>1. 0 \in 0..n /\ c \in 0..n /\ a..n \subseteq 0..n
        <5>1. a \in 1..n /\ c \in 1..(a - 1)
          BY <4>0 DEF a, c
        <5> QED BY ONLY <5>1, n \in Nat
      <4>2. \A k \in 2..m : cut[k] \in p[1]..n
        BY <2>4
      <4> QED BY <2>4, <3>1, <4>1, <4>2 DEF a, c
    <3> QED BY <3>2
  <2> HIDE DEF q, cut
  <2>6. m \in Nat /\ 2 <= m /\ m - 1 = Len(p)
    BY <1>3
  <2> HIDE DEF m
  <2>7. cut[m] = n
    <3>1. m \in 2..m
      BY <2>6
    <3>2. cut[m] = end[m - 1]
      BY <2>4, <3>1
    <3> QED BY <1>1, <2>6, <3>2
  <2>8. ASSUME NEW j \in 0..m, NEW k \in 0..m, j < k PROVE cut[j] < cut[k]
    <3>1. CASE j \in 2..m
      <4>1. k \in 2..m /\ j - 1 \in 0..Len(p) /\ k - 1 \in 0..Len(p) /\ j - 1 < k - 1
        BY <2>6, <2>8, <3>1
      <4> QED BY <1>1, <2>4, <3>1, <4>1
    <3>2. CASE (j = 0 \/ j = 1) /\ k \in 2..m
      <4>1. cut[k] \in p[1]..n
        BY <2>4, <3>2
      <4>2. cut[j] = 0 \/ cut[j] = p[1] \div 2
        BY <2>4, <3>2
      <4>3. cut[j] < p[1] /\ cut[j] \in Int
        <5>1. p[1] \in Nat /\ 0 < p[1] /\ p[1] \div 2 \in Nat /\ p[1] \div 2 < p[1]
          BY <1>5, <2>1
        <5> QED BY <4>2, <5>1
      <4> QED BY <1>5, <4>1, <4>3
    <3>3. CASE j = 0 /\ k = 1
      BY <2>1, <2>4, <3>3
    <3>4. (j = 0 \/ j = 1 \/ j \in 2..m) /\ (k = 1 \/ k \in 2..m)
      BY <2>6, <2>8
    <3> QED BY <2>8, <3>1, <3>2, <3>3, <3>4
  <2>9. ASSUME NEW k \in 1..m PROVE q[k] = cut[k] - cut[k - 1]
    <3>1. CASE k = 1
      BY <2>1, <2>3, <2>4, <3>1
    <3>2. CASE k = 2
      <4>1. cut[2] = end[1] /\ 2 - 1 = 1
        BY <2>4, <2>6
      <4> QED BY <1>5, <2>1, <2>3, <2>4, <3>2, <4>1
    <3>3. CASE k \in 3..m
      <4>1. k \in 2..m /\ k - 1 \in 2..m /\ k - 1 \in 1..Len(p)
        BY <2>6, <3>3
      <4>2. cut[k] = end[k - 1] /\ cut[k - 1] = end[(k - 1) - 1] /\ q[k] = p[k - 1]
        BY <2>3, <2>4, <3>3, <4>1
      <4> QED BY <1>1, <4>1, <4>2
    <3> QED BY <2>6, <3>1, <3>2, <3>3
  <2>10. Parts(q, n)
    BY <2>3, <2>5, <2>4, <2>7, <2>8, <2>9 DEF Parts
  <2> QED BY <2>3, <2>10 DEF q, h
<1> QED BY <1>2, <1>3, <1>5, <1>6, <1>7

----------------------------------------------------------------------------
(* The invariant.                                                          *)

All == run.pending \o queue

\* What waits is in line, and so is the spool, which holds urgent events and is empty
\* until run has stopped; run stops after the shutdown began.
LineInv ==
    /\ InLine(All, got, gone, urgent, next)
    /\ InLine(spool, got, gone, urgent, next) /\ \A i \in DOMAIN spool : spool[i].urgent
    /\ got \subseteq 1..(next - 1) /\ gone \subseteq 1..(next - 1) /\ urgent \subseteq 1..(next - 1)
    /\ run.pc # "stopped" => spool = <<>>
    /\ run.pc = "stopped" \/ closer \in {"signal", "join", "done"} => stopped
    /\ run.pc = "sending" => run.pending # <<>>
    /\ (waiter => closer # "idle") /\ (closer = "done" => run.pc = "stopped")

QueueInv == TypeOK /\ LineInv

RunType == [pc: {"loop", "sending", "select", "stopped"}, pending: Seq(Event),
            parts: Seq(Nat \ {0}), fails: Nat, delivered: BOOLEAN, retry: BOOLEAN, due: BOOLEAN]

\* TypeOK with its parts at hand.
Typed ==
    /\ queue \in Seq(Event) /\ spool \in Seq(Event)
    /\ dropped \in Nat /\ stopped \in BOOLEAN /\ wake \in BOOLEAN /\ ripe \in BOOLEAN
    /\ run \in RunType /\ Parts(run.parts, Len(run.pending))
    /\ waiter \in BOOLEAN /\ expired \in BOOLEAN
    /\ closer \in {"idle", "ask", "wait", "stop", "signal", "join", "done"}
    /\ got \subseteq 1..MaxEvents /\ gone \subseteq 1..MaxEvents /\ urgent \subseteq 1..MaxEvents
    /\ next \in 1..(MaxEvents + 1) /\ faults \in 0..MaxFaults /\ crashes \in 0..MaxCrashes
    /\ diskFails \in 0..MaxDiskFails

LEMMA TypeParts == TypeOK <=> Typed
<1>1. PartsArePending <=> Parts(run.parts, Len(run.pending))
  BY DEF PartsArePending, Parts
<1>2. UNION {got, gone, urgent} \subseteq 1..MaxEvents
      <=> got \subseteq 1..MaxEvents /\ gone \subseteq 1..MaxEvents /\ urgent \subseteq 1..MaxEvents
  OBVIOUS
<1> QED BY <1>1, <1>2 DEF TypeOK, Typed, RunType

LEMMA TypePartsNext == TypeOK' <=> Typed'
BY TypeParts, PTL

\* The process begins with nothing in line.
LEMMA FreshTypes == FreshRun \in RunType /\ Parts(FreshRun.parts, Len(FreshRun.pending)) /\ FreshRun.pending = <<>>
<1>1. /\ FreshRun.pc = "loop" /\ FreshRun.pending = <<>> /\ FreshRun.parts = <<>> /\ FreshRun.fails = 0
      /\ <<>> \in Seq(Event) /\ <<>> \in Seq(Nat \ {0}) /\ Len(<<>>) = 0
  BY DEF FreshRun
<1>2. FreshRun \in RunType
  BY <1>1 DEF FreshRun, RunType
<1>3. Parts(FreshRun.parts, Len(FreshRun.pending))
  BY <1>1, NoParts
<1> QED BY <1>1, <1>2, <1>3

LEMMA EmptyInLine ==
    ASSUME NEW g, NEW d, NEW u, NEW n
    PROVE  InLine(<<>>, g, d, u, n) /\ Ids(<<>>) = {}
<1>1. <<>> \in Seq(Event) /\ DOMAIN <<>> = {}
  OBVIOUS
<1> QED BY <1>1 DEF InLine, Ids

LEMMA InitQueueInv == Init => QueueInv
<1> SUFFICES ASSUME Init PROVE QueueInv
  OBVIOUS
<1>1. TypeOK
  <2>1. <<>> \in Seq(Event)
    OBVIOUS
  <2>2. 0 \in Nat /\ 1 \in 1..(MaxEvents + 1) /\ 0 \in 0..MaxFaults /\ 0 \in 0..MaxCrashes /\ 0 \in 0..MaxDiskFails
    BY BoundAssumption
  <2>3. Typed
    BY <2>1, <2>2, FreshTypes DEF Init, Typed
  <2> QED BY <2>3, TypeParts
<1>2. All = <<>>
  <2>1. <<>> \in Seq(Event)
    OBVIOUS
  <2> QED BY <2>1, FreshTypes, ConcatEmptySeq DEF Init, All
<1>3. InLine(All, got, gone, urgent, next) /\ InLine(spool, got, gone, urgent, next)
  BY <1>2, EmptyInLine DEF Init
<1>4. run.pc = "loop" /\ (\A i \in DOMAIN spool : spool[i].urgent) /\ closer = "idle"
  <2>1. DOMAIN <<>> = {}
    OBVIOUS
  <2> QED BY <2>1 DEF Init, FreshRun
<1> QED BY <1>1, <1>3, <1>4 DEF Init, QueueInv, LineInv

\* The steps that leave the line as it is.
Same == /\ run' \in RunType /\ run'.pending = run.pending /\ run'.parts = run.parts
        /\ UNCHANGED <<queue, spool, got, gone, urgent, next, crashes, diskFails>>

LEMMA SameKeeps ==
    ASSUME QueueInv, Same,
           dropped' \in Nat /\ stopped' \in BOOLEAN /\ wake' \in BOOLEAN /\ ripe' \in BOOLEAN,
           waiter' \in BOOLEAN /\ expired' \in BOOLEAN,
           closer' \in {"idle", "ask", "wait", "stop", "signal", "join", "done"},
           faults' \in 0..MaxFaults,
           waiter' => closer' # "idle",
           closer' = "done" => run'.pc = "stopped",
           run'.pc = "stopped" => run.pc = "stopped" /\ stopped',
           run.pc = "stopped" => run'.pc = "stopped",
           closer' \in {"signal", "join", "done"} => stopped',
           run'.pc = "sending" => run.pending # <<>>
    PROVE  QueueInv'
<1>1. TypeOK'
  <2>1. Parts(run'.parts, Len(run'.pending))
    BY TypeParts DEF QueueInv, Same, Typed
  <2>2. Typed'
    BY <2>1, TypeParts DEF QueueInv, Same, Typed
  <2> QED BY <2>2, TypePartsNext
<1>2. LineInv'
  <2>1. All' = All
    BY DEF All, Same
  <2> QED BY <2>1 DEF QueueInv, LineInv, Same
<1> QED BY <1>1, <1>2 DEF QueueInv

QuietStep ==
    \/ Resend \/ (\E kind \in Failures : SendFailed(kind))
    \/ SelectFlush \/ SelectTimer \/ SelectWake \/ Ripen
    \/ Close \/ CloserStep

LEMMA QuietKeeps == QueueInv /\ QuietStep => QueueInv' /\ Same /\ (run'.pc = "stopped" <=> run.pc = "stopped")
<1> SUFFICES ASSUME QueueInv, QuietStep
             PROVE  QueueInv' /\ Same /\ (run'.pc = "stopped" <=> run.pc = "stopped")
  OBVIOUS
<1> USE DEF Same
<1>0. /\ queue \in Seq(Event) /\ spool \in Seq(Event)
      /\ dropped \in Nat /\ stopped \in BOOLEAN /\ wake \in BOOLEAN /\ ripe \in BOOLEAN
      /\ run \in RunType /\ waiter \in BOOLEAN /\ expired \in BOOLEAN
      /\ closer \in {"idle", "ask", "wait", "stop", "signal", "join", "done"}
      /\ next \in 1..(MaxEvents + 1) /\ faults \in 0..MaxFaults
  BY TypeParts DEF QueueInv, Typed
<1>00. /\ run.pc = "stopped" \/ closer \in {"signal", "join", "done"} => stopped
       /\ run.pc = "sending" => run.pending # <<>>
       /\ (waiter => closer # "idle") /\ (closer = "done" => run.pc = "stopped")
  BY DEF QueueInv, LineInv
<1>1. CASE Resend
  <2>1. Live \in BOOLEAN /\ (Live => waiter)
    BY <1>0 DEF Live
  <2>2. run' = [run EXCEPT !.pc = "sending"] /\ run' \in RunType /\ run.pc = "loop" /\ run.pending # <<>>
    BY <1>0, <1>1 DEF Resend, Goto, RunType
  <2>3. run'.pc = "sending" /\ run'.pending = run.pending /\ run'.parts = run.parts
    BY <1>0, <2>2 DEF RunType
  <2> QED BY <1>0, <1>00, <1>1, <2>1, <2>2, <2>3, SameKeeps DEF Resend, shared
<1>2. CASE \E kind \in Failures : SendFailed(kind)
  <2>1. PICK kind \in Failures : SendFailed(kind)
    BY <1>2
  <2>2. /\ run' = [run EXCEPT !.fails = @ + 1, !.retry = TRUE, !.pc = "select"]
        /\ run.pc = "sending" /\ faults < MaxFaults /\ faults' = faults + 1
    BY <2>1 DEF SendFailed, Fault
  <2>3. run' \in RunType /\ run'.pc = "select" /\ run'.pending = run.pending /\ run'.parts = run.parts
    <3>1. run.fails + 1 \in Nat
      BY <1>0 DEF RunType
    <3> QED BY <1>0, <2>2, <3>1 DEF RunType
  <2>4. faults' \in 0..MaxFaults
    BY <1>0, <2>2, BoundAssumption
  <2>5. waiter' \in BOOLEAN /\ ((closer' = closer /\ waiter' = waiter) \/ closer' = "stop")
    BY <1>0, <2>1 DEF SendFailed
  <2> QED BY <1>0, <1>00, <2>1, <2>2, <2>3, <2>4, <2>5, SameKeeps DEF SendFailed, shared
<1>3. CASE SelectFlush \/ SelectTimer
  <2>1. run' = [run EXCEPT !.pc = "loop", !.retry = FALSE] /\ run.pc = "select"
    BY <1>3 DEF SelectFlush, SelectTimer
  <2>2. run' \in RunType /\ run'.pc = "loop" /\ run'.pending = run.pending /\ run'.parts = run.parts
    BY <1>0, <2>1 DEF RunType
  <2>3. waiter' \in BOOLEAN /\ ((closer' = closer /\ waiter' = waiter) \/ closer' = "wait") /\ expired' = expired
    BY <1>0, <1>3 DEF SelectFlush, SelectTimer, caller
  <2> QED BY <1>0, <1>00, <1>3, <2>1, <2>2, <2>3, SameKeeps DEF SelectFlush, SelectTimer, shared, caller
<1>4. CASE SelectWake
  <2>1. run' = [run EXCEPT !.pc = "loop"] /\ run.pc = "select"
    BY <1>4 DEF SelectWake, Goto
  <2>2. run' \in RunType /\ run'.pc = "loop" /\ run'.pending = run.pending /\ run'.parts = run.parts
    BY <1>0, <2>1 DEF RunType
  <2> QED BY <1>0, <1>00, <1>4, <2>1, <2>2, SameKeeps DEF SelectWake, shared, caller
<1>5. CASE Ripen
  BY <1>0, <1>00, <1>5, SameKeeps DEF Ripen, caller
<1>6. CASE Close
  BY <1>0, <1>00, <1>6, SameKeeps DEF Close, shared
<1>7. CASE CloserStep
  <2>1. CASE Expire
    BY <1>0, <1>00, <2>1, SameKeeps DEF Expire, shared
  <2>2. CASE MarkStopped
    BY <1>0, <1>00, <2>2, SameKeeps DEF MarkStopped, shared
  <2>3. CASE Signal
    BY <1>0, <1>00, <2>3, SameKeeps DEF Signal, shared
  <2>4. CASE Join
    BY <1>0, <1>00, <2>4, SameKeeps DEF Join, shared
  <2> QED BY <1>7, <2>1, <2>2, <2>3, <2>4 DEF CloserStep
<1> QED BY <1>1, <1>2, <1>3, <1>4, <1>5, <1>6, <1>7 DEF QuietStep

\* Two queues in line, one behind the other.
LEMMA ConcatInLine ==
    ASSUME NEW p \in Seq(Event), NEW q \in Seq(Event), NEW g, NEW d, NEW u, NEW n, InLine(p \o q, g, d, u, n)
    PROVE  /\ Ids(p \o q) = Ids(p) \cup Ids(q) /\ InLine(q, g, d, u, n)
           /\ \A x \in Ids(p), y \in Ids(q) : x < y
<1> DEFINE k == Len(p)
<1>1. k \in 0..Len(p) /\ k \in Nat
  BY LenProperties
<1>2. /\ SubSeq(p \o q, 1, k) = SubSeq(p, 1, k) /\ k \in 0..Len(p \o q)
      /\ SubSeq(p \o q, k + 1, Len(p \o q)) = SubSeq(p, k + 1, Len(p)) \o q
  BY <1>1, CutOfConcat
<1>3. SubSeq(p, 1, k) = p
  BY SubSeqFull
<1>4. SubSeq(p, k + 1, Len(p)) = <<>>
  <2>1. k + 1 \in Int /\ Len(p) \in Int /\ Len(p) < k + 1
    BY <1>1
  <2> QED BY <2>1, SubSeqEmpty
<1>5. SubSeq(p, k + 1, Len(p)) \o q = q
  BY <1>4, ConcatEmptySeq
<1> DEFINE c == p \o q
<1>6. SubSeq(c, 1, k) = p /\ SubSeq(c, k + 1, Len(c)) = q /\ k \in 0..Len(c) /\ InLine(c, g, d, u, n)
  BY <1>2, <1>3, <1>5
<1> HIDE DEF c, k
<1>7. /\ Ids(c) = Ids(SubSeq(c, 1, k)) \cup Ids(SubSeq(c, k + 1, Len(c)))
      /\ \A x \in Ids(SubSeq(c, 1, k)), y \in Ids(SubSeq(c, k + 1, Len(c))) : x < y
      /\ InLine(SubSeq(c, k + 1, Len(c)), g, d, u, n)
  BY <1>6, CutInLine
<1> QED BY <1>6, <1>7 DEF c

\* No two events have the same number.
LEMMA DistinctInLine ==
    ASSUME NEW s, NEW g, NEW d, NEW u, NEW n, InLine(s, g, d, u, n)
    PROVE  /\ \A i, j \in DOMAIN s : i # j /\ s[i].id # 0 => s[i].id # s[j].id
           /\ \A i \in DOMAIN s : s[i] \in Event /\ s[i].id \in Nat
<1>1. s \in Seq(Event) /\ DOMAIN s = 1..Len(s)
  BY LenProperties DEF InLine
<1>2. \A i \in DOMAIN s : s[i] \in Event /\ s[i].id \in Nat /\ i \in Int
  <2>1. \A i \in 1..Len(s) : s[i] \in Event
    BY <1>1, ElementOfSeq
  <2> QED BY <1>1, <2>1 DEF Event
<1>3. ASSUME NEW i \in DOMAIN s, NEW j \in DOMAIN s, i # j, s[i].id # 0, s[i].id = s[j].id PROVE FALSE
  <2>1. i < j \/ j < i
    BY <1>2, <1>3
  <2>2. s[i].id < s[j].id \/ s[j].id < s[i].id
    BY <1>3, <2>1 DEF InLine
  <2> QED BY <1>2, <1>3, <2>2
<1> QED BY <1>2, <1>3

\* The numbers in line have been given out.
LEMMA IdsBelow ==
    ASSUME NEW s, NEW g, NEW d, NEW u, NEW n \in Nat, InLine(s, g, d, u, n)
    PROVE  Ids(s) \subseteq 1..(n - 1)
<1>1. \A i \in DOMAIN s : s[i].id \in Nat
  BY DistinctInLine
<1>2. \A i \in DOMAIN s : s[i].id < n
  BY DEF InLine
<1>3. \A y \in Ids(s) : y \in Nat /\ y < n /\ y # 0
  BY <1>1, <1>2 DEF Ids
<1>4. \A y \in Ids(s) : y \in 1..(n - 1)
  BY <1>3
<1> QED BY <1>4

\* A queue without what out names has lost the numbers of those, and no others.
LEMMA KeepIds ==
    ASSUME NEW s, NEW g, NEW d, NEW u, NEW n, InLine(s, g, d, u, n), NEW out \in SUBSET DOMAIN s
    PROVE  /\ Keep(s, DOMAIN s \ out) \in Seq(Event) /\ Picked(s, Keep(s, DOMAIN s \ out))
           /\ Ids(Keep(s, DOMAIN s \ out)) = Ids(s) \ {s[i].id : i \in out}
           /\ {s[i].id : i \in out} \ {0} \subseteq Ids(s)
<1> DEFINE S == DOMAIN s \ out  t == Keep(s, S)
<1>1. s \in Seq(Event) /\ S \in SUBSET DOMAIN s
  BY DEF InLine
<1> HIDE DEF S
<1>2. /\ t \in Seq(Event) /\ Picked(s, t)
      /\ \A i \in S : \E k \in DOMAIN t : t[k] = s[i]
      /\ \A k \in DOMAIN t : \E i \in S : t[k] = s[i]
  BY <1>1, KeepPicks
<1> HIDE DEF t
<1>3. Ids(t) = {s[i].id : i \in S} \ {0}
  BY <1>2 DEF Ids
<1>4. \A i \in S, j \in out : s[i].id # 0 => s[i].id # s[j].id
  BY DistinctInLine DEF S
<1>5. {s[i].id : i \in S} \ {0} = ({s[i].id : i \in DOMAIN s} \ {0}) \ {s[i].id : i \in out}
  BY <1>4 DEF S
<1> QED BY <1>2, <1>3, <1>5 DEF Ids, t, S

\* What the reporter of an event does to the line: the events dropped leave it, and the
\* new one goes last.
LEMMA AddKeeps ==
    ASSUME QueueInv, NEW u \in BOOLEAN, Add(u)
    PROVE  /\ QueueInv'
           /\ \E D \in SUBSET Ids(All) :
                /\ gone' = gone \cup D /\ Ids(All)' = (Ids(All) \ D) \cup {next}
                /\ D = {queue[i].id : i \in Out(queue)} \ {0}
           /\ run.pc # "stopped" /\ run' = run /\ got' = got /\ spool' = <<>> /\ spool = <<>>
           /\ next \in 1..MaxEvents /\ next' = next + 1
           /\ urgent' \in {urgent, urgent \cup {next}}
           /\ Phase # "down" /\ UNCHANGED <<Phase, crashes, diskFails, faults>>
<1> DEFINE out == Out(queue)
           D == {queue[i].id : i \in out} \ {0}
           t == Keep(queue, DOMAIN queue \ out)
           e == [id |-> next, urgent |-> u]
           v == IF u THEN urgent \cup {next} ELSE urgent
           pending == run.pending
<1>1. Typed /\ LineInv
  BY TypeParts DEF QueueInv
<1>2. /\ ~stopped /\ next <= MaxEvents
      /\ queue' = Append(t, e) /\ dropped' = dropped + Cardinality(out) /\ gone' = gone \cup D
      /\ ripe' = (ripe /\ 1 \notin out) /\ wake' = (wake \/ Wakes(queue', u))
      /\ urgent' = v /\ next' = next + 1
      /\ UNCHANGED <<stopped, run, waiter, closer, expired, spool, got, faults, crashes, diskFails>>
  BY DEF Add, caller
<1>3. out \subseteq DOMAIN queue /\ IsFiniteSet(out)
  BY <1>1, OutSparesUrgent DEF Typed
<1>4. /\ queue \in Seq(Event) /\ pending \in Seq(Event)
      /\ All = pending \o queue /\ InLine(All, got, gone, urgent, next)
      /\ next \in Nat \ {0} /\ next \in 1..MaxEvents /\ e \in Event /\ e.id = next
  <2>1. queue \in Seq(Event) /\ pending \in Seq(Event) /\ All = pending \o queue /\ InLine(All, got, gone, urgent, next)
    BY <1>1 DEF Typed, LineInv, RunType, All
  <2>2. next \in 1..(MaxEvents + 1) /\ next <= MaxEvents /\ MaxEvents \in Nat
    BY <1>1, <1>2, BoundAssumption DEF Typed
  <2>3. next \in Nat \ {0} /\ next \in 1..MaxEvents
    BY <2>2
  <2> QED BY <2>1, <2>3 DEF Event
<1> HIDE DEF out, pending
<1>5. /\ Ids(All) = Ids(pending) \cup Ids(queue) /\ InLine(queue, got, gone, urgent, next)
      /\ \A x \in Ids(pending), y \in Ids(queue) : x < y
  BY <1>4, ConcatInLine
<1>6. t \in Seq(Event) /\ Picked(queue, t) /\ Ids(t) = Ids(queue) \ {queue[i].id : i \in out} /\ D \subseteq Ids(queue)
  BY <1>3, <1>5, KeepIds
<1> HIDE DEF t, e
<1>7. InLine(pending \o t, got, gone, urgent, next) /\ pending \o t \in Seq(Event)
  <2>1. Picked(pending \o queue, pending \o t) /\ pending \o t \in Seq(Event)
    BY <1>4, <1>6, ConcatPicked, ConcatProperties
  <2> QED BY <1>4, <2>1, PickedInLine
<1>8. Ids(pending \o t) = Ids(pending) \cup Ids(t)
  BY <1>4, <1>6, <1>7, ConcatInLine
<1>9. D \cap Ids(pending) = {}
  <2>1. \A y \in Ids(queue) : y \in Nat
    BY <1>5, DistinctInLine DEF Ids
  <2> HIDE DEF D
  <2>2. \A y \in D : ~(y < y)
    BY <1>6, <2>1
  <2> QED BY <1>5, <1>6, <2>2
<1>10. Ids(pending \o t) = Ids(All) \ D
  <2>1. 0 \notin Ids(queue) /\ 0 \notin Ids(pending)
    BY DEF Ids
  <2> QED BY <1>5, <1>6, <1>8, <1>9, <2>1
<1>11. All' = Append(pending \o t, e)
  <2>1. Append(t, e) = t \o <<e>> /\ <<e>> \in Seq(Event)
    BY <1>4, <1>6, AppendIsConcat
  <2>2. pending \o (t \o <<e>>) = (pending \o t) \o <<e>>
    BY <1>4, <1>6, <2>1, ConcatAssociative
  <2>3. Append(pending \o t, e) = (pending \o t) \o <<e>>
    BY <1>4, <1>7, AppendIsConcat
  <2> QED BY <1>2, <2>1, <2>2, <2>3 DEF All, pending
<1>12. got \subseteq 1..(next - 1) /\ gone \subseteq 1..(next - 1) /\ urgent \subseteq 1..(next - 1) /\ D \subseteq 1..(next - 1)
  <2>1. Ids(queue) \subseteq 1..(next - 1)
    BY <1>4, <1>5, IdsBelow
  <2> QED BY <1>1, <1>6, <2>1 DEF LineInv
<1>13. InLine(All', got, gone \cup D, v, next + 1)
  <2>1. D \cap Ids(pending \o t) = {}
    BY <1>10
  <2> HIDE DEF D
  <2>2. InLine(Append(pending \o t, [id |-> next, urgent |-> u]), got, gone \cup D, v, next + 1)
    BY <1>4, <1>7, <1>12, <2>1, NewInLine
  <2> QED BY <1>11, <2>2 DEF e
<1>14. Ids(All') = (Ids(All) \ D) \cup {next}
  <2>1. {e.id} \ {0} = {next}
    BY <1>4
  <2>2. Ids(Append(pending \o t, e)) = Ids(pending \o t) \cup ({e.id} \ {0})
    BY <1>4, <1>7, IdsOfAppend
  <2> HIDE DEF D
  <2> QED BY <1>10, <1>11, <2>1, <2>2
<1>15. run.pc # "stopped" /\ spool = <<>>
  BY <1>1, <1>2 DEF LineInv
<1> HIDE DEF D, v
<1>16. LineInv'
  <2>1. InLine(spool', got', gone', urgent', next') /\ (\A i \in DOMAIN spool' : spool'[i].urgent)
    <3>1. DOMAIN <<>> = {}
      OBVIOUS
    <3> QED BY <1>2, <1>15, <3>1, EmptyInLine
  <2>2. got' \subseteq 1..(next' - 1) /\ gone' \subseteq 1..(next' - 1) /\ urgent' \subseteq 1..(next' - 1)
    <3>1. 1..(next - 1) \subseteq 1..(next' - 1) /\ next \in 1..(next' - 1)
      BY <1>2, <1>4
    <3> QED BY <1>2, <1>12, <3>1 DEF v
  <2> QED BY <1>1, <1>2, <1>13, <1>15, <2>1, <2>2 DEF LineInv
<1>17. Typed'
  <2>1. queue' \in Seq(Event) /\ dropped' \in Nat
    BY <1>1, <1>2, <1>3, <1>4, <1>6, AppendProperties, FS_CardinalityType DEF Typed
  <2>2. wake' \in BOOLEAN /\ ripe' \in BOOLEAN
    BY <1>1, <1>2 DEF Typed, Wakes
  <2>3. gone' \subseteq 1..MaxEvents /\ urgent' \subseteq 1..MaxEvents /\ next' \in 1..(MaxEvents + 1)
    <3>1. 1..(next - 1) \subseteq 1..MaxEvents /\ next + 1 \in 1..(MaxEvents + 1)
      BY <1>4, BoundAssumption
    <3> QED BY <1>1, <1>2, <1>4, <1>12, <3>1 DEF Typed, v
  <2> QED BY <1>1, <1>2, <2>1, <2>2, <2>3 DEF Typed
<1>18. QueueInv'
  BY <1>16, <1>17, TypePartsNext DEF QueueInv
<1>19. D \in SUBSET Ids(All)
  BY <1>5, <1>6
<1>20. Ids(All)' = Ids(All')
  BY DEF Ids
<1>21. Phase # "down" /\ Phase' = Phase
  BY <1>1, <1>2, <1>15 DEF LineInv, Phase
<1> QED BY <1>2, <1>4, <1>14, <1>15, <1>18, <1>19, <1>20, <1>21 DEF D, v, out, pending

\* To the dashboard nothing happened: the same events wait.
Still == /\ Ids(All)' \ got' = Ids(All) \ got /\ UNCHANGED <<spool, got, gone, urgent, next, crashes, diskFails>>
         /\ run.pc # "stopped" /\ run'.pc # "stopped" /\ Phase' = Phase

\* With nothing pending, a warning about drops may be put behind the queue.
LEMMA WarnedKeeps ==
    ASSUME QueueInv, run.pending = <<>>
    PROVE  /\ All = queue /\ Warned \in Seq(Event) /\ Ids(Warned) = Ids(queue)
           /\ InLine(Warned, got, gone, urgent, next)
<1>1. Typed /\ LineInv
  BY TypeParts DEF QueueInv
<1>2. queue \in Seq(Event) /\ Warning \in Event /\ next \in Nat \ {0}
  BY <1>1, BoundAssumption DEF Typed, Warning, Event
<1>3. All = queue
  BY <1>2, ConcatEmptySeq DEF All
<1>4. InLine(queue, got, gone, urgent, next) /\ 0 \notin got /\ 0 \notin gone /\ 0 \notin urgent
  BY <1>1, <1>3 DEF LineInv
<1>5. InLine(Append(queue, Warning), got, gone, urgent, next) /\ Ids(Append(queue, Warning)) = Ids(queue)
  BY <1>2, <1>4, WarningInLine
<1>6. Append(queue, Warning) \in Seq(Event)
  BY <1>2, AppendProperties
<1> QED BY <1>2, <1>3, <1>4, <1>5, <1>6 DEF Warned

LEMMA TakeKeeps == ASSUME QueueInv, Take PROVE QueueInv' /\ Still /\ faults' = faults
<1> DEFINE n == IF Len(Warned) < BatchMax THEN Len(Warned) ELSE BatchMax
           W == Warned  front == SubSeq(W, 1, n)  back == SubSeq(W, n + 1, Len(W))
<1>1. Typed /\ LineInv
  BY TypeParts DEF QueueInv
<1>2. /\ run.pc = "loop" /\ run.pending = <<>> /\ W # <<>>
      /\ waiter' = Live /\ queue' = back /\ dropped' = 0 /\ ripe' = FALSE
      /\ run' = [FreshRun EXCEPT !.pc = "sending", !.pending = front, !.parts = <<n>>]
      /\ UNCHANGED <<stopped, wake, closer, expired, spool, got, gone, urgent, next, faults, crashes, diskFails>>
  BY DEF Take, Due
<1>3. All = queue /\ W \in Seq(Event) /\ Ids(W) = Ids(queue) /\ InLine(W, got, gone, urgent, next)
  BY <1>2, WarnedKeeps
<1> HIDE DEF W
<1>4. n \in 1..Len(W) /\ Len(W) \in Nat \ {0}
  <2>1. Len(W) \in Nat \ {0}
    BY <1>2, <1>3, EmptySeq
  <2> QED BY <2>1, SizeAssumption DEF W
<1> HIDE DEF n
<1>5. front \in Seq(Event) /\ back \in Seq(Event) /\ Len(front) = n
  <2>1. \A i \in 1..Len(W) : W[i] \in Event
    BY <1>3, ElementOfSeq
  <2>2. (\A i \in 1..n : W[i] \in Event) /\ 1 \in Int /\ n \in Int /\ 1 <= n
    BY <1>4, <2>1
  <2>3. front \in Seq(Event) /\ Len(front) = n - 1 + 1
    BY <2>2, SubSeqProperties
  <2>4. n \in 0..Len(W)
    BY <1>4
  <2>5. back \in Seq(Event)
    BY <1>3, <2>4, SubSeqPicked
  <2> HIDE DEF front
  <2> QED BY <1>4, <2>3, <2>5
<1>6. front \o back = W
  <2>1. 1 \in 1..(Len(W) + 1) /\ n \in (1 - 1)..Len(W) /\ Len(W) \in n..Len(W)
    BY <1>4
  <2>2. front \o back = SubSeq(W, 1, Len(W))
    BY <1>3, <2>1, ConcatAdjacentSubSeq
  <2> QED BY <1>3, <2>2, SubSeqFull
<1> HIDE DEF front, back
<1>7. run'.pc = "sending" /\ run'.pending = front /\ run'.parts = <<n>> /\ run' \in RunType
  <2>1. <<n>> \in Seq(Nat \ {0})
    BY <1>4, OnePart
  <2> QED BY <1>2, <1>5, <2>1 DEF FreshRun, RunType
<1>8. All' = W
  BY <1>2, <1>6, <1>7 DEF All
<1>9. Typed'
  <2>1. Parts(run'.parts, Len(run'.pending))
    BY <1>4, <1>5, <1>7, OnePart
  <2>2. Live \in BOOLEAN
    BY <1>1 DEF Typed, Live
  <2> QED BY <1>1, <1>2, <1>5, <1>7, <2>1, <2>2 DEF Typed
<1>10. LineInv'
  <2>1. front # <<>>
    <3> SUFFICES ASSUME front = <<>> PROVE FALSE
      OBVIOUS
    <3>1. Len(front) = 0
      BY EmptySeq
    <3> QED BY <1>4, <1>5, <3>1
  <2>2. waiter' => waiter
    BY <1>1, <1>2 DEF Live, Typed
  <2> QED BY <1>1, <1>2, <1>3, <1>7, <1>8, <2>1, <2>2 DEF LineInv
<1>11. Ids(All)' = Ids(All)
  <2>1. Ids(All)' = Ids(All')
    BY DEF Ids
  <2> QED BY <1>3, <1>8, <2>1
<1>12. Phase' = Phase
  BY <1>2, <1>7 DEF Phase
<1> QED BY <1>2, <1>7, <1>9, <1>10, <1>11, <1>12, TypePartsNext DEF QueueInv, Still

LEMMA RestKeeps == ASSUME QueueInv, Rest PROVE QueueInv' /\ Still /\ faults' = faults
<1>1. Typed /\ LineInv
  BY TypeParts DEF QueueInv
<1>2. /\ run.pc = "loop" /\ (run.retry \/ run.pending = <<>>)
      /\ queue' = (IF run.retry THEN queue ELSE Warned)
      /\ dropped' = (IF run.retry THEN dropped ELSE 0)
      /\ UNCHANGED <<ripe, stopped, wake, expired, spool, got, gone, urgent, next, faults, crashes, diskFails>>
      /\ \/ run' = run
         \/ run' = [run EXCEPT !.pc = "select", !.due = ~run.retry /\ Warned # <<>>]
      /\ (closer' = "stop" /\ Live) \/ closer' = closer
      /\ waiter' \in {FALSE, Live}
  BY DEF Rest, Answered
<1>3. /\ queue' \in Seq(Event) /\ InLine(run.pending \o queue', got, gone, urgent, next)
      /\ Ids(run.pending \o queue') = Ids(All)
  <2>1. CASE run.retry
    BY <1>1, <1>2, <2>1 DEF Typed, LineInv, All
  <2>2. CASE ~run.retry
    <3>1. /\ All = queue /\ Warned \in Seq(Event) /\ Ids(Warned) = Ids(queue)
          /\ InLine(Warned, got, gone, urgent, next) /\ run.pending = <<>>
      BY <1>2, <2>2, WarnedKeeps
    <3>2. <<>> \o Warned = Warned
      BY <3>1, ConcatEmptySeq
    <3> QED BY <1>2, <2>2, <3>1, <3>2
  <2> QED BY <2>1, <2>2
<1>4. run' \in RunType /\ run'.pc \in {"loop", "select"} /\ run'.pending = run.pending /\ run'.parts = run.parts
  <2>1. (~run.retry /\ Warned # <<>>) \in BOOLEAN /\ run \in RunType
    BY <1>1 DEF Typed
  <2> QED BY <1>2, <2>1 DEF RunType
<1>5. All' = run.pending \o queue'
  BY <1>4 DEF All
<1>6. Typed'
  <2>1. waiter' \in BOOLEAN
    BY <1>1, <1>2 DEF Typed, Live
  <2>2. dropped' \in Nat
    BY <1>1, <1>2 DEF Typed
  <2> QED BY <1>1, <1>2, <1>3, <1>4, <2>1, <2>2 DEF Typed
<1>7. LineInv' /\ Phase' = Phase
  <2>1. Live \in BOOLEAN /\ (Live => waiter) /\ closer # "done" /\ (waiter => closer # "idle")
    BY <1>1, <1>2 DEF Live, Typed, LineInv
  <2>2. Phase' = Phase
    BY <1>2, <1>4, <2>1 DEF Phase
  <2>3. waiter' => closer' # "idle"
    BY <1>1, <1>2, <2>1 DEF LineInv
  <2>4. closer' # "done" /\ run'.pc \notin {"stopped", "sending"} /\ (closer' \in {"signal", "join"} => closer' = closer)
    BY <1>2, <1>4, <2>1
  <2> QED BY <1>1, <1>2, <1>3, <1>4, <1>5, <2>2, <2>3, <2>4 DEF LineInv
<1>8. Ids(All)' = Ids(All)
  <2>1. Ids(All)' = Ids(All')
    BY DEF Ids
  <2> QED BY <1>3, <1>5, <2>1
<1> QED BY <1>2, <1>4, <1>6, <1>7, <1>8, TypePartsNext DEF QueueInv, Still

\* The part on its way is the front of the line.
Behind == SubSeq(run.pending, run.parts[1] + 1, Len(run.pending))

LEMMA PartIsAhead ==
    ASSUME QueueInv, run.pc = "sending"
    PROVE  /\ run.parts \in Seq(Nat \ {0}) /\ Len(run.pending) \in Nat \ {0}
           /\ Parts(run.parts, Len(run.pending)) /\ run.parts[1] \in 1..Len(run.pending)
           /\ Part \in Seq(Event) /\ Behind \in Seq(Event) /\ Len(Behind) = Len(run.pending) - run.parts[1]
           /\ Ids(All) = Ids(Part) \cup Ids(Behind \o queue)
           /\ \A x \in Ids(Part), y \in Ids(Behind \o queue) : x < y
           /\ InLine(All, got \cup Ids(Part), gone, urgent, next)
           /\ InLine(Behind \o queue, got, gone, urgent, next)
<1> DEFINE k == run.parts[1]  p == run.pending
<1>1. Typed /\ LineInv
  BY TypeParts DEF QueueInv
<1>2. p \in Seq(Event) /\ queue \in Seq(Event) /\ run.parts \in Seq(Nat \ {0}) /\ Parts(run.parts, Len(p)) /\ p # <<>>
  BY <1>1 DEF Typed, LineInv, RunType
<1>3. Len(p) \in Nat \ {0}
  BY <1>2, EmptySeq
<1>4. k \in 1..Len(p)
  BY <1>2, <1>3, FirstPart
<1>5. InLine(All, got, gone, urgent, next) /\ All = p \o queue /\ Part = SubSeq(p, 1, k) /\ Behind = SubSeq(p, k + 1, Len(p))
  BY <1>1 DEF LineInv, All, Part, Behind
<1> HIDE DEF k, p
<1>6. k \in 0..Len(p)
  BY <1>4
<1>7. /\ k \in 0..Len(All) /\ SubSeq(All, 1, k) = Part /\ SubSeq(All, k + 1, Len(All)) = Behind \o queue
      /\ Part \in Seq(Event) /\ Behind \in Seq(Event)
  BY <1>2, <1>5, <1>6, CutOfConcat
<1>8. /\ Ids(All) = Ids(SubSeq(All, 1, k)) \cup Ids(SubSeq(All, k + 1, Len(All)))
      /\ \A x \in Ids(SubSeq(All, 1, k)), y \in Ids(SubSeq(All, k + 1, Len(All))) : x < y
      /\ InLine(All, got \cup Ids(SubSeq(All, 1, k)), gone, urgent, next)
      /\ InLine(SubSeq(All, k + 1, Len(All)), got, gone, urgent, next)
  <2> DEFINE all == All
  <2>1. k \in 0..Len(all) /\ InLine(all, got, gone, urgent, next)
    BY <1>5, <1>7
  <2> HIDE DEF all
  <2>2. /\ Ids(all) = Ids(SubSeq(all, 1, k)) \cup Ids(SubSeq(all, k + 1, Len(all)))
        /\ \A x \in Ids(SubSeq(all, 1, k)), y \in Ids(SubSeq(all, k + 1, Len(all))) : x < y
        /\ InLine(all, got \cup Ids(SubSeq(all, 1, k)), gone, urgent, next)
        /\ InLine(SubSeq(all, k + 1, Len(all)), got, gone, urgent, next)
    BY ONLY <2>1, CutInLine
  <2> QED BY <2>2 DEF all
<1>9. Len(Behind) = Len(p) - k
  BY <1>2, <1>5, <1>6, SubSeqPicked
<1> QED BY <1>2, <1>3, <1>4, <1>7, <1>8, <1>9 DEF k, p

\* The part that arrives is what waits longest.
LEMMA ArriveKeeps ==
    ASSUME QueueInv, Arrive
    PROVE  /\ QueueInv' /\ run.pc # "stopped"
           /\ UNCHANGED <<run, queue, spool, gone, urgent, next, closer, faults, crashes, diskFails>>
           /\ \E P \in SUBSET Ids(All) :
                /\ got' = got \cup P /\ ~(P \subseteq got)
                /\ \A x \in P, y \in Ids(All) \ P : x < y
<1>1. Typed /\ LineInv
  BY TypeParts DEF QueueInv
<1>2. /\ run.pc = "sending" /\ ~(Ids(Part) \subseteq got) /\ got' = got \cup Ids(Part)
      /\ UNCHANGED <<queue, dropped, ripe, stopped, wake, run, waiter, closer, expired, spool, gone, urgent, next, faults, crashes, diskFails>>
  BY DEF Arrive, shared, caller
<1>3. /\ Ids(All) = Ids(Part) \cup Ids(Behind \o queue)
      /\ \A x \in Ids(Part), y \in Ids(Behind \o queue) : x < y
      /\ InLine(All, got \cup Ids(Part), gone, urgent, next)
  BY <1>2, PartIsAhead
<1>4. All' = All
  BY <1>2 DEF All
<1>5. Ids(Part) \subseteq 1..(next - 1)
  <2>1. InLine(All, got, gone, urgent, next) /\ next \in Nat
    BY <1>1 DEF LineInv, Typed
  <2>2. Ids(All) \subseteq 1..(next - 1)
    BY <2>1, IdsBelow
  <2> QED BY <1>3, <2>2
<1>6. LineInv'
  <2>1. InLine(spool', got', gone', urgent', next')
    BY <1>1, <1>2, EmptyInLine DEF LineInv
  <2> QED BY <1>1, <1>2, <1>3, <1>4, <1>5, <2>1 DEF LineInv
<1>7. Typed'
  <2>1. 1..(next - 1) \subseteq 1..MaxEvents
    BY <1>1, BoundAssumption DEF Typed
  <2>2. got' \subseteq 1..MaxEvents
    BY <1>1, <1>2, <1>5, <2>1 DEF Typed
  <2> QED BY <1>1, <1>2, <2>2 DEF Typed
<1> QED BY <1>2, <1>3, <1>6, <1>7, TypePartsNext DEF QueueInv

\* A part that is done with leaves the line behind it.
LEMMA DoneKeeps ==
    ASSUME QueueInv, run.pc = "sending",
           run'.pending = Behind, run'.parts = Tail(run.parts), queue' = queue
    PROVE  /\ All' = Behind \o queue /\ run'.pending \in Seq(Event)
           /\ run'.parts \in Seq(Nat \ {0}) /\ Parts(run'.parts, Len(run'.pending))
           /\ InLine(All', got, gone, urgent, next)
           /\ Ids(All)' = Ids(All) \ Ids(Part) /\ Ids(Part) \subseteq Ids(All)
<1>1. /\ run.parts \in Seq(Nat \ {0}) /\ Len(run.pending) \in Nat \ {0} /\ Parts(run.parts, Len(run.pending))
      /\ Behind \in Seq(Event) /\ Len(Behind) = Len(run.pending) - run.parts[1]
      /\ Ids(All) = Ids(Part) \cup Ids(Behind \o queue)
      /\ \A x \in Ids(Part), y \in Ids(Behind \o queue) : x < y
      /\ InLine(Behind \o queue, got, gone, urgent, next)
  BY PartIsAhead
<1>2. All' = Behind \o queue
  BY DEF All
<1>3. Tail(run.parts) \in Seq(Nat \ {0}) /\ Parts(Tail(run.parts), Len(run.pending) - run.parts[1])
  BY <1>1, FirstPart
<1>4. Ids(Part) \cap Ids(Behind \o queue) = {}
  <2> DEFINE line == Behind \o queue
  <2>1. \A y \in Ids(line) : y \in Nat
    <3>1. InLine(line, got, gone, urgent, next)
      BY <1>1
    <3> HIDE DEF line
    <3>2. \A i \in DOMAIN line : line[i].id \in Nat
      BY ONLY <3>1, DistinctInLine
    <3> QED BY ONLY <3>2 DEF Ids
  <2>2. \A y \in Ids(Behind \o queue) : ~(y < y)
    BY <2>1
  <2> QED BY <1>1, <2>2
<1>5. Ids(All)' = Ids(All')
  BY DEF Ids
<1> QED BY <1>1, <1>2, <1>3, <1>4, <1>5

LEMMA SendOKKeeps == ASSUME QueueInv, SendOK PROVE QueueInv' /\ Still /\ faults' = faults
<1>1. Typed /\ LineInv
  BY TypeParts DEF QueueInv
<1>2. /\ run.pc = "sending" /\ Ids(Part) \subseteq got
      /\ run' = [Done(run, run.parts[1]) EXCEPT !.pc = "loop", !.delivered = TRUE]
      /\ UNCHANGED <<queue, dropped, ripe, stopped, wake, waiter, closer, expired, spool, got, gone, urgent, next, faults, crashes, diskFails>>
  BY DEF SendOK, shared, caller
<1>3. run'.pc = "loop" /\ run'.pending = Behind /\ run'.parts = Tail(run.parts)
  BY <1>1, <1>2 DEF Typed, RunType, Done, Behind
<1>4. /\ run'.pending \in Seq(Event) /\ run'.parts \in Seq(Nat \ {0}) /\ Parts(run'.parts, Len(run'.pending))
      /\ InLine(All', got, gone, urgent, next)
      /\ Ids(All)' = Ids(All) \ Ids(Part)
  BY <1>2, <1>3, DoneKeeps
<1>5. run' \in RunType
  BY <1>1, <1>2, <1>3, <1>4 DEF Typed, RunType, Done
<1>6. Typed' /\ LineInv'
  <2>1. Typed'
    BY <1>1, <1>2, <1>4, <1>5 DEF Typed
  <2> QED BY <1>1, <1>2, <1>3, <1>4, <2>1 DEF LineInv
<1>7. Phase' = Phase
  BY <1>2, <1>3 DEF Phase
<1> QED BY <1>2, <1>3, <1>4, <1>6, <1>7, TypePartsNext DEF QueueInv, Still

\* What is dropped from elsewhere leaves a line in line.
LEMMA DropInLine ==
    ASSUME NEW s, NEW g, NEW d, NEW u, NEW n, InLine(s, g, d, u, n), NEW D, D \cap Ids(s) = {}, 0 \notin D
    PROVE  InLine(s, g, d \cup D, u, n)
<1>1. \A i \in DOMAIN s : s[i].id \notin D
  BY DEF Ids
<1> QED BY <1>1 DEF InLine

\* A refused part is split, or dropped when it is a single event.
LEMMA RefusedKeeps ==
    ASSUME QueueInv, NEW kind, SendRefused(kind)
    PROVE  /\ QueueInv'
           /\ faults' = faults \/ faults' = faults + 1
           /\ \/ Still
              \/ /\ run.pc # "stopped" /\ run'.pc # "stopped"
                 /\ UNCHANGED <<spool, got, urgent, next, crashes, diskFails>> /\ Phase' = Phase
                 /\ \E x \in Ids(All) :
                      /\ gone' = gone \cup {x} /\ Ids(All)' = Ids(All) \ {x}
                      /\ x \in Bad \/ faults' = faults + 1
<1> DEFINE k == run.parts[1]  n == Len(run.pending)
<1>1. Typed /\ LineInv
  BY TypeParts DEF QueueInv
<1>2. /\ run.pc = "sending" /\ run' = Refused(run, k = 1)
      /\ (faults' = faults \/ (faults < MaxFaults /\ faults' = faults + 1))
      /\ IF k = 1 /\ Part # <<Warning>>
         THEN gone' = gone \cup Ids(Part) /\ dropped' = dropped + 1
         ELSE UNCHANGED <<gone, dropped>>
      /\ k = 1 => Ids(Part) \cap Bad # {} \/ faults' = faults + 1
      /\ UNCHANGED <<queue, ripe, stopped, wake, waiter, closer, expired, spool, got, urgent, next, crashes, diskFails>>
  BY DEF SendRefused, Fault, caller
<1>3. /\ run.parts \in Seq(Nat \ {0}) /\ n \in Nat \ {0} /\ Parts(run.parts, n) /\ Part \in Seq(Event)
      /\ k \in 1..n
  BY <1>2, PartIsAhead
<1>4. /\ run.parts # <<>> /\ Head(run.parts) = k /\ Tail(run.parts) \in Seq(Nat \ {0})
      /\ k # 1 => Halves(k) \o Tail(run.parts) \in Seq(Nat \ {0}) /\ Parts(Halves(k) \o Tail(run.parts), n)
  BY <1>3, FirstPart
<1>5. faults' \in 0..MaxFaults
  BY <1>1, <1>2, BoundAssumption DEF Typed
<1>6. CASE k # 1
  <2>1. run' = [run EXCEPT !.parts = Halves(k) \o Tail(run.parts), !.fails = 0, !.retry = TRUE, !.pc = "select"]
    BY <1>1, <1>2, <1>4, <1>6 DEF Refused, Split, Typed, RunType
  <2>2. run' \in RunType /\ run'.pc = "select" /\ run'.pending = run.pending /\ run'.parts = Halves(k) \o Tail(run.parts)
    BY <1>1, <1>4, <1>6, <2>1 DEF Typed, RunType
  <2>3. Typed'
    BY <1>1, <1>2, <1>4, <1>5, <1>6, <2>2 DEF Typed
  <2>4. All' = All /\ Ids(All)' = Ids(All')
    BY <1>2, <2>2 DEF All, Ids
  <2>5. LineInv' /\ Phase' = Phase
    BY <1>1, <1>2, <1>6, <2>2, <2>4 DEF LineInv, Phase
  <2> QED BY <1>2, <1>6, <2>2, <2>3, <2>4, <2>5, TypePartsNext DEF QueueInv, Still
<1>7. CASE k = 1
  <2>1. run' = [Done(run, 1) EXCEPT !.retry = TRUE, !.pc = "select"]
    BY <1>2, <1>7 DEF Refused, DropOne
  <2>2. run'.pc = "select" /\ run'.pending = Behind /\ run'.parts = Tail(run.parts)
    BY <1>1, <1>7, <2>1 DEF Typed, RunType, Done, Behind
  <2>3. /\ run'.pending \in Seq(Event) /\ run'.parts \in Seq(Nat \ {0}) /\ Parts(run'.parts, Len(run'.pending))
        /\ InLine(All', got, gone, urgent, next)
        /\ Ids(All)' = Ids(All) \ Ids(Part) /\ Ids(Part) \subseteq Ids(All)
    BY <1>2, <2>2, DoneKeeps
  <2>4. run' \in RunType
    BY <1>1, <2>1, <2>2, <2>3 DEF Typed, RunType, Done
  <2>5. \E x : Ids(Part) = {x} \/ Ids(Part) = {}
    <3>1. Len(Part) = 1 /\ DOMAIN Part = 1..1
      <4>1. 1 \in 1..n /\ run.pending \in Seq(Event)
        BY <1>1, <1>3 DEF Typed, RunType
      <4>2. \A i \in 1..1 : run.pending[i] \in Event
        BY <4>1, ElementOfSeq
      <4>3. 1 \in Int /\ 1 <= 1 /\ 1 - 1 + 1 = 1
        OBVIOUS
      <4>4. Len(SubSeq(run.pending, 1, 1)) = 1
        BY <4>2, <4>3, SubSeqProperties
      <4> QED BY <1>3, <1>7, <4>4, LenProperties DEF Part
    <3>2. Ids(Part) = {Part[1].id} \ {0}
      BY <3>1 DEF Ids
    <3> QED BY <3>2
  <2>6. Ids(Part) \subseteq 1..(next - 1)
    <3>1. InLine(All, got, gone, urgent, next) /\ next \in Nat
      BY <1>1 DEF LineInv, Typed
    <3>2. Ids(All) \subseteq 1..(next - 1)
      BY <3>1, IdsBelow
    <3> QED BY <2>3, <3>2
  <2>7. (gone' = gone /\ Ids(Part) = {}) \/ gone' = gone \cup Ids(Part)
    <3>1. CASE Part = <<Warning>>
      <4>1. DOMAIN <<Warning>> = 1..1 /\ <<Warning>>[1].id = 0
        BY DEF Warning
      <4>2. Ids(Part) = {}
        BY <3>1, <4>1 DEF Ids
      <4> QED BY <1>2, <3>1, <4>2
    <3> QED BY <1>2, <1>7, <3>1
  <2>8. gone' = gone \cup Ids(Part)
    BY <2>7
  <2>9. LineInv'
    <3>1. Ids(Part) \cap Ids(All') = {} /\ 0 \notin Ids(Part)
      <4>1. Ids(All)' = Ids(All')
        BY DEF Ids
      <4>2. 0 \notin Ids(Part)
        BY DEF Ids
      <4> QED BY <2>3, <4>1, <4>2
    <3>2. InLine(All', got, gone \cup Ids(Part), urgent, next)
      BY <2>3, <3>1, DropInLine
    <3>3. InLine(spool', got', gone', urgent', next')
      BY <1>1, <1>2, EmptyInLine DEF LineInv
    <3> QED BY <1>1, <1>2, <2>2, <2>6, <2>8, <3>2, <3>3 DEF LineInv
  <2>10. Typed'
    <3>1. 1..(next - 1) \subseteq 1..MaxEvents
      BY <1>1, BoundAssumption DEF Typed
    <3>2. gone' \subseteq 1..MaxEvents
      BY <1>1, <2>6, <2>8, <3>1 DEF Typed
    <3>3. dropped' \in Nat
      BY <1>1, <1>2 DEF Typed
    <3> QED BY <1>1, <1>2, <1>5, <2>3, <2>4, <3>2, <3>3 DEF Typed
  <2>11. QueueInv'
    BY <2>9, <2>10, TypePartsNext DEF QueueInv
  <2>12. Phase' = Phase
    BY <1>2, <2>2 DEF Phase
  <2>13. CASE Ids(Part) = {}
    BY <1>2, <2>2, <2>3, <2>8, <2>11, <2>12, <2>13 DEF Still
  <2>14. CASE Ids(Part) # {}
    <3>1. PICK x : Ids(Part) = {x}
      BY <2>5, <2>14
    <3>2. /\ x \in Ids(All) /\ gone' = gone \cup {x} /\ Ids(All)' = Ids(All) \ {x}
          /\ x \in Bad \/ faults' = faults + 1
      BY <1>2, <1>7, <2>3, <2>8, <3>1
    <3> QED BY <1>2, <2>2, <2>11, <2>12, <3>2
  <2> QED BY <2>13, <2>14
<1> QED BY <1>6, <1>7

\* As many numbers as events.
LEMMA CountInLine ==
    ASSUME NEW s, NEW g, NEW d, NEW u, NEW n, InLine(s, g, d, u, n), \A i \in DOMAIN s : s[i].id # 0
    PROVE  Cardinality(Ids(s)) = Len(s)
<1>1. DOMAIN s = 1..Len(s) /\ Len(s) \in Nat
  BY LenProperties DEF InLine
<1> DEFINE f == [i \in 1..Len(s) |-> s[i].id]
<1>2. \A i \in 1..Len(s) : f[i] \in Ids(s)
  BY <1>1 DEF Ids
<1>3. \A i, j \in 1..Len(s) : f[i] = f[j] => i = j
  BY <1>1, DistinctInLine
<1>4. \A y \in Ids(s) : \E i \in 1..Len(s) : f[i] = y
  BY <1>1 DEF Ids
<1>5. f \in [1..Len(s) -> Ids(s)]
  BY <1>2
<1> HIDE DEF f
<1>6. f \in Bijection(1..Len(s), Ids(s))
  BY <1>3, <1>4, <1>5 DEF Bijection, Injection, Surjection, IsInjective
<1>7. ExistsBijection(1..Len(s), Ids(s))
  BY <1>6 DEF ExistsBijection
<1>8. IsFiniteSet(1..Len(s)) /\ Cardinality(1..Len(s)) = Len(s)
  <2>1. 1 \in Int /\ Len(s) \in Int /\ (IF 1 > Len(s) THEN 0 ELSE Len(s) - 1 + 1) = Len(s)
    BY <1>1
  <2> QED BY <2>1, FS_Interval
<1> QED BY <1>7, <1>8, FS_Bijection

\* What is left unsent: urgent events of the line; of too many the QueueMax newest, and
\* then the dashboard has none of them if it lacks an older urgent one.
LEMMA UnsentIsNewest ==
    ASSUME QueueInv
    PROVE  /\ InLine(Unsent, got, gone, urgent, next) /\ \A i \in DOMAIN Unsent : Unsent[i].urgent
           /\ Ids(Unsent) \subseteq Ids(All) \cap urgent
           /\ LET stored == Ids(Unsent) \ got
                  rest == ((Ids(All) \ got) \cap urgent) \ stored
              IN  rest = {} \/ (Cardinality(stored) = QueueMax /\ \A x \in stored, r \in rest : r < x)
<1> DEFINE S == {i \in DOMAIN All : All[i].urgent}
           U == Keep(All, S)
           k == Len(U) - QueueMax
           cut == SubSeq(U, k + 1, Len(U))
           stored == Ids(Unsent) \ got
           rest == ((Ids(All) \ got) \cap urgent) \ stored
<1>1. Typed /\ LineInv
  BY TypeParts DEF QueueInv
<1>2. InLine(All, got, gone, urgent, next) /\ All \in Seq(Event) /\ 0 \notin urgent /\ S \in SUBSET DOMAIN All
  BY <1>1 DEF LineInv, InLine
<1>3. /\ U \in Seq(Event) /\ Picked(All, U)
      /\ \A i \in S : \E l \in DOMAIN U : U[l] = All[i]
      /\ \A l \in DOMAIN U : \E i \in S : U[l] = All[i]
  BY <1>2, KeepPicks
<1>4. Unsent = IF Len(U) <= QueueMax THEN U ELSE cut
  <2>1. Urgent(All) = U
    BY DEF Urgent
  <2>2. Len(U) - QueueMax + 1 = k + 1
    OBVIOUS
  <2> HIDE DEF U
  <2> QED BY <2>1 DEF Unsent, Newest, All
<1>5. InLine(U, got, gone, urgent, next) /\ Ids(U) \subseteq Ids(All)
  BY <1>2, <1>3, PickedInLine
<1>6. \A l \in DOMAIN U : U[l].urgent /\ U[l].id \in urgent /\ U[l].id # 0
  <2>1. \A l \in DOMAIN U : U[l].urgent
    BY <1>3
  <2> QED BY <1>2, <1>5, <2>1 DEF InLine
<1>7. Ids(U) = Ids(All) \cap urgent
  <2>1. ASSUME NEW i \in DOMAIN All, All[i].id \in urgent PROVE All[i].id \in Ids(U)
    <3>1. i \in S
      BY <1>2, <2>1 DEF InLine
    <3>2. PICK l \in DOMAIN U : U[l] = All[i]
      BY <1>3, <3>1
    <3> QED BY <1>6, <3>2 DEF Ids
  <2>2. Ids(All) \cap urgent \subseteq Ids(U)
    BY <2>1 DEF Ids
  <2>3. Ids(U) \subseteq urgent
    BY <1>6 DEF Ids
  <2> QED BY <1>5, <2>2, <2>3
<1> HIDE DEF S, U
<1>8. Len(U) \in Nat /\ DOMAIN U = 1..Len(U) /\ QueueMax \in Nat
  BY <1>3, LenProperties, SizeAssumption
<1>9. CASE Len(U) <= QueueMax
  <2>1. Unsent = U
    BY <1>4, <1>9
  <2>2. rest = {}
    BY <1>7, <2>1
  <2> QED BY <1>5, <1>6, <1>7, <2>1, <2>2
<1>10. CASE ~(Len(U) <= QueueMax)
  <2>1. Unsent = cut
    BY <1>4, <1>10
  <2>2. k \in 0..Len(U) /\ k \in Nat
    BY <1>8, <1>10
  <2> HIDE DEF k
  <2>3. /\ cut \in Seq(Event) /\ Len(cut) = Len(U) - k
        /\ \A i \in 1..(Len(U) - k) : cut[i] = U[k + i]
        /\ Picked(U, cut)
    BY <1>3, <2>2, SubSeqPicked
  <2>4. /\ Ids(U) = Ids(SubSeq(U, 1, k)) \cup Ids(cut)
        /\ \A x \in Ids(SubSeq(U, 1, k)), y \in Ids(cut) : x < y
        /\ InLine(cut, got, gone, urgent, next)
    BY <1>5, <2>2, CutInLine
  <2> HIDE DEF cut
  <2>5. Len(cut) = QueueMax /\ DOMAIN cut = 1..Len(cut)
    <3>1. Len(U) - k = QueueMax
      BY <1>8 DEF k
    <3> QED BY <2>3, <3>1, LenProperties
  <2>6. \A i \in DOMAIN cut : cut[i].urgent /\ cut[i].id # 0
    <3>1. \A i \in DOMAIN cut : \E l \in DOMAIN U : cut[i] = U[l]
      BY <2>3 DEF Picked
    <3> QED BY <1>6, <3>1
  <2>7. Ids(cut) \subseteq Ids(All) \cap urgent
    BY <1>7, <2>4
  <2>8. ASSUME NEW r \in rest PROVE Ids(cut) \cap got = {} /\ \A x \in Ids(cut) : r < x
    <3>1. r \in Ids(U) /\ r \notin got /\ r \notin Ids(cut)
      BY <1>7, <2>1
    <3>2. \A x \in Ids(cut) : r < x
      BY <2>4, <3>1
    <3>3. ASSUME NEW x \in Ids(cut), x \in got PROVE FALSE
      <4>1. x \in Ids(U) /\ r < x
        BY <2>4, <3>2
      <4>2. PICK i \in DOMAIN U : U[i].id = r /\ r # 0
        BY <3>1 DEF Ids
      <4>3. PICK j \in DOMAIN U : U[j].id = x /\ x # 0
        BY <4>1 DEF Ids
      <4>4. i \in Int /\ j \in Int /\ r \in Nat /\ x \in Nat
        BY <1>5, <1>8, <4>2, <4>3, DistinctInLine
      <4>5. ~(j < i) /\ i # j
        BY <1>5, <4>1, <4>2, <4>3, <4>4 DEF InLine
      <4>6. i < j
        BY <4>4, <4>5
      <4> QED BY <1>5, <3>1, <3>3, <4>2, <4>3, <4>6 DEF InLine
    <3> QED BY <3>2, <3>3
  <2>9. ASSUME rest # {} PROVE Cardinality(stored) = QueueMax /\ \A x \in stored, r \in rest : r < x
    <3>1. Ids(cut) \cap got = {}
      BY <2>8, <2>9
    <3>2. stored = Ids(cut)
      BY <2>1, <3>1
    <3>3. Cardinality(Ids(cut)) = QueueMax
      BY <2>4, <2>5, <2>6, CountInLine
    <3>4. \A x \in stored, r \in rest : r < x
      BY <2>8, <3>2
    <3> QED BY <3>2, <3>3, <3>4
  <2> QED BY <2>1, <2>4, <2>6, <2>7, <2>9
<1> QED BY <1>9, <1>10

LEMMA EndRunKeeps ==
    ASSUME QueueInv, SendCanceled \/ SelectStop
    PROVE  /\ QueueInv' /\ run.pc # "stopped" /\ run'.pc = "stopped"
           /\ \/ spool' = Unsent /\ diskFails' = diskFails
              \/ spool' = <<>> /\ diskFails' = diskFails + 1
           /\ Phase = "closing" /\ UNCHANGED <<got, gone, urgent, next, crashes, faults>>
<1>1. Typed /\ LineInv
  BY TypeParts DEF QueueInv
<1>2. /\ run.pc \in {"sending", "select"} /\ closer \in {"join", "done"}
      /\ \/ spool' = (IF Unsent = <<>> THEN spool ELSE Unsent) /\ diskFails' = diskFails
         \/ spool' = spool /\ diskFails < MaxDiskFails /\ diskFails' = diskFails + 1
      /\ run' = [run EXCEPT !.pc = "stopped"]
      /\ UNCHANGED <<queue, dropped, ripe, stopped, wake, waiter, closer, expired, got, gone, urgent, next, faults, crashes>>
  BY DEF SendCanceled, SelectStop, EndRun, DiskFault, Canceled, Goto, shared, caller
<1>3. /\ stopped /\ closer = "join"
      /\ \/ spool' = Unsent /\ diskFails' = diskFails
         \/ spool' = <<>> /\ diskFails < MaxDiskFails /\ diskFails' = diskFails + 1
  BY <1>1, <1>2 DEF LineInv
<1>4. InLine(Unsent, got, gone, urgent, next) /\ \A i \in DOMAIN Unsent : Unsent[i].urgent
  BY UnsentIsNewest
<1>5. run' \in RunType /\ run'.pc = "stopped" /\ run'.pending = run.pending /\ run'.parts = run.parts
  BY <1>1, <1>2 DEF Typed, RunType
<1>6. /\ spool' \in Seq(Event) /\ InLine(spool', got, gone, urgent, next)
      /\ \A i \in DOMAIN spool' : spool'[i].urgent
  <2>1. <<>> \in Seq(Event) /\ DOMAIN <<>> = {}
    OBVIOUS
  <2> QED BY <1>3, <1>4, <2>1, EmptyInLine DEF InLine
<1>7. Typed'
  <2>1. diskFails' \in 0..MaxDiskFails
    BY <1>1, <1>3, BoundAssumption DEF Typed
  <2> QED BY <1>1, <1>2, <1>5, <1>6, <2>1 DEF Typed
<1>8. All' = All
  BY <1>2, <1>5 DEF All
<1>9. LineInv'
  BY <1>1, <1>2, <1>3, <1>5, <1>6, <1>8 DEF LineInv
<1>10. Phase = "closing"
  BY <1>2, <1>3 DEF Phase
<1> QED BY <1>2, <1>3, <1>5, <1>7, <1>9, <1>10, TypePartsNext DEF QueueInv

LEMMA RestartKeeps ==
    ASSUME QueueInv, Restart
    PROVE  /\ QueueInv' /\ run'.pc = "loop" /\ spool' = <<>>
           /\ \/ Ids(All)' = Ids(spool) /\ diskFails' = diskFails
              \/ Ids(All)' = {} /\ diskFails' = diskFails + 1
           /\ crashes' = crashes + 1 /\ Phase' = "up"
           /\ UNCHANGED <<got, gone, urgent, next, faults>>
<1>1. Typed /\ LineInv
  BY TypeParts DEF QueueInv
<1>2. /\ crashes < MaxCrashes /\ crashes' = crashes + 1
      /\ \/ queue' = spool /\ diskFails' = diskFails
         \/ queue' = <<>> /\ diskFails < MaxDiskFails /\ diskFails' = diskFails + 1
      /\ spool' = <<>> /\ wake' = (queue' # <<>>) /\ ripe' = FALSE
      /\ dropped' = 0 /\ stopped' = FALSE /\ run' = FreshRun
      /\ waiter' = FALSE /\ closer' = "idle" /\ expired' = FALSE
      /\ UNCHANGED <<got, gone, urgent, next, faults>>
  BY DEF Restart, DiskFault
<1>3. run' \in RunType /\ Parts(run'.parts, Len(run'.pending)) /\ run'.pending = <<>> /\ run'.pc = "loop"
  BY <1>2, FreshTypes DEF FreshRun
<1>4. <<>> \in Seq(Event) /\ DOMAIN <<>> = {}
  OBVIOUS
<1>5. queue' \in Seq(Event) /\ InLine(queue', got, gone, urgent, next)
  BY <1>1, <1>2, <1>4, EmptyInLine DEF Typed, LineInv
<1>6. All' = queue'
  <2>1. <<>> \o queue' = queue'
    BY <1>5, ConcatEmptySeq
  <2> QED BY <1>3, <2>1 DEF All
<1>7. Typed'
  <2>1. crashes' \in 0..MaxCrashes /\ diskFails' \in 0..MaxDiskFails
    BY <1>1, <1>2, BoundAssumption DEF Typed
  <2> QED BY <1>1, <1>2, <1>3, <1>4, <1>5, <2>1 DEF Typed
<1>8. LineInv'
  BY <1>1, <1>2, <1>3, <1>4, <1>5, <1>6, EmptyInLine DEF LineInv
<1>9. /\ \/ Ids(All)' = Ids(spool) /\ diskFails' = diskFails
         \/ Ids(All)' = {} /\ diskFails' = diskFails + 1
      /\ Phase' = "up"
  <2>1. Ids(All)' = Ids(All')
    BY DEF Ids
  <2>2. Phase' = "up"
    BY <1>2, <1>3 DEF Phase
  <2> QED BY <1>2, <1>6, <2>1, <2>2, EmptyInLine
<1> QED BY <1>2, <1>3, <1>7, <1>8, <1>9, TypePartsNext DEF QueueInv

LEMMA NextKeeps == QueueInv /\ [Next]_vars => QueueInv'
<1> SUFFICES ASSUME QueueInv, [Next]_vars PROVE QueueInv'
  OBVIOUS
<1>1. CASE \E u \in BOOLEAN : Add(u)
  BY <1>1, AddKeeps
<1>2. CASE RunStep
  <2>1. CASE Resend \/ (\E kind \in Failures : SendFailed(kind)) \/ SelectFlush \/ SelectTimer \/ SelectWake
    BY <2>1, QuietKeeps DEF QuietStep
  <2>2. CASE \E kind \in {"refused", "large", "fault"} : SendRefused(kind)
    BY <2>2, RefusedKeeps
  <2> QED BY <1>2, <2>1, <2>2, TakeKeeps, RestKeeps, ArriveKeeps, SendOKKeeps, EndRunKeeps DEF RunStep
<1>3. CASE Ripen \/ Close \/ CloserStep
  BY <1>3, QuietKeeps DEF QuietStep
<1>4. CASE Restart
  BY <1>4, RestartKeeps
<1>5. CASE UNCHANGED vars
  <2>1. Typed'
    BY <1>5, TypeParts DEF QueueInv, Typed, vars
  <2>2. LineInv'
    BY <1>5 DEF QueueInv, LineInv, All, vars
  <2> QED BY <2>1, <2>2, TypePartsNext DEF QueueInv
<1> QED BY <1>1, <1>2, <1>3, <1>4, <1>5 DEF Next

\* The variables keep their types, the parts of the batch are what is pending, and what
\* waits is in line.
THEOREM LineIsKept == Spec => []TypeOK /\ []QueueInv
<1>1. Spec => []QueueInv
  BY InitQueueInv, NextKeeps, PTL DEF Spec
<1>2. QueueInv => TypeOK
  BY DEF QueueInv
<1> QED BY <1>1, <1>2, PTL

----------------------------------------------------------------------------
(* EventQueue implements EventDelivery.                                    *)

Waits == IF run.pc = "stopped" THEN {} ELSE Ids(All) \ got
OnDisk == Ids(spool) \ got

\* What became of an event, the cases in an order.
FateOf(e, g, w, k, d, n) ==
    IF e \in g THEN "delivered" ELSE IF e \in w THEN "waiting" ELSE IF e \in k THEN "kept"
    ELSE IF e \in d THEN "dropped" ELSE IF e >= n THEN "none" ELSE "lost"

\* Under the invariant no two cases of Fate overlap.
LEMMA FateIs == QueueInv => \A e \in 1..MaxEvents : Fate(e) = FateOf(e, got, Waits, OnDisk, gone, next)
<1> SUFFICES ASSUME QueueInv, NEW e \in 1..MaxEvents PROVE Fate(e) = FateOf(e, got, Waits, OnDisk, gone, next)
  OBVIOUS
<1>1. Typed /\ LineInv
  BY TypeParts DEF QueueInv
<1>2. Ids(All) \subseteq 1..(next - 1) /\ Ids(spool) \subseteq 1..(next - 1) /\ next \in Nat
  <2>1. InLine(All, got, gone, urgent, next) /\ InLine(spool, got, gone, urgent, next) /\ next \in Nat
    BY <1>1 DEF LineInv, Typed
  <2> QED BY <2>1, IdsBelow
<1>3. Ids(All) \cap gone = {} /\ Ids(spool) \cap gone = {}
  BY <1>1 DEF LineInv, InLine, Ids
<1>4. run.pc # "stopped" => Ids(spool) = {}
  BY <1>1, EmptyInLine DEF LineInv
<1> DEFINE w == run.pc # "stopped" /\ e \in Ids(All) /\ e \notin got
           k == e \in Ids(spool) /\ e \notin got
           d == e \in gone /\ e \notin got
           o == e >= next
<1>5. Fate(e) = CASE e \in got -> "delivered" [] w -> "waiting" [] k -> "kept" [] d -> "dropped"
                  [] o -> "none" [] OTHER -> "lost"
  <2>1. /\ (e \in Ids(run.pending \o queue) \ got /\ run.pc # "stopped") <=> w
        /\ (e \in Ids(spool) \ got) <=> k
        /\ (e \in gone \ got) <=> d
    BY DEF All
  <2> HIDE DEF w, k, d
  <2> QED BY <2>1 DEF Fate
<1>6. /\ e \in got => ~w /\ ~k /\ ~d /\ ~o
      /\ w => ~k /\ ~d /\ ~o
      /\ k => ~d /\ ~o
      /\ d => ~o
  <2>1. \A x \in 1..(next - 1) : ~(x >= next)
    BY <1>2
  <2>2. got \subseteq 1..(next - 1) /\ gone \subseteq 1..(next - 1)
    BY <1>1 DEF LineInv
  <2> QED BY <1>2, <1>3, <1>4, <2>1, <2>2
<1>7. FateOf(e, got, Waits, OnDisk, gone, next)
        = IF e \in got THEN "delivered" ELSE IF w THEN "waiting" ELSE IF k THEN "kept"
          ELSE IF d THEN "dropped" ELSE IF o THEN "none" ELSE "lost"
  BY DEF FateOf, Waits, OnDisk
<1> HIDE DEF w, k, d, o
<1> QED BY <1>5, <1>6, <1>7

LEMMA FateIsNext ==
    QueueInv' => \A e \in 1..MaxEvents : Fate(e)' = FateOf(e, got', Waits', OnDisk', gone', next')
<1>1. (QueueInv => \A e \in 1..MaxEvents : Fate(e) = FateOf(e, got, Waits, OnDisk, gone, next))'
  BY FateIs, PTL
<1>2. ASSUME NEW e PROVE FateOf(e, got, Waits, OnDisk, gone, next)' = FateOf(e, got', Waits', OnDisk', gone', next')
  BY DEF FateOf
<1> QED BY <1>1, <1>2

LEMMA AcceptSteps ==
    ASSUME NEW e \in 1..MaxEvents, Fate(e) = "none", \A d \in 1..(e - 1) : d \in 1..MaxEvents /\ Fate(d) # "none",
           NEW S \in SUBSET (1..MaxEvents), \A d \in S : Fate(d) = "waiting",
           \A d \in 1..MaxEvents : Fate(d)' = IF d = e THEN "waiting" ELSE IF d \in S THEN "dropped" ELSE Fate(d),
           urgent' \in {urgent, urgent \cup {e}}, Phase # "down", UNCHANGED <<Phase, crashes, diskFails, faults>>
    PROVE  Delivery!Next
<1>1. S \in SUBSET Delivery!Having("waiting")
  BY DEF Delivery!Having, Delivery!Event
<1>2. Delivery!Accept(e)
  BY <1>1 DEF Delivery!Accept, Delivery!Event
<1> QED BY <1>2 DEF Delivery!Next, Delivery!Event

LEMMA DeliverSteps ==
    ASSUME NEW S \in SUBSET (1..MaxEvents), S # {}, \A d \in S : Fate(d) = "waiting",
           \A e \in S, d \in 1..MaxEvents : Fate(d) = "waiting" /\ d \notin S => e < d,
           \A d \in 1..MaxEvents : Fate(d)' = IF d \in S THEN "delivered" ELSE Fate(d),
           Phase # "down", UNCHANGED <<urgent, Phase, crashes, diskFails, faults>>
    PROVE  Delivery!Next
<1>1. Delivery!Deliver(S)
  BY DEF Delivery!Deliver, Delivery!Having, Delivery!Event, Delivery!Move
<1> QED BY <1>1 DEF Delivery!Next, Delivery!Event

LEMMA RefuseSteps ==
    ASSUME NEW e \in 1..MaxEvents, Fate(e) = "waiting",
           \A d \in 1..MaxEvents : Fate(d)' = IF d = e THEN "dropped" ELSE Fate(d),
           (e \in Bad /\ faults' = faults) \/ faults' = faults + 1,
           Phase # "down", UNCHANGED <<urgent, Phase, crashes, diskFails>>
    PROVE  Delivery!Next
<1>1. Delivery!Refuse(e)
  BY DEF Delivery!Refuse, Delivery!Event, Delivery!Move
<1> QED BY <1>1 DEF Delivery!Next, Delivery!Event

LEMMA StopSteps ==
    ASSUME NEW stored \in SUBSET (1..MaxEvents), \A d \in stored : Fate(d) = "waiting" /\ d \in urgent,
           \/ /\ diskFails' = diskFails
              /\ \/ \A d \in 1..MaxEvents : Fate(d) = "waiting" /\ d \in urgent => d \in stored
                 \/ /\ Cardinality(stored) = QueueMax
                    /\ \A k \in stored, d \in 1..MaxEvents :
                         Fate(d) = "waiting" /\ d \in urgent /\ d \notin stored => d < k
           \/ stored = {} /\ diskFails' = diskFails + 1,
           \A d \in 1..MaxEvents :
             Fate(d)' = IF d \in stored THEN "kept" ELSE IF Fate(d) = "waiting" THEN "lost" ELSE Fate(d),
           Phase = "closing", Phase' = "down", UNCHANGED <<urgent, crashes, faults>>
    PROVE  Delivery!Next
<1>1. stored \in SUBSET (Delivery!Having("waiting") \cap urgent)
  BY DEF Delivery!Having, Delivery!Event
<1>2. LET rest == (Delivery!Having("waiting") \cap urgent) \ stored
      IN  \/ /\ diskFails' = diskFails
             /\ rest = {} \/ (Cardinality(stored) = QueueMax /\ \A k \in stored, r \in rest : r < k)
          \/ stored = {} /\ diskFails' = diskFails + 1
  BY DEF Delivery!Having, Delivery!Event
<1>3. Delivery!Cardinality(stored) = Cardinality(stored)
  BY DEF Delivery!Cardinality, Cardinality
<1>4. Delivery!Stop
  BY <1>1, <1>2, <1>3 DEF Delivery!Stop, Delivery!Event
<1> QED BY <1>4 DEF Delivery!Next

LEMMA RestartSteps ==
    ASSUME NEW then \in {"waiting", "lost"},
           diskFails' = IF then = "lost" THEN diskFails + 1 ELSE diskFails,
           \A d \in 1..MaxEvents :
             Fate(d)' = IF Fate(d) = "waiting" THEN "lost" ELSE IF Fate(d) = "kept" THEN then ELSE Fate(d),
           crashes' = crashes + 1, Phase' = "up", UNCHANGED <<urgent, faults>>
    PROVE  Delivery!Next
<1>1. Delivery!Restart
  BY DEF Delivery!Restart, Delivery!Event
<1> QED BY <1>1 DEF Delivery!Next

LEMMA SameFates ==
    ASSUME \A d \in 1..MaxEvents : Fate(d)' = Fate(d)
    PROVE  UNCHANGED [e \in 1..MaxEvents |-> Fate(e)]
OBVIOUS

\* An event added is accepted, and what it pushes out is dropped.
LEMMA AddImplements == ASSUME QueueInv, NEW u \in BOOLEAN, Add(u) PROVE Delivery!Next
<1>1. PICK D \in SUBSET Ids(All) : gone' = gone \cup D /\ Ids(All)' = (Ids(All) \ D) \cup {next}
  BY AddKeeps
<1>2. /\ QueueInv' /\ run.pc # "stopped" /\ run' = run /\ got' = got /\ spool' = <<>> /\ spool = <<>>
      /\ next \in 1..MaxEvents /\ next' = next + 1 /\ urgent' \in {urgent, urgent \cup {next}}
      /\ Phase # "down" /\ UNCHANGED <<Phase, crashes, diskFails, faults>>
  BY AddKeeps
<1>3. Typed /\ LineInv
  BY TypeParts DEF QueueInv
<1>4. Ids(All) \subseteq 1..(next - 1) /\ got \subseteq 1..(next - 1) /\ gone \subseteq 1..(next - 1)
  <2>1. InLine(All, got, gone, urgent, next) /\ next \in Nat
    BY <1>2, <1>3 DEF LineInv
  <2> QED BY <1>3, <2>1, IdsBelow DEF LineInv
<1>5. OnDisk = {} /\ OnDisk' = {} /\ Waits = Ids(All) \ got /\ Waits' = ((Ids(All) \ D) \cup {next}) \ got
  BY <1>1, <1>2, EmptyInLine DEF OnDisk, Waits
<1>6. \A e \in 1..MaxEvents :
        /\ Fate(e) = FateOf(e, got, Waits, {}, gone, next)
        /\ Fate(e)' = FateOf(e, got, Waits', {}, gone \cup D, next + 1)
  BY <1>1, <1>2, <1>5, FateIs, FateIsNext
<1> DEFINE S == D \ got
<1>7. S \in SUBSET (1..MaxEvents)
  <2>1. 1..(next - 1) \subseteq 1..MaxEvents
    BY <1>2, BoundAssumption
  <2> QED BY <1>4, <2>1
<1>8. \A d \in S : Fate(d) = "waiting"
  BY <1>5, <1>6, <1>7 DEF FateOf
<1>9. next \notin got /\ next \notin gone /\ next \notin Ids(All)
  BY <1>2, <1>4
<1>10. Fate(next) = "none"
  BY <1>2, <1>5, <1>6, <1>9 DEF FateOf
<1>11. \A d \in 1..(next - 1) : d \in 1..MaxEvents /\ Fate(d) # "none"
  <2>1. \A d \in 1..(next - 1) : d \in 1..MaxEvents /\ ~(d >= next)
    BY <1>2, BoundAssumption
  <2> QED BY <1>6, <2>1 DEF FateOf
<1>12. ASSUME NEW d \in 1..MaxEvents
       PROVE  Fate(d)' = IF d = next THEN "waiting" ELSE IF d \in S THEN "dropped" ELSE Fate(d)
  <2>1. CASE d = next
    BY <1>5, <1>6, <1>9, <2>1 DEF FateOf
  <2>2. CASE d # next /\ d \in S
    BY <1>5, <1>6, <2>2 DEF FateOf
  <2>3. CASE d # next /\ d \notin S
    <3>1. (d >= next + 1) <=> (d >= next)
      BY <1>2, <2>3
    <3>2. (d \in Waits' <=> d \in Waits) /\ (d \in gone \cup D /\ d \notin got <=> d \in gone /\ d \notin got)
      BY <1>5, <2>3
    <3> HIDE DEF S
    <3> QED BY <1>6, <2>3, <3>1, <3>2 DEF FateOf
  <2> QED BY <2>1, <2>2, <2>3
<1> HIDE DEF S
<1> QED BY <1>2, <1>7, <1>8, <1>10, <1>11, <1>12, AcceptSteps

\* The part that arrives is delivered, in order.
LEMMA ArriveImplements == ASSUME QueueInv, Arrive PROVE Delivery!Next
<1>1. PICK P \in SUBSET Ids(All) :
        got' = got \cup P /\ ~(P \subseteq got) /\ \A x \in P, y \in Ids(All) \ P : x < y
  BY ArriveKeeps
<1>2. /\ QueueInv' /\ run.pc # "stopped"
      /\ UNCHANGED <<run, queue, spool, gone, urgent, next, closer, faults, crashes, diskFails>>
  BY ArriveKeeps
<1>3. Typed /\ LineInv
  BY TypeParts DEF QueueInv
<1>4. Ids(All) \subseteq 1..MaxEvents
  <2>1. InLine(All, got, gone, urgent, next) /\ next \in Nat /\ 1..(next - 1) \subseteq 1..MaxEvents
    BY <1>3, BoundAssumption DEF LineInv, Typed
  <2> QED BY <2>1, IdsBelow
<1>5. OnDisk = {} /\ OnDisk' = {} /\ Waits = Ids(All) \ got /\ Waits' = Ids(All) \ (got \cup P)
  <2>1. spool = <<>> /\ spool' = <<>>
    BY <1>2, <1>3 DEF LineInv
  <2>2. Ids(All)' = Ids(All)
    BY <1>2 DEF Ids, All
  <2> QED BY <1>1, <1>2, <2>1, <2>2, EmptyInLine DEF OnDisk, Waits
<1>6. \A e \in 1..MaxEvents :
        /\ Fate(e) = FateOf(e, got, Waits, {}, gone, next)
        /\ Fate(e)' = FateOf(e, got \cup P, Waits', {}, gone, next)
  BY <1>1, <1>2, <1>5, FateIs, FateIsNext
<1> DEFINE S == P \ got
<1>7. S \in SUBSET (1..MaxEvents) /\ S # {}
  BY <1>1, <1>4
<1>8. \A d \in S : Fate(d) = "waiting"
  BY <1>5, <1>6, <1>7 DEF FateOf
<1>9. \A d \in 1..MaxEvents : Fate(d) = "waiting" => d \in Waits
  BY <1>6 DEF FateOf
<1>10. \A e \in S, d \in 1..MaxEvents : Fate(d) = "waiting" /\ d \notin S => e < d
  BY <1>1, <1>5, <1>9
<1>11. \A d \in 1..MaxEvents : Fate(d)' = IF d \in S THEN "delivered" ELSE Fate(d)
  BY <1>5, <1>6 DEF FateOf
<1> HIDE DEF S
<1>12. Phase # "down" /\ Phase' = Phase
  BY <1>2, <1>3 DEF Phase, LineInv
<1> QED BY <1>2, <1>7, <1>8, <1>10, <1>11, <1>12, DeliverSteps

\* What EventDelivery sees.
told == <<[e \in 1..MaxEvents |-> Fate(e)], urgent, Phase, crashes, diskFails, faults>>

LEMMA FailSteps ==
    ASSUME \A d \in 1..MaxEvents : Fate(d)' = Fate(d), faults' \in {faults, faults + 1},
           UNCHANGED <<urgent, Phase, crashes, diskFails>>
    PROVE  Delivery!Next \/ UNCHANGED told
<1>1. UNCHANGED [e \in 1..MaxEvents |-> Fate(e)]
  BY SameFates
<1>2. CASE faults' = faults
  BY <1>1, <1>2 DEF told
<1>3. CASE faults' = faults + 1
  BY <1>1, <1>3 DEF Delivery!Next, Delivery!Fail
<1> QED BY <1>2, <1>3

\* What leaves the same events waiting changes no fate.
LEMMA StillImplements ==
    ASSUME QueueInv, QueueInv', Still, faults' \in {faults, faults + 1}
    PROVE  Delivery!Next \/ UNCHANGED told
<1>1. Waits' = Waits /\ OnDisk' = OnDisk
  BY DEF Still, Waits, OnDisk, Ids
<1>2. \A d \in 1..MaxEvents : Fate(d)' = Fate(d)
  BY <1>1, FateIs, FateIsNext DEF Still
<1> QED BY <1>2, FailSteps DEF Still

\* A single event refused is dropped, if the dashboard does not have it already.
LEMMA RefusedImplements ==
    ASSUME QueueInv, NEW kind, SendRefused(kind)
    PROVE  Delivery!Next \/ UNCHANGED told
<1>1. QueueInv' /\ faults' \in {faults, faults + 1}
  BY RefusedKeeps
<1>2. CASE Still
  BY <1>1, <1>2, StillImplements
<1>3. CASE ~Still
  <2>1. PICK x \in Ids(All) :
          gone' = gone \cup {x} /\ Ids(All)' = Ids(All) \ {x} /\ (x \in Bad \/ faults' = faults + 1)
    BY <1>3, RefusedKeeps
  <2>2. /\ run.pc # "stopped" /\ run'.pc # "stopped"
        /\ UNCHANGED <<spool, got, urgent, next, crashes, diskFails>> /\ Phase' = Phase
    BY <1>3, RefusedKeeps
  <2>3. Typed /\ LineInv
    BY TypeParts DEF QueueInv
  <2>4. x \in 1..MaxEvents
    <3>1. InLine(All, got, gone, urgent, next) /\ next \in Nat /\ 1..(next - 1) \subseteq 1..MaxEvents
      BY <2>3, BoundAssumption DEF LineInv, Typed
    <3>2. Ids(All) \subseteq 1..(next - 1)
      BY <3>1, IdsBelow
    <3> QED BY <3>1, <3>2
  <2>5. OnDisk = {} /\ OnDisk' = {} /\ Waits = Ids(All) \ got /\ Waits' = (Ids(All) \ {x}) \ got
    <3>1. spool = <<>> /\ spool' = <<>>
      BY <2>2, <2>3 DEF LineInv
    <3> QED BY <2>1, <2>2, <3>1, EmptyInLine DEF OnDisk, Waits
  <2>6. \A e \in 1..MaxEvents :
          /\ Fate(e) = FateOf(e, got, Waits, {}, gone, next)
          /\ Fate(e)' = FateOf(e, got, Waits', {}, gone \cup {x}, next)
    BY <1>1, <2>1, <2>2, <2>5, FateIs, FateIsNext
  <2>7. CASE x \in got
    <3>1. \A d \in 1..MaxEvents : Fate(d)' = Fate(d)
      BY <2>5, <2>6, <2>7 DEF FateOf
    <3> QED BY <1>1, <2>2, <3>1, FailSteps
  <2>8. CASE x \notin got
    <3>1. Fate(x) = "waiting"
      BY <2>4, <2>5, <2>6, <2>8 DEF FateOf
    <3>2. \A d \in 1..MaxEvents : Fate(d)' = IF d = x THEN "dropped" ELSE Fate(d)
      BY <2>5, <2>6, <2>8 DEF FateOf
    <3>3. Phase # "down"
      BY <2>2, <2>3 DEF Phase, LineInv
    <3>4. (x \in Bad /\ faults' = faults) \/ faults' = faults + 1
      BY <1>1, <2>1
    <3> QED BY <2>2, <2>4, <3>1, <3>2, <3>3, <3>4, RefuseSteps
  <2> QED BY <2>7, <2>8
<1> QED BY <1>2, <1>3

\* When run ends, the urgent events unsent are kept and the others lost.
LEMMA EndRunImplements == ASSUME QueueInv, SendCanceled \/ SelectStop PROVE Delivery!Next
<1>1. /\ QueueInv' /\ run.pc # "stopped" /\ run'.pc = "stopped"
      /\ \/ spool' = Unsent /\ diskFails' = diskFails
         \/ spool' = <<>> /\ diskFails' = diskFails + 1
      /\ Phase = "closing" /\ UNCHANGED <<got, gone, urgent, next, crashes, faults>>
  BY EndRunKeeps
<1>2. Typed /\ LineInv
  BY TypeParts DEF QueueInv
<1> DEFINE stored == Ids(spool') \ got
           rest == ((Ids(All) \ got) \cap urgent) \ stored
<1>3. /\ Ids(spool') \subseteq Ids(All) \cap urgent
      /\ \/ /\ diskFails' = diskFails
            /\ rest = {} \/ (Cardinality(stored) = QueueMax /\ \A x \in stored, r \in rest : r < x)
         \/ stored = {} /\ diskFails' = diskFails + 1
  BY <1>1, UnsentIsNewest, EmptyInLine
<1>4. Ids(All) \subseteq 1..(next - 1) /\ 1..(next - 1) \subseteq 1..MaxEvents /\ next \in Nat
  <2>1. InLine(All, got, gone, urgent, next) /\ next \in Nat /\ 1..(next - 1) \subseteq 1..MaxEvents
    BY <1>2, BoundAssumption DEF LineInv, Typed
  <2> QED BY <2>1, IdsBelow
<1>5. Ids(All) \cap gone = {}
  BY <1>2 DEF LineInv, InLine, Ids
<1>6. OnDisk = {} /\ OnDisk' = stored /\ Waits = Ids(All) \ got /\ Waits' = {}
  <2>1. spool = <<>>
    BY <1>1, <1>2 DEF LineInv
  <2>2. Ids(spool)' = Ids(spool')
    BY DEF Ids
  <2> QED BY <1>1, <2>1, <2>2, EmptyInLine DEF OnDisk, Waits
<1>7. \A e \in 1..MaxEvents :
        /\ Fate(e) = FateOf(e, got, Waits, {}, gone, next)
        /\ Fate(e)' = FateOf(e, got, {}, stored, gone, next)
  BY <1>1, <1>6, FateIs, FateIsNext
<1>8. \A d \in 1..MaxEvents : Fate(d) = "waiting" <=> d \in Waits
  BY <1>6, <1>7 DEF FateOf
<1>9. stored \in SUBSET (1..MaxEvents) /\ stored \subseteq Waits /\ stored \subseteq urgent
  BY <1>3, <1>4, <1>6
<1>10. \A x \in Waits : ~(x >= next) /\ x \notin gone /\ x \notin got
  <2>1. \A x \in 1..(next - 1) : ~(x >= next)
    BY <1>4
  <2> QED BY <1>4, <1>5, <1>6, <2>1
<1>11. rest = (Waits \cap urgent) \ stored
  BY <1>6
<1> HIDE DEF stored, rest
<1>12. \A d \in 1..MaxEvents :
         Fate(d)' = IF d \in stored THEN "kept" ELSE IF Fate(d) = "waiting" THEN "lost" ELSE Fate(d)
  BY <1>7, <1>8, <1>9, <1>10 DEF FateOf
<1>13. \/ /\ diskFails' = diskFails
          /\ \/ \A d \in 1..MaxEvents : Fate(d) = "waiting" /\ d \in urgent => d \in stored
             \/ /\ Cardinality(stored) = QueueMax
                /\ \A k \in stored, d \in 1..MaxEvents :
                     Fate(d) = "waiting" /\ d \in urgent /\ d \notin stored => d < k
       \/ stored = {} /\ diskFails' = diskFails + 1
  BY <1>3, <1>8, <1>11
<1>14. Phase' = "down"
  BY <1>1 DEF Phase
<1> QED BY <1>1, <1>8, <1>9, <1>12, <1>13, <1>14, StopSteps

\* The next start: what was kept waits, if the spool could be read, and what waited in
\* memory is lost.
LEMMA RestartImplements == ASSUME QueueInv, Restart PROVE Delivery!Next
<1>1. /\ QueueInv' /\ run'.pc = "loop" /\ spool' = <<>>
      /\ \/ Ids(All)' = Ids(spool) /\ diskFails' = diskFails
         \/ Ids(All)' = {} /\ diskFails' = diskFails + 1
      /\ crashes' = crashes + 1 /\ Phase' = "up" /\ UNCHANGED <<got, gone, urgent, next, faults>>
  BY RestartKeeps
<1>2. Typed /\ LineInv
  BY TypeParts DEF QueueInv
<1>3. /\ OnDisk' = {}
      /\ (Waits' = OnDisk /\ diskFails' = diskFails) \/ (Waits' = {} /\ diskFails' = diskFails + 1)
  BY <1>1, EmptyInLine DEF OnDisk, Waits
<1>4. \A x \in Waits : x \in Ids(All) /\ x \notin OnDisk /\ x \notin got
  <2>1. run.pc # "stopped" => OnDisk = {}
    BY <1>2, EmptyInLine DEF LineInv, OnDisk
  <2> QED BY <2>1 DEF Waits
<1>5. \A x \in Waits : ~(x >= next) /\ x \notin gone
  <2>1. InLine(All, got, gone, urgent, next) /\ next \in Nat
    BY <1>2 DEF LineInv, Typed
  <2>2. Ids(All) \subseteq 1..(next - 1) /\ \A x \in 1..(next - 1) : ~(x >= next)
    BY <2>1, IdsBelow
  <2>3. Ids(All) \cap gone = {}
    BY <2>1 DEF InLine, Ids
  <2> QED BY <1>4, <2>2, <2>3
<1>6. \A x \in OnDisk : ~(x >= next) /\ x \notin gone
  <2>1. InLine(spool, got, gone, urgent, next) /\ next \in Nat
    BY <1>2 DEF LineInv, Typed
  <2>2. Ids(spool) \subseteq 1..(next - 1) /\ \A x \in 1..(next - 1) : ~(x >= next)
    BY <2>1, IdsBelow
  <2>3. Ids(spool) \cap gone = {}
    BY <2>1 DEF InLine, Ids
  <2> QED BY <2>2, <2>3 DEF OnDisk
<1>7. \A e \in 1..MaxEvents :
        /\ Fate(e) = FateOf(e, got, Waits, OnDisk, gone, next)
        /\ Fate(e)' = FateOf(e, got, Waits', {}, gone, next)
  BY <1>1, <1>3, FateIs, FateIsNext
<1> DEFINE then == IF diskFails' = diskFails THEN "waiting" ELSE "lost"
<1>8. diskFails \in Nat /\ diskFails + 1 # diskFails
  BY <1>2, BoundAssumption DEF Typed
<1>9. /\ then \in {"waiting", "lost"} /\ diskFails' = IF then = "lost" THEN diskFails + 1 ELSE diskFails
      /\ Waits' = IF then = "lost" THEN {} ELSE OnDisk
  BY <1>3, <1>8
<1> HIDE DEF then
<1>10. \A d \in 1..MaxEvents :
         Fate(d)' = IF Fate(d) = "waiting" THEN "lost" ELSE IF Fate(d) = "kept" THEN then ELSE Fate(d)
  <2>1. CASE then = "lost"
    BY <1>4, <1>5, <1>6, <1>7, <1>9, <2>1 DEF FateOf
  <2>2. CASE then = "waiting"
    BY <1>4, <1>5, <1>7, <1>9, <2>2 DEF FateOf
  <2> QED BY <1>9, <2>1, <2>2
<1> QED BY <1>1, <1>9, <1>10, RestartSteps

LEMMA InitImplements == Init => Delivery!Init
<1> SUFFICES ASSUME Init PROVE Delivery!Init
  OBVIOUS
<1>1. QueueInv
  BY InitQueueInv
<1>2. got = {} /\ gone = {} /\ next = 1 /\ OnDisk = {} /\ Waits = {} /\ urgent = {}
  <2>1. All = <<>>
    <3>1. <<>> \in Seq(Event)
      OBVIOUS
    <3> QED BY <3>1, FreshTypes, ConcatEmptySeq DEF Init, All
  <2> QED BY <2>1, EmptyInLine DEF Init, OnDisk, Waits
<1>3. \A e \in 1..MaxEvents : Fate(e) = "none"
  BY <1>1, <1>2, FateIs, BoundAssumption DEF FateOf
<1>4. Phase = "up" /\ crashes = 0 /\ diskFails = 0 /\ faults = 0
  BY DEF Init, FreshRun, Phase
<1> QED BY <1>2, <1>3, <1>4 DEF Delivery!Init, Delivery!Event

\* A step that leaves the line alone may be a request that failed or the beginning of
\* the shutdown.
LEMMA QuietImplements == ASSUME QueueInv, QueueInv', QuietStep PROVE Delivery!Next \/ UNCHANGED told
<1>1. Same /\ (run'.pc = "stopped" <=> run.pc = "stopped")
  BY QuietKeeps
<1>2. Waits' = Waits /\ OnDisk' = OnDisk
  BY <1>1 DEF Same, Waits, OnDisk, All, Ids
<1>3. \A d \in 1..MaxEvents : Fate(d)' = Fate(d)
  BY <1>1, <1>2, FateIs, FateIsNext DEF Same
<1>4. closer = "done" => run.pc = "stopped"
  BY DEF QueueInv, LineInv
<1>5. CASE Resend \/ SelectTimer \/ SelectWake \/ Ripen
  <2>1. UNCHANGED <<closer, faults>>
    BY <1>5 DEF Resend, SelectTimer, SelectWake, Ripen, caller
  <2>2. Phase' = Phase
    BY <1>1, <2>1 DEF Phase
  <2> QED BY <1>1, <1>3, <2>1, <2>2, FailSteps DEF Same
<1>6. CASE SelectFlush \/ CloserStep
  <2>1. UNCHANGED faults /\ closer # "idle" /\ closer' # "idle" /\ closer # "done"
        /\ (closer' = "done" => run.pc = "stopped")
    BY <1>6 DEF SelectFlush, CloserStep, Expire, MarkStopped, Signal, Join
  <2>2. Phase' = Phase
    BY <1>1, <2>1 DEF Phase
  <2> QED BY <1>1, <1>3, <2>1, <2>2, FailSteps DEF Same
<1>7. CASE \E kind \in Failures : SendFailed(kind)
  <2>1. /\ faults' = faults + 1
        /\ closer' = closer \/ (closer = "wait" /\ closer' = "stop")
    BY <1>7 DEF SendFailed, Fault
  <2>2. Phase' = Phase
    BY <1>1, <2>1 DEF Phase
  <2> QED BY <1>1, <1>3, <2>1, <2>2, FailSteps DEF Same
<1>8. CASE Close
  <2>1. closer = "idle" /\ closer' = "ask" /\ UNCHANGED faults
    BY <1>8 DEF Close
  <2>2. CASE run.pc = "stopped"
    <3>1. Phase' = Phase
      BY <1>1, <2>2 DEF Phase
    <3> QED BY <1>1, <1>3, <2>1, <3>1, FailSteps DEF Same
  <2>3. CASE run.pc # "stopped"
    <3>1. Phase = "up" /\ Phase' = "closing"
      BY <1>1, <2>1, <2>3 DEF Phase
    <3>2. UNCHANGED [e \in 1..MaxEvents |-> Fate(e)]
      BY <1>3, SameFates
    <3>3. Delivery!Close
      BY <1>1, <2>1, <3>1, <3>2 DEF Delivery!Close, Same
    <3> QED BY <3>3 DEF Delivery!Next
  <2> QED BY <2>2, <2>3
<1> QED BY <1>5, <1>6, <1>7, <1>8 DEF QuietStep

LEMMA NextImplements == QueueInv /\ [Next]_vars => [Delivery!Next]_told
<1> SUFFICES ASSUME QueueInv, [Next]_vars PROVE Delivery!Next \/ UNCHANGED told
  OBVIOUS
<1>1. QueueInv'
  BY NextKeeps
<1>2. CASE \E u \in BOOLEAN : Add(u)
  BY <1>2, AddImplements
<1>3. CASE QuietStep
  BY <1>1, <1>3, QuietImplements
<1>4. CASE Take \/ Rest \/ SendOK
  BY <1>1, <1>4, TakeKeeps, RestKeeps, SendOKKeeps, StillImplements
<1>5. CASE Arrive
  BY <1>5, ArriveImplements
<1>6. CASE \E kind \in {"refused", "large", "fault"} : SendRefused(kind)
  BY <1>6, RefusedImplements
<1>7. CASE SendCanceled \/ SelectStop
  BY <1>7, EndRunImplements
<1>8. CASE Restart
  BY <1>8, RestartImplements
<1>9. CASE UNCHANGED vars
  <2>1. Waits' = Waits /\ OnDisk' = OnDisk
    BY <1>9 DEF vars, Waits, OnDisk, All, Ids
  <2>2. \A d \in 1..MaxEvents : Fate(d)' = Fate(d)
    BY <1>1, <1>9, <2>1, FateIs, FateIsNext DEF vars
  <2> QED BY <1>9, <2>2, FailSteps DEF vars, Phase
<1> QED BY <1>2, <1>3, <1>4, <1>5, <1>6, <1>7, <1>8, <1>9 DEF Next, RunStep, QuietStep

\* What an added event pushes out is urgent only if all that stays is.
LEMMA AddMakesRoomLast ==
    ASSUME QueueInv, NEW u \in BOOLEAN, Add(u),
           NEW e \in (gone' \ gone) \cap urgent, NEW k \in 1..(Len(queue') - 1)
    PROVE  queue'[k].urgent
<1> DEFINE out == Out(queue)
           t == Keep(queue, DOMAIN queue \ out)
           new == [id |-> next, urgent |-> u]
<1>1. Typed /\ LineInv
  BY TypeParts DEF QueueInv
<1>2. queue \in Seq(Event) /\ run.pending \in Seq(Event) /\ InLine(run.pending \o queue, got, gone, urgent, next)
  BY <1>1 DEF Typed, LineInv, RunType, All
<1>3. InLine(queue, got, gone, urgent, next)
  BY <1>2, ConcatInLine
<1>4. queue' = Append(t, new) /\ gone' = gone \cup ({queue[i].id : i \in out} \ {0})
  BY DEF Add
<1>5. PICK i \in out : e = queue[i].id
  BY <1>4
<1>6. /\ out \subseteq DOMAIN queue
      /\ \A j \in DOMAIN queue \ out : queue[i].urgent => queue[j].urgent
  BY <1>2, OutSparesUrgent
<1>7. queue[i].urgent
  BY <1>3, <1>5, <1>6 DEF InLine
<1> HIDE DEF out
<1>8. t \in Seq(Event) /\ \A l \in DOMAIN t : \E j \in DOMAIN queue \ out : t[l] = queue[j]
  <2>1. DOMAIN queue \ out \in SUBSET DOMAIN queue
    OBVIOUS
  <2> QED BY <1>2, <2>1, KeepPicks
<1> HIDE DEF t
<1>9. next \in Nat /\ new \in Event
  BY <1>1, BoundAssumption DEF Typed, Event
<1> HIDE DEF new
<1>10. k \in DOMAIN t /\ queue'[k] = t[k]
  <2>1. Len(queue') = Len(t) + 1 /\ Len(t) \in Nat /\ DOMAIN t = 1..Len(t)
    BY <1>4, <1>8, <1>9, AppendProperties, LenProperties
  <2>2. k \in 1..Len(t)
    BY <2>1
  <2> QED BY <1>4, <1>8, <1>9, <2>1, <2>2, AppendProperties
<1> QED BY <1>6, <1>7, <1>8, <1>10

LEMMA OnlyAddAccepts == QueueInv /\ [Next]_vars /\ next' # next => \E u \in BOOLEAN : Add(u)
<1> SUFFICES ASSUME QueueInv, [Next]_vars, ~(\E u \in BOOLEAN : Add(u)) PROVE next' = next
  OBVIOUS
<1>1. CASE QuietStep
  BY <1>1, QuietKeeps DEF Same
<1>2. CASE Take \/ Rest \/ SendOK
  BY <1>2, TakeKeeps, RestKeeps, SendOKKeeps DEF Still
<1>3. CASE Arrive
  BY <1>3, ArriveKeeps
<1>4. CASE \E kind \in {"refused", "large", "fault"} : SendRefused(kind)
  BY <1>4, RefusedKeeps DEF Still
<1>5. CASE SendCanceled \/ SelectStop
  BY <1>5, EndRunKeeps
<1>6. CASE Restart
  BY <1>6, RestartKeeps
<1>7. CASE UNCHANGED vars
  BY <1>7 DEF vars
<1> QED BY <1>1, <1>2, <1>3, <1>4, <1>5, <1>6, <1>7 DEF Next, RunStep, QuietStep

\* The sender does what EventDelivery promises, and a full queue gives up an urgent event
\* only when every one it holds is urgent.
THEOREM EventsAreKept == Spec => DeliveryKept
<1>1. Spec => []QueueInv
  BY InitQueueInv, NextKeeps, PTL DEF Spec
<1>2. QueueInv /\ [Next]_vars
        => [next' # next => \A e \in (gone' \ gone) \cap urgent :
              \A i \in 1..(Len(queue') - 1) : queue'[i].urgent]_vars
  BY OnlyAddAccepts, AddMakesRoomLast
<1>3. Spec => UrgentMakesRoomLast
  <2>1. Spec => [][next' # next => \A e \in (gone' \ gone) \cap urgent :
                    \A i \in 1..(Len(queue') - 1) : queue'[i].urgent]_vars
    BY <1>1, <1>2, PTL DEF Spec
  <2> QED BY <2>1 DEF UrgentMakesRoomLast
<1>4. Spec => Delivery!Spec
  BY <1>1, InitImplements, NextImplements, PTL DEF Spec, Delivery!Spec, Delivery!deliveryVars, told
<1> QED BY <1>3, <1>4 DEF DeliveryKept

----------------------------------------------------------------------------
(* The outbox and its limit.                                               *)

Held(o) == Cardinality(InOutbox(o))

LEMMA HeldIs ==
    ASSUME NEW o
    PROVE  IsFiniteSet(InOutbox(o)) /\ InOutbox(o) \subseteq IP /\ Held(o) \in Nat
<1>1. InOutbox(o) \subseteq IP
  BY DEF InOutbox
<1>2. IsFiniteSet(InOutbox(o))
  BY <1>1, IPAssumption, FS_Subset
<1> QED BY <1>1, <1>2, FS_CardinalityType DEF Held

\* An outbox with fewer entries holds no more.
LEMMA HeldShrinks ==
    ASSUME NEW o, NEW p, InOutbox(p) \subseteq InOutbox(o)
    PROVE  Held(p) <= Held(o)
  BY HeldIs, FS_Subset DEF Held

\* A note adds one entry at most.
LEMMA HeldGrows ==
    ASSUME NEW o, NEW p, NEW ip, InOutbox(p) \subseteq InOutbox(o) \cup {ip}
    PROVE  Held(p) <= Held(o) + 1
<1> DEFINE S == InOutbox(o) \cup {ip}
<1>1. IsFiniteSet(InOutbox(o)) /\ Held(o) \in Nat
  BY HeldIs
<1>2. IsFiniteSet(S) /\ Cardinality(S) \in Nat /\ Cardinality(S) <= Held(o) + 1
  BY <1>1, FS_AddElement, FS_CardinalityType DEF Held
<1>3. Held(p) <= Cardinality(S)
  BY <1>2, FS_Subset DEF Held
<1> QED BY <1>1, <1>2, <1>3, HeldIs

\* One that drops one first adds none.
LEMMA HeldSwaps ==
    ASSUME NEW o, NEW p, NEW ip, NEW old \in InOutbox(o),
           InOutbox(p) \subseteq (InOutbox(o) \ {old}) \cup {ip}
    PROVE  Held(p) <= Held(o)
<1> DEFINE R == InOutbox(o) \ {old}  S == R \cup {ip}
<1>1. IsFiniteSet(InOutbox(o)) /\ Held(o) \in Nat
  BY HeldIs
<1>2. IsFiniteSet(R) /\ Cardinality(R) = Held(o) - 1
  BY <1>1, FS_RemoveElement DEF Held
<1>3. IsFiniteSet(S) /\ Cardinality(S) \in Nat /\ Cardinality(S) <= Cardinality(R) + 1
  <2>1. Cardinality(R) \in Nat
    BY <1>2, FS_CardinalityType
  <2> HIDE DEF R
  <2>2. IsFiniteSet(S) /\ Cardinality(S) = IF ip \in R THEN Cardinality(R) ELSE Cardinality(R) + 1
    BY <1>2, FS_AddElement
  <2> QED BY <2>1, <2>2
<1>4. Held(p) <= Cardinality(S)
  BY <1>3, FS_Subset DEF Held
<1> QED BY <1>1, <1>2, <1>3, <1>4, HeldIs

----------------------------------------------------------------------------
(* Types.                                                                  *)

Thread == [pc: {"idle", "note", "report", "reported"}, ip: IP \cup {NoIP}]
Syncs  == [pc: {"idle", "todo", "flush", "flush_drop", "flush_report", "flush_note",
                "apply", "keep", "clean"},
           ip: IP \cup {NoIP}, listed: SUBSET IP, todo: SUBSET IP, keep: SUBSET IP,
           noted: SUBSET IP]
Flushing == {"flush_drop", "flush_report", "flush_note"}

LEMMA Sized == OutboxTypeOK => size.outbox \in Nat /\ size.outbox > 0 /\ size.fails \in Nat
  BY OutboxAssumption DEF OutboxTypeOK, Size

\* What a report leaves.
LEMMA ReportTypes ==
    ASSUME OutboxTypeOK, NEW ip \in IP, NEW answer \in Answers, Report(ip, answer)
    PROVE  /\ dash' \in [IP -> Nat] /\ own' \subseteq own /\ ended \subseteq ended'
           /\ ended' \subseteq IP /\ fails' \in Nat
<1>1. dash' \in [IP -> Nat] /\ fails' \in Nat
  BY DEF Report, OutboxTypeOK
<1>2. own' \subseteq own /\ ended \subseteq ended' /\ ended' \subseteq IP
  BY DEF Report, Ends, history, OutboxTypeOK
<1> QED BY <1>1, <1>2

LEMMA ReportedIs ==
    ASSUME OutboxTypeOK, NEW ip \in IP
    PROVE  Reported(outbox, ip) \in Outboxes /\ InOutbox(Reported(outbox, ip)) = InOutbox(outbox)
  BY DEF Reported, InOutbox, Outboxes, Reports, OutboxTypeOK

\* The limit, when the outbox holds no more than before.
LEMMA Bounded ==
    ASSUME OutboxTypeOK, UNCHANGED <<size, saved>>, Held(outbox') <= Held(outbox)
    PROVE  OutboxBounded'
<1>1. Held(outbox) <= size.outbox /\ Held(saved.outbox) <= size.outbox
  BY DEF OutboxTypeOK, OutboxBounded, Held
<1>2. Held(outbox') <= size.outbox
  BY <1>1, Sized, HeldIs
<1>3. Held(saved'.outbox) <= size'.outbox /\ size'.outbox = size.outbox
  BY <1>1
<1> QED BY <1>2, <1>3 DEF OutboxBounded, Held, InOutbox

LEMMA WatcherTypes ==
    ASSUME OutboxTypeOK, NEW w \in Watchers, UNCHANGED size,
           WatcherStep(w) \/ \E ip \in IP : Detect(w, ip)
    PROVE  OutboxTypeOK'
<1>1. th[w] \in Thread /\ (th[w].pc # "idle" => th[w].ip \in IP)
  BY DEF OutboxTypeOK, Thread
<1>2. ASSUME NEW t \in Thread, th' = [th EXCEPT ![w] = t], t.pc # "idle" => t.ip \in IP
      PROVE  /\ th' \in [Watchers -> Thread]
             /\ \A v \in Watchers : th'[v].pc # "idle" => th'[v].ip \in IP
  BY <1>2 DEF OutboxTypeOK, Thread
<1>3. [pc |-> "idle", ip |-> NoIP] \in Thread
  BY DEF Thread
<1>4. CASE \E ip \in IP : Detect(w, ip)
  <2>1. PICK ip \in IP : Detect(w, ip)
    BY <1>4
  <2>2. [pc |-> "note", ip |-> ip] \in Thread
    BY DEF Thread
  <2>3. th' \in [Watchers -> Thread] /\ \A v \in Watchers : th'[v].pc # "idle" => th'[v].ip \in IP
    BY <1>2, <2>1, <2>2 DEF Detect
  <2>4. /\ bans' \subseteq IP /\ detects' \in Nat
        /\ UNCHANGED <<size, outbox, dash, sync, saver, saved, own, ended, lifts, fails, restarts>>
    BY <2>1 DEF Detect, disk, history, OutboxTypeOK
  <2> QED BY <2>3, <2>4 DEF OutboxTypeOK, OutboxBounded, Thread
<1>5. CASE Note(w)
  <2> DEFINE ip == th[w].ip
  <2>1. ip \in IP /\ th[w].pc = "note"
    BY <1>1, <1>5 DEF Note
  <2> HIDE DEF ip
  <2>2. /\ th' = [th EXCEPT ![w] = [pc |-> "report", ip |-> ip]]
        /\ UNCHANGED <<size, bans, dash, sync, saver, saved, detects, lifts, fails, restarts>>
    <3>1. [th[w] EXCEPT !.pc = "report"] = [pc |-> "report", ip |-> ip]
      BY <1>1 DEF Thread, ip
    <3> QED BY <1>5, <3>1 DEF Note, disk, bounds, OutboxTypeOK
  <2>3. th' \in [Watchers -> Thread] /\ \A v \in Watchers : th'[v].pc # "idle" => th'[v].ip \in IP
    <3>1. [pc |-> "report", ip |-> ip] \in Thread
      BY <2>1 DEF Thread
    <3> QED BY <1>2, <2>1, <2>2, <3>1
  <2>4. CASE /\ ~Full(outbox) /\ outbox' = [outbox EXCEPT ![ip] = "waiting"]
             /\ own' = own \cup Owns(ip) /\ ended' = ended
    <3>1. InOutbox(outbox') \subseteq InOutbox(outbox) \cup {ip} /\ outbox' \in Outboxes
      BY <2>1, <2>4 DEF InOutbox, OutboxTypeOK, Outboxes, Reports
    <3>2. Held(outbox') <= Held(outbox) + 1
      BY <3>1, HeldGrows
    <3>3. Held(outbox') <= size.outbox
      BY <2>4, <3>2, HeldIs, Sized DEF Full, Held
    <3>4. own' \subseteq IP /\ ended' \subseteq IP
      BY <2>1, <2>4 DEF Owns, OutboxTypeOK
    <3> QED BY <2>2, <2>3, <3>1, <3>3, <3>4 DEF OutboxTypeOK, OutboxBounded, Held, Thread, InOutbox
  <2>5. CASE \E oldest \in InOutbox(outbox) :
                /\ outbox' = [outbox EXCEPT ![oldest] = "none", ![ip] = "waiting"]
                /\ own' = (own \ {oldest}) \cup (Owns(ip) \ {oldest})
                /\ ended' = ended \cup {oldest}
    <3>1. PICK oldest \in InOutbox(outbox) :
                /\ outbox' = [outbox EXCEPT ![oldest] = "none", ![ip] = "waiting"]
                /\ own' = (own \ {oldest}) \cup (Owns(ip) \ {oldest})
                /\ ended' = ended \cup {oldest}
      BY <2>5
    <3>2. oldest \in IP
      BY HeldIs
    <3>3. /\ InOutbox(outbox') \subseteq (InOutbox(outbox) \ {oldest}) \cup {ip}
          /\ outbox' \in Outboxes
      BY <2>1, <3>1, <3>2 DEF InOutbox, OutboxTypeOK, Outboxes, Reports
    <3>4. OutboxBounded'
      BY <2>2, <3>3, HeldSwaps, Bounded
    <3>5. own' \subseteq IP /\ ended' \subseteq IP
      BY <2>1, <3>1, <3>2 DEF Owns, OutboxTypeOK
    <3> QED BY <2>2, <2>3, <3>3, <3>4, <3>5 DEF OutboxTypeOK, Thread
  <2> QED BY <1>5, <2>4, <2>5 DEF Note, ip
<1>6. CASE WatcherReport(w)
  <2>1. PICK answer \in Answers :
          /\ Report(th[w].ip, answer)
          /\ th' = [th EXCEPT ![w] = IF Accepted(answer) THEN [th[w] EXCEPT !.pc = "reported"]
                                     ELSE [pc |-> "idle", ip |-> NoIP]]
    BY <1>6 DEF WatcherReport, OutboxTypeOK
  <2>2. th[w].ip \in IP
    BY <1>1, <1>6 DEF WatcherReport
  <2>3. /\ [th[w] EXCEPT !.pc = "reported"] \in Thread
        /\ [th[w] EXCEPT !.pc = "reported"].ip = th[w].ip
    BY <1>1 DEF Thread
  <2>4. th' \in [Watchers -> Thread] /\ \A v \in Watchers : th'[v].pc # "idle" => th'[v].ip \in IP
    <3>1. CASE th' = [th EXCEPT ![w] = [th[w] EXCEPT !.pc = "reported"]]
      BY <1>2, <2>2, <2>3, <3>1
    <3>2. CASE th' = [th EXCEPT ![w] = [pc |-> "idle", ip |-> NoIP]]
      BY <1>2, <1>3, <3>2
    <3> QED BY <2>1, <3>1, <3>2
  <2>5. UNCHANGED <<size, bans, outbox, sync, saver, saved, detects, lifts, restarts>>
    BY <1>6 DEF WatcherReport, disk
  <2>6. dash' \in [IP -> Nat] /\ own' \subseteq IP /\ ended' \subseteq IP /\ fails' \in Nat
    BY <2>1, <2>2, ReportTypes DEF OutboxTypeOK
  <2> QED BY <2>4, <2>5, <2>6 DEF OutboxTypeOK, OutboxBounded, Thread
<1>7. CASE NoteReported(w)
  <2>1. /\ outbox' = Reported(outbox, th[w].ip)
        /\ th' = [th EXCEPT ![w] = [pc |-> "idle", ip |-> NoIP]]
        /\ UNCHANGED <<size, bans, dash, sync, saver, saved, own, ended, detects, lifts, fails,
                       restarts>>
        /\ th[w].ip \in IP
    BY <1>1, <1>7 DEF NoteReported, disk, history, bounds
  <2>2. th' \in [Watchers -> Thread] /\ \A v \in Watchers : th'[v].pc # "idle" => th'[v].ip \in IP
    BY <1>2, <1>3, <2>1
  <2>3. outbox' \in Outboxes /\ OutboxBounded'
    BY <2>1, ReportedIs DEF OutboxTypeOK, OutboxBounded, InOutbox
  <2> QED BY <2>1, <2>2, <2>3 DEF OutboxTypeOK, Thread
<1> QED BY <1>4, <1>5, <1>6, <1>7 DEF WatcherStep

\* The dashboard and the people at it, expiries, the grace.
LEMMA OthersTypes ==
    ASSUME OutboxTypeOK, UNCHANGED size, NEW ip \in IP,
           DashBan(ip) \/ PushBan(ip) \/ DashLift(ip) \/ Lift(ip) \/ Age(ip)
    PROVE  OutboxTypeOK'
<1>1. UNCHANGED <<th, sync, saver, saved, detects, fails, restarts>>
  BY DEF DashBan, PushBan, DashLift, Lift, Age, disk, bounds
<1>2. /\ bans' \subseteq IP /\ own' \subseteq IP /\ ended' \subseteq IP /\ lifts' \in Nat
      /\ dash' \in [IP -> Nat]
  BY DEF DashBan, PushBan, DashLift, Lift, Age, Ends, history, bounds, OutboxTypeOK
<1>3. outbox' \in Outboxes /\ OutboxBounded'
  <2>1. CASE Age(ip)
    <3>1. outbox' \in Outboxes /\ InOutbox(outbox') = InOutbox(outbox)
      BY <2>1 DEF Age, InOutbox, OutboxTypeOK, Outboxes, Reports
    <3> QED BY <1>1, <3>1 DEF OutboxTypeOK, OutboxBounded, InOutbox
  <2>2. CASE outbox' = outbox
    BY <1>1, <2>2 DEF OutboxTypeOK, OutboxBounded, InOutbox
  <2> QED BY <2>1, <2>2 DEF DashBan, PushBan, DashLift, Lift
<1> QED BY <1>1, <1>2, <1>3 DEF OutboxTypeOK

LEMMA SyncTypes ==
    ASSUME OutboxTypeOK, UNCHANGED size, SyncStep
    PROVE  OutboxTypeOK'
<1>1. sync \in Syncs /\ (sync.pc \in Flushing => sync.ip \in IP)
  BY DEF OutboxTypeOK, Syncs, Flushing
<1>2. SyncStep => UNCHANGED <<th, saver, saved, detects, lifts, restarts>>
  BY DEF SyncStep, SyncFetch, FlushTodo, FlushCheck, FlushDrop, FlushReport, FlushNote, FlushEnd,
     SyncApply, SyncKeep, SyncClean, disk, bounds
<1>3. /\ sync' \in Syncs /\ (sync'.pc \in Flushing => sync'.ip \in IP)
      /\ bans' \subseteq IP
  <2>1. CASE SyncFetch
    <3>1. sync' = [IdleSync EXCEPT !.pc = "todo", !.listed = {i \in IP : dash[i] > 0}]
          /\ bans' = bans
      BY <2>1 DEF SyncFetch
    <3>2. IdleSync \in Syncs
      BY DEF IdleSync, Syncs
    <3> QED BY <3>1, <3>2 DEF Syncs, Flushing, OutboxTypeOK
  <2>2. CASE FlushTodo
    BY <1>1, <2>2 DEF FlushTodo, Syncs, Flushing, Unreported, OutboxTypeOK
  <2>3. CASE \E ip \in IP : FlushCheck(ip)
    <3>1. PICK ip \in IP : FlushCheck(ip)
      BY <2>3
    <3>2. \E pc \in {"flush_report", "flush_drop"} :
             sync' = [sync EXCEPT !.todo = sync.todo \ {ip}, !.ip = ip, !.pc = pc]
      BY <3>1 DEF FlushCheck
    <3>3. PICK pc \in {"flush_report", "flush_drop"} :
             sync' = [sync EXCEPT !.todo = sync.todo \ {ip}, !.ip = ip, !.pc = pc]
      BY <3>2
    <3>4. sync.todo \ {ip} \in SUBSET IP
      BY <1>1 DEF Syncs
    <3>5. sync' \in Syncs /\ sync'.ip = ip
      BY <1>1, <3>3, <3>4 DEF Syncs
    <3>6. bans' \subseteq IP
      BY <3>1 DEF FlushCheck, OutboxTypeOK
    <3> QED BY <3>5, <3>6
  <2>4. CASE FlushDrop \/ FlushNote
    <3>1. sync' = [sync EXCEPT !.pc = "flush", !.ip = NoIP] /\ bans' = bans
      BY <2>4 DEF FlushDrop, FlushNote
    <3> QED BY <1>1, <3>1 DEF Syncs, Flushing, OutboxTypeOK
  <2>5. CASE FlushReport
    <3>1. /\ bans' = bans /\ sync.pc = "flush_report" /\ sync.ip \in IP
          /\ \/ sync' = [sync EXCEPT !.pc = "flush_note"]
             \/ sync' = [sync EXCEPT !.pc = "flush_drop"]
             \/ sync' = [sync EXCEPT !.pc = "apply", !.ip = NoIP, !.todo = {}]
      BY <1>1, <2>5 DEF FlushReport, Flushing
    <3>2. CASE sync' = [sync EXCEPT !.pc = "apply", !.ip = NoIP, !.todo = {}]
      BY <1>1, <3>1, <3>2 DEF Syncs, Flushing, OutboxTypeOK
    <3>3. CASE \E pc \in {"flush_note", "flush_drop"} : sync' = [sync EXCEPT !.pc = pc]
      BY <1>1, <3>1, <3>3 DEF Syncs, OutboxTypeOK
    <3> QED BY <3>1, <3>2, <3>3
  <2>6. CASE FlushEnd \/ SyncApply
    <3>1. /\ bans' = bans \/ bans' = bans \cup sync.listed
          /\ \E pc \in {"apply", "keep"} : sync' = [sync EXCEPT !.pc = pc]
      BY <2>6 DEF FlushEnd, SyncApply
    <3>2. PICK pc \in {"apply", "keep"} : sync' = [sync EXCEPT !.pc = pc]
      BY <3>1
    <3>3. sync' \in Syncs /\ sync'.pc = pc
      BY <1>1, <3>2 DEF Syncs
    <3>4. bans' \subseteq IP
      BY <1>1, <3>1 DEF Syncs, OutboxTypeOK
    <3> QED BY <3>3, <3>4 DEF Flushing
  <2>7. CASE SyncKeep
    <3> DEFINE keep == Kept(outbox, sync.listed)  noted == own \cap InOutbox(outbox)
    <3>1. keep \subseteq IP /\ noted \subseteq IP
      BY DEF Kept, OutboxTypeOK
    <3> HIDE DEF keep, noted
    <3>2. sync' = [sync EXCEPT !.pc = "clean", !.keep = keep, !.noted = noted] /\ bans' = bans
      BY <2>7 DEF SyncKeep, keep, noted
    <3> QED BY <1>1, <3>1, <3>2 DEF Syncs, Flushing, OutboxTypeOK
  <2>8. CASE SyncClean
    <3>1. IdleSync \in Syncs /\ IdleSync.pc = "idle"
      BY DEF IdleSync, Syncs
    <3> QED BY <2>8, <3>1 DEF SyncClean, Flushing, OutboxTypeOK
  <2> QED BY <2>1, <2>2, <2>3, <2>4, <2>5, <2>6, <2>7, <2>8 DEF SyncStep
<1>4. dash' \in [IP -> Nat] /\ own' \subseteq IP /\ ended' \subseteq IP /\ fails' \in Nat
  <2>1. CASE FlushReport
    <3>1. PICK answer \in Answers : Report(sync.ip, answer)
      BY <2>1 DEF FlushReport
    <3>2. sync.ip \in IP
      BY <1>1, <2>1 DEF FlushReport, Flushing
    <3> QED BY <3>1, <3>2, ReportTypes DEF OutboxTypeOK
  <2>2. ASSUME ~FlushReport PROVE UNCHANGED <<dash, own, ended, fails>>
    BY <2>2 DEF SyncStep, SyncFetch, FlushTodo, FlushCheck, FlushDrop, FlushNote, FlushEnd,
       SyncApply, SyncKeep, SyncClean, history, bounds
  <2> QED BY <2>1, <2>2 DEF OutboxTypeOK
<1>5. outbox' \in Outboxes /\ OutboxBounded'
  <2>1. CASE FlushDrop
    <3>1. outbox' \in Outboxes /\ InOutbox(outbox') \subseteq InOutbox(outbox)
      BY <2>1 DEF FlushDrop, InOutbox, OutboxTypeOK, Outboxes, Reports
    <3> QED BY <1>2, <3>1, HeldShrinks, Bounded
  <2>2. CASE FlushNote
    <3>1. sync.ip \in IP /\ outbox' = Reported(outbox, sync.ip)
      BY <1>1, <2>2 DEF FlushNote, Flushing
    <3> QED BY <1>2, <3>1, ReportedIs DEF OutboxTypeOK, OutboxBounded, InOutbox
  <2>3. CASE SyncKeep
    <3>1. outbox' \in Outboxes /\ InOutbox(outbox') \subseteq InOutbox(outbox)
      BY <2>3 DEF SyncKeep, InOutbox, OutboxTypeOK, Outboxes, Reports
    <3> QED BY <1>2, <3>1, HeldShrinks, Bounded
  <2>4. ASSUME ~FlushDrop, ~FlushNote, ~SyncKeep PROVE UNCHANGED outbox
    BY <2>4 DEF SyncStep, SyncFetch, FlushTodo, FlushCheck, FlushReport, FlushEnd,
       SyncApply, SyncClean
  <2>5. CASE outbox' = outbox
    BY <1>2, <2>5 DEF OutboxTypeOK, OutboxBounded, InOutbox
  <2> QED BY <2>1, <2>2, <2>3, <2>4, <2>5
<1> QED BY <1>2, <1>3, <1>4, <1>5 DEF OutboxTypeOK, Syncs, Flushing

LEMMA FileTypes ==
    ASSUME OutboxTypeOK, UNCHANGED size, SaveBegin \/ SaveEnd \/ OutboxRestart
    PROVE  OutboxTypeOK'
<1>1. IdleSaver \in [busy: BOOLEAN, bans: SUBSET IP] /\ IdleSync \in Syncs /\ IdleSync.pc = "idle"
  BY DEF IdleSaver, IdleSync, Syncs
<1>2. CASE SaveBegin
  <2>1. saver' \in [busy: BOOLEAN, bans: SUBSET IP]
        /\ UNCHANGED <<bans, outbox, dash, th, sync, saved, own, ended, detects, lifts, fails,
                       restarts>>
    BY <1>2 DEF SaveBegin, history, bounds, OutboxTypeOK
  <2> QED BY <2>1 DEF OutboxTypeOK, OutboxBounded, InOutbox
<1>3. CASE SaveEnd
  <2>1. saver' = IdleSaver /\ saved' = [bans |-> saver.bans, outbox |-> outbox, own |-> own]
        /\ UNCHANGED <<bans, outbox, dash, th, sync, own, ended, detects, lifts, fails, restarts>>
    BY <1>3 DEF SaveEnd, history, bounds
  <2>2. saved' \in [bans: SUBSET IP, outbox: Outboxes, own: SUBSET IP]
    BY <2>1 DEF OutboxTypeOK
  <2>3. OutboxBounded'
    BY <2>1 DEF OutboxTypeOK, OutboxBounded, InOutbox
  <2> QED BY <1>1, <2>1, <2>2, <2>3 DEF OutboxTypeOK
<1>4. CASE OutboxRestart
  <2>1. /\ bans' = saved.bans /\ outbox' = saved.outbox /\ own' \subseteq own
        /\ th' = [w \in Watchers |-> [pc |-> "idle", ip |-> NoIP]]
        /\ sync' = IdleSync /\ saver' = IdleSaver /\ restarts' = restarts + 1
        /\ UNCHANGED <<dash, saved, ended, detects, lifts, fails>>
    BY <1>4 DEF OutboxRestart
  <2>2. OutboxBounded'
    BY <2>1 DEF OutboxTypeOK, OutboxBounded, InOutbox
  <2>3. th' \in [Watchers -> Thread] /\ \A w \in Watchers : th'[w].pc = "idle"
    BY <2>1 DEF Thread
  <2> QED BY <1>1, <2>1, <2>2, <2>3 DEF OutboxTypeOK, Thread, Syncs
<1> QED BY <1>2, <1>3, <1>4

LEMMA OutboxTypesInit == OutboxInit => OutboxTypeOK
<1> SUFFICES ASSUME OutboxInit PROVE OutboxTypeOK
  OBVIOUS
<1>1. InOutbox(outbox) = {} /\ InOutbox(saved.outbox) = {} /\ size.outbox \in Nat
  BY OutboxAssumption DEF OutboxInit, InOutbox, Size
<1>2. OutboxBounded
  BY <1>1, FS_EmptySet DEF OutboxBounded
<1> QED BY <1>2 DEF OutboxInit, OutboxTypeOK, Outboxes, Reports, IdleSync, IdleSaver

LEMMA OutboxTypesNext == OutboxTypeOK /\ [OutboxNext]_outboxVars => OutboxTypeOK'
<1> SUFFICES ASSUME OutboxTypeOK, [OutboxNext]_outboxVars PROVE OutboxTypeOK'
  OBVIOUS
<1>1. CASE OutboxNext
  <2>1. size.watchers \subseteq Watchers /\ size.ips \subseteq IP
    BY OutboxAssumption DEF OutboxTypeOK, Size
  <2> QED BY <1>1, <2>1, WatcherTypes, OthersTypes, SyncTypes, FileTypes DEF OutboxNext
<1>2. CASE UNCHANGED outboxVars
  BY <1>2 DEF outboxVars, OutboxTypeOK, OutboxBounded, InOutbox
<1> QED BY <1>1, <1>2

\* Every variable keeps its type, and the outbox its limit, however many watchers note
\* a ban at once, and after a restart.
THEOREM OutboxTypes == OutboxSpec => []OutboxTypeOK
  BY OutboxTypesInit, OutboxTypesNext, PTL DEF OutboxSpec

----------------------------------------------------------------------------
(* What a cleanup spares.                                                  *)

\* The dashboard has a row for the address, or nobody counts on its ban any more.
KnownBan(ip)  == dash[ip] > 0 \/ ip \in ended
Knows(ip)  == dash'[ip] > 0 \/ ip \in ended'
KnownIn(o) == \A ip \in IP : o[ip] \in {"reported", "old"} => KnownBan(ip)

\* What makes NotedBansSpared inductive.  Whatever counts as reported has a row; a
\* report ages between two syncs only, so what is old was listed when this sync asked,
\* and what the sync gives up, being old and not listed, is not the agent's own.
SparedInv ==
    /\ own \cap ended = {}
    /\ KnownIn(outbox) /\ KnownIn(saved.outbox)
    /\ \A w \in Watchers : th[w].pc = "reported" => KnownBan(th[w].ip)
    /\ sync.pc = "flush_note" => KnownBan(sync.ip)
    /\ sync.pc \notin {"idle", "clean"} =>
          \A ip \in IP : outbox[ip] = "old" => ip \in sync.listed \cup ended
    /\ sync.pc = "clean" => sync.noted \subseteq sync.listed \cup sync.keep

\* A report that is accepted leaves its address known, and no report makes one unknown.
LEMMA ReportMakesKnown ==
    ASSUME OutboxTypeOK, NEW ip \in IP, NEW answer \in Answers, Report(ip, answer)
    PROVE  /\ \A i \in IP : KnownBan(i) => Knows(i)
           /\ Accepted(answer) => Knows(ip)
           /\ own \cap ended = {} => own' \cap ended' = {}
<1>1. dash \in [IP -> Nat]
  BY DEF OutboxTypeOK
<1>2. \A i \in IP : dash'[i] \in Nat /\ dash[i] \in Nat /\ (dash[i] > 0 => dash'[i] > 0)
  BY <1>1 DEF Report
<1>3. answer = "listed" => dash'[ip] > 0
  BY <1>1 DEF Report
<1>4. ended \subseteq ended' /\ (answer = "unlisted" => ip \in ended')
  BY DEF Report, Ends, history
<1>5. own \cap ended = {} => own' \cap ended' = {}
  BY DEF Report, Ends, history
<1> QED BY <1>2, <1>3, <1>4, <1>5 DEF KnownBan, Knows, Accepted

LEMMA WatcherSpares ==
    ASSUME OutboxTypeOK, SparedInv, NEW w \in Watchers,
           WatcherStep(w) \/ \E ip \in IP : Detect(w, ip)
    PROVE  SparedInv'
<1>1. /\ th \in [Watchers -> Thread] /\ (th[w].pc # "idle" => th[w].ip \in IP)
      /\ \A v \in Watchers : th[v].pc # "idle" => th[v].ip \in IP
  BY DEF OutboxTypeOK, Thread
<1>2. UNCHANGED <<sync, saved>>
  BY DEF WatcherStep, Detect, Note, WatcherReport, NoteReported, disk
<1>3. CASE \E ip \in IP : Detect(w, ip)
  <2>1. PICK ip \in IP : Detect(w, ip)
    BY <1>3
  <2>2. /\ UNCHANGED <<outbox, dash, own, ended>>
        /\ th' = [th EXCEPT ![w] = [pc |-> "note", ip |-> ip]]
    BY <2>1 DEF Detect, history
  <2>3. \A v \in Watchers : th'[v].pc = "reported" => th'[v] = th[v]
    BY <1>1, <2>2
  <2> QED BY <1>2, <2>2, <2>3 DEF SparedInv, KnownIn, KnownBan
<1>4. CASE Note(w)
  <2> DEFINE ip == th[w].ip
  <2>1. ip \in IP
    BY <1>1, <1>4 DEF Note
  <2>2. /\ dash' = dash /\ ended \subseteq ended' /\ own' \cap ended' = {}
        /\ \A i \in IP : outbox'[i] \in {outbox[i], "waiting", "none"}
    BY <1>4, <2>1 DEF Note, Owns, SparedInv, OutboxTypeOK, Outboxes
  <2>3. \A v \in Watchers : th'[v].pc = "reported" => th'[v] = th[v]
    <3>1. th'[w].pc = "report" /\ \A v \in Watchers : v # w => th'[v] = th[v]
      BY <1>1, <1>4 DEF Note, Thread
    <3> QED BY <3>1
  <2> QED BY <1>2, <2>2, <2>3 DEF SparedInv, KnownIn, KnownBan
<1>5. CASE WatcherReport(w)
  <2>1. PICK answer \in Answers :
          /\ Report(th[w].ip, answer)
          /\ th' = [th EXCEPT ![w] = IF Accepted(answer) THEN [th[w] EXCEPT !.pc = "reported"]
                                     ELSE [pc |-> "idle", ip |-> NoIP]]
    BY <1>5 DEF WatcherReport, OutboxTypeOK
  <2>2. th[w].ip \in IP /\ outbox' = outbox
    BY <1>1, <1>5 DEF WatcherReport
  <2>3. /\ \A i \in IP : KnownBan(i) => Knows(i)
        /\ Accepted(answer) => Knows(th[w].ip)
        /\ own' \cap ended' = {}
    BY <2>1, <2>2, ReportMakesKnown DEF SparedInv
  <2>4. \A v \in Watchers : v # w => th'[v] = th[v]
    BY <1>1, <2>1
  <2>5. th'[w].pc = "reported" => Accepted(answer) /\ th'[w].ip = th[w].ip
    BY <1>1, <2>1 DEF Thread
  <2>6. ended \subseteq ended'
    BY <2>1, <2>2, ReportTypes
  <2>7. KnownIn(outbox)' /\ KnownIn(saved.outbox)'
    BY <1>2, <2>2, <2>3 DEF SparedInv, KnownIn, KnownBan, Knows
  <2>8. ASSUME NEW v \in Watchers, th'[v].pc = "reported" PROVE Knows(th'[v].ip)
    <3>1. CASE v = w
      BY <2>3, <2>5, <2>8, <3>1
    <3>2. CASE v # w
      <4>1. th[v].pc = "reported" /\ th'[v].ip = th[v].ip /\ th[v].ip \in IP
        BY <1>1, <2>4, <2>8, <3>2
      <4> QED BY <2>3, <4>1 DEF SparedInv
    <3> QED BY <3>1, <3>2
  <2>9. sync'.pc = "flush_note" => Knows(sync'.ip)
    BY <1>2, <2>3 DEF SparedInv, OutboxTypeOK
  <2> QED BY <1>2, <2>2, <2>3, <2>6, <2>7, <2>8, <2>9 DEF SparedInv, KnownBan, Knows
<1>6. CASE NoteReported(w)
  <2>1. /\ outbox' = Reported(outbox, th[w].ip)
        /\ th' = [th EXCEPT ![w] = [pc |-> "idle", ip |-> NoIP]]
        /\ UNCHANGED <<dash, own, ended>>
        /\ th[w].ip \in IP /\ th[w].pc = "reported"
    BY <1>1, <1>6 DEF NoteReported, history
  <2>2. \A i \in IP : outbox'[i] = outbox[i] \/ (i = th[w].ip /\ outbox'[i] = "reported")
    BY <2>1 DEF Reported, OutboxTypeOK, Outboxes
  <2>3. \A v \in Watchers : th'[v].pc = "reported" => th'[v] = th[v]
    BY <1>1, <2>1
  <2>4. KnownBan(th[w].ip)
    BY <2>1 DEF SparedInv
  <2> QED BY <1>2, <2>1, <2>2, <2>3, <2>4 DEF SparedInv, KnownIn, KnownBan
<1> QED BY <1>3, <1>4, <1>5, <1>6 DEF WatcherStep

LEMMA OthersSpare ==
    ASSUME OutboxTypeOK, SparedInv, NEW ip \in IP,
           DashBan(ip) \/ PushBan(ip) \/ DashLift(ip) \/ Lift(ip) \/ Age(ip)
    PROVE  SparedInv'
<1>1. UNCHANGED <<th, sync, saved>>
  BY DEF DashBan, PushBan, DashLift, Lift, Age, disk
<1>2. /\ ended \subseteq ended' /\ own' \cap ended' = {}
      /\ \A i \in IP : KnownBan(i) => Knows(i)
  BY DEF DashBan, PushBan, DashLift, Lift, Age, Ends, history, SparedInv, KnownBan, Knows,
     OutboxTypeOK
<1>3. \/ outbox' = outbox
      \/ sync.pc = "idle" /\ outbox[ip] = "reported" /\ outbox' = [outbox EXCEPT ![ip] = "old"]
  BY DEF DashBan, PushBan, DashLift, Lift, Age
<1>4. KnownIn(outbox)' /\ KnownIn(saved.outbox)'
  <2>1. \A i \in IP : outbox'[i] = outbox[i] \/ outbox[i] = "reported"
    BY <1>3 DEF OutboxTypeOK, Outboxes
  <2> QED BY <1>1, <1>2, <2>1 DEF SparedInv, KnownIn, KnownBan, Knows
<1>5. /\ \A w \in Watchers : th'[w].pc = "reported" => Knows(th'[w].ip)
      /\ sync'.pc = "flush_note" => Knows(sync'.ip)
  BY <1>1, <1>2 DEF SparedInv, OutboxTypeOK
<1>6. /\ sync'.pc \notin {"idle", "clean"} =>
            \A i \in IP : outbox'[i] = "old" => i \in sync'.listed \cup ended'
      /\ sync'.pc = "clean" => sync'.noted \subseteq sync'.listed \cup sync'.keep
  BY <1>1, <1>2, <1>3 DEF SparedInv
<1> QED BY <1>2, <1>4, <1>5, <1>6 DEF SparedInv, KnownBan, Knows

LEMMA SyncSpares ==
    ASSUME OutboxTypeOK, SparedInv, SyncStep
    PROVE  SparedInv'
<1>1. sync \in Syncs /\ (sync.pc \in Flushing => sync.ip \in IP) /\ IdleSync \in Syncs
  BY DEF OutboxTypeOK, Syncs, Flushing, IdleSync
<1>2. UNCHANGED <<th, saved>>
  BY DEF SyncStep, SyncFetch, FlushTodo, FlushCheck, FlushDrop, FlushReport, FlushNote, FlushEnd,
     SyncApply, SyncKeep, SyncClean, disk
\* A step that leaves the outbox with no more, and the history alone.
<1>3. ASSUME UNCHANGED <<dash, own, ended>>, \A i \in IP : outbox'[i] \in {outbox[i], "none"},
             sync'.pc # "flush_note",
             sync'.pc \notin {"idle", "clean"} =>
                \A i \in IP : outbox'[i] = "old" => i \in sync'.listed \cup ended',
             sync'.pc = "clean" => sync'.noted \subseteq sync'.listed \cup sync'.keep
      PROVE  SparedInv'
  BY <1>2, <1>3 DEF SparedInv, KnownIn, KnownBan
<1>4. CASE SyncFetch
  <2>1. /\ sync' = [IdleSync EXCEPT !.pc = "todo", !.listed = {i \in IP : dash[i] > 0}]
        /\ UNCHANGED <<dash, own, ended, outbox>>
    BY <1>4 DEF SyncFetch, history
  <2>2. sync'.pc = "todo" /\ sync'.listed = {i \in IP : dash[i] > 0}
    BY <1>1, <2>1 DEF Syncs
  <2>3. \A i \in IP : outbox[i] = "old" => i \in sync'.listed \cup ended
    BY <2>2 DEF SparedInv, KnownIn, KnownBan
  <2> QED BY <1>3, <2>1, <2>2, <2>3
<1>5. CASE FlushTodo \/ (\E ip \in IP : FlushCheck(ip)) \/ FlushEnd \/ SyncApply
  <2>1. UNCHANGED <<dash, own, ended, outbox>> /\ sync.pc \in {"todo", "flush", "apply"}
    BY <1>5 DEF FlushTodo, FlushCheck, FlushEnd, SyncApply, history
  <2>2. /\ sync'.pc \in {"flush", "flush_report", "flush_drop", "apply", "keep"}
        /\ sync'.listed = sync.listed
    BY <1>1, <1>5 DEF FlushTodo, FlushCheck, FlushEnd, SyncApply, Syncs
  <2> QED BY <1>3, <2>1, <2>2 DEF SparedInv
<1>6. CASE FlushDrop
  <2>1. /\ UNCHANGED <<dash, own, ended>> /\ sync.pc = "flush_drop"
        /\ sync'.pc = "flush" /\ sync'.listed = sync.listed
    BY <1>1, <1>6 DEF FlushDrop, history, Syncs
  <2>2. \A i \in IP : outbox'[i] \in {outbox[i], "none"}
    BY <1>6 DEF FlushDrop, OutboxTypeOK, Outboxes
  <2> QED BY <1>3, <2>1, <2>2 DEF SparedInv
<1>7. CASE FlushReport
  <2>1. PICK answer \in Answers :
           /\ Report(sync.ip, answer)
           /\ sync' = CASE Accepted(answer)   -> [sync EXCEPT !.pc = "flush_note"]
                        [] answer = "refused" -> [sync EXCEPT !.pc = "flush_drop"]
                        [] OTHER -> [sync EXCEPT !.pc = "apply", !.ip = NoIP, !.todo = {}]
    BY <1>7 DEF FlushReport
  <2>2. sync.ip \in IP /\ outbox' = outbox /\ sync.pc = "flush_report"
    BY <1>1, <1>7 DEF FlushReport, Flushing
  <2>3. /\ \A i \in IP : KnownBan(i) => Knows(i)
        /\ Accepted(answer) => Knows(sync.ip)
        /\ own' \cap ended' = {} /\ ended \subseteq ended'
    BY <2>1, <2>2, ReportMakesKnown, ReportTypes DEF SparedInv
  <2>4. /\ sync'.listed = sync.listed /\ sync'.pc \in {"flush_note", "flush_drop", "apply"}
        /\ sync'.pc = "flush_note" => Accepted(answer) /\ sync'.ip = sync.ip
    <3>1. CASE sync' = [sync EXCEPT !.pc = "flush_note"] /\ Accepted(answer)
      BY <1>1, <3>1 DEF Syncs
    <3>2. CASE sync' = [sync EXCEPT !.pc = "flush_drop"]
      BY <1>1, <3>2 DEF Syncs
    <3>3. CASE sync' = [sync EXCEPT !.pc = "apply", !.ip = NoIP, !.todo = {}]
      BY <1>1, <3>3 DEF Syncs
    <3> QED BY <2>1, <3>1, <3>2, <3>3
  <2>5. KnownIn(outbox)' /\ KnownIn(saved.outbox)'
    BY <1>2, <2>2, <2>3 DEF SparedInv, KnownIn, KnownBan, Knows
  <2>6. \A w \in Watchers : th'[w].pc = "reported" => Knows(th'[w].ip)
    BY <1>2, <2>3 DEF SparedInv, OutboxTypeOK
  <2>7. sync'.pc = "flush_note" => Knows(sync'.ip)
    BY <2>3, <2>4
  <2>8. \A i \in IP : outbox'[i] = "old" => i \in sync'.listed \cup ended'
    BY <2>2, <2>3, <2>4 DEF SparedInv
  <2> QED BY <2>3, <2>4, <2>5, <2>6, <2>7, <2>8 DEF SparedInv, KnownBan, Knows
<1>8. CASE FlushNote
  <2>1. /\ UNCHANGED <<dash, own, ended>> /\ sync.pc = "flush_note" /\ sync.ip \in IP
        /\ sync'.pc = "flush" /\ sync'.listed = sync.listed /\ outbox' = Reported(outbox, sync.ip)
    BY <1>1, <1>8 DEF FlushNote, history, Syncs, Flushing
  <2>2. \A i \in IP : outbox'[i] = outbox[i] \/ (i = sync.ip /\ outbox'[i] = "reported")
    BY <2>1 DEF Reported, OutboxTypeOK, Outboxes
  <2> QED BY <1>2, <2>1, <2>2 DEF SparedInv, KnownIn, KnownBan
<1>9. CASE SyncKeep
  <2> DEFINE keep == Kept(outbox, sync.listed)  noted == own \cap InOutbox(outbox)
  <2>1. keep \subseteq IP /\ noted \subseteq IP
    BY DEF Kept, OutboxTypeOK
  <2>2. noted \subseteq sync.listed \cup keep
    <3>1. ASSUME NEW i \in noted, i \notin sync.listed PROVE i \in keep
      <4>1. i \in IP /\ i \notin ended /\ outbox[i] \in {"waiting", "reported", "old"}
        BY <2>1, <3>1 DEF SparedInv, InOutbox, OutboxTypeOK, Outboxes, Reports
      <4>2. outbox[i] # "old"
        BY <1>9, <3>1, <4>1 DEF SparedInv, SyncKeep
      <4> QED BY <3>1, <4>1, <4>2 DEF Kept
    <3> QED BY <3>1
  <2>3. \A i \in IP : outbox'[i] \in {outbox[i], "none"}
    BY <1>9 DEF SyncKeep
  <2> HIDE DEF keep, noted
  <2>4. sync' = [sync EXCEPT !.pc = "clean", !.keep = keep, !.noted = noted]
        /\ UNCHANGED <<dash, own, ended>>
    BY <1>9 DEF SyncKeep, history, keep, noted
  <2>5. sync'.pc = "clean" /\ sync'.listed = sync.listed /\ sync'.keep = keep /\ sync'.noted = noted
    BY <1>1, <2>1, <2>4 DEF Syncs
  <2> QED BY <1>3, <2>2, <2>3, <2>4, <2>5
<1>10. CASE SyncClean
  BY <1>3, <1>10 DEF SyncClean, history, IdleSync
<1> QED BY <1>4, <1>5, <1>6, <1>7, <1>8, <1>9, <1>10 DEF SyncStep

LEMMA SparedNext ==
    ASSUME OutboxTypeOK, SparedInv, [OutboxNext]_outboxVars
    PROVE  SparedInv'
<1>1. size.watchers \subseteq Watchers /\ size.ips \subseteq IP
  BY OutboxAssumption DEF OutboxTypeOK, Size
<1>2. CASE SaveBegin \/ SaveEnd
  <2>1. UNCHANGED <<outbox, dash, th, sync, own, ended>> /\ saved'.outbox \in {saved.outbox, outbox}
    BY <1>2 DEF SaveBegin, SaveEnd, history
  <2> QED BY <2>1 DEF SparedInv, KnownIn, KnownBan
<1>3. CASE OutboxRestart
  <2>1. /\ outbox' = saved.outbox /\ own' \subseteq own /\ UNCHANGED <<dash, saved, ended>>
        /\ th' = [w \in Watchers |-> [pc |-> "idle", ip |-> NoIP]] /\ sync' = IdleSync
    BY <1>3 DEF OutboxRestart
  <2> QED BY <2>1 DEF SparedInv, KnownIn, KnownBan, IdleSync
<1>4. CASE UNCHANGED outboxVars
  BY <1>4 DEF outboxVars, SparedInv, KnownIn, KnownBan
<1> QED BY <1>1, <1>2, <1>3, <1>4, WatcherSpares, OthersSpare, SyncSpares DEF OutboxNext

\* A sync's cleanup removes no ban of the agent's own that nobody ended, if the outbox
\* knew it when the sync decided what to keep: however old the list it works from, and
\* whatever report of it was lost, refused or repeated.
THEOREM CleanupSpares == OutboxSpec => NotedBansSpared
<1>1. OutboxInit => SparedInv
  <2> SUFFICES ASSUME OutboxInit PROVE SparedInv
    OBVIOUS
  <2> QED BY DEF OutboxInit, SparedInv, KnownIn, KnownBan, IdleSync
<1>2. OutboxTypeOK /\ SparedInv /\ [OutboxNext]_outboxVars => SparedInv'
  BY SparedNext
<1>3. OutboxTypeOK /\ SparedInv /\ [OutboxNext]_outboxVars =>
         [sync.pc = "clean" /\ sync'.pc = "idle" /\ restarts' = restarts
            => (bans \ bans') \cap own \cap sync.noted = {}]_outboxVars
  <2> SUFFICES ASSUME OutboxTypeOK, SparedInv, [OutboxNext]_outboxVars,
                      sync.pc = "clean", sync'.pc = "idle", restarts' = restarts
               PROVE  (bans \ bans') \cap own \cap sync.noted = {}
    OBVIOUS
  <2>1. CASE SyncClean
    BY <2>1 DEF SyncClean, SparedInv
  <2>2. CASE SyncStep
    BY <2>1, <2>2 DEF SyncStep, SyncFetch, FlushTodo, FlushCheck, FlushDrop, FlushReport,
       FlushNote, FlushEnd, SyncApply, SyncKeep
  <2>3. CASE OutboxRestart
    BY <2>3 DEF OutboxRestart, OutboxTypeOK
  <2>4. CASE UNCHANGED outboxVars
    BY <2>4 DEF outboxVars
  <2>5. CASE SaveBegin \/ SaveEnd
    BY <2>5 DEF SaveBegin, SaveEnd
  <2>6. CASE \E w \in size.watchers : WatcherStep(w) \/ \E ip \in size.ips : Detect(w, ip)
    BY <2>6 DEF WatcherStep, Detect, Note, WatcherReport, NoteReported
  <2>7. CASE \E ip \in size.ips : DashBan(ip) \/ PushBan(ip) \/ DashLift(ip) \/ Lift(ip) \/ Age(ip)
    BY <2>7 DEF DashBan, PushBan, DashLift, Lift, Age
  <2> QED BY <2>2, <2>3, <2>4, <2>5, <2>6, <2>7 DEF OutboxNext
<1> QED BY <1>1, <1>2, <1>3, OutboxTypesInit, OutboxTypesNext, PTL DEF OutboxSpec, NotedBansSpared

----------------------------------------------------------------------------
(* What a hosting panel allows, and its outbox.                            *)

\* Whether a dashboard that heard h holds the address allowed once it has heard s:
\* the last of s on the address decides.
Told(h, s, ip) ==
    \/ ip \in h /\ \A n \in DOMAIN s : s[n].ip # ip
    \/ \E n \in DOMAIN s : /\ s[n].ip = ip /\ s[n].on
                           /\ \A m \in DOMAIN s : m > n => s[m].ip # ip

LEMMA HeardAllIs ==
    ASSUME NEW ip \in PanelIPs
    PROVE  ip \in HeardAll(DOMAIN reports) <=> Told(heard, reports, ip)
  BY DEF HeardAll, Told

\* One report more, whether the dashboard got it already or not.
LEMMA ToldAppend ==
    ASSUME NEW h, NEW g, NEW s \in Seq(PanelReports), NEW e \in PanelReports, NEW ip \in PanelIPs,
           ip # e.ip => (ip \in g <=> ip \in h)
    PROVE  Told(g, Append(s, e), ip) <=> IF ip = e.ip THEN e.on ELSE Told(h, s, ip)
<1> DEFINE t == Append(s, e)  L == Len(s)
<1>1. /\ L \in Nat /\ DOMAIN s = 1..L /\ DOMAIN t = 1..(L + 1) /\ t[L + 1] = e
      /\ \A n \in 1..L : t[n] = s[n]
  BY DEF PanelReports
<1> HIDE DEF t, L
<1>2. CASE ip = e.ip
  <2>1. Told(g, t, ip) => e.on
    <3>1. ASSUME NEW n \in 1..(L + 1), t[n].on, \A m \in 1..(L + 1) : m > n => t[m].ip # ip
          PROVE  e.on
      <4>1. ~(L + 1 > n)
        BY <1>1, <1>2, <3>1
      <4>2. n = L + 1
        BY <1>1, <4>1
      <4> QED BY <1>1, <3>1, <4>2
    <3>2. ~(\A n \in 1..(L + 1) : t[n].ip # ip)
      BY <1>1, <1>2
    <3> QED BY <1>1, <3>1, <3>2 DEF Told
  <2>2. e.on => Told(g, t, ip)
    <3>1. L + 1 \in 1..(L + 1) /\ \A m \in 1..(L + 1) : ~(m > L + 1)
      BY <1>1
    <3> QED BY <1>1, <1>2, <3>1 DEF Told
  <2> QED BY <1>2, <2>1, <2>2 DEF t
<1>3. CASE ip # e.ip
  <2>1. (\A n \in 1..(L + 1) : t[n].ip # ip) <=> \A n \in 1..L : s[n].ip # ip
    BY <1>1, <1>3
  <2>2. ASSUME NEW n \in 1..(L + 1), t[n].ip = ip
        PROVE  n \in 1..L /\ s[n] = t[n]
    BY <1>1, <1>3, <2>2
  <2>3. ASSUME NEW n \in 1..L
        PROVE  (\A m \in 1..(L + 1) : m > n => t[m].ip # ip) <=> \A m \in 1..L : m > n => s[m].ip # ip
    BY <1>1, <1>3
  <2>4. Told(g, t, ip) => Told(h, s, ip)
    BY <1>1, <1>3, <2>1, <2>2, <2>3 DEF Told
  <2>5. Told(h, s, ip) => Told(g, t, ip)
    <3>1. \A n \in 1..L : n \in 1..(L + 1)
      BY <1>1
    <3> QED BY <1>1, <1>3, <2>1, <2>3, <3>1 DEF Told
  <2> QED BY <1>3, <2>4, <2>5 DEF t
<1> QED BY <1>2, <1>3

\* A full outbox forgets its first report: nothing changes for the other addresses.
LEMMA ToldTail ==
    ASSUME NEW h, NEW s \in Seq(PanelReports), s # <<>>, NEW ip \in PanelIPs, ip # Head(s).ip
    PROVE  Told(h, Tail(s), ip) <=> Told(h, s, ip)
<1> DEFINE t == Tail(s)  L == Len(s)
<1>1. /\ L \in Nat \ {0} /\ DOMAIN s = 1..L /\ DOMAIN t = 1..(L - 1) /\ s[1].ip # ip
      /\ \A n \in 1..(L - 1) : t[n] = s[n + 1]
  BY DEF PanelReports
<1> HIDE DEF t, L
<1>2. \A n \in 1..L : s[n].ip = ip => n - 1 \in 1..(L - 1) /\ t[n - 1] = s[n]
  <2> SUFFICES ASSUME NEW n \in 1..L, s[n].ip = ip
               PROVE  n - 1 \in 1..(L - 1) /\ t[n - 1] = s[n]
    OBVIOUS
  <2>1. n # 1
    BY <1>1
  <2>2. n - 1 \in 1..(L - 1) /\ (n - 1) + 1 = n
    BY <1>1, <2>1
  <2> QED BY <1>1, <2>2
<1>3. \A n \in 1..(L - 1) : n + 1 \in 1..L /\ (n + 1) - 1 = n
  BY <1>1
<1>4. (\A n \in 1..(L - 1) : t[n].ip # ip) <=> \A n \in 1..L : s[n].ip # ip
  BY <1>1, <1>2, <1>3
<1>5. ASSUME NEW n \in 1..(L - 1)
      PROVE  (\A m \in 1..(L - 1) : m > n => t[m].ip # ip) <=> \A m \in 1..L : m > n + 1 => s[m].ip # ip
  <2>1. ASSUME \A m \in 1..(L - 1) : m > n => t[m].ip # ip, NEW m \in 1..L, m > n + 1
        PROVE  s[m].ip # ip
    <3>1. m - 1 > n
      BY <1>1, <2>1
    <3> QED BY <1>2, <2>1, <3>1
  <2>2. ASSUME \A m \in 1..L : m > n + 1 => s[m].ip # ip, NEW m \in 1..(L - 1), m > n
        PROVE  t[m].ip # ip
    <3>1. m + 1 > n + 1
      BY <1>1, <2>2
    <3> QED BY <1>1, <1>3, <2>2, <3>1
  <2> QED BY <2>1, <2>2
<1>6. Told(h, t, ip) => Told(h, s, ip)
  <2>1. ASSUME NEW n \in 1..(L - 1), t[n].ip = ip, t[n].on, \A m \in 1..(L - 1) : m > n => t[m].ip # ip
        PROVE  Told(h, s, ip)
    <3>1. n + 1 \in 1..L /\ s[n + 1] = t[n]
      BY <1>1, <1>3
    <3>2. \A m \in 1..L : m > n + 1 => s[m].ip # ip
      BY <1>5, <2>1
    <3>3. s[n + 1].ip = ip /\ s[n + 1].on
      BY <2>1, <3>1
    <3> QED BY ONLY <1>1, <3>1, <3>2, <3>3 DEF Told
  <2> QED BY <1>1, <1>4, <2>1 DEF Told
<1>7. Told(h, s, ip) => Told(h, t, ip)
  <2>1. ASSUME NEW n \in 1..L, s[n].ip = ip, s[n].on, \A m \in 1..L : m > n => s[m].ip # ip
        PROVE  Told(h, t, ip)
    <3>1. n - 1 \in 1..(L - 1) /\ t[n - 1] = s[n] /\ (n - 1) + 1 = n
      BY <1>1, <1>2, <2>1
    <3>2. \A m \in 1..(L - 1) : m > n - 1 => t[m].ip # ip
      BY <1>5, <2>1, <3>1
    <3> QED BY <1>1, <2>1, <3>1, <3>2 DEF Told
  <2> QED BY <1>1, <1>4, <2>1 DEF Told
<1> QED BY <1>6, <1>7 DEF t

\* Heard again, whole or in part, the outbox says the same.
LEMMA ToldAgain ==
    ASSUME NEW N \in SUBSET DOMAIN reports, NEW ip \in PanelIPs
    PROVE  Told(HeardAll(N), reports, ip) <=> Told(heard, reports, ip)
<1>1. ASSUME \A n \in DOMAIN reports : reports[n].ip # ip
      PROVE  ip \in HeardAll(N) <=> ip \in heard
  BY <1>1 DEF HeardAll
<1> QED BY <1>1 DEF Told

\* Sent without those too old, it says the same of an address none of them is about,
\* before it is cleared and after.
LEMMA ToldYoung ==
    ASSUME NEW ip \in PanelIPs, ip \notin Old
    PROVE  ip \in HeardAll(Young) <=> Told(heard, reports, ip)
<1>1. \A n \in DOMAIN reports : reports[n].ip = ip => n \in Young
  BY DEF Old
<1>2. Young \subseteq DOMAIN reports
  BY DEF Young
<1> QED BY <1>1, <1>2 DEF HeardAll, Told

Busies    == {"snapshot", "set", "report", "send", "flush", "clear"}
Unsaid    == {"snapshot", "set", "report", "send"}
BusyRequest == [pc: Busies, ip: PanelIPs, on: BOOLEAN, list: SUBSET PanelIPs]
IdleList  == [pc |-> "idle"]
BusyList  == [pc: {"read", "set", "end"}, list: SUBSET PanelIPs, all: SUBSET PanelIPs]

\* The types, each variable on its own, those of the locals too.
PanelTyped ==
    /\ dashList \in SUBSET PanelIPs /\ heard \in SUBSET PanelIPs
    /\ panelAllowed \in SUBSET PanelIPs /\ listInForce \in SUBSET PanelIPs
    /\ view.ips \in SUBSET PanelIPs /\ settled.ips \in SUBSET PanelIPs
    /\ reports \in Seq(PanelReports) /\ Len(reports) <= OutboxMax
    /\ kept \in [allowed: SUBSET PanelIPs, outbox: Seq(PanelReports)]
    /\ Len(kept.outbox) <= OutboxMax /\ kept.allowed = panelAllowed
    /\ request \in [Requests -> {IdleRequest} \cup BusyRequest]
    /\ listSync \in {IdleList} \cup BusyList
    /\ crossed \in SUBSET PanelIPs /\ unreported \in SUBSET PanelIPs

\* Who holds outboxMu.
OneSends ==
    /\ \A q \in Requests : request[q].pc \in {"send", "flush", "clear"} <=> sender = q
    /\ flush \in {"flush", "clear"} <=> sender = "flush"

PanelTypes == PanelTyped /\ OneSends

LEMMA PanelTypesAre == PanelTypes => PanelAllowTypeOK
<1>1. ASSUME PanelTyped, NEW q \in Requests
      PROVE  request[q].pc \in {"idle", "snapshot", "set", "report", "send", "flush", "clear"}
  BY <1>1 DEF PanelTyped, IdleRequest, BusyRequest, Busies
<1>2. PanelTyped => listSync.pc \in {"idle", "read", "set", "end"}
  BY DEF PanelTyped, IdleList, BusyList
<1> QED BY <1>1, <1>2 DEF PanelTypes, PanelTyped, OneSends, PanelAllowTypeOK

\* A request goes on.
LEMMA RequestGoesOn ==
    ASSUME PanelTyped, NEW q \in Requests, request[q].pc # "idle", NEW pc \in Busies,
           request' = [request EXCEPT ![q].pc = pc]
    PROVE  /\ request' \in [Requests -> {IdleRequest} \cup BusyRequest]
           /\ request[q] \in BusyRequest /\ request'[q] \in BusyRequest
           /\ request'[q].pc = pc /\ request'[q].ip = request[q].ip /\ request'[q].on = request[q].on
           /\ \A r \in Requests \ {q} : request'[r] = request[r]
<1>1. request[q] \in BusyRequest
  BY DEF PanelTyped, IdleRequest
<1>2. [request[q] EXCEPT !.pc = pc] \in BusyRequest
  BY <1>1 DEF BusyRequest
<1> QED BY <1>1, <1>2 DEF PanelTyped, BusyRequest

LEMMA RequestEnds ==
    ASSUME PanelTyped, NEW q \in Requests, request' = [request EXCEPT ![q] = IdleRequest]
    PROVE  /\ request' \in [Requests -> {IdleRequest} \cup BusyRequest]
           /\ request'[q].pc = "idle"
           /\ \A r \in Requests \ {q} : request'[r] = request[r]
  BY DEF PanelTyped, IdleRequest

\* What a report put in the outbox leaves there.
LEMMA AppendTells ==
    ASSUME PanelTyped, NEW q \in Requests, request[q].pc \in {"report", "send"}, Append1(q)
    PROVE  /\ reports' \in Seq(PanelReports) /\ Len(reports') <= OutboxMax
           /\ unreported \subseteq unreported' /\ unreported' \in SUBSET PanelIPs
           /\ request' = [request EXCEPT ![q].pc = "flush"]
           /\ \A g \in {heard, Heard(heard, request[q])}, ip \in PanelIPs \ unreported' :
                Told(g, reports', ip) <=> IF ip = request[q].ip THEN request[q].on
                                                                ELSE Told(heard, reports, ip)
<1> DEFINE e == [ip |-> request[q].ip, on |-> request[q].on, old |-> FALSE]
           s == Append(reports, e)
           over == Len(s) > OutboxMax
<1>1. request[q] \in BusyRequest
  BY DEF PanelTyped, IdleRequest
<1>2. e \in PanelReports /\ e.ip = request[q].ip /\ e.on = request[q].on
  BY <1>1 DEF BusyRequest, PanelReports
<1>3. /\ reports' = IF over THEN Tail(s) ELSE s
      /\ unreported' = IF over THEN unreported \cup {Head(s).ip} ELSE unreported
      /\ request' = [request EXCEPT ![q].pc = "flush"]
  BY DEF Append1
<1> HIDE DEF e
<1>4. s \in Seq(PanelReports) /\ s # <<>> /\ Len(s) = Len(reports) + 1 /\ Len(reports) \in Nat
  BY <1>2 DEF PanelTyped
<1>5. Head(s) \in PanelReports /\ Tail(s) \in Seq(PanelReports) /\ Len(Tail(s)) = Len(s) - 1
  BY <1>4
<1>6. ASSUME NEW g \in {heard, Heard(heard, request[q])}, NEW ip \in PanelIPs \ unreported'
      PROVE  Told(g, reports', ip) <=> IF ip = request[q].ip THEN request[q].on
                                                             ELSE Told(heard, reports, ip)
  <2>1. ip # e.ip => (ip \in g <=> ip \in heard)
    BY <1>2, <1>6 DEF Heard
  <2>2. Told(g, s, ip) <=> IF ip = e.ip THEN e.on ELSE Told(heard, reports, ip)
    BY <1>2, <2>1, ToldAppend DEF PanelTyped
  <2>3. over => (Told(g, Tail(s), ip) <=> Told(g, s, ip))
    <3>1. over => ip # Head(s).ip
      BY <1>3, <1>6
    <3> HIDE DEF s
    <3> QED BY <1>4, <3>1, ToldTail
  <2> QED BY <1>2, <1>3, <2>2, <2>3
<1>7. Len(reports) <= OutboxMax /\ OutboxMax \in Nat /\ OutboxMax > 0
  BY PanelAllowConstants DEF PanelTyped
<1>8. reports' \in Seq(PanelReports) /\ Len(reports') <= OutboxMax
  <2> HIDE DEF s
  <2> QED BY <1>3, <1>4, <1>5, <1>7
<1>9. unreported \subseteq unreported' /\ unreported' \in SUBSET PanelIPs
  <2> HIDE DEF s
  <2> QED BY <1>3, <1>5 DEF PanelTyped, PanelReports
<1> QED BY <1>3, <1>6, <1>8, <1>9

----------------------------------------------------------------------------
(* The types of the panel.                                                 *)

\* What is saved after the outbox changed.
LEMMA SavedTypes ==
    ASSUME PanelTyped, reports' \in Seq(PanelReports), Len(reports') <= OutboxMax, NEW on \in BOOLEAN,
           Save(on)
    PROVE  /\ kept' \in [allowed: SUBSET PanelIPs, outbox: Seq(PanelReports)]
           /\ Len(kept'.outbox) <= OutboxMax /\ kept'.allowed = panelAllowed
  BY DEF PanelTyped, Save

LEMMA HeardTypes ==
    ASSUME PanelTyped, NEW q \in Requests, request[q].pc # "idle"
    PROVE  /\ Heard(heard, request[q]) \in SUBSET PanelIPs
           /\ \A N : HeardAll(N) \in SUBSET PanelIPs
<1>1. request[q] \in BusyRequest
  BY DEF PanelTyped, IdleRequest
<1> QED BY <1>1 DEF PanelTyped, Heard, HeardAll, BusyRequest

LEMMA OldTypes == PanelTyped => Old \in SUBSET PanelIPs
<1> SUFFICES ASSUME PanelTyped, NEW n \in DOMAIN reports PROVE reports[n].ip \in PanelIPs
  BY DEF Old
<1>1. reports \in Seq(PanelReports)
  BY DEF PanelTyped
<1>2. reports[n] \in PanelReports
  BY <1>1
<1> QED BY <1>2 DEF PanelReports

LEMMA ChangeTypes ==
    ASSUME PanelTypes, NEW q \in Requests, NEW ip \in PanelIPs, Allow(q, ip) \/ Disallow(q, ip)
    PROVE  PanelTypes'
<1>1. PICK on \in BOOLEAN, list \in SUBSET PanelIPs : Change(q, ip, on, list)
  <2>1. panelAllowed \cup {ip} \in SUBSET PanelIPs /\ panelAllowed \ {ip} \in SUBSET PanelIPs
    BY DEF PanelTypes, PanelTyped
  <2> QED BY <2>1 DEF Allow, Disallow
<1> DEFINE new == [pc |-> "snapshot", ip |-> ip, on |-> on, list |-> {}]
<1>2. /\ panelAllowed' = list /\ kept' = [allowed |-> list, outbox |-> reports]
      /\ request' = [request EXCEPT ![q] = new] /\ request[q].pc = "idle"
      /\ crossed' \in {crossed, crossed \cup {ip}}
      /\ UNCHANGED <<dashList, heard, settled, reports, view, listInForce, sender, listSync, flush, unreported>>
  BY <1>1 DEF Change
<1>3. new \in BusyRequest /\ new.pc = "snapshot"
  BY DEF BusyRequest, Busies
<1> HIDE DEF new
<1>4. /\ request' \in [Requests -> {IdleRequest} \cup BusyRequest]
      /\ request'[q].pc = "snapshot" /\ \A r \in Requests \ {q} : request'[r] = request[r]
  BY <1>2, <1>3 DEF PanelTypes, PanelTyped
<1>5. PanelTyped'
  BY <1>2, <1>4 DEF PanelTypes, PanelTyped
<1>6. OneSends'
  BY <1>2, <1>4 DEF PanelTypes, OneSends
<1> QED BY <1>5, <1>6 DEF PanelTypes

LEMMA ApplyTypes ==
    ASSUME PanelTypes, NEW q \in Requests, Snapshot(q) \/ SetList(q)
    PROVE  PanelTypes'
<1>1. CASE Snapshot(q)
  <2> DEFINE pc == IF view.known THEN "set" ELSE "report"  list == view.ips \cup panelAllowed
  <2>1. /\ request[q] \in BusyRequest /\ request[q].pc = "snapshot" /\ pc \in Busies
        /\ pc \in {"set", "report"} /\ list \in SUBSET PanelIPs
    BY <1>1 DEF Snapshot, PanelTypes, PanelTyped, IdleRequest, Busies
  <2>2. request' = [request EXCEPT ![q].pc = pc, ![q].list = list]
    BY <1>1 DEF Snapshot
  <2>3. UNCHANGED <<dashList, heard, kept, settled, panelAllowed, reports, view, listInForce, sender,
                    listSync, flush, crossed, unreported>>
    BY <1>1 DEF Snapshot
  <2> HIDE DEF pc, list
  <2>4. [request[q] EXCEPT !.pc = pc, !.list = list] \in BusyRequest
    BY <2>1 DEF BusyRequest
  <2>5. /\ request' \in [Requests -> {IdleRequest} \cup BusyRequest]
        /\ request'[q].pc = pc /\ \A r \in Requests \ {q} : request'[r] = request[r]
    BY <2>1, <2>2, <2>4 DEF PanelTypes, PanelTyped, BusyRequest
  <2>6. PanelTyped'
    BY <2>3, <2>5 DEF PanelTypes, PanelTyped
  <2>7. OneSends'
    BY <2>1, <2>3, <2>5 DEF PanelTypes, OneSends
  <2> QED BY <2>6, <2>7 DEF PanelTypes
<1>2. CASE SetList(q)
  <2>1. /\ request[q].pc = "set" /\ request' = [request EXCEPT ![q].pc = "report"] /\ "report" \in Busies
        /\ listInForce' = request[q].list
        /\ UNCHANGED <<dashList, heard, kept, settled, panelAllowed, reports, view, sender,
                       listSync, flush, crossed, unreported>>
    BY <1>2 DEF SetList, Busies
  <2>2. /\ request' \in [Requests -> {IdleRequest} \cup BusyRequest] /\ request[q] \in BusyRequest
        /\ request'[q].pc = "report" /\ \A r \in Requests \ {q} : request'[r] = request[r]
    BY <2>1, RequestGoesOn DEF PanelTypes
  <2>3. PanelTyped'
    BY <2>1, <2>2 DEF PanelTypes, PanelTyped, BusyRequest
  <2>4. OneSends'
    BY <2>1, <2>2 DEF PanelTypes, OneSends
  <2> QED BY <2>3, <2>4 DEF PanelTypes
<1> QED BY <1>1, <1>2

\* The goroutine of a request reports.
LEMMA TellTypes ==
    ASSUME PanelTypes, NEW q \in Requests, TellChange(q) \/ Send(q)
    PROVE  PanelTypes'
<1>1. q # "nobody" /\ q # "flush"
  BY PanelAllowConstants
<1>2. ReportFrame /\ UNCHANGED flush
  BY DEF TellChange, Send
<1>3. CASE TellChange(q) /\ reports = <<>> /\ request' = [request EXCEPT ![q].pc = "send"]
            /\ UNCHANGED <<reports, kept, unreported, panelN>>
  <2>1. request[q].pc = "report" /\ sender = "nobody" /\ sender' = q /\ UNCHANGED heard /\ "send" \in Busies
    BY <1>3 DEF TellChange, NobodySends, Busies
  <2>2. /\ request' \in [Requests -> {IdleRequest} \cup BusyRequest]
        /\ request'[q].pc = "send" /\ \A r \in Requests \ {q} : request'[r] = request[r]
    BY <1>3, <2>1, RequestGoesOn DEF PanelTypes
  <2>3. PanelTyped'
    BY <1>2, <1>3, <2>1, <2>2 DEF PanelTypes, PanelTyped, ReportFrame
  <2>4. OneSends'
    BY <1>1, <1>2, <2>1, <2>2, PanelAllowConstants DEF PanelTypes, OneSends
  <2> QED BY <2>3, <2>4 DEF PanelTypes
<1>4. CASE Append1(q) /\ (\E on \in BOOLEAN : Save(on)) /\ sender' = q
           /\ request[q].pc \in {"report", "send"} /\ heard' \in {heard, Heard(heard, request[q])}
           /\ sender \in {"nobody", q}
  <2>1. /\ reports' \in Seq(PanelReports) /\ Len(reports') <= OutboxMax
        /\ unreported' \in SUBSET PanelIPs /\ request' = [request EXCEPT ![q].pc = "flush"]
    BY <1>4, AppendTells DEF PanelTypes
  <2>2. /\ request' \in [Requests -> {IdleRequest} \cup BusyRequest]
        /\ request'[q].pc = "flush" /\ \A r \in Requests \ {q} : request'[r] = request[r]
    BY <1>4, <2>1, RequestGoesOn DEF PanelTypes, Busies
  <2>3. /\ kept' \in [allowed: SUBSET PanelIPs, outbox: Seq(PanelReports)]
        /\ Len(kept'.outbox) <= OutboxMax /\ kept'.allowed = panelAllowed
    BY <1>4, <2>1, SavedTypes DEF PanelTypes
  <2>4. heard' \in SUBSET PanelIPs
    BY <1>4, HeardTypes DEF PanelTypes, PanelTyped
  <2>5. PanelTyped'
    BY <1>2, <2>1, <2>2, <2>3, <2>4 DEF PanelTypes, PanelTyped, ReportFrame
  <2>6. OneSends'
    BY <1>1, <1>2, <1>4, <2>2, PanelAllowConstants DEF PanelTypes, OneSends
  <2> QED BY <2>5, <2>6 DEF PanelTypes
<1>5. CASE Send(q) /\ heard' = Heard(heard, request[q])
           /\ request' = [request EXCEPT ![q] = IdleRequest] /\ sender' = NobodySends
           /\ UNCHANGED <<reports, kept, unreported, panelN>>
  <2>1. request[q].pc = "send" /\ sender = q
    BY <1>5 DEF Send, PanelTypes, OneSends
  <2>2. /\ request' \in [Requests -> {IdleRequest} \cup BusyRequest]
        /\ request'[q].pc = "idle" /\ \A r \in Requests \ {q} : request'[r] = request[r]
    BY <1>5, RequestEnds DEF PanelTypes
  <2>3. heard' \in SUBSET PanelIPs
    BY <1>5, <2>1, HeardTypes DEF PanelTypes
  <2>4. PanelTyped'
    BY <1>2, <1>5, <2>2, <2>3 DEF PanelTypes, PanelTyped, ReportFrame
  <2>5. OneSends'
    BY <1>1, <1>2, <1>5, <2>1, <2>2, PanelAllowConstants DEF PanelTypes, OneSends, NobodySends
  <2> QED BY <2>4, <2>5 DEF PanelTypes
<1>6. TellChange(q) => sender = "nobody" /\ request[q].pc = "report" /\ sender' = q /\ UNCHANGED heard
  BY DEF TellChange, NobodySends
<1>7. Send(q) => sender = q
  BY DEF Send, PanelTypes, OneSends
<1>8. CASE TellChange(q)
  <2>1. Saves => \E on \in BOOLEAN : Save(on)
    BY DEF Saves
  <2> QED BY <1>3, <1>4, <1>6, <1>8, <2>1 DEF TellChange
<1>9. CASE Send(q)
  BY <1>4, <1>5, <1>7, <1>9 DEF Send
<1> QED BY <1>8, <1>9
\* The outbox is sent, by a request or after a sync.
LEMMA FlushTypes ==
    ASSUME PanelTypes, (\E q \in Requests : FlushOf(q)) \/ FlushAfter
    PROVE  PanelTypes'
<1>1. ReportFrame
  BY DEF FlushOf, FlushAfter
<1>2. Sent \/ Gone => heard' \in SUBSET PanelIPs /\ unreported' \in SUBSET PanelIPs
  <2>1. \A N : HeardAll(N) \in SUBSET PanelIPs
    BY DEF HeardAll
  <2> QED BY <2>1, OldTypes DEF Sent, Gone, PanelTypes, PanelTyped
<1>3. Cleared => /\ kept' \in [allowed: SUBSET PanelIPs, outbox: Seq(PanelReports)]
                 /\ Len(kept'.outbox) <= OutboxMax /\ kept'.allowed = panelAllowed
                 /\ reports' \in Seq(PanelReports) /\ Len(reports') <= OutboxMax
  <2> SUFFICES ASSUME Cleared
               PROVE  /\ kept' \in [allowed: SUBSET PanelIPs, outbox: Seq(PanelReports)]
                      /\ Len(kept'.outbox) <= OutboxMax /\ kept'.allowed = panelAllowed
                      /\ reports' \in Seq(PanelReports) /\ Len(reports') <= OutboxMax
    OBVIOUS
  <2>1. reports' \in Seq(PanelReports) /\ Len(reports') <= OutboxMax
    BY PanelAllowConstants DEF Cleared
  <2>2. Save(TRUE) \/ Save(FALSE)
    BY DEF Cleared, Saves
  <2> QED BY <2>1, <2>2, SavedTypes DEF PanelTypes
<1>4. ASSUME request' \in [Requests -> {IdleRequest} \cup BusyRequest],
             \/ Sent
             \/ Gone /\ UNCHANGED <<reports, kept>>
             \/ UNCHANGED <<heard, unreported>>,
             UNCHANGED <<reports, kept>> \/ Cleared
      PROVE  PanelTyped'
  <2>1. heard' \in SUBSET PanelIPs /\ unreported' \in SUBSET PanelIPs
    BY <1>2, <1>4 DEF PanelTypes, PanelTyped
  <2>2. /\ kept' \in [allowed: SUBSET PanelIPs, outbox: Seq(PanelReports)]
        /\ Len(kept'.outbox) <= OutboxMax /\ kept'.allowed = panelAllowed
        /\ reports' \in Seq(PanelReports) /\ Len(reports') <= OutboxMax
    BY <1>3, <1>4 DEF PanelTypes, PanelTyped
  <2> QED BY <1>1, <1>4, <2>1, <2>2 DEF PanelTypes, PanelTyped, ReportFrame
<1>5. ASSUME NEW q \in Requests, FlushOf(q) PROVE PanelTypes'
  <2>1. q # "nobody" /\ q # "flush" /\ UNCHANGED flush
    BY <1>5, PanelAllowConstants DEF FlushOf
  <2>2. request[q].pc \in {"flush", "clear"} /\ sender = q
    BY <1>5 DEF FlushOf, PanelTypes, OneSends
  <2>3. CASE request' = [request EXCEPT ![q].pc = "clear"] /\ Sent /\ UNCHANGED <<reports, kept, sender>>
    <3>1. /\ request' \in [Requests -> {IdleRequest} \cup BusyRequest]
          /\ request'[q].pc = "clear" /\ \A r \in Requests \ {q} : request'[r] = request[r]
      BY <2>2, <2>3, RequestGoesOn DEF PanelTypes, Busies
    <3>2. PanelTyped'
      BY <1>4, <2>3, <3>1
    <3>3. OneSends'
      BY <2>1, <2>2, <2>3, <3>1 DEF PanelTypes, OneSends
    <3> QED BY <3>2, <3>3 DEF PanelTypes
  <2>4. CASE /\ request' = [request EXCEPT ![q] = IdleRequest] /\ sender' = NobodySends
             /\ \/ Gone /\ UNCHANGED <<reports, kept>>
                \/ Cleared /\ UNCHANGED <<heard, unreported>>
    <3>1. /\ request' \in [Requests -> {IdleRequest} \cup BusyRequest]
          /\ request'[q].pc = "idle" /\ \A r \in Requests \ {q} : request'[r] = request[r]
      BY <2>4, RequestEnds DEF PanelTypes
    <3>2. PanelTyped'
      BY <1>4, <2>4, <3>1
    <3>3. OneSends'
      BY <2>1, <2>2, <2>4, <3>1, PanelAllowConstants DEF PanelTypes, OneSends, NobodySends
    <3> QED BY <3>2, <3>3 DEF PanelTypes
  <2> QED BY <1>5, <2>3, <2>4 DEF FlushOf
<1>6. CASE FlushAfter
  <2>1. request' \in [Requests -> {IdleRequest} \cup BusyRequest] /\ request' = request
    BY <1>6 DEF FlushAfter, PanelTypes, PanelTyped
  <2>2. PanelTyped'
    <3>1. CASE Sent /\ UNCHANGED <<reports, kept>>
      BY <1>4, <2>1, <3>1
    <3>2. CASE Gone /\ UNCHANGED <<reports, kept>>
      BY <1>4, <2>1, <3>2
    <3>3. CASE Cleared /\ UNCHANGED <<heard, unreported>>
      BY <1>4, <2>1, <3>3
    <3>4. CASE UNCHANGED <<heard, unreported, reports, kept>>
      BY <1>4, <2>1, <3>4
    <3> QED BY <1>6, <3>1, <3>2, <3>3, <3>4 DEF FlushAfter
  <2>3. OneSends'
    BY <1>6, <2>1, PanelAllowConstants DEF FlushAfter, PanelTypes, OneSends, NobodySends
  <2> QED BY <2>2, <2>3 DEF PanelTypes
<1> QED BY <1>5, <1>6
\* The dashboard, the syncs, a week, a restart.
LEMMA SyncListTypes ==
    ASSUME PanelTypes, ListSync \/ \E S \in SUBSET PanelIPs : EditDashboardList(S)
    PROVE  PanelTypes'
<1>1. UNCHANGED <<heard, kept, panelAllowed, reports, request, sender, crossed, unreported>>
  BY DEF ListSync, EditDashboardList, panelMemory
<1>2. CASE ListSync
  <2>1. /\ view'.ips \in SUBSET PanelIPs /\ settled'.ips \in SUBSET PanelIPs
        /\ listInForce' \in SUBSET PanelIPs
        /\ listSync' \in {IdleList} \cup BusyList
    <3>1. CASE listSync.pc = "idle"
      <4>1. /\ view' = Known(dashList) /\ listSync' = [pc |-> "read", list |-> dashList, all |-> {}]
            /\ UNCHANGED <<listInForce, settled>>
        BY <1>2, <3>1 DEF ListSync
      <4>2. [pc |-> "read", list |-> dashList, all |-> {}] \in BusyList
        BY DEF PanelTypes, PanelTyped, BusyList
      <4> QED BY <4>1, <4>2 DEF PanelTypes, PanelTyped, Known
    <3>2. CASE listSync.pc # "idle"
      <4>1. listSync \in BusyList
        BY <3>2 DEF PanelTypes, PanelTyped, IdleList
      <4>2. CASE listSync.pc = "read"
        <5> DEFINE all == listSync.list \cup panelAllowed
        <5>1. all \in SUBSET PanelIPs
          BY <4>1 DEF BusyList, PanelTypes, PanelTyped
        <5>2. listSync' = [listSync EXCEPT !.pc = "set", !.all = all] /\ UNCHANGED <<view, settled, listInForce>>
          BY <1>2, <4>2 DEF ListSync
        <5> HIDE DEF all
        <5>3. listSync' \in BusyList
          BY <4>1, <5>1, <5>2 DEF BusyList
        <5> QED BY <5>2, <5>3 DEF PanelTypes, PanelTyped
      <4>3. CASE listSync.pc = "set"
        <5>1. /\ listSync' = [listSync EXCEPT !.pc = "end"] /\ UNCHANGED <<view, settled>>
              /\ listInForce' = listSync.all
          BY <1>2, <4>3 DEF ListSync
        <5>2. listSync' \in BusyList /\ listSync.all \in SUBSET PanelIPs
          BY <4>1, <5>1 DEF BusyList
        <5> QED BY <5>1, <5>2 DEF PanelTypes, PanelTyped
      <4>4. CASE listSync.pc = "end"
        <5>1. /\ listSync' = IdleList /\ UNCHANGED <<view, listInForce>> /\ settled'.ips = listSync.list
          BY <1>2, <4>4 DEF ListSync, Known, IdleList
        <5> QED BY <4>1, <5>1 DEF PanelTypes, PanelTyped, BusyList
      <4> QED BY <4>1, <4>2, <4>3, <4>4 DEF BusyList
    <3> QED BY <3>1, <3>2
  <2>2. dashList' = dashList /\ (flush' = flush \/ (flush = "idle" /\ flush' = "try"))
    <3>1. flush' \in {flush, IF flush = "idle" THEN "try" ELSE flush}
      BY <1>2 DEF ListSync
    <3>2. dashList' = dashList
      BY <1>2 DEF ListSync
    <3> QED BY <3>1, <3>2
  <2>3. PanelTyped'
    BY <1>1, <2>1, <2>2 DEF PanelTypes, PanelTyped
  <2>4. OneSends'
    BY <1>1, <2>2 DEF PanelTypes, OneSends
  <2> QED BY <2>3, <2>4 DEF PanelTypes
<1>3. CASE \E S \in SUBSET PanelIPs : EditDashboardList(S)
  <2>1. dashList' \in SUBSET PanelIPs /\ UNCHANGED <<view, settled, listInForce, listSync, flush>>
    BY <1>3 DEF EditDashboardList, panelMemory
  <2>2. PanelTyped'
    BY <1>1, <2>1 DEF PanelTypes, PanelTyped
  <2>3. OneSends'
    BY <1>1, <2>1 DEF PanelTypes, OneSends
  <2> QED BY <2>2, <2>3 DEF PanelTypes
<1> QED BY <1>2, <1>3

\* A week makes each report old, and changes nothing else of it.
Aged(s) == [n \in DOMAIN s |-> [s[n] EXCEPT !.old = TRUE]]

LEMMA AgedIs ==
    ASSUME NEW s \in Seq(PanelReports)
    PROVE  /\ Aged(s) \in Seq(PanelReports) /\ Len(Aged(s)) = Len(s) /\ DOMAIN Aged(s) = DOMAIN s
           /\ \A n \in DOMAIN s : Aged(s)[n].ip = s[n].ip /\ Aged(s)[n].on = s[n].on
<1>1. DOMAIN s = 1..Len(s) /\ Len(s) \in Nat
  OBVIOUS
<1>2. \A n \in 1..Len(s) : s[n] \in PanelReports
  OBVIOUS
<1>3. \A n \in 1..Len(s) : /\ [s[n] EXCEPT !.old = TRUE] \in PanelReports
                           /\ [s[n] EXCEPT !.old = TRUE].ip = s[n].ip
                           /\ [s[n] EXCEPT !.old = TRUE].on = s[n].on
  BY <1>2 DEF PanelReports
<1>4. Aged(s) \in [1..Len(s) -> PanelReports]
  BY <1>1, <1>3 DEF Aged
<1>5. Aged(s) \in Seq(PanelReports) /\ Len(Aged(s)) = Len(s)
  BY <1>1, <1>4
<1> QED BY <1>1, <1>3, <1>5 DEF Aged

LEMMA WeekTypes == ASSUME PanelTypes, WeekPasses PROVE PanelTypes'
<1>1. /\ reports' = Aged(reports) /\ kept' = [kept EXCEPT !.outbox = Aged(kept.outbox)]
      /\ UNCHANGED <<dashList, heard, settled, panelAllowed, view, listInForce, request, sender, listSync,
                     flush, crossed, unreported>>
  BY DEF WeekPasses, Aged
<1>2. /\ reports' \in Seq(PanelReports) /\ Len(reports') = Len(reports)
      /\ Aged(kept.outbox) \in Seq(PanelReports) /\ Len(Aged(kept.outbox)) = Len(kept.outbox)
  BY <1>1, AgedIs DEF PanelTypes, PanelTyped
<1>3. PanelTyped'
  BY <1>1, <1>2 DEF PanelTypes, PanelTyped
<1>4. OneSends'
  BY <1>1 DEF PanelTypes, OneSends
<1> QED BY <1>3, <1>4 DEF PanelTypes

LEMMA PanelRestartTypes == ASSUME PanelTypes, PanelRestart PROVE PanelTypes'
<1>1. /\ request' = [q \in Requests |-> IdleRequest] /\ sender' = "nobody" /\ flush' = "idle"
      /\ listSync' = IdleList /\ reports' = kept.outbox /\ panelAllowed' = kept.allowed
      /\ view'.ips = {}
      /\ listInForce' = IF settled.known THEN settled.ips \cup kept.allowed ELSE {}
      /\ UNCHANGED <<dashList, heard, kept, settled, crossed>>
  BY DEF PanelRestart, NobodySends, IdleList, Unknown
<1>2. unreported' \in SUBSET PanelIPs
  <2>1. ASSUME NEW q \in Requests, request[q].pc # "idle" PROVE request[q].ip \in PanelIPs
    BY <2>1 DEF PanelTypes, PanelTyped, IdleRequest, BusyRequest
  <2>2. ASSUME NEW s \in Seq(PanelReports) PROVE Waiting(s) \subseteq PanelIPs
    <3>1. ASSUME NEW n \in DOMAIN s PROVE s[n].ip \in PanelIPs
      <4>1. s[n] \in PanelReports
        BY <2>2, <3>1
      <4> QED BY <4>1 DEF PanelReports
    <3> QED BY <3>1 DEF Waiting
  <2>3. Waiting(kept.outbox) \subseteq PanelIPs /\ Waiting(reports) \subseteq PanelIPs
    BY <2>2 DEF PanelTypes, PanelTyped
  <2> QED BY <2>1, <2>3 DEF PanelRestart, PanelTypes, PanelTyped
<1>3. PanelTyped'
  BY <1>1, <1>2 DEF PanelTypes, PanelTyped
<1>4. OneSends'
  BY <1>1, PanelAllowConstants DEF OneSends, IdleRequest
<1> QED BY <1>3, <1>4 DEF PanelTypes

LEMMA PanelTypesInit == PanelAllowInit => PanelTypes
<1> SUFFICES ASSUME PanelAllowInit PROVE PanelTypes
  OBVIOUS
<1>1. PanelTyped
  BY PanelAllowConstants DEF PanelAllowInit, PanelTyped, Unknown, IdleList
<1>2. OneSends
  BY PanelAllowConstants DEF PanelAllowInit, OneSends, IdleRequest, NobodySends
<1> QED BY <1>1, <1>2 DEF PanelTypes

LEMMA PanelTypesNext == PanelTypes /\ [PanelAllowNext]_panelAllowVars => PanelTypes'
<1> SUFFICES ASSUME PanelTypes, [PanelAllowNext]_panelAllowVars PROVE PanelTypes'
  OBVIOUS
<1>1. CASE UNCHANGED panelAllowVars
  BY <1>1 DEF panelAllowVars, panelMemory, PanelTypes, PanelTyped, OneSends
<1> QED BY <1>1, ChangeTypes, ApplyTypes, TellTypes, FlushTypes, SyncListTypes, WeekTypes, PanelRestartTypes
        DEF PanelAllowNext, RequestStep

----------------------------------------------------------------------------
(* The order of what the panel reports.                                    *)

Underway(q) == request[q].pc \in Unsaid
Clearing    == flush = "clear" \/ \E q \in Requests : request[q].pc = "clear"

\* Two requests under way are about two addresses, but for those two changed at once.
OneRequest ==
    \A q, r \in Requests :
        /\ request[q].pc # "idle" /\ request[r].pc # "idle"
        /\ request[q].ip = request[r].ip /\ request[q].ip \notin crossed
        => q = r

\* A request not reported yet is the last change of its address.
AsAllowed ==
    \A q \in Requests :
        Underway(q) /\ request[q].ip \notin crossed => (request[q].on <=> request[q].ip \in panelAllowed)

\* At once only while nothing waits.
SendsFirst == \A q \in Requests : request[q].pc = "send" => reports = <<>>

\* An outbox about to be cleared has been heard.
SentAll ==
    Clearing => \A ip \in PanelIPs \ unreported : ip \in heard <=> Told(heard, reports, ip)

\* ReportsInOrder, an address at a time.
ToldRight(ip) ==
    (\A q \in Requests : Underway(q) => request[q].ip # ip) => (Told(heard, reports, ip) <=> ip \in panelAllowed)

PanelOrder ==
    /\ OneRequest /\ AsAllowed /\ SendsFirst /\ SentAll
    /\ \A ip \in PanelIPs \ (crossed \cup unreported) : ToldRight(ip)

LEMMA OrderIs == PanelOrder => ReportsInOrder
  BY HeardAllIs DEF PanelOrder, ToldRight, Underway, Unsaid, ReportsInOrder

\* Whoever clears holds outboxMu.
LEMMA ClearingHolds == PanelTypes /\ Clearing => sender # "nobody" /\ \A q \in Requests : request[q].pc # "send"
  BY PanelAllowConstants DEF PanelTypes, OneSends, Clearing

\* Nothing of it changes.
LEMMA SameOrder ==
    ASSUME PanelOrder, UNCHANGED <<heard, reports, panelAllowed, request, flush, crossed, unreported>>
    PROVE  PanelOrder'
  BY DEF PanelOrder, OneRequest, AsAllowed, SendsFirst, SentAll, ToldRight, Told, Underway, Clearing

LEMMA ChangeOrder ==
    ASSUME PanelTypes, PanelOrder, NEW q \in Requests, NEW ip \in PanelIPs, Allow(q, ip) \/ Disallow(q, ip)
    PROVE  PanelOrder'
<1>1. PICK on \in BOOLEAN : /\ on <=> ip \in panelAllowed'
                            /\ \A i \in PanelIPs \ {ip} : i \in panelAllowed' <=> i \in panelAllowed
                            /\ Change(q, ip, on, panelAllowed')
  <2>1. CASE Allow(q, ip)
    <3>1. Change(q, ip, TRUE, panelAllowed \cup {ip}) /\ panelAllowed' = panelAllowed \cup {ip}
      BY <2>1 DEF Allow, Change
    <3> QED BY <3>1
  <2>2. CASE Disallow(q, ip)
    <3>1. Change(q, ip, FALSE, panelAllowed \ {ip}) /\ panelAllowed' = panelAllowed \ {ip}
      BY <2>2 DEF Disallow, Change
    <3> QED BY <3>1
  <2> QED BY <2>1, <2>2
<1> DEFINE new == [pc |-> "snapshot", ip |-> ip, on |-> on, list |-> {}]
<1>2. /\ request' = [request EXCEPT ![q] = new] /\ request[q].pc = "idle"
      /\ crossed' = IF Busy(ip) THEN crossed \cup {ip} ELSE crossed
      /\ UNCHANGED <<heard, reports, flush, unreported>>
  BY <1>1 DEF Change
<1>3. new.pc = "snapshot" /\ new.ip = ip /\ new.on = on
  OBVIOUS
<1> HIDE DEF new
<1>4. request'[q] = new /\ \A r \in Requests \ {q} : request'[r] = request[r]
  BY <1>2 DEF PanelTypes, PanelTyped
<1>5. crossed \subseteq crossed'
  BY <1>2
<1>6. ASSUME NEW r \in Requests, request[r].pc # "idle", request[r].ip = ip PROVE ip \in crossed'
  BY <1>2, <1>6 DEF Busy
<1>7. OneRequest'
  BY <1>3, <1>4, <1>5, <1>6 DEF PanelOrder, OneRequest
<1>8. AsAllowed'
  <2> SUFFICES ASSUME NEW r \in Requests, Underway(r)', request'[r].ip \notin crossed'
               PROVE  request'[r].on <=> request'[r].ip \in panelAllowed'
    BY DEF AsAllowed
  <2>1. CASE r = q
    BY <1>1, <1>3, <1>4, <2>1
  <2>2. CASE r # q
    <3>1. request'[r] = request[r] /\ Underway(r) /\ request[r].ip \in PanelIPs
      BY <1>4, <2>2 DEF Underway, Unsaid, PanelTypes, PanelTyped, IdleRequest, BusyRequest
    <3>2. request[r].pc # "idle"
      BY <3>1 DEF Underway, Unsaid
    <3>3. request[r].ip # ip /\ request[r].ip \notin crossed
      BY <1>5, <1>6, <3>1, <3>2
    <3> QED BY <1>1, <3>1, <3>3 DEF PanelOrder, AsAllowed
  <2> QED BY <2>1, <2>2
<1>9. SendsFirst' /\ SentAll'
  <2>1. Clearing' => Clearing
    BY <1>2, <1>3, <1>4 DEF Clearing
  <2> QED BY <1>2, <1>3, <1>4, <2>1 DEF PanelOrder, SendsFirst, SentAll, Told
<1>10. ASSUME NEW i \in PanelIPs \ (crossed' \cup unreported'), \A r \in Requests : Underway(r)' => request'[r].ip # i
       PROVE  Told(heard, reports, i)' <=> i \in panelAllowed'
  <2>1. i # ip
    BY <1>3, <1>4, <1>10 DEF Underway, Unsaid
  <2>2. \A r \in Requests : Underway(r) => request[r].ip # i
    BY <1>2, <1>4, <1>10 DEF Underway, Unsaid
  <2>3. Told(heard, reports, i) <=> i \in panelAllowed
    BY <1>2, <1>5, <1>10, <2>2 DEF PanelOrder, ToldRight
  <2> QED BY <1>1, <1>2, <2>1, <2>3 DEF Told
<1> QED BY <1>7, <1>8, <1>9, <1>10 DEF PanelOrder, ToldRight

\* A request goes on, with the same to report.
LEMMA ApplyOrder ==
    ASSUME PanelTypes, PanelOrder, NEW q \in Requests, NEW pc \in Unsaid, Underway(q),
           request'[q].pc = pc, request'[q].ip = request[q].ip, request'[q].on = request[q].on,
           \A r \in Requests \ {q} : request'[r] = request[r],
           pc = "send" => reports = <<>>,
           UNCHANGED <<heard, reports, panelAllowed, flush, crossed, unreported>>
    PROVE  PanelOrder'
<1>1. \A r \in Requests : /\ Underway(r)' <=> Underway(r)
                          /\ request'[r].ip = request[r].ip /\ request'[r].on = request[r].on
                          /\ request'[r].pc # "idle" => request[r].pc # "idle"
                          /\ request'[r].pc = "clear" => request[r].pc = "clear"
                          /\ request'[r].pc = "send" => request[r].pc = "send" \/ reports = <<>>
  BY DEF Underway, Unsaid
<1>2. OneRequest' /\ AsAllowed' /\ SendsFirst'
  BY <1>1 DEF PanelOrder, OneRequest, AsAllowed, SendsFirst
<1>3. SentAll'
  BY <1>1 DEF PanelOrder, SentAll, Clearing, Told
<1>4. \A ip \in PanelIPs \ (crossed' \cup unreported') : ToldRight(ip)'
  BY <1>1 DEF PanelOrder, ToldRight, Told
<1> QED BY <1>2, <1>3, <1>4 DEF PanelOrder
\* A request that has reported: the dashboard has heard it, or the outbox ends with it.
LEMMA SaidOrder ==
    ASSUME PanelTypes, PanelOrder, NEW q \in Requests, Underway(q), ~Clearing',
           \A r \in Requests \ {q} : request'[r] = request[r],
           request'[q].pc \notin Unsaid, request'[q].pc = "idle" \/ request'[q].ip = request[q].ip,
           \A r \in Requests \ {q} : request[r].pc # "send",
           unreported \subseteq unreported', UNCHANGED <<panelAllowed, crossed>>,
           \A ip \in PanelIPs \ unreported' :
              Told(heard', reports', ip) <=> IF ip = request[q].ip THEN request[q].on ELSE Told(heard, reports, ip)
    PROVE  PanelOrder'
<1>1. request[q].pc # "idle" /\ "send" \in Unsaid
  BY DEF Underway, Unsaid
<1>2. OneRequest'
  BY <1>1 DEF PanelOrder, OneRequest
<1>3. AsAllowed' /\ SendsFirst'
  BY <1>1 DEF PanelOrder, AsAllowed, SendsFirst, Underway
<1>4. SentAll'
  BY DEF SentAll
<1>5. ASSUME NEW ip \in PanelIPs \ (crossed' \cup unreported'),
             \A r \in Requests : Underway(r)' => request'[r].ip # ip
      PROVE  Told(heard', reports', ip) <=> ip \in panelAllowed'
  <2>1. CASE ip = request[q].ip
    BY <1>5, <2>1 DEF PanelOrder, AsAllowed
  <2>2. CASE ip # request[q].ip
    <3>1. \A r \in Requests : Underway(r) => request[r].ip # ip
      BY <1>5, <2>2 DEF Underway
    <3> QED BY <1>5, <2>2, <3>1 DEF PanelOrder, ToldRight
  <2> QED BY <2>1, <2>2
<1>6. \A ip \in PanelIPs \ (crossed' \cup unreported') : ToldRight(ip)'
  BY <1>5 DEF ToldRight, Told
<1> QED BY <1>2, <1>3, <1>4, <1>6 DEF PanelOrder

LEMMA TellOrder ==
    ASSUME PanelTypes, PanelOrder, NEW q \in Requests, TellChange(q) \/ Send(q)
    PROVE  PanelOrder'
<1>1. /\ UNCHANGED <<panelAllowed, crossed, flush>>
      /\ request[q].pc \in {"report", "send"} /\ Underway(q)
      /\ sender \in {"nobody", q} /\ q # "nobody" /\ q # "flush"
  BY PanelAllowConstants
     DEF TellChange, Send, ReportFrame, Underway, Unsaid, NobodySends, PanelTypes, OneSends
<1>2. ~Clearing /\ \A r \in Requests \ {q} : request[r].pc # "send"
  BY <1>1, PanelAllowConstants DEF Clearing, PanelTypes, OneSends
<1>3. CASE Append1(q) /\ heard' \in {heard, Heard(heard, request[q])}
  <2>1. /\ unreported \subseteq unreported' /\ request' = [request EXCEPT ![q].pc = "flush"]
        /\ \A g \in {heard, Heard(heard, request[q])}, ip \in PanelIPs \ unreported' :
              Told(g, reports', ip) <=> IF ip = request[q].ip THEN request[q].on
                                                              ELSE Told(heard, reports, ip)
    BY <1>1, <1>3, AppendTells DEF PanelTypes
  <2>2. /\ request'[q].pc = "flush" /\ request'[q].ip = request[q].ip
        /\ \A r \in Requests \ {q} : request'[r] = request[r]
    BY <1>1, <2>1, RequestGoesOn DEF PanelTypes, Busies
  <2>3. ~Clearing'
    BY <1>1, <1>2, <2>2 DEF Clearing
  <2> QED BY <1>1, <1>2, <1>3, <2>1, <2>2, <2>3, SaidOrder DEF Unsaid
<1>4. CASE reports = <<>> /\ request' = [request EXCEPT ![q].pc = "send"] /\ TellChange(q)
           /\ UNCHANGED <<reports, unreported>>
  <2>1. /\ request'[q].pc = "send" /\ request'[q].ip = request[q].ip /\ request'[q].on = request[q].on
        /\ \A r \in Requests \ {q} : request'[r] = request[r]
    BY <1>1, <1>4, RequestGoesOn DEF PanelTypes, Busies
  <2>2. UNCHANGED heard
    BY <1>4 DEF TellChange
  <2> QED BY <1>1, <1>4, <2>1, <2>2, ApplyOrder DEF Unsaid
<1>5. CASE /\ Send(q) /\ heard' = Heard(heard, request[q])
           /\ request' = [request EXCEPT ![q] = IdleRequest] /\ UNCHANGED <<reports, unreported>>
  <2>1. /\ request'[q].pc = "idle" /\ \A r \in Requests \ {q} : request'[r] = request[r]
    BY <1>5, RequestEnds DEF PanelTypes
  <2>2. ~Clearing'
    BY <1>1, <1>2, <2>1 DEF Clearing
  <2>3. reports = <<>>
    BY <1>5 DEF Send, PanelOrder, SendsFirst
  <2>4. \A ip \in PanelIPs : Told(heard', reports', ip)
                             <=> IF ip = request[q].ip THEN request[q].on ELSE Told(heard, reports, ip)
    BY <1>5, <2>3 DEF Told, Heard
  <2> QED BY <1>1, <1>2, <1>5, <2>1, <2>2, <2>4, SaidOrder DEF Unsaid
<1> QED BY <1>3, <1>4, <1>5 DEF TellChange, Send

\* The outbox is heard, whole or in part, and perhaps cleared: what was told stays told.
LEMMA HeardOrder ==
    ASSUME PanelTypes, PanelOrder, NEW q \in Requests,
           \A r \in Requests \ {q} : request'[r] = request[r],
           request'[q] = request[q] \/ (request[q].pc \in {"flush", "clear"} /\ request'[q].pc \in {"clear", "idle"}),
           request'[q].pc = "idle" \/ request'[q].ip = request[q].ip,
           \A r \in Requests : request[r].pc # "send",
           unreported \subseteq unreported', UNCHANGED <<panelAllowed, crossed>>,
           Clearing' => \A ip \in PanelIPs \ unreported' : ip \in heard' <=> Told(heard', reports', ip),
           \A ip \in PanelIPs \ unreported' : Told(heard', reports', ip) <=> Told(heard, reports, ip)
    PROVE  PanelOrder'
<1>1. \A r \in Requests : /\ Underway(r)' <=> Underway(r)
                          /\ Underway(r) => request'[r] = request[r]
                          /\ request'[r].pc # "idle" => request[r].pc # "idle" /\ request'[r].ip = request[r].ip
                          /\ request'[r].pc # "send"
  BY DEF Underway, Unsaid
<1>2. OneRequest' /\ AsAllowed' /\ SendsFirst'
  BY <1>1 DEF PanelOrder, OneRequest, AsAllowed, SendsFirst
<1>3. SentAll'
  BY DEF SentAll, Told
<1>4. ASSUME NEW ip \in PanelIPs \ (crossed' \cup unreported'),
             \A r \in Requests : Underway(r)' => request'[r].ip # ip
      PROVE  Told(heard', reports', ip) <=> ip \in panelAllowed'
  <2>1. \A r \in Requests : Underway(r) => request[r].ip # ip
    BY <1>1, <1>4
  <2> QED BY <1>4, <2>1 DEF PanelOrder, ToldRight
<1>5. \A ip \in PanelIPs \ (crossed' \cup unreported') : ToldRight(ip)'
  BY <1>4 DEF ToldRight, Told
<1> QED BY <1>2, <1>3, <1>5 DEF PanelOrder

\* What sending and clearing leave told.
LEMMA SentTells ==
    ASSUME Sent, UNCHANGED reports
    PROVE  /\ unreported \subseteq unreported'
           /\ \A ip \in PanelIPs \ unreported' : /\ Told(heard', reports', ip) <=> Told(heard, reports, ip)
                                                 /\ ip \in heard' <=> Told(heard', reports', ip)
<1>1. Young \in SUBSET DOMAIN reports /\ heard' = HeardAll(Young) /\ unreported' = unreported \cup Old
  BY DEF Young, Sent
<1>2. ASSUME NEW ip \in PanelIPs \ unreported'
      PROVE  /\ Told(heard', reports, ip) <=> Told(heard, reports, ip)
             /\ ip \in heard' <=> Told(heard, reports, ip)
  BY <1>1, <1>2, ToldAgain, ToldYoung
<1> QED BY <1>1, <1>2

LEMMA GoneTells ==
    ASSUME Gone, UNCHANGED reports
    PROVE  /\ unreported \subseteq unreported'
           /\ \A ip \in PanelIPs : Told(heard', reports', ip) <=> Told(heard, reports, ip)
<1>1. Young \in SUBSET DOMAIN reports /\ heard' \in {heard, HeardAll(Young)} /\ unreported' = unreported
  BY DEF Young, Gone
<1> QED BY <1>1, ToldAgain

LEMMA ClearedTells ==
    ASSUME PanelOrder, Clearing, Cleared, UNCHANGED <<heard, unreported>>
    PROVE  /\ unreported \subseteq unreported'
           /\ \A ip \in PanelIPs \ unreported' : Told(heard', reports', ip) <=> Told(heard, reports, ip)
<1>1. ASSUME NEW ip \in PanelIPs PROVE Told(heard', reports', ip) <=> ip \in heard
  BY DEF Told, Cleared
<1> QED BY <1>1 DEF PanelOrder, SentAll

LEMMA FlushOfOrder ==
    ASSUME PanelTypes, PanelOrder, NEW q \in Requests, FlushOf(q)
    PROVE  PanelOrder'
<1>1. /\ UNCHANGED <<panelAllowed, crossed, flush>> /\ request[q].pc \in {"flush", "clear"}
      /\ sender = q /\ q # "nobody" /\ q # "flush"
  BY PanelAllowConstants DEF FlushOf, ReportFrame, PanelTypes, OneSends
<1>2. flush # "clear" /\ \A r \in Requests : /\ request[r].pc # "send"
                                             /\ r # q => request[r].pc # "clear"
  BY <1>1 DEF PanelTypes, OneSends
<1>3. CASE request' = [request EXCEPT ![q].pc = "clear"] /\ Sent /\ UNCHANGED <<reports, kept, sender>>
  <2>1. /\ request'[q].pc = "clear" /\ request'[q].ip = request[q].ip
        /\ \A r \in Requests \ {q} : request'[r] = request[r]
    BY <1>1, <1>3, RequestGoesOn DEF PanelTypes, Busies
  <2> QED BY <1>1, <1>2, <1>3, <2>1, SentTells, HeardOrder
<1>4. CASE /\ request' = [request EXCEPT ![q] = IdleRequest]
           /\ \/ Gone /\ UNCHANGED reports
              \/ request[q].pc = "clear" /\ Cleared /\ UNCHANGED <<heard, unreported>>
  <2>1. request'[q].pc = "idle" /\ \A r \in Requests \ {q} : request'[r] = request[r]
    BY <1>4, RequestEnds DEF PanelTypes
  <2>2. ~Clearing'
    BY <1>1, <1>2, <2>1 DEF Clearing
  <2>3. /\ unreported \subseteq unreported'
        /\ \A ip \in PanelIPs \ unreported' : Told(heard', reports', ip) <=> Told(heard, reports, ip)
    BY <1>4, GoneTells, ClearedTells DEF Clearing
  <2> QED BY <1>1, <1>2, <2>1, <2>2, <2>3, HeardOrder
<1> QED BY <1>3, <1>4 DEF FlushOf

\* The same when a sync sends the outbox: no request changes, and none reports.
LEMMA FlushAfterOrder ==
    ASSUME PanelTypes, PanelOrder, FlushAfter
    PROVE  PanelOrder'
<1>1. UNCHANGED <<panelAllowed, crossed, request>>
  BY DEF FlushAfter, ReportFrame
<1>2. flush \in {"flush", "clear"} =>
         \A r \in Requests : request[r].pc \notin {"send", "flush", "clear"}
  BY PanelAllowConstants DEF PanelTypes, OneSends
\* Of HeardOrder, when no request takes part.
<1>3. ASSUME \A r \in Requests : request[r].pc # "send",
             unreported \subseteq unreported',
             Clearing' => \A ip \in PanelIPs \ unreported' : ip \in heard' <=> Told(heard', reports', ip),
             \A ip \in PanelIPs \ unreported' : Told(heard', reports', ip) <=> Told(heard, reports, ip)
      PROVE  PanelOrder'
  <2>1. OneRequest' /\ AsAllowed' /\ SendsFirst'
    BY <1>1, <1>3 DEF PanelOrder, OneRequest, AsAllowed, SendsFirst, Underway
  <2>2. SentAll'
    BY <1>3 DEF SentAll, Told
  <2>3. \A ip \in PanelIPs \ (crossed' \cup unreported') : ToldRight(ip)'
    BY <1>1, <1>3 DEF PanelOrder, ToldRight, Told, Underway
  <2> QED BY <2>1, <2>2, <2>3 DEF PanelOrder
<1>4. CASE flush \in {"try", "flush"} /\ flush' # "clear" /\ UNCHANGED <<heard, unreported, reports>>
  <2>1. Clearing' => Clearing
    BY <1>1, <1>4 DEF Clearing
  <2> QED BY <1>1, <1>4, <2>1 DEF PanelOrder, OneRequest, AsAllowed, SendsFirst, SentAll, ToldRight, Told,
                                  Underway
<1>5. CASE flush = "flush" /\ Sent /\ UNCHANGED reports
  BY <1>2, <1>3, <1>5, SentTells
<1>6. CASE /\ flush' = "idle"
           /\ \/ flush = "flush" /\ Gone /\ UNCHANGED reports
              \/ flush = "clear" /\ Cleared /\ UNCHANGED <<heard, unreported>>
  <2>1. ~Clearing'
    BY <1>1, <1>2, <1>6 DEF Clearing
  <2>2. /\ unreported \subseteq unreported'
        /\ \A ip \in PanelIPs \ unreported' : Told(heard', reports', ip) <=> Told(heard, reports, ip)
    BY <1>6, GoneTells, ClearedTells DEF Clearing
  <2> QED BY <1>2, <1>3, <1>6, <2>1, <2>2
<1> QED BY <1>4, <1>5, <1>6 DEF FlushAfter

LEMMA WeekOrder == ASSUME PanelTypes, PanelOrder, WeekPasses PROVE PanelOrder'
<1>1. /\ reports' = Aged(reports) /\ reports # <<>> /\ sender = "nobody"
      /\ UNCHANGED <<heard, panelAllowed, request, flush, crossed, unreported>>
  BY DEF WeekPasses, Aged, NobodySends
<1>2. /\ DOMAIN reports' = DOMAIN reports
      /\ \A n \in DOMAIN reports : reports'[n].ip = reports[n].ip /\ reports'[n].on = reports[n].on
  BY <1>1, AgedIs DEF PanelTypes, PanelTyped
<1>3. \A ip \in PanelIPs : Told(heard', reports', ip) <=> Told(heard, reports, ip)
  BY <1>1, <1>2 DEF Told
<1>4. ~Clearing' /\ \A q \in Requests : request'[q].pc # "send"
  BY <1>1, PanelAllowConstants DEF PanelTypes, OneSends, Clearing
<1>5. \A ip \in PanelIPs \ (crossed' \cup unreported') : ToldRight(ip)'
  BY <1>1, <1>3 DEF PanelOrder, ToldRight, Told, Underway
<1> QED BY <1>1, <1>4, <1>5 DEF PanelOrder, OneRequest, AsAllowed, SendsFirst, SentAll, Underway

\* A restart forgets the requests and what was not in the file: their addresses count
\* no more.
LEMMA PanelRestartOrder == ASSUME PanelTypes, PanelOrder, PanelRestart PROVE PanelOrder'
<1>1. /\ \A q \in Requests : request'[q].pc = "idle"
      /\ reports' = kept.outbox /\ panelAllowed' = panelAllowed /\ flush' = "idle"
      /\ UNCHANGED <<heard, crossed>>
  BY DEF PanelRestart, IdleRequest, PanelTypes, PanelTyped
<1>2. /\ unreported \subseteq unreported'
      /\ \A q \in Requests : Underway(q) => request[q].ip \in unreported'
      /\ reports' # reports => Waiting(reports') \cup Waiting(reports) \subseteq unreported'
  BY <1>1 DEF PanelRestart, Underway, Unsaid
<1>3. ASSUME NEW ip \in PanelIPs \ (crossed' \cup unreported') PROVE ToldRight(ip)'
  <2>1. \A q \in Requests : Underway(q) => request[q].ip # ip
    BY <1>2, <1>3
  <2>2. Told(heard, reports, ip) <=> ip \in panelAllowed
    BY <1>1, <1>2, <1>3, <2>1 DEF PanelOrder, ToldRight
  <2>3. Told(heard, reports', ip) <=> Told(heard, reports, ip)
    <3>1. CASE reports' = reports
      BY <3>1
    <3>2. CASE reports' # reports
      <4>1. /\ \A n \in DOMAIN reports' : reports'[n].ip # ip
            /\ \A n \in DOMAIN reports : reports[n].ip # ip
        BY <1>2, <1>3, <3>2 DEF Waiting
      <4> QED BY <4>1 DEF Told
    <3> QED BY <3>1, <3>2
  <2> QED BY <1>1, <2>2, <2>3 DEF ToldRight, Told
<1> QED BY <1>1, <1>3 DEF PanelOrder, OneRequest, AsAllowed, SendsFirst, SentAll, Underway, Unsaid, Clearing

LEMMA PanelOrderInit == PanelAllowInit => PanelOrder
<1> SUFFICES ASSUME PanelAllowInit PROVE PanelOrder
  OBVIOUS
<1>1. \A q \in Requests : request[q].pc = "idle"
  BY DEF PanelAllowInit, IdleRequest
<1>2. \A ip \in PanelIPs : ~Told(heard, reports, ip)
  BY DEF PanelAllowInit, Told
<1>3. heard = {} /\ panelAllowed = {} /\ flush = "idle"
  BY DEF PanelAllowInit
<1> QED BY <1>1, <1>2, <1>3
        DEF PanelOrder, OneRequest, AsAllowed, SendsFirst, SentAll, ToldRight, Underway, Unsaid, Clearing

LEMMA PanelOrderNext == PanelTypes /\ PanelOrder /\ [PanelAllowNext]_panelAllowVars => PanelOrder'
<1> SUFFICES ASSUME PanelTypes, PanelOrder, [PanelAllowNext]_panelAllowVars PROVE PanelOrder'
  OBVIOUS
<1>1. CASE UNCHANGED panelAllowVars
  <2>1. UNCHANGED <<heard, reports, panelAllowed, request, flush, crossed, unreported>>
    BY <1>1 DEF panelAllowVars, panelMemory
  <2> QED BY <2>1, SameOrder
<1>2. ASSUME NEW S \in SUBSET PanelIPs, EditDashboardList(S) PROVE PanelOrder'
  <2>1. UNCHANGED <<heard, reports, panelAllowed, request, flush, crossed, unreported>>
    BY <1>2 DEF EditDashboardList, panelMemory
  <2> QED BY <2>1, SameOrder
<1>3. CASE ListSync
  <2>1. UNCHANGED <<heard, reports, panelAllowed, request, crossed, unreported>>
    BY <1>3 DEF ListSync
  <2>2. flush' = "clear" <=> flush = "clear"
    <3>1. flush' \in {flush, IF flush = "idle" THEN "try" ELSE flush}
      BY <1>3 DEF ListSync
    <3> QED BY <3>1
  <2> QED BY <2>1, <2>2
          DEF PanelOrder, OneRequest, AsAllowed, SendsFirst, SentAll, ToldRight, Told, Underway, Clearing
<1>4. ASSUME NEW q \in Requests, Snapshot(q) \/ SetList(q) PROVE PanelOrder'
  <2>1. PICK pc \in {"set", "report"} :
           /\ request'[q].pc = pc /\ request'[q].ip = request[q].ip /\ request'[q].on = request[q].on
           /\ \A r \in Requests \ {q} : request'[r] = request[r]
    <3>1. request[q] \in BusyRequest
      BY <1>4 DEF Snapshot, SetList, PanelTypes, PanelTyped, IdleRequest
    <3> QED BY <1>4, <3>1 DEF Snapshot, SetList, PanelTypes, PanelTyped, BusyRequest
  <2>2. Underway(q) /\ UNCHANGED <<heard, reports, panelAllowed, flush, crossed, unreported>>
    BY <1>4 DEF Snapshot, SetList, Underway, Unsaid
  <2> QED BY <2>1, <2>2, ApplyOrder DEF Unsaid
<1> QED BY <1>1, <1>2, <1>3, <1>4, ChangeOrder, TellOrder, FlushOfOrder, FlushAfterOrder, WeekOrder,
           PanelRestartOrder DEF PanelAllowNext, RequestStep
\* What the dashboard heard of the panel, with what waits for it, is what the panel
\* allows, for any number of requests at once and whatever fails: the reports keep the
\* order of the changes, and sending them twice undoes none.
THEOREM PanelInOrder ==
    PanelAllowInit /\ [][PanelAllowNext]_panelAllowVars => [](PanelAllowTypeOK /\ ReportsInOrder)
<1>1. PanelTypes /\ PanelOrder => PanelAllowTypeOK /\ ReportsInOrder
  BY PanelTypesAre, OrderIs
<1> QED BY <1>1, PanelTypesInit, PanelTypesNext, PanelOrderInit, PanelOrderNext, PTL

----------------------------------------------------------------------------
(* The three together.                                                     *)

\* Each component takes its own steps only.
LEMMA EachReportsItself ==
    [ReportsNext]_reportVars => [Next]_vars /\ [OutboxNext]_outboxVars /\ [PanelAllowNext]_panelAllowVars
  BY DEF ReportsNext, reportVars

\* Together as apart: the types and limits hold and what the panel reports is told in
\* order (ReportsHold), the queue accounts for every event (DeliveryKept), a cleanup
\* spares the agent's own bans (NotedBansSpared).
THEOREM ReportsAreRight == ReportsLive => []ReportsHold /\ DeliveryKept /\ NotedBansSpared
<1>1. ReportsInit => Init /\ OutboxInit /\ PanelAllowInit
  BY DEF ReportsInit
<1>2. ReportsLive => Spec /\ OutboxSpec /\ PanelAllowInit /\ [][PanelAllowNext]_panelAllowVars
  BY <1>1, EachReportsItself, PTL DEF ReportsLive, Spec, OutboxSpec
<1>3. ReportsLive => []TypeOK /\ []OutboxTypeOK /\ [](PanelAllowTypeOK /\ ReportsInOrder)
  BY <1>2, LineIsKept, OutboxTypes, PanelInOrder, PTL
<1>4. ReportsLive => []ReportsHold
  BY <1>3, PTL DEF ReportsHold
<1> QED BY <1>2, <1>4, EventsAreKept, CleanupSpares
=============================================================================
