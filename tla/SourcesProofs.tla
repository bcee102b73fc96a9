--------------------------- MODULE SourcesProofs ----------------------------
(* Proofs about where the addresses to keep out come from, for every value  *)
(* of the constants that their assumptions allow: a line of a log is read   *)
(* whole, counted once and for who it is about, and nobody is misjudged for *)
(* what is seen of the network.  A part for each component, with the        *)
(* invariant that is inductive; at the end the composition, of which one    *)
(* component runs in a behaviour.                                           *)
EXTENDS MCSources, FiniteSetTheorems, SequenceTheorems, WellFoundedInduction,
        TLAPS

----------------------------------------------------------------------------
(* The readers of the logs.                                                *)

\* A set of naturals has a least one, and one below a bound a greatest.
LessThan == {pair \in Nat \X Nat : pair[1] < pair[2]}

LEMMA LeastOne ==
    ASSUME NEW T \in SUBSET Nat, T # {}
    PROVE  \E x \in T : \A y \in T : x <= y
<1>1. IsWellFoundedOn(LessThan, Nat)
  BY NatLessThanWellFounded DEF OpToRel, LessThan
<1>2. PICK x \in T : \A y \in T : ~(<<y, x>> \in LessThan)
  BY <1>1, WFMin
<1>3. ASSUME NEW y \in T PROVE x <= y
  <2>1. x \in Nat /\ y \in Nat /\ ~(<<y, x>> \in LessThan)
    BY <1>2
  <2>2. ~(y < x)
    BY <2>1 DEF LessThan
  <2> QED BY <2>1, <2>2
<1> QED BY <1>3

LEMMA GreatestOne ==
    ASSUME NEW n \in Nat, NEW S \in SUBSET (1..n), S # {}
    PROVE  \E x \in S : \A y \in S : y <= x
<1> DEFINE T == {n - i : i \in S}
<1>1. T \in SUBSET Nat /\ T # {}
  OBVIOUS
<1> HIDE DEF T
<1>2. PICK t \in T : \A y \in T : t <= y
  BY <1>1, LeastOne
<1>3. PICK x \in S : t = n - x
  BY DEF T
<1>4. ASSUME NEW y \in S PROVE y <= x
  <2>1. n - y \in T
    BY DEF T
  <2>2. n - x <= n - y /\ x \in 1..n /\ y \in 1..n
    BY <1>2, <1>3, <2>1
  <2> QED BY <2>2
<1> QED BY <1>4

\* A chunk of a line that is written.
Chunk == {c \in WrittenLines \X Nat : c[2] \in 1..LineLengths[c[1]]}

LEMMA LinesAre ==
    /\ WrittenLines = 1..Len(LineLengths) /\ Len(LineLengths) \in Nat
    /\ \A l \in WrittenLines : LineLengths[l] \in Nat /\ LineLengths[l] > 0
<1>1. LineLengths \in Seq(Nat \ {0})
  BY TailAssumption
<1>2. DOMAIN LineLengths = 1..Len(LineLengths) /\ Len(LineLengths) \in Nat
  BY <1>1, LenProperties
<1>3. \A l \in DOMAIN LineLengths : LineLengths[l] \in Nat \ {0}
  BY <1>1, <1>2, ElementOfSeq
<1> QED BY <1>2, <1>3 DEF WrittenLines

LEMMA ChunkIs ==
    ASSUME NEW c \in Chunk
    PROVE  /\ c[1] \in WrittenLines /\ c[1] \in Nat /\ c[2] \in Nat /\ c[2] > 0 /\ c = <<c[1], c[2]>>
           /\ c[2] <= LineLengths[c[1]] /\ LineLengths[c[1]] \in Nat
<1>1. c \in WrittenLines \X Nat /\ c[2] \in 1..LineLengths[c[1]]
  BY DEF Chunk
<1>2. c[1] \in WrittenLines /\ c[2] \in Nat /\ c = <<c[1], c[2]>>
  BY <1>1
<1> QED BY <1>1, <1>2, LinesAre

\* Chunks that were written one after the other: a line goes on until it ends, and then the
\* next one begins.
Flowing(s) ==
    \A i, j \in DOMAIN s : i < j =>
        /\ (\A k \in i..(j - 1) : ~Ends(s[k])) => s[j] = <<s[i][1], s[i][2] + (j - i)>>
        /\ Ends(s[i]) => s[i][1] < s[j][1]
        /\ Ends(s[i]) /\ j = i + 1 => s[j] = <<s[i][1] + 1, 1>>

LEMMA RestFlows ==
    ASSUME NEW n \in Nat, NEW m \in 0..n, NEW s, NEW t, DOMAIN s = 1..n, DOMAIN t = 1..(n - m),
           \A i \in 1..(n - m) : t[i] = s[m + i], Flowing(s)
    PROVE  Flowing(t)
<1> SUFFICES ASSUME NEW i \in DOMAIN t, NEW j \in DOMAIN t, i < j
             PROVE  /\ (\A k \in i..(j - 1) : ~Ends(t[k])) => t[j] = <<t[i][1], t[i][2] + (j - i)>>
                    /\ Ends(t[i]) => t[i][1] < t[j][1]
                    /\ Ends(t[i]) /\ j = i + 1 => t[j] = <<t[i][1] + 1, 1>>
  BY DEF Flowing
<1>1. /\ m + i \in DOMAIN s /\ m + j \in DOMAIN s /\ m + i < m + j
      /\ t[i] = s[m + i] /\ t[j] = s[m + j] /\ (m + j) - (m + i) = j - i
      /\ i \in Nat /\ j \in Nat /\ m \in Nat /\ (j = i + 1 => m + j = (m + i) + 1)
  OBVIOUS
<1>2. ASSUME \A k \in i..(j - 1) : ~Ends(t[k]) PROVE \A k \in (m + i)..((m + j) - 1) : ~Ends(s[k])
  <2> SUFFICES ASSUME NEW k \in (m + i)..((m + j) - 1) PROVE ~Ends(s[k])
    OBVIOUS
  <2>0. /\ k \in Int /\ m + i <= k /\ k <= (m + j) - 1
        /\ i \in Int /\ j \in Int /\ m \in Int /\ n \in Int /\ 1 <= i /\ j <= n - m
    BY <1>1
  <2>1. k - m \in i..(j - 1) /\ k - m \in 1..(n - m) /\ m + (k - m) = k
    BY ONLY <2>0
  <2>2. t[k - m] = s[k]
    BY <2>1
  <2> QED BY <1>2, <2>1, <2>2
<1>3. (\A k \in i..(j - 1) : ~Ends(t[k])) => t[j] = <<t[i][1], t[i][2] + (j - i)>>
  BY <1>1, <1>2 DEF Flowing
<1>4. Ends(t[i]) => t[i][1] < t[j][1]
  BY <1>1 DEF Flowing
<1>5. Ends(t[i]) /\ j = i + 1 => t[j] = <<t[i][1] + 1, 1>>
  BY <1>1 DEF Flowing
<1> QED BY <1>3, <1>4, <1>5

\* From where a line begins to where it ends, its chunks follow each other.
Uncut(n, s, a, b, l) ==
    /\ n \in Nat /\ DOMAIN s = 1..n /\ Flowing(s) /\ a \in 1..n /\ b \in a..n
    /\ s[a] = <<l, 1>> /\ \A k \in a..(b - 1) : ~Ends(s[k])

LEMMA LineFlows ==
    ASSUME NEW n, NEW s, NEW a, NEW b, NEW l, Uncut(n, s, a, b, l)
    PROVE  \A m \in 1..(b - a + 1) : s[a + (m - 1)] = <<l, m>>
<1> USE DEF Uncut
<1> SUFFICES ASSUME NEW m \in 1..(b - a + 1) PROVE s[a + (m - 1)] = <<l, m>>
  OBVIOUS
<1>1. m \in Nat /\ a \in Nat /\ b \in Nat
  OBVIOUS
<1>2. CASE m = 1
  <2>1. a + (m - 1) = a
    BY <1>1, <1>2
  <2> QED BY <1>2, <2>1
<1>3. CASE m # 1
  <2> DEFINE c == a + (m - 1)
  <2>1. c \in 1..n /\ a < c /\ c - a = m - 1 /\ \A k \in a..(c - 1) : k \in a..(b - 1)
    BY <1>1, <1>3
  <2> HIDE DEF c
  <2>2. s[c] = <<s[a][1], s[a][2] + (c - a)>>
    BY <2>1 DEF Flowing
  <2>3. s[a][1] = l /\ s[a][2] = 1 /\ 1 + (m - 1) = m
    BY <1>1
  <2> QED BY <2>1, <2>2, <2>3 DEF c
<1> QED BY <1>2, <1>3

\* The ends of lines in what has been read, and the last of them.
LEMMA EndsAre ==
    ASSUME NEW s \in Seq(Chunk)
    PROVE  /\ Len(s) \in Nat /\ DOMAIN s = 1..Len(s) /\ EndsOf(s) \in SUBSET (1..Len(s))
           /\ \A i \in DOMAIN s : s[i] \in Chunk /\ (i \in EndsOf(s) <=> Ends(s[i]))
  BY LenProperties, ElementOfSeq DEF EndsOf

LEMMA LastEndIs ==
    ASSUME NEW s \in Seq(Chunk)
    PROVE  /\ LastEnd(s) \in 0..Len(s)
           /\ \A i \in (LastEnd(s) + 1)..Len(s) : ~Ends(s[i])
           /\ EndsOf(s) = {} => LastEnd(s) = 0
           /\ EndsOf(s) # {} => LastEnd(s) \in EndsOf(s)
<1>1. CASE EndsOf(s) = {}
  <2>1. LastEnd(s) = 0
    BY <1>1 DEF LastEnd
  <2>2. \A i \in DOMAIN s : ~Ends(s[i])
    BY <1>1, EndsAre
  <2> QED BY <1>1, <2>1, <2>2, EndsAre
<1>2. CASE EndsOf(s) # {}
  <2>1. \E x \in EndsOf(s) : \A y \in EndsOf(s) : y <= x
    BY <1>2, EndsAre, GreatestOne
  <2>2. LastEnd(s) \in EndsOf(s) /\ \A y \in EndsOf(s) : y <= LastEnd(s)
    BY <1>2, <2>1 DEF LastEnd
  <2> HIDE <1>2
  <2>3. ASSUME NEW i \in (LastEnd(s) + 1)..Len(s) PROVE ~Ends(s[i])
    <3>1. LastEnd(s) \in 1..Len(s) /\ i \in 1..Len(s) /\ ~(i <= LastEnd(s))
      BY <2>2, EndsAre
    <3> QED BY <2>2, <3>1, EndsAre
  <2>4. LastEnd(s) \in 0..Len(s)
    BY <2>2, EndsAre
  <2> QED BY <1>2, <2>2, <2>3, <2>4
<1> QED BY <1>1, <1>2

\* A line that is handed on reaches from after the end before it to its own end.
LineFrom(s, i, a) ==
    /\ a \in 1..i /\ LineTo(s, i) = SubSeq(s, a, i)
    /\ \A k \in a..(i - 1) : ~Ends(s[k])
    /\ a # 1 => a - 1 \in EndsOf(s)

LEMMA LineBegins ==
    ASSUME NEW s \in Seq(Chunk), NEW i \in EndsOf(s)
    PROVE  \E a \in 1..i : LineFrom(s, i, a)
<1> DEFINE before == {j \in EndsOf(s) : j < i}
<1>1. i \in 1..Len(s) /\ Len(s) \in Nat /\ before \in SUBSET (1..Len(s))
  BY EndsAre
<1>2. CASE before = {}
  <2>1. LineTo(s, i) = SubSeq(s, 1, i)
    BY <1>2 DEF LineTo
  <2>2. \A k \in 1..(i - 1) : ~Ends(s[k])
    BY <1>1, <1>2, EndsAre
  <2>3. 1 \in 1..i
    BY <1>1
  <2> QED BY <2>1, <2>2, <2>3 DEF LineFrom
<1>3. CASE before # {}
  <2> DEFINE c == CHOOSE j \in before : \A k \in before : k <= j
  <2>1. c \in before /\ \A k \in before : k <= c
    <3> HIDE DEF before
    <3>1. \E x \in before : \A y \in before : y <= x
      BY <1>1, <1>3, GreatestOne
    <3> QED BY <3>1
  <2>2. LineTo(s, i) = SubSeq(s, 1 + c, i)
    BY <1>3 DEF LineTo
  <2>3. c \in EndsOf(s) /\ c < i /\ c \in 1..Len(s)
    BY <1>1, <2>1
  <2>4. ASSUME NEW k \in (1 + c)..(i - 1) PROVE ~Ends(s[k])
    <3> HIDE DEF c
    <3>1. k \in 1..Len(s) /\ k < i /\ ~(k <= c)
      BY <1>1, <2>3
    <3> QED BY <2>1, <3>1, EndsAre
  <2> HIDE DEF c
  <2>5. (1 + c) \in 1..i /\ (1 + c) - 1 = c
    BY <1>1, <2>3
  <2> QED BY <2>2, <2>3, <2>4, <2>5 DEF LineFrom
<1> QED BY <1>2, <1>3

LEMMA LineIs ==
    ASSUME NEW s \in Seq(Chunk), NEW i \in EndsOf(s), NEW a \in 1..i, LineFrom(s, i, a)
    PROVE  /\ LineTo(s, i) \in Seq(Chunk) /\ Len(LineTo(s, i)) = i - a + 1
           /\ LineTo(s, i)[Len(LineTo(s, i))] = s[i]
           /\ \A m \in 1..(i - a + 1) : LineTo(s, i)[m] = s[a + (m - 1)]
<1> DEFINE t == LineTo(s, i)
<1>1. i \in 1..Len(s) /\ Len(s) \in Nat /\ a \in Nat /\ i \in Nat /\ a <= i
  BY EndsAre
<1>2. /\ t \in Seq(Chunk) /\ Len(t) = IF a <= i THEN i - a + 1 ELSE 0
      /\ \A m \in 1..(i - a + 1) : t[m] = s[a + m - 1]
  <2>1. \A k \in a..i : s[k] \in Chunk
    BY <1>1, EndsAre
  <2>2. t = SubSeq(s, a, i)
    BY DEF LineFrom
  <2> QED BY <1>1, <2>1, <2>2, SubSeqProperties
<1> HIDE DEF t
<1>3. Len(t) = i - a + 1 /\ Len(t) \in 1..(i - a + 1) /\ a + (Len(t) - 1) = i
  BY <1>1, <1>2
<1>4. \A m \in 1..(i - a + 1) : t[m] = s[a + (m - 1)]
  <2> SUFFICES ASSUME NEW m \in 1..(i - a + 1) PROVE t[m] = s[a + (m - 1)]
    OBVIOUS
  <2>1. a + m - 1 = a + (m - 1)
    BY <1>1
  <2> QED BY <1>2, <2>1
<1> QED BY <1>2, <1>3, <1>4 DEF t

\* A line that begins with its first chunk and goes on to its end is handed on whole.
LEMMA LineIsWhole ==
    ASSUME NEW s \in Seq(Chunk), NEW i \in EndsOf(s), NEW a \in 1..i, LineFrom(s, i, a),
           NEW l, \A m \in 1..(i - a + 1) : s[a + (m - 1)] = <<l, m>>
    PROVE  LineTo(s, i) = Whole(s[i][1])
<1> DEFINE t == LineTo(s, i)
<1>1. i \in 1..Len(s) /\ Len(s) \in Nat /\ a \in Nat /\ i \in Nat /\ a <= i /\ Ends(s[i])
  BY EndsAre
<1>2. s[i] = <<l, i - a + 1>>
  <2>1. (i - a + 1) \in 1..(i - a + 1) /\ a + ((i - a + 1) - 1) = i
    BY <1>1
  <2> QED BY <2>1
<1>3. LineLengths[l] = i - a + 1 /\ s[i][1] = l
  BY <1>1, <1>2 DEF Ends
<1>4. /\ t \in Seq(Chunk) /\ Len(t) = i - a + 1
      /\ \A m \in 1..(i - a + 1) : t[m] = <<l, m>>
  BY LineIs
<1> HIDE DEF t
<1>5. DOMAIN t = 1..(i - a + 1) /\ t = [m \in DOMAIN t |-> t[m]]
  BY <1>4, LenProperties
<1>6. t = [m \in 1..(i - a + 1) |-> <<l, m>>]
  BY <1>4, <1>5
<1> QED BY <1>3, <1>6 DEF t, Whole

----------------------------------------------------------------------------
\* What is in the file and the chunk that is written next; what the reader holds and what
\* it has not read of them.
PenChunk == <<pen.line, pen.chunks + 1>>
Written ==
    [i \in 1..(Len(logFile.data) + 1) |-> IF i <= Len(logFile.data) THEN logFile.data[i] ELSE PenChunk]
Unread ==
    [i \in 1..(Len(partial) + (Len(logFile.data) + 1 - tailOffset)) |->
        IF i <= Len(partial) THEN partial[i] ELSE Written[tailOffset + (i - Len(partial))]]

\* The reader is at the beginning of a line, or in the middle of one whose beginning it
\* has, or of one that is too long.
Reading == tailing.at \in {"tick", "read"}
Clean ==
    /\ tailOffset <= Len(logFile.data) /\ Flowing(Unread)
    /\ Unread[1][2] = 1 \/ Unread[1][1] \in TooLong
Loose == IF Reading /\ ~Clean THEN 1 ELSE 0
Torn == Cardinality(garbled \ TooLong)

TailsTyped ==
    /\ logFile.there \in BOOLEAN /\ logFile = [there |-> logFile.there, data |-> logFile.data]
    /\ logFile.data \in Seq(Chunk) /\ partial \in Seq(Chunk) /\ (~logFile.there => logFile.data = <<>>)
    /\ pen \in [line : 1..(Len(LineLengths) + 1), chunks : Nat]
    /\ IF pen.line \in WrittenLines THEN pen.chunks < LineLengths[pen.line] ELSE pen.chunks = 0
    /\ tailOffset \in Nat /\ tailing.size \in Nat /\ tailing = [at |-> tailing.at, size |-> tailing.size]
    /\ garbled \subseteq WrittenLines /\ cuts \in Nat /\ lastLine \in Nat

TailsInv ==
    /\ TailsTyped
    /\ \A i \in DOMAIN partial : ~Ends(partial[i])
    /\ Flowing(Written)
    /\ lastLine < pen.line
    /\ Reading => \A i \in DOMAIN logFile.data :
           (tailOffset <= Len(logFile.data) => i > tailOffset) /\ Ends(logFile.data[i])
               => lastLine < logFile.data[i][1]
    /\ ~repeated
    /\ Torn + Loose <= cuts

LEMMA GarbledCount ==
    ASSUME NEW G \in SUBSET WrittenLines
    PROVE  /\ IsFiniteSet(G \ TooLong) /\ Cardinality(G \ TooLong) \in Nat
<1>1. IsFiniteSet(WrittenLines)
  BY LinesAre, FS_Interval
<1>2. IsFiniteSet(G \ TooLong)
  BY <1>1, FS_Subset
<1> QED BY <1>2, FS_CardinalityType

LEMMA TornIs ==
    ASSUME garbled \subseteq WrittenLines
    PROVE  Torn \in Nat
  BY GarbledCount DEF Torn

LEMMA TornStays ==
    ASSUME UNCHANGED <<garbled, tailReader>>
    PROVE  Torn' = Torn
  BY DEF Torn, TooLong

\* A file in which nothing is yet flows.
LEMMA EmptyFlows ==
    ASSUME Len(logFile.data) = 0
    PROVE  Flowing(Written)
<1>1. DOMAIN Written = {1}
  BY DEF Written
<1> QED BY <1>1 DEF Flowing

LEMMA TailsInitially == TailsInit => TailsInv
<1> SUFFICES ASSUME TailsInit PROVE TailsInv
  OBVIOUS
<1>1. logFile.data = <<>> /\ logFile.there \in BOOLEAN /\ logFile = [there |-> logFile.there, data |-> logFile.data]
  BY DEF TailsInit
<1>2. logFile.data \in Seq(Chunk) /\ Len(logFile.data) = 0 /\ DOMAIN logFile.data = {}
  BY <1>1
<1>3. partial \in Seq(Chunk) /\ DOMAIN partial = {}
  BY DEF TailsInit
<1>4. pen \in [line : 1..(Len(LineLengths) + 1), chunks : Nat] /\ pen.line = 1 /\ pen.chunks = 0
  BY LinesAre DEF TailsInit
<1>5. TailsTyped
  BY <1>1, <1>2, <1>3, <1>4, LinesAre DEF TailsInit, TailsTyped
<1>6. Flowing(Written)
  BY <1>2, EmptyFlows
<1>7. garbled \ TooLong = {} /\ Loose = 0 /\ cuts = 0
  BY DEF TailsInit, Loose, Reading
<1>8. Torn = 0
  BY <1>7, FS_EmptySet DEF Torn
<1>9. Torn + Loose <= cuts
  BY <1>7, <1>8
<1> QED BY <1>2, <1>3, <1>4, <1>5, <1>6, <1>9 DEF TailsInit, TailsInv

----------------------------------------------------------------------------
\* The file is emptied or gone: nothing is left to be read, and one line may be torn.
LEMMA RotateKeeps ==
    ASSUME TailsInv, NEW how, RotateLog(how)
    PROVE  TailsInv'
<1> USE DEF TailsInv
<1>1. /\ logFile'.data = <<>> /\ logFile'.there \in BOOLEAN
      /\ logFile' = [there |-> logFile'.there, data |-> logFile'.data]
      /\ pen' = pen \/ (pen.chunks > 0 /\ NextChunk(TRUE))
      /\ cuts' = cuts + 1 /\ UNCHANGED <<partial, tailOffset, tailing, lastLine, repeated, garbled, tailReader>>
  <2>1. /\ cuts' = cuts + 1 /\ UNCHANGED <<partial, tailOffset, tailing, lastLine, repeated, garbled, tailReader>>
        /\ logFile.there
    BY DEF RotateLog, told
  <2>2. /\ \/ logFile' = [logFile EXCEPT !.data = <<>>]
           \/ logFile' = [there |-> FALSE, data |-> <<>>]
        /\ pen' = pen \/ (pen.chunks > 0 /\ NextChunk(TRUE))
    <3>1. CASE how = "truncate"
      BY <3>1 DEF RotateLog
    <3>2. CASE how = "replace"
      BY <3>2 DEF RotateLog
    <3>3. CASE how \notin {"truncate", "replace"}
      BY <3>3 DEF RotateLog
    <3> QED BY <3>1, <3>2, <3>3
  <2>4. /\ logFile'.data = <<>> /\ logFile'.there \in BOOLEAN
        /\ logFile' = [there |-> logFile'.there, data |-> logFile'.data]
    <3>1. CASE logFile' = [logFile EXCEPT !.data = <<>>]
      <4>1. logFile = [there |-> logFile.there, data |-> logFile.data] /\ logFile.there \in BOOLEAN
        BY DEF TailsTyped
      <4>2. logFile' = [there |-> logFile.there, data |-> <<>>]
        BY <3>1, <4>1
      <4> QED BY <4>1, <4>2
    <3>2. CASE logFile' = [there |-> FALSE, data |-> <<>>]
      BY <3>2
    <3> QED BY <2>2, <3>1, <3>2
  <2> QED BY <2>1, <2>2, <2>4
<1>2. logFile'.data \in Seq(Chunk) /\ Len(logFile'.data) = 0 /\ DOMAIN logFile'.data = {}
  BY <1>1
<1>3. Flowing(Written)'
  <2>1. DOMAIN Written' = {1}
    BY <1>2 DEF Written
  <2> QED BY <2>1 DEF Flowing, Ends
<1>4. /\ pen' \in [line : 1..(Len(LineLengths) + 1), chunks : Nat]
      /\ IF pen'.line \in WrittenLines THEN pen'.chunks < LineLengths[pen'.line] ELSE pen'.chunks = 0
      /\ lastLine < pen'.line
  <2>1. CASE pen' = pen
    BY <2>1 DEF TailsTyped
  <2>2. CASE pen.chunks > 0 /\ NextChunk(TRUE)
    <3>1. pen.line \in WrittenLines /\ pen.line \in Nat
      BY <2>2, LinesAre DEF TailsTyped
    <3>2. pen' = [line |-> pen.line + 1, chunks |-> 0]
      BY <2>2 DEF NextChunk
    <3> QED BY <3>1, <3>2, LinesAre DEF TailsTyped
  <2> QED BY <1>1, <2>1, <2>2
<1>5. TailsTyped'
  BY <1>1, <1>2, <1>4 DEF TailsTyped
<1>6. Torn \in Nat /\ Loose \in {0, 1} /\ Loose' \in {0, 1}
  BY TornIs DEF Loose, TailsTyped
<1>7. (Torn + Loose <= cuts)'
  <2>1. Torn' = Torn
    BY <1>1, TornStays
  <2>2. cuts \in Nat
    BY DEF TailsTyped
  <2> QED BY <1>1, <1>6, <2>1, <2>2
<1> QED BY <1>1, <1>2, <1>3, <1>4, <1>5, <1>7 DEF Ends

LEMMA WrittenStays ==
    ASSUME Flowing(Written), UNCHANGED <<logFile, pen>>
    PROVE  Flowing(Written)'
<1>1. Written' = Written
  BY DEF Written, PenChunk
<1>2. Flowing(Written')
  BY <1>1
<1> QED BY <1>2 DEF Flowing, Ends

\* A step after which the reader is not reading, or the file and the pen are as before
\* and the reader where it was.
LEMMA NotReadingKeeps ==
    ASSUME TailsInv, UNCHANGED <<logFile, pen, garbled, cuts, lastLine, repeated, tailReader>>, ~Reading',
           partial' = <<>> \/ partial' = partial, tailOffset' \in Nat, tailing'.size \in Nat,
           tailing' = [at |-> tailing'.at, size |-> tailing'.size]
    PROVE  TailsInv'
<1> USE DEF TailsInv
<1>1. partial' \in Seq(Chunk) /\ \A i \in DOMAIN partial' : ~Ends(partial'[i])
  <2>1. CASE partial' = <<>>
    <3>1. <<>> \in Seq(Chunk) /\ DOMAIN <<>> = {}
      OBVIOUS
    <3> QED BY <2>1, <3>1
  <2>2. CASE partial' = partial
    BY <2>2 DEF TailsTyped
  <2> QED BY <2>1, <2>2
<1>2. TailsTyped'
  BY <1>1 DEF TailsTyped
<1>3. Flowing(Written)'
  BY WrittenStays
<1>4. Loose' = 0 /\ Torn' = Torn
  BY TornStays DEF Loose
<1>5. Torn \in Nat /\ Loose \in {0, 1} /\ cuts \in Nat
  BY TornIs DEF Loose, TailsTyped
<1>6. (Torn + Loose <= cuts)'
  BY <1>4, <1>5
<1> QED BY <1>1, <1>2, <1>3, <1>6 DEF Ends

Place == Nat \X Nat

LEMMA ChunksArePlaces == \A c \in Chunk : c \in Place
<1> SUFFICES ASSUME NEW c \in Chunk PROVE c \in Place
  OBVIOUS
<1>1. c \in WrittenLines \X Nat /\ WrittenLines \subseteq Nat
  BY LinesAre DEF Chunk
<1> QED BY <1>1 DEF Place

LEMMA WrittenIs ==
    ASSUME TailsTyped
    PROVE  /\ Len(logFile.data) \in Nat /\ DOMAIN logFile.data = 1..Len(logFile.data)
           /\ \A i \in DOMAIN logFile.data : logFile.data[i] \in Chunk /\ Written[i] = logFile.data[i]
           /\ DOMAIN Written = 1..(Len(logFile.data) + 1) /\ Written[Len(logFile.data) + 1] = PenChunk
           /\ \A i \in DOMAIN Written : Written[i] \in Place
<1> DEFINE n == Len(logFile.data)
<1>1. n \in Nat /\ DOMAIN logFile.data = 1..n /\ \A i \in DOMAIN logFile.data : logFile.data[i] \in Chunk
  BY LenProperties, ElementOfSeq DEF TailsTyped
<1>2. PenChunk \in Place
  BY DEF PenChunk, Place, TailsTyped
<1>3. DOMAIN Written = 1..(n + 1) /\ Written[n + 1] = PenChunk
      /\ \A i \in 1..n : Written[i] = logFile.data[i]
  BY <1>1 DEF Written
<1>4. ASSUME NEW i \in 1..(n + 1) PROVE Written[i] \in Place
  <2>1. i \in 1..n \/ i = n + 1
    BY <1>1
  <2> QED BY <1>1, <1>2, <1>3, <2>1, ChunksArePlaces
<1> QED BY <1>1, <1>3, <1>4

LEMMA UnreadIs ==
    ASSUME TailsTyped, tailOffset <= Len(logFile.data)
    PROVE  /\ Len(partial) + (Len(logFile.data) + 1 - tailOffset) \in Nat \ {0}
           /\ DOMAIN Unread = 1..(Len(partial) + (Len(logFile.data) + 1 - tailOffset))
           /\ Len(partial) \in Nat /\ DOMAIN partial = 1..Len(partial)
           /\ \A i \in DOMAIN partial : partial[i] \in Chunk /\ Unread[i] = partial[i]
           /\ \A i \in DOMAIN Unread : /\ Unread[i] \in Place
                                       /\ i > Len(partial) => Unread[i] = Written[tailOffset + (i - Len(partial))]
           /\ Unread[Len(partial) + (Len(logFile.data) + 1 - tailOffset)] = PenChunk
<1> DEFINE n == Len(logFile.data)  p == Len(partial)  off == tailOffset  N == p + (n + 1 - off)
<1>1. p \in Nat /\ DOMAIN partial = 1..p /\ \A i \in DOMAIN partial : partial[i] \in Chunk
  BY LenProperties, ElementOfSeq DEF TailsTyped
<1>2. n \in Nat /\ off \in Nat /\ off <= n
  BY WrittenIs DEF TailsTyped
<1> HIDE DEF n, p, off
<1>3. N \in Nat \ {0} /\ N > p /\ off + (N - p) = n + 1 /\ \A i \in 1..p : i \in 1..N
  BY <1>1, <1>2
<1>4. Unread = [i \in 1..N |-> IF i <= p THEN partial[i] ELSE Written[off + (i - p)]]
  BY DEF Unread, n, p, off
<1> HIDE DEF N
<1>5. /\ DOMAIN Unread = 1..N
      /\ \A i \in 1..N : Unread[i] = IF i <= p THEN partial[i] ELSE Written[off + (i - p)]
  BY <1>4
<1>6. \A i \in 1..p : Unread[i] = partial[i]
  BY <1>3, <1>5
<1>7. \A i \in 1..N : i > p => Unread[i] = Written[off + (i - p)]
  BY <1>1, <1>5
<1>8. ASSUME NEW i \in 1..N PROVE Unread[i] \in Place
  <2>1. CASE i <= p
    <3>1. i \in 1..p
      BY <1>1, <2>1
    <3> QED BY <1>1, <1>6, <3>1, ChunksArePlaces
  <2>2. CASE ~(i <= p)
    <3>1. off + (i - p) \in 1..(n + 1)
      BY <1>1, <1>2, <2>2 DEF N
    <3>2. i > p
      BY <1>1, <2>2
    <3> QED BY <1>7, <3>1, <3>2, WrittenIs DEF n
  <2> QED BY <2>1, <2>2
<1>9. Unread[N] = PenChunk
  <2>1. N \in 1..N
    BY <1>3
  <2>2. Unread[N] = Written[n + 1]
    BY <1>3, <1>7, <2>1
  <2> QED BY <2>2, WrittenIs DEF n
<1> QED BY <1>1, <1>3, <1>5, <1>6, <1>7, <1>8, <1>9 DEF N, n, p, off

\* The chunk after the last one.
LEMMA GrowFlows ==
    ASSUME NEW N \in Nat \ {0}, NEW s, NEW t, DOMAIN s = 1..N, DOMAIN t = 1..(N + 1), Flowing(s),
           \A i \in 1..N : s[i] \in Place /\ t[i] = s[i],
           t[N + 1] = IF Ends(s[N]) THEN <<s[N][1] + 1, 1>> ELSE <<s[N][1], s[N][2] + 1>>
    PROVE  Flowing(t)
<1> SUFFICES ASSUME NEW i \in 1..(N + 1), NEW j \in 1..(N + 1), i < j
             PROVE  /\ (\A k \in i..(j - 1) : ~Ends(t[k])) => t[j] = <<t[i][1], t[i][2] + (j - i)>>
                    /\ Ends(t[i]) => t[i][1] < t[j][1]
                    /\ Ends(t[i]) /\ j = i + 1 => t[j] = <<t[i][1] + 1, 1>>
  BY DEF Flowing
<1>1. i \in 1..N /\ N \in 1..N /\ t[i] = s[i] /\ s[i] \in Place /\ s[N] \in Place /\ t[N] = s[N]
  OBVIOUS
<1>2. CASE j <= N
  <2>1. j \in 1..N /\ t[j] = s[j] /\ \A k \in i..(j - 1) : k \in 1..N
    BY <1>2
  <2>2. (\A k \in i..(j - 1) : ~Ends(t[k])) => \A k \in i..(j - 1) : ~Ends(s[k])
    BY <2>1
  <2> QED BY <1>1, <2>1, <2>2 DEF Flowing
<1>3. CASE ~(j <= N)
  <2>1. j = N + 1 /\ i <= N /\ t[j][1] \in Nat /\ s[N][1] \in Nat /\ s[i][1] \in Nat /\ s[i][2] \in Nat
        /\ s[N][2] \in Nat
    <3>1. j = N + 1 /\ i <= N
      BY <1>3
    <3>2. s[N][1] \in Nat /\ s[i][1] \in Nat /\ s[i][2] \in Nat /\ s[N][2] \in Nat
      BY <1>1 DEF Place
    <3>3. CASE Ends(s[N])
      BY <3>1, <3>2, <3>3
    <3>4. CASE ~Ends(s[N])
      BY <3>1, <3>2, <3>4
    <3> QED BY <3>1, <3>2, <3>3, <3>4
  <2>2. CASE i = N
    <3>1. /\ j - i = 1 /\ N \in i..(j - 1)
      BY <2>1, <2>2
    <3>2. CASE Ends(s[N])
      <4>1. t[j] = <<s[i][1] + 1, 1>>
        BY <2>1, <2>2, <3>2
      <4>2. s[i][1] < t[j][1]
        BY <2>1, <4>1
      <4>3. ~\A k \in i..(j - 1) : ~Ends(t[k])
        BY <1>1, <3>1, <3>2
      <4> QED BY <1>1, <4>1, <4>2, <4>3
    <3>3. CASE ~Ends(s[N])
      <4>1. t[j] = <<s[i][1], s[i][2] + 1>>
        BY <2>1, <2>2, <3>3
      <4> QED BY <1>1, <2>2, <3>1, <3>3, <4>1
    <3> QED BY <3>2, <3>3
  <2>3. CASE i < N
    <3>1. /\ (\A k \in i..(N - 1) : ~Ends(s[k])) => s[N] = <<s[i][1], s[i][2] + (N - i)>>
          /\ Ends(s[i]) => s[i][1] < s[N][1]
      BY <1>1, <2>3 DEF Flowing
    <3>2. s[N][1] <= t[j][1]
      <4>1. CASE Ends(s[N])
        BY <2>1, <4>1
      <4>2. CASE ~Ends(s[N])
        BY <2>1, <4>2
      <4> QED BY <4>1, <4>2
    <3>3. Ends(t[i]) => t[i][1] < t[j][1]
      BY <1>1, <2>1, <3>1, <3>2
    <3>4. j # i + 1
      BY <2>1, <2>3
    <3>5. ASSUME \A k \in i..(j - 1) : ~Ends(t[k]) PROVE t[j] = <<t[i][1], t[i][2] + (j - i)>>
      <4>1. N \in i..(j - 1) /\ \A k \in i..(N - 1) : k \in i..(j - 1) /\ k \in 1..N
        BY <2>1, <2>3
      <4>2. ~Ends(s[N]) /\ \A k \in i..(N - 1) : ~Ends(s[k])
        BY <1>1, <3>5, <4>1
      <4>3. s[N] = <<s[i][1], s[i][2] + (N - i)>>
        BY <3>1, <4>2
      <4>4. t[j] = <<s[N][1], s[N][2] + 1>>
        BY <2>1, <4>2
      <4>5. s[N][1] = s[i][1] /\ s[N][2] + 1 = s[i][2] + (j - i)
        <5>1. s[N][1] = s[i][1] /\ s[N][2] = s[i][2] + (N - i)
          BY <4>3
        <5> QED BY <2>1, <5>1
      <4> QED BY <1>1, <4>4, <4>5
    <3> QED BY <3>3, <3>4, <3>5
  <2> QED BY <2>1, <2>2, <2>3
<1> QED BY <1>2, <1>3

LEMMA LessTorn ==
    ASSUME NEW t \in Nat, NEW x \in Nat, NEW y \in Nat, NEW c \in Nat, t + x <= c, y <= x
    PROVE  t + y <= c
  OBVIOUS

LEMMA OneMore ==
    ASSUME NEW t \in Nat, NEW c \in Nat, NEW x \in {0, 1}, t <= c
    PROVE  t + x <= c + 1
  OBVIOUS

LEMMA NotLoose ==
    ASSUME NEW t \in Nat, NEW x, NEW c, x = 0, t <= c
    PROVE  t + x <= c
  OBVIOUS

\* The next chunk is written: the line goes on, or the next one begins.
LEMMA WriteKeeps ==
    ASSUME TailsInv, WriteChunk
    PROVE  TailsInv'
<1> USE DEF TailsInv
<1> DEFINE n == Len(logFile.data)  p == Len(partial)  off == tailOffset
<1>1. /\ pen.line \in WrittenLines /\ logFile.there
      /\ logFile' = [logFile EXCEPT !.data = Append(@, PenChunk)]
      /\ NextChunk(pen.chunks + 1 = LineLengths[pen.line])
      /\ UNCHANGED <<tailReader, tailOffset, partial, tailing, told, cuts>>
  BY DEF WriteChunk, PenChunk
<1>2. UNCHANGED <<tailReader, tailOffset, partial, tailing, lastLine, repeated, garbled, cuts>>
  BY <1>1 DEF told
<1>3. /\ n \in Nat /\ DOMAIN logFile.data = 1..n /\ \A i \in 1..n : logFile.data[i] \in Chunk
      /\ off \in Nat /\ pen.line \in Nat /\ pen.chunks \in Nat /\ pen.line \in 1..Len(LineLengths)
      /\ pen.chunks < LineLengths[pen.line] /\ LineLengths[pen.line] \in Nat
  BY <1>1, WrittenIs, LinesAre DEF TailsTyped
<1>4. PenChunk \in Chunk
  <2>1. PenChunk[1] = pen.line /\ PenChunk[2] = pen.chunks + 1 /\ PenChunk \in WrittenLines \X Nat
    BY <1>1, <1>3 DEF PenChunk
  <2> QED BY <1>3, <2>1 DEF Chunk
<1>5. logFile' = [there |-> logFile.there, data |-> Append(logFile.data, PenChunk)]
  <2>1. logFile = [there |-> logFile.there, data |-> logFile.data]
    BY DEF TailsTyped
  <2> QED BY <1>1, <2>1
<1>6. /\ logFile'.data \in Seq(Chunk) /\ Len(logFile'.data) = n + 1
      /\ \A i \in 1..n : logFile'.data[i] = logFile.data[i]
      /\ logFile'.data[n + 1] = PenChunk
  <2>1. logFile.data \in Seq(Chunk) /\ logFile'.data = Append(logFile.data, PenChunk)
    BY <1>5 DEF TailsTyped
  <2> QED BY <1>4, <2>1, AppendProperties
<1>7. /\ pen' = IF Ends(PenChunk) THEN [line |-> pen.line + 1, chunks |-> 0]
                ELSE [line |-> pen.line, chunks |-> pen.chunks + 1]
  <2>1. Ends(PenChunk) <=> pen.chunks + 1 = LineLengths[pen.line]
    BY DEF Ends, PenChunk
  <2>2. pen = [line |-> pen.line, chunks |-> pen.chunks]
    BY DEF TailsTyped
  <2>3. [pen EXCEPT !.chunks = @ + 1] = [line |-> pen.line, chunks |-> pen.chunks + 1]
    BY <2>2
  <2> QED BY <1>1, <2>1, <2>3 DEF NextChunk
<1>8. /\ pen' \in [line : 1..(Len(LineLengths) + 1), chunks : Nat]
      /\ IF pen'.line \in WrittenLines THEN pen'.chunks < LineLengths[pen'.line] ELSE pen'.chunks = 0
      /\ pen.line <= pen'.line
  <2>1. CASE Ends(PenChunk)
    <3>1. pen'.line = pen.line + 1 /\ pen'.chunks = 0 /\ pen' \in [line : 1..(Len(LineLengths) + 1), chunks : Nat]
      BY <1>3, <1>7, <2>1, LinesAre
    <3> QED BY <1>3, <3>1, LinesAre
  <2>2. CASE ~Ends(PenChunk)
    <3>1. pen.chunks + 1 # LineLengths[pen.line]
      BY <2>2 DEF Ends, PenChunk
    <3>2. pen'.line = pen.line /\ pen'.chunks = pen.chunks + 1
          /\ pen' \in [line : 1..(Len(LineLengths) + 1), chunks : Nat]
      BY <1>3, <1>7, <2>2, LinesAre
    <3> QED BY <1>1, <1>3, <3>1, <3>2
  <2> QED BY <2>1, <2>2
<1>9. PenChunk' = IF Ends(PenChunk) THEN <<PenChunk[1] + 1, 1>> ELSE <<PenChunk[1], PenChunk[2] + 1>>
  <2>1. PenChunk' = <<pen'.line, pen'.chunks + 1>> /\ PenChunk[1] = pen.line /\ PenChunk[2] = pen.chunks + 1
    BY DEF PenChunk
  <2> QED BY <1>7, <2>1
<1>10. TailsTyped'
  <2>1. logFile'.there = logFile.there /\ logFile' = [there |-> logFile'.there, data |-> logFile'.data]
    BY <1>5
  <2> QED BY <1>1, <1>2, <1>6, <1>8, <2>1 DEF TailsTyped
<1>11. /\ DOMAIN Written = 1..(n + 1) /\ Written[n + 1] = PenChunk /\ \A i \in 1..(n + 1) : Written[i] \in Place
       /\ DOMAIN Written' = 1..((n + 1) + 1) /\ Written'[(n + 1) + 1] = PenChunk'
       /\ \A i \in 1..(n + 1) : Written'[i] = Written[i]
  <2>1. /\ DOMAIN Written = 1..(n + 1) /\ Written[n + 1] = PenChunk /\ \A i \in 1..(n + 1) : Written[i] \in Place
        /\ \A i \in 1..n : Written[i] = logFile.data[i]
    BY <1>3, WrittenIs
  <2>2. Written' = [i \in 1..((n + 1) + 1) |-> IF i <= n + 1 THEN logFile'.data[i] ELSE PenChunk']
    BY <1>6 DEF Written
  <2>3. DOMAIN Written' = 1..((n + 1) + 1) /\ Written'[(n + 1) + 1] = PenChunk'
        /\ \A i \in 1..(n + 1) : Written'[i] = logFile'.data[i]
    <3> HIDE DEF n
    <3> QED BY <1>3, <2>2
  <2>4. \A i \in 1..(n + 1) : Written'[i] = Written[i]
    <3> SUFFICES ASSUME NEW i \in 1..(n + 1) PROVE Written'[i] = Written[i]
      OBVIOUS
    <3>1. i \in 1..n \/ i = n + 1
      BY <1>3
    <3> QED BY <1>6, <2>1, <2>3, <3>1
  <2> QED BY <2>1, <2>3, <2>4
<1>12. Flowing(Written')
  <2>1. n + 1 \in Nat \ {0}
    BY <1>3
  <2>2. Written'[(n + 1) + 1] = IF Ends(Written[n + 1]) THEN <<Written[n + 1][1] + 1, 1>>
                                ELSE <<Written[n + 1][1], Written[n + 1][2] + 1>>
    BY <1>9, <1>11
  <2> QED BY <1>11, <2>1, <2>2, GrowFlows
<1>13. Flowing(Written)'
  BY <1>12 DEF Flowing, Ends
<1>14. Clean => Clean'
  <2> SUFFICES ASSUME Clean PROVE Clean'
    OBVIOUS
  <2> DEFINE N == p + (n + 1 - off)
  <2>1. off <= n
    BY DEF Clean
  <2>2. /\ N \in Nat \ {0} /\ DOMAIN Unread = 1..N /\ p \in Nat
        /\ \A i \in 1..p : Unread[i] = partial[i]
        /\ \A i \in 1..N : Unread[i] \in Place /\ (i > p => Unread[i] = Written[off + (i - p)])
        /\ Unread[N] = PenChunk
    BY <2>1, UnreadIs
  <2> HIDE DEF n, p, off
  <2>3. Unread' = [i \in 1..(N + 1) |-> IF i <= p THEN partial[i] ELSE Written'[off + (i - p)]]
    <3>1. Unread' = [i \in 1..(p + ((n + 1) + 1 - off)) |-> IF i <= p THEN partial[i] ELSE Written'[off + (i - p)]]
      BY <1>2, <1>6 DEF Unread, n, p, off
    <3>2. p + ((n + 1) + 1 - off) = N + 1
      BY <1>3, <2>2
    <3> QED BY <3>1, <3>2
  <2>4. N > p /\ off + ((N + 1) - p) = (n + 1) + 1
    BY <1>3, <2>1, <2>2
  <2>5. \A i \in 1..N : i > p => off + (i - p) \in 1..(n + 1)
    BY <1>3, <2>1, <2>2
  <2> HIDE DEF N
  <2>6. /\ DOMAIN Unread' = 1..(N + 1)
        /\ \A i \in 1..(N + 1) : Unread'[i] = IF i <= p THEN partial[i] ELSE Written'[off + (i - p)]
    BY <2>3
  <2>7. Unread'[N + 1] = PenChunk'
    <3>1. N + 1 \in 1..(N + 1) /\ ~(N + 1 <= p)
      BY <2>2, <2>4
    <3>2. Unread'[N + 1] = Written'[(n + 1) + 1]
      BY <2>4, <2>6, <3>1
    <3> QED BY <1>11, <3>2
  <2>8. \A i \in 1..N : Unread'[i] = Unread[i]
    <3> SUFFICES ASSUME NEW i \in 1..N PROVE Unread'[i] = Unread[i]
      OBVIOUS
    <3>0. i \in 1..(N + 1)
      BY <2>2
    <3>1. CASE i <= p
      <4>1. i \in 1..p
        BY <2>2, <3>1
      <4> QED BY <2>2, <2>6, <3>0, <3>1, <4>1
    <3>2. CASE ~(i <= p)
      <4>1. i > p
        BY <2>2, <3>2
      <4>2. Unread[i] = Written[off + (i - p)] /\ off + (i - p) \in 1..(n + 1)
        BY <2>2, <2>5, <4>1
      <4>3. Unread'[i] = Written'[off + (i - p)]
        BY <2>6, <3>0, <3>2
      <4> QED BY <1>11, <4>2, <4>3
    <3> QED BY <3>1, <3>2
  <2>9. Flowing(Unread')
    <3>1. Flowing(Unread)
      BY DEF Clean
    <3>2. Unread'[N + 1] = IF Ends(Unread[N]) THEN <<Unread[N][1] + 1, 1>> ELSE <<Unread[N][1], Unread[N][2] + 1>>
      BY <1>9, <2>2, <2>7
    <3> QED BY <2>2, <2>6, <2>8, <3>1, <3>2, GrowFlows
  <2>10. Unread'[1] = Unread[1]
    <3>1. 1 \in 1..N
      BY <2>2
    <3> QED BY <2>8, <3>1
  <2>11. tailOffset' <= Len(logFile'.data)
    BY <1>2, <1>3, <1>6, <2>1 DEF n, off
  <2>12. (Flowing(Unread))'
    BY <2>9 DEF Flowing, Ends
  <2>13. TooLong' = TooLong
    BY <1>2 DEF TooLong
  <2>14. (Unread[1][2] = 1 \/ Unread[1][1] \in TooLong)'
    <3>1. Unread[1][2] = 1 \/ Unread[1][1] \in TooLong
      BY DEF Clean
    <3> QED BY <2>10, <2>13, <3>1
  <2>15. (tailOffset <= Len(logFile.data))'
    BY <2>11
  <2> QED BY <2>12, <2>14, <2>15 DEF Clean
<1>15. (Torn + Loose <= cuts)'
  <2>1. Torn' = Torn /\ Torn \in Nat /\ cuts \in Nat
    BY <1>2, TornStays, TornIs DEF TailsTyped
  <2>2. Loose \in {0, 1} /\ Loose' \in {0, 1} /\ (Loose = 0 => Loose' = 0)
    BY <1>2, <1>14 DEF Loose, Reading
  <2>3. cuts' = cuts /\ Torn + Loose <= cuts
    BY <1>2
  <2>4. Loose' <= Loose /\ Loose \in Nat /\ Loose' \in Nat
    BY <2>2
  <2>5. Torn + Loose' <= cuts
    BY <2>1, <2>3, <2>4, LessTorn
  <2>6. Torn' + Loose' <= cuts'
    BY <2>1, <2>3, <2>5
  <2> QED BY <2>6
<1>16. lastLine' < pen'.line
  <2>1. lastLine \in Nat /\ pen'.line \in Nat
    BY <1>8 DEF TailsTyped
  <2> QED BY <1>2, <1>3, <1>8, <2>1
<1>17. ASSUME Reading', NEW i \in DOMAIN logFile'.data,
              tailOffset' <= Len(logFile'.data) => i > tailOffset', Ends(logFile'.data[i])
       PROVE  lastLine' < logFile'.data[i][1]
  <2>0. Reading /\ tailOffset' = off /\ lastLine' = lastLine
    BY <1>2, <1>17 DEF Reading
  <2>1. i \in 1..n \/ i = n + 1
    <3>1. DOMAIN logFile'.data = 1..(n + 1)
      BY <1>6, LenProperties
    <3> QED BY <1>3, <1>17, <3>1
  <2>2. CASE i = n + 1
    BY <1>6, <2>0, <2>2 DEF PenChunk
  <2>3. CASE i \in 1..n
    <3>1. off <= n => i > off
      BY <1>3, <1>6, <1>17, <2>0, <2>3
    <3>2. Ends(logFile.data[i])
      BY <1>6, <1>17, <2>3
    <3> QED BY <1>3, <1>6, <2>0, <2>3, <3>1, <3>2
  <2> QED BY <2>1, <2>2, <2>3
<1>18. (Reading => \A i \in DOMAIN logFile.data :
          (tailOffset <= Len(logFile.data) => i > tailOffset) /\ Ends(logFile.data[i])
              => lastLine < logFile.data[i][1])'
  BY <1>17 DEF Ends
<1>19. (\A i \in DOMAIN partial : ~Ends(partial[i]))' /\ ~repeated'
  BY <1>2 DEF Ends
<1> QED BY <1>10, <1>13, <1>15, <1>16, <1>18, <1>19

\* A step that leaves what is read and what is there alone.
LEMMA SameKeeps ==
    ASSUME TailsInv,
           UNCHANGED <<logFile, pen, garbled, cuts, lastLine, repeated, tailReader, partial, tailOffset>>,
           Reading' <=> Reading, tailing'.size \in Nat,
           tailing' = [at |-> tailing'.at, size |-> tailing'.size]
    PROVE  TailsInv'
<1> USE DEF TailsInv
<1>1. TailsTyped'
  BY DEF TailsTyped
<1>2. Flowing(Written)'
  BY WrittenStays
<1>3. Clean' <=> Clean
  <2>1. Unread' = Unread /\ TooLong' = TooLong
    BY DEF Unread, Written, PenChunk, TooLong
  <2>2. Flowing(Unread)' <=> Flowing(Unread)
    BY <2>1 DEF Flowing, Ends
  <2> QED BY <2>1, <2>2 DEF Clean
<1>4. Loose' = Loose /\ Torn' = Torn
  BY <1>3, TornStays DEF Loose
<1>5. Torn' + Loose' <= cuts'
  BY <1>4
<1>6. (\A i \in DOMAIN partial : ~Ends(partial[i]))' /\ ~repeated' /\ (lastLine < pen.line)'
  BY DEF Ends
<1>7. (Reading => \A i \in DOMAIN logFile.data :
          (tailOffset <= Len(logFile.data) => i > tailOffset) /\ Ends(logFile.data[i])
              => lastLine < logFile.data[i][1])'
  BY DEF Ends
<1> QED BY <1>1, <1>2, <1>5, <1>6, <1>7

\* It begins at the end of the file, maybe in the middle of a line.
LEMMA StartKeeps ==
    ASSUME TailsInv, TailStart
    PROVE  TailsInv'
<1> USE DEF TailsInv
<1> DEFINE n == Len(logFile.data)
<1>1. UNCHANGED <<logFile, pen, garbled, lastLine, repeated, tailReader>> /\ partial' = <<>> /\ ~Reading
  BY DEF TailStart, told, Reading
<1>2. CASE ~logFile.there
  <2>1. tailOffset' = 0 /\ tailing' = [at |-> "wait", size |-> 0] /\ UNCHANGED cuts
    BY <1>2 DEF TailStart
  <2>2. ~Reading'
    BY <2>1 DEF Reading
  <2> QED BY <1>1, <2>1, <2>2, NotReadingKeeps
<1>3. CASE logFile.there
  <2>1. /\ tailOffset' = n /\ tailing' = [at |-> "tick", size |-> 0]
        /\ cuts' = IF pen.chunks > 0 THEN cuts + 1 ELSE cuts
    BY <1>3 DEF TailStart, BeginsAt
  <2>2. n \in Nat /\ DOMAIN logFile.data = 1..n
    BY WrittenIs
  <2>3. partial' \in Seq(Chunk) /\ DOMAIN partial' = {} /\ Len(partial') = 0
    BY <1>1
  <2>4. TailsTyped'
    BY <1>1, <2>1, <2>2, <2>3 DEF TailsTyped
  <2>5. Flowing(Written)'
    BY <1>1, WrittenStays
  <2>6. pen.chunks = 0 => Clean'
    <3> SUFFICES ASSUME pen.chunks = 0 PROVE Clean'
      OBVIOUS
    <3>1. Written' = Written /\ Written[n + 1] = PenChunk
      BY <1>1, WrittenIs DEF Written, PenChunk
    <3>2. DOMAIN Unread' = 1..1 /\ Unread'[1] = PenChunk
      <4>1. Unread' = [i \in 1..(0 + (n + 1 - n)) |->
                          IF i <= 0 THEN partial'[i] ELSE Written[n + (i - 0)]]
        BY <1>1, <2>1, <2>3, <3>1 DEF Unread
      <4>2. 0 + (n + 1 - n) = 1 /\ n + (1 - 0) = n + 1 /\ ~(1 <= 0)
        BY <2>2
      <4> HIDE DEF n
      <4> QED BY <3>1, <4>1, <4>2
    <3>3. Flowing(Unread)'
      <4>1. \A i, j \in DOMAIN Unread' : ~(i < j)
        BY <3>2
      <4> QED BY <4>1 DEF Flowing
    <3>4. (tailOffset <= Len(logFile.data))'
      BY <1>1, <2>1, <2>2
    <3>5. (Unread[1][2] = 1 \/ Unread[1][1] \in TooLong)'
      BY <3>2 DEF PenChunk
    <3> QED BY <3>3, <3>4, <3>5 DEF Clean
  <2>7. Torn' + Loose' <= cuts'
    <3>1. Torn' = Torn /\ Torn \in Nat /\ cuts \in Nat /\ pen.chunks \in Nat
      BY <1>1, TornStays, TornIs DEF TailsTyped
    <3>2. Loose = 0 /\ Loose' \in {0, 1} /\ (pen.chunks = 0 => Loose' = 0)
      BY <1>1, <2>6 DEF Loose
    <3>3. Torn <= cuts
      BY <3>1, <3>2
    <3>4. CASE pen.chunks = 0
      <4>1. Loose' = 0 /\ cuts' = cuts
        BY <2>1, <3>2, <3>4
      <4>2. Torn + Loose' <= cuts
        BY <3>1, <3>3, <4>1, NotLoose
      <4> QED BY <3>1, <4>1, <4>2
    <3>5. CASE pen.chunks # 0
      <4>1. cuts' = cuts + 1
        BY <2>1, <3>1, <3>5
      <4>2. Torn + Loose' <= cuts + 1
        BY <3>1, <3>2, <3>3, OneMore
      <4> QED BY <3>1, <4>1, <4>2
    <3> QED BY <3>4, <3>5
  <2>8. (Reading => \A i \in DOMAIN logFile.data :
            (tailOffset <= Len(logFile.data) => i > tailOffset) /\ Ends(logFile.data[i])
                => lastLine < logFile.data[i][1])'
    BY <1>1, <2>1, <2>2
  <2>9. (\A i \in DOMAIN partial : ~Ends(partial[i]))' /\ ~repeated' /\ (lastLine < pen.line)'
    BY <1>1, <2>3
  <2> QED BY <2>4, <2>5, <2>7, <2>8, <2>9
<1> QED BY <1>2, <1>3

\* It looks at the size of the file.
LEMMA TickKeeps ==
    ASSUME TailsInv, TailTick
    PROVE  TailsInv'
<1> USE DEF TailsInv
<1> DEFINE n == Len(logFile.data)
<1>1. /\ UNCHANGED <<logFile, pen, garbled, lastLine, repeated, tailReader, partial, cuts>>
      /\ Reading /\ tailing.at = "tick"
  BY DEF TailTick, told, Reading
<1>2. n \in Nat /\ DOMAIN logFile.data = 1..n
  BY WrittenIs
<1>3. CASE ~logFile.there
  <2>1. tailing' = [at |-> "wait", size |-> 0] /\ UNCHANGED tailOffset
    BY <1>3 DEF TailTick
  <2>2. ~Reading' /\ tailOffset' \in Nat
    BY <2>1 DEF Reading, TailsTyped
  <2> QED BY <1>1, <2>1, <2>2, NotReadingKeeps
<1>4. CASE tailing' = [at |-> "read", size |-> n] /\ UNCHANGED tailOffset
  <2>1. Reading'
    BY <1>4 DEF Reading
  <2> QED BY <1>1, <1>2, <1>4, <2>1, SameKeeps
<1>5. CASE n < tailOffset /\ Shrunk /\ UNCHANGED tailing
  <2>1. tailOffset' = 0 /\ Reading' /\ tailOffset \in Nat
    BY <1>1, <1>5 DEF Shrunk, Reading, TailsTyped
  <2>2. TailsTyped'
    BY <1>1, <1>5, <2>1 DEF TailsTyped
  <2>3. Flowing(Written)'
    BY <1>1, WrittenStays
  <2>4. Torn' + Loose' <= cuts'
    <3>1. Torn' = Torn /\ Torn \in Nat /\ cuts \in Nat
      BY <1>1, TornStays, TornIs DEF TailsTyped
    <3>2. Loose = 1 /\ Loose' \in {0, 1}
      BY <1>1, <1>2, <1>5, <2>1 DEF Loose, Clean
    <3>3. Torn + 1 <= cuts /\ Loose' \in Nat /\ Loose' <= 1
      BY <3>2
    <3>4. Torn + Loose' <= cuts
      BY <3>1, <3>3, LessTorn
    <3> QED BY <1>1, <3>1, <3>4
  <2>5. (Reading => \A i \in DOMAIN logFile.data :
            (tailOffset <= Len(logFile.data) => i > tailOffset) /\ Ends(logFile.data[i])
                => lastLine < logFile.data[i][1])'
    <3>1. ASSUME NEW i \in 1..n, Ends(logFile.data[i]) PROVE lastLine < logFile.data[i][1]
      BY <1>1, <1>2, <1>5, <2>1, <3>1
    <3> QED BY <1>1, <1>2, <3>1 DEF Ends
  <2>6. (\A i \in DOMAIN partial : ~Ends(partial[i]))' /\ ~repeated' /\ (lastLine < pen.line)'
    BY <1>1 DEF Ends
  <2> QED BY <2>2, <2>3, <2>4, <2>5, <2>6
<1> QED BY <1>3, <1>4, <1>5 DEF TailTick

\* The file is made again, the goroutine is started, canceled or gone.
LEMMA RestKeeps ==
    ASSUME TailsInv, CreateLog \/ ConfigureLog \/ HotReload \/ TailRetry \/ LeaveTail
    PROVE  TailsInv'
<1> USE DEF TailsInv
<1>1. CASE CreateLog
  <2>1. logFile.data = <<>> /\ logFile' = [there |-> TRUE, data |-> <<>>]
        /\ UNCHANGED <<pen, garbled, cuts, lastLine, repeated, tailReader, partial, tailOffset, tailing>>
    BY <1>1 DEF CreateLog, told, TailsTyped
  <2>2. TailsTyped'
    BY <2>1 DEF TailsTyped
  <2>3. logFile'.data = logFile.data
    BY <2>1
  <2>4. Written' = Written /\ TooLong' = TooLong /\ (Reading' <=> Reading)
    BY <2>1, <2>3 DEF Written, PenChunk, TooLong, Reading
  <2>5. Unread' = Unread
    BY <2>1, <2>3, <2>4 DEF Unread
  <2>6. (Flowing(Written)' <=> Flowing(Written)) /\ (Flowing(Unread)' <=> Flowing(Unread))
    BY <2>4, <2>5 DEF Flowing, Ends
  <2>7. Clean' <=> Clean
    BY <2>1, <2>3, <2>4, <2>5, <2>6 DEF Clean
  <2>8. Torn' + Loose' <= cuts'
    <3>1. Torn' = Torn /\ Loose' = Loose
      BY <2>1, <2>4, <2>7, TornStays DEF Loose
    <3> QED BY <2>1, <3>1
  <2>9. DOMAIN logFile'.data = {}
    BY <2>1
  <2> QED BY <2>1, <2>2, <2>6, <2>8, <2>9 DEF Ends
<1>2. CASE ConfigureLog \/ (HotReload /\ UNCHANGED tailing)
  <2>1. UNCHANGED <<logFile, pen, garbled, cuts, lastLine, repeated, tailReader, partial, tailOffset, tailing>>
    BY <1>2 DEF ConfigureLog, HotReload, told
  <2>2. (Reading' <=> Reading) /\ tailing'.size \in Nat /\ tailing' = [at |-> tailing'.at, size |-> tailing'.size]
    BY <2>1 DEF Reading, TailsTyped
  <2> QED BY <2>1, <2>2, SameKeeps
<1>3. CASE TailRetry \/ (HotReload /\ tailing' = [at |-> "start", size |-> 0])
  <2>1. UNCHANGED <<logFile, pen, garbled, cuts, lastLine, repeated, tailReader, partial, tailOffset>>
    BY <1>3 DEF TailRetry, HotReload, told
  <2>2. tailing'.at = "start" /\ tailing'.size \in Nat /\ tailing' = [at |-> tailing'.at, size |-> tailing'.size]
    <3>1. CASE TailRetry
      <4>1. tailing = [at |-> tailing.at, size |-> tailing.size] /\ tailing.size \in Nat
        BY DEF TailsTyped
      <4>2. tailing' = [at |-> "start", size |-> tailing.size]
        BY <3>1, <4>1 DEF TailRetry
      <4> QED BY <4>1, <4>2
    <3> QED BY <1>3, <3>1
  <2>3. ~Reading' /\ tailOffset' \in Nat
    BY <2>1, <2>2 DEF Reading, TailsTyped
  <2> QED BY <2>1, <2>2, <2>3, NotReadingKeeps
<1>4. CASE LeaveTail
  <2>1. /\ UNCHANGED <<logFile, pen, garbled, cuts, lastLine, repeated, tailReader>>
        /\ partial' = <<>> /\ tailOffset' = 0 /\ tailing' = [at |-> "gone", size |-> 0]
    BY <1>4 DEF LeaveTail, told, TailGone
  <2>2. ~Reading'
    BY <2>1 DEF Reading
  <2> QED BY <2>1, <2>2, NotReadingKeeps
<1> QED BY <1>1, <1>2, <1>3, <1>4 DEF HotReload

----------------------------------------------------------------------------
\* What the reader takes, what it then holds, and what is left of that after the lines.
Got == SubSeq(logFile.data, tailOffset + 1, UpTo(tailing.size))
InHand == partial \o Got
LeftOver == SubSeq(InHand, LastEnd(InHand) + 1, Len(InHand))

LEMMA GotIs ==
    ASSUME TailsTyped
    PROVE  /\ Got \in Seq(Chunk) /\ Len(Got) \in Nat
           /\ tailOffset > Len(logFile.data) => Len(Got) = 0
           /\ tailOffset <= Len(logFile.data) => tailOffset + Len(Got) <= Len(logFile.data)
           /\ \A i \in 1..Len(Got) : /\ tailOffset + i \in 1..Len(logFile.data)
                                     /\ Got[i] = logFile.data[tailOffset + i]
<1> DEFINE n == Len(logFile.data)  off == tailOffset  hi == UpTo(tailing.size)
<1>1. n \in Nat /\ DOMAIN logFile.data = 1..n /\ \A i \in 1..n : logFile.data[i] \in Chunk
  BY WrittenIs
<1>2. off \in Nat /\ tailing.size \in Nat /\ MailRead \in Nat
  BY TailAssumption DEF TailsTyped
<1>3. hi \in Nat /\ hi <= n
  <2> DEFINE wanted == IF tailReader = "mail" /\ tailing.size - tailOffset > MailRead
                       THEN tailOffset + MailRead ELSE tailing.size
  <2>1. wanted \in Nat
    BY <1>2
  <2>2. hi = IF wanted > n THEN n ELSE wanted
    BY DEF UpTo
  <2> HIDE DEF wanted, hi, n
  <2> QED BY <1>1, <2>1, <2>2
<1> HIDE DEF hi, n, off
<1>4. \A i \in (off + 1)..hi : logFile.data[i] \in Chunk
  BY <1>1, <1>2, <1>3
<1>5. Got = SubSeq(logFile.data, off + 1, hi)
  BY DEF Got, hi, off
<1>6. /\ Got \in Seq(Chunk) /\ Len(Got) = IF off + 1 <= hi THEN hi - (off + 1) + 1 ELSE 0
      /\ \A i \in 1..(hi - (off + 1) + 1) : Got[i] = logFile.data[(off + 1) + i - 1]
  BY <1>2, <1>3, <1>4, <1>5, SubSeqProperties
<1>7. ASSUME NEW i \in 1..Len(Got) PROVE off + i \in 1..n /\ Got[i] = logFile.data[off + i]
  <2>1. i \in Nat /\ i \in 1..(hi - (off + 1) + 1) /\ (off + 1) + i - 1 = off + i /\ off + i \in 1..n
    BY <1>1, <1>2, <1>3, <1>6
  <2>2. Got[i] = logFile.data[(off + 1) + i - 1]
    BY <1>6, <2>1
  <2> QED BY <2>1, <2>2
<1>8. Len(Got) \in Nat /\ (off > n => Len(Got) = 0) /\ (off <= n => off + Len(Got) <= n)
  BY <1>1, <1>2, <1>3, <1>6
<1> QED BY <1>6, <1>7, <1>8 DEF n, off

LEMMA HeldIs ==
    ASSUME TailsTyped
    PROVE  /\ InHand \in Seq(Chunk) /\ Len(InHand) = Len(partial) + Len(Got) /\ Len(partial) \in Nat
           /\ \A i \in 1..Len(partial) : InHand[i] = partial[i]
           /\ \A i \in 1..Len(InHand) : i > Len(partial) =>
                 /\ tailOffset + (i - Len(partial)) \in 1..Len(logFile.data)
                 /\ InHand[i] = logFile.data[tailOffset + (i - Len(partial))]
<1>1. Len(partial) \in Nat /\ DOMAIN partial = 1..Len(partial) /\ partial \in Seq(Chunk)
  BY LenProperties DEF TailsTyped
<1>2. Got \in Seq(Chunk) /\ Len(Got) \in Nat
  BY GotIs
<1>3. InHand \in Seq(Chunk) /\ Len(InHand) = Len(partial) + Len(Got)
      /\ \A i \in 1..(Len(partial) + Len(Got)) :
            InHand[i] = IF i <= Len(partial) THEN partial[i] ELSE Got[i - Len(partial)]
  BY <1>1, <1>2, ConcatProperties DEF InHand
<1>4. \A i \in 1..Len(partial) : InHand[i] = partial[i]
  BY <1>1, <1>2, <1>3
<1>5. ASSUME NEW i \in 1..Len(InHand), i > Len(partial)
      PROVE  /\ tailOffset + (i - Len(partial)) \in 1..Len(logFile.data)
             /\ InHand[i] = logFile.data[tailOffset + (i - Len(partial))]
  <2>1. i - Len(partial) \in 1..Len(Got) /\ ~(i <= Len(partial)) /\ i \in 1..(Len(partial) + Len(Got))
    BY <1>1, <1>2, <1>3, <1>5
  <2> QED BY <1>3, <2>1, GotIs
<1> QED BY <1>1, <1>3, <1>4, <1>5

\* A line ends in what has come: its end is in the file, and was not handed on before.
LEMMA EndIs ==
    ASSUME TailsInv, Reading, NEW i \in EndsOf(InHand)
    PROVE  /\ i \in 1..Len(InHand) /\ i > Len(partial) /\ tailOffset <= Len(logFile.data)
           /\ Ends(InHand[i]) /\ InHand[i] \in Chunk /\ InHand[i][1] \in Nat
           /\ lastLine < InHand[i][1]
<1> USE DEF TailsInv
<1>1. InHand \in Seq(Chunk) /\ Len(InHand) = Len(partial) + Len(Got) /\ Len(partial) \in Nat /\ Len(Got) \in Nat
  BY HeldIs, GotIs
<1>2. i \in 1..Len(InHand) /\ Ends(InHand[i]) /\ InHand[i] \in Chunk
  BY <1>1, EndsAre
<1>3. i > Len(partial)
  <2> SUFFICES ASSUME ~(i > Len(partial)) PROVE FALSE
    OBVIOUS
  <2>1. i \in 1..Len(partial) /\ DOMAIN partial = 1..Len(partial)
    BY <1>1, <1>2, LenProperties DEF TailsTyped
  <2> QED BY <1>2, <2>1, HeldIs
<1>4. tailOffset <= Len(logFile.data) /\ tailOffset \in Nat
  <2>1. Len(Got) # 0 /\ tailOffset \in Nat /\ Len(logFile.data) \in Nat
    BY <1>1, <1>2, <1>3, WrittenIs DEF TailsTyped
  <2> QED BY <2>1, GotIs
<1>5. /\ tailOffset + (i - Len(partial)) \in DOMAIN logFile.data
      /\ InHand[i] = logFile.data[tailOffset + (i - Len(partial))]
      /\ tailOffset + (i - Len(partial)) > tailOffset
  BY <1>1, <1>2, <1>3, <1>4, HeldIs, WrittenIs
<1> QED BY <1>2, <1>3, <1>4, <1>5, ChunkIs

\* What has come is in the file where it was: its chunks follow each other as those of
\* the file do.
LEMMA HeldWritten ==
    ASSUME TailsTyped, tailOffset <= Len(logFile.data)
    PROVE  /\ tailOffset \in Nat /\ Len(logFile.data) \in Nat
           /\ \A i \in 1..Len(InHand) : i > Len(partial) =>
                 /\ tailOffset + (i - Len(partial)) \in 1..Len(logFile.data)
                 /\ InHand[i] = Written[tailOffset + (i - Len(partial))]
  BY HeldIs, WrittenIs DEF TailsTyped

\* A line that begins after the end of another in what has come is handed on whole.
LEMMA LaterIsWhole ==
    ASSUME TailsInv, Reading, NEW i \in EndsOf(InHand), NEW a \in 1..i, LineFrom(InHand, i, a), a # 1
    PROVE  LineTo(InHand, i) = Whole(InHand[i][1])
<1> USE DEF TailsInv
<1> DEFINE p == Len(partial)  off == tailOffset  n == Len(logFile.data)  Q(k) == off + (k - p)
<1>1. InHand \in Seq(Chunk) /\ Len(InHand) \in Nat /\ p \in Nat
  BY HeldIs, GotIs
<1>2. off <= n /\ off \in Nat /\ n \in Nat /\ i \in 1..Len(InHand) /\ i > p
  BY EndIs, HeldWritten
<1>3. a - 1 \in EndsOf(InHand) /\ a - 1 > p /\ a - 1 \in 1..Len(InHand) /\ Ends(InHand[a - 1])
  <2>1. a - 1 \in EndsOf(InHand)
    BY DEF LineFrom
  <2> QED BY <2>1, EndIs
<1>4. \A k \in 1..Len(InHand) : k > p => Q(k) \in 1..n /\ InHand[k] = Written[Q(k)]
  BY <1>2, HeldWritten
<1>5. DOMAIN Written = 1..(n + 1)
  BY WrittenIs
<1> HIDE DEF p, off, n
<1>6. InHand[a][2] = 1
  <2>1. a \in 1..Len(InHand) /\ a > p /\ Q(a) = Q(a - 1) + 1
    BY <1>1, <1>2, <1>3
  <2>2. Q(a - 1) \in 1..n /\ InHand[a - 1] = Written[Q(a - 1)] /\ Q(a) \in 1..n /\ InHand[a] = Written[Q(a)]
    BY <1>3, <1>4, <2>1
  <2>3. Q(a - 1) \in DOMAIN Written /\ Q(a) \in DOMAIN Written /\ Q(a - 1) < Q(a)
    BY <1>2, <1>5, <2>1, <2>2
  <2> HIDE DEF Q
  <2>4. Ends(Written[Q(a - 1)])
    BY <1>3, <2>2
  <2>5. Written[Q(a)] = <<Written[Q(a - 1)][1] + 1, 1>>
    BY <2>1, <2>3, <2>4 DEF Flowing
  <2> QED BY <2>2, <2>5
<1>7. InHand[a] = <<InHand[a][1], 1>>
  <2>1. a \in DOMAIN InHand
    BY <1>1, <1>2, EndsAre
  <2> QED BY <1>1, <1>6, <2>1, EndsAre, ChunkIs
<1>8. \A m \in 1..(i - a + 1) : InHand[a + (m - 1)] = <<InHand[a][1], m>>
  <2>1. Q(a) \in 1..(n + 1) /\ Q(i) \in Q(a)..(n + 1) /\ n + 1 \in Nat /\ Q(i) - Q(a) + 1 = i - a + 1
    <3>1. a \in 1..Len(InHand) /\ a > p
      BY <1>1, <1>2, <1>3
    <3>2. Q(a) \in 1..n /\ Q(i) \in 1..n
      BY <1>2, <1>4, <3>1
    <3>3. Q(a) <= Q(i) /\ Q(i) - Q(a) + 1 = i - a + 1
      BY <1>1, <1>2
    <3> QED BY <1>2, <3>2, <3>3
  <2>2. Written[Q(a)] = <<InHand[a][1], 1>>
    <3>1. a \in 1..Len(InHand) /\ a > p
      BY <1>1, <1>2, <1>3
    <3> QED BY <1>4, <1>7, <3>1
  <2>3. ASSUME NEW k \in Q(a)..(Q(i) - 1) PROVE ~Ends(Written[k])
    <3> DEFINE j == a + (k - Q(a))
    <3>1. j \in a..(i - 1) /\ j \in 1..Len(InHand) /\ j > p /\ Q(j) = k
      BY <1>1, <1>2, <1>3
    <3> HIDE DEF j
    <3>2. InHand[j] = Written[k] /\ ~Ends(InHand[j])
      BY <1>4, <3>1 DEF LineFrom
    <3> QED BY <3>2
  <2>4. \A m \in 1..(Q(i) - Q(a) + 1) : Written[Q(a) + (m - 1)] = <<InHand[a][1], m>>
    <3>1. Flowing(Written)
      OBVIOUS
    <3>2. Uncut(n + 1, Written, Q(a), Q(i), InHand[a][1])
      BY <1>5, <2>1, <2>2, <2>3, <3>1 DEF Uncut
    <3> QED BY <3>2, LineFlows
  <2>5. ASSUME NEW m \in 1..(i - a + 1) PROVE InHand[a + (m - 1)] = <<InHand[a][1], m>>
    <3>1. a + (m - 1) \in 1..Len(InHand) /\ a + (m - 1) > p /\ Q(a + (m - 1)) = Q(a) + (m - 1)
      BY <1>1, <1>2, <1>3
    <3>2. Written[Q(a) + (m - 1)] = <<InHand[a][1], m>>
      BY <2>1, <2>4
    <3>3. InHand[a + (m - 1)] = Written[Q(a + (m - 1))]
      BY <1>4, <3>1
    <3>4. Written[Q(a + (m - 1))] = Written[Q(a) + (m - 1)]
      BY <3>1
    <3> QED BY <3>2, <3>3, <3>4
  <2> QED BY <2>5
<1> QED BY <1>1, <1>8, LineIsWhole

\* What is held and the rest of the file, as long as nothing was cut out.
LEMMA HeldUnread ==
    ASSUME TailsTyped, tailOffset <= Len(logFile.data)
    PROVE  /\ Len(InHand) \in Nat
           /\ Len(InHand) < Len(partial) + (Len(logFile.data) + 1 - tailOffset)
           /\ \A i \in 1..Len(InHand) : InHand[i] = Unread[i]
<1> DEFINE p == Len(partial)  n == Len(logFile.data)  off == tailOffset  N == p + (n + 1 - off)
<1>1. Len(InHand) = p + Len(Got) /\ p \in Nat /\ Len(Got) \in Nat /\ off + Len(Got) <= n /\ off \in Nat /\ n \in Nat
  BY HeldIs, GotIs, WrittenIs DEF TailsTyped
<1>2. /\ DOMAIN Unread = 1..N /\ DOMAIN partial = 1..p
      /\ \A i \in 1..p : Unread[i] = partial[i]
      /\ \A i \in 1..N : i > p => Unread[i] = Written[off + (i - p)]
  BY UnreadIs
<1>3. \A i \in 1..Len(InHand) : i > p => InHand[i] = Written[off + (i - p)]
  BY HeldWritten
<1>4. \A i \in 1..p : InHand[i] = partial[i]
  BY HeldIs
<1> HIDE DEF p, n, off
<1>5. Len(InHand) < N /\ Len(InHand) \in Nat
  BY <1>1
<1>6. ASSUME NEW i \in 1..Len(InHand) PROVE InHand[i] = Unread[i]
  <2>1. i \in 1..N
    BY <1>1, <1>5
  <2>2. CASE i > p
    BY <1>2, <1>3, <2>1, <2>2
  <2>3. CASE ~(i > p)
    <3>1. i \in 1..p
      BY <1>1, <2>3
    <3> QED BY <1>2, <1>4, <3>1
  <2> QED BY <2>2, <2>3
<1> QED BY <1>5, <1>6 DEF p, n, off

\* Only the first line handed on can be torn; a clean reader hands on none, but for the
\* rest of a line that is too long.
LEMMA TornIsFirst ==
    ASSUME TailsInv, Reading, NEW i \in EndsOf(InHand), LineTo(InHand, i) # Whole(InHand[i][1])
    PROVE  /\ \A k \in 1..(i - 1) : ~Ends(InHand[k])
           /\ Clean => InHand[i][1] \in TooLong
<1> USE DEF TailsInv
<1>1. InHand \in Seq(Chunk) /\ Len(InHand) \in Nat
  BY HeldIs, GotIs
<1>2. i \in 1..Len(InHand) /\ tailOffset <= Len(logFile.data)
  BY EndIs
<1>3. PICK a \in 1..i : LineFrom(InHand, i, a)
  BY <1>1, LineBegins
<1>4. a = 1
  BY <1>3, LaterIsWhole
<1>5. \A k \in 1..(i - 1) : ~Ends(InHand[k])
  BY <1>3, <1>4 DEF LineFrom
<1>6. ASSUME Clean PROVE InHand[i][1] \in TooLong
  <2> DEFINE N == Len(partial) + (Len(logFile.data) + 1 - tailOffset)
  <2>1. DOMAIN Unread = 1..N /\ N \in Nat /\ Flowing(Unread)
    BY <1>2, <1>6, UnreadIs DEF Clean
  <2>2. Len(InHand) < N /\ \A k \in 1..Len(InHand) : InHand[k] = Unread[k]
    BY <1>2, HeldUnread
  <2> HIDE DEF N
  <2>3. 1 \in 1..Len(InHand) /\ InHand[1] = Unread[1] /\ i \in 1..N /\ 1 \in 1..N /\ InHand[i] = Unread[i]
    BY <1>1, <1>2, <2>1, <2>2
  <2>4. \A k \in 1..(i - 1) : ~Ends(Unread[k])
    <3> SUFFICES ASSUME NEW k \in 1..(i - 1) PROVE ~Ends(Unread[k])
      OBVIOUS
    <3>1. k \in 1..Len(InHand)
      BY <1>1, <1>2
    <3>2. InHand[k] = Unread[k] /\ ~Ends(InHand[k])
      BY <1>5, <2>2, <3>1
    <3> QED BY <3>2
  <2>5. InHand[1][2] # 1
    <3> SUFFICES ASSUME InHand[1][2] = 1 PROVE FALSE
      OBVIOUS
    <3>1. InHand[1] = <<InHand[1][1], 1>>
      BY <1>1, <2>3, EndsAre, ChunkIs
    <3>2. \A m \in 1..(i - 1 + 1) : Unread[1 + (m - 1)] = <<InHand[1][1], m>>
      <4>1. 1 \in 1..N /\ i \in 1..N /\ Unread[1] = <<InHand[1][1], 1>>
        BY <2>3, <3>1
      <4>2. Uncut(N, Unread, 1, i, InHand[1][1])
        <5>1. i \in 1..N
          BY <4>1
        <5> QED BY <2>1, <2>4, <4>1, <5>1 DEF Uncut
      <4> QED BY <4>2, LineFlows
    <3>3. \A m \in 1..(i - 1 + 1) : InHand[1 + (m - 1)] = <<InHand[1][1], m>>
      <4> SUFFICES ASSUME NEW m \in 1..(i - 1 + 1) PROVE InHand[1 + (m - 1)] = <<InHand[1][1], m>>
        OBVIOUS
      <4>1. 1 + (m - 1) \in 1..Len(InHand)
        BY <1>1, <1>2
      <4> QED BY <2>2, <3>2, <4>1
    <3>4. 1 \in 1..i /\ LineFrom(InHand, i, 1)
      BY <1>3, <1>4
    <3>5. LineTo(InHand, i) = Whole(InHand[i][1])
      BY <1>1, <3>3, <3>4, LineIsWhole
    <3> QED BY <3>5
  <2>6. InHand[1][1] \in TooLong
    BY <1>6, <2>3, <2>5 DEF Clean
  <2>7. InHand[i][1] = InHand[1][1]
    <3>1. CASE i = 1
      BY <3>1
    <3>2. CASE i # 1
      <4>1. 1 \in DOMAIN Unread /\ i \in DOMAIN Unread /\ 1 < i
        BY <2>1, <2>3, <3>2
      <4>2. Unread[i] = <<Unread[1][1], Unread[1][2] + (i - 1)>>
        BY <2>1, <2>4, <4>1 DEF Flowing
      <4> QED BY <2>3, <4>2
    <3> QED BY <3>1, <3>2
  <2> QED BY <2>6, <2>7
<1> QED BY <1>5, <1>6

\* What is handed on torn.
Bad == {i \in Handed(InHand) : LineTo(InHand, i) # Whole(InHand[i][1])}

LEMMA LinesHanded ==
    ASSUME TailsTyped
    PROVE  \A i \in Handed(InHand) : i \in EndsOf(InHand) /\ LineTo(InHand, i)[Len(LineTo(InHand, i))] = InHand[i]
<1> SUFFICES ASSUME NEW i \in Handed(InHand)
             PROVE  i \in EndsOf(InHand) /\ LineTo(InHand, i)[Len(LineTo(InHand, i))] = InHand[i]
  OBVIOUS
<1>1. i \in EndsOf(InHand) /\ InHand \in Seq(Chunk)
  BY HeldIs DEF Handed
<1>2. PICK a \in 1..i : LineFrom(InHand, i, a)
  BY <1>1, LineBegins
<1> QED BY <1>1, <1>2, LineIs

\* What a reading step does to the history.
LEMMA ReadTells ==
    ASSUME TailsTyped, TailRead, logFile.there
    PROVE  /\ garbled' = garbled \cup {InHand[i][1] : i \in Bad}
           /\ repeated' = (repeated \/ \E i \in Handed(InHand) : InHand[i][1] <= lastLine)
<1> DEFINE lines == {LineTo(InHand, i) : i \in Handed(InHand)}
<1>1. /\ repeated' = (repeated \/ \E l \in lines : l[Len(l)][1] <= lastLine)
      /\ garbled' = garbled \cup {l[Len(l)][1] : l \in {m \in lines : m # Whole(m[Len(m)][1])}}
  BY DEF TailRead, InHand, Got
<1>2. (\E l \in lines : l[Len(l)][1] <= lastLine) <=> \E i \in Handed(InHand) : InHand[i][1] <= lastLine
  BY LinesHanded
<1>3. {l[Len(l)][1] : l \in {m \in lines : m # Whole(m[Len(m)][1])}} = {InHand[i][1] : i \in Bad}
  <2> DEFINE S == {l[Len(l)][1] : l \in {m \in lines : m # Whole(m[Len(m)][1])}}  T == {InHand[i][1] : i \in Bad}
  <2>1. ASSUME NEW x \in S PROVE x \in T
    <3>1. PICK l \in lines : l # Whole(l[Len(l)][1]) /\ x = l[Len(l)][1]
      OBVIOUS
    <3>2. PICK i \in Handed(InHand) : l = LineTo(InHand, i)
      OBVIOUS
    <3>3. l[Len(l)] = InHand[i]
      BY <3>2, LinesHanded
    <3>4. i \in Bad /\ x = InHand[i][1]
      BY <3>1, <3>2, <3>3 DEF Bad
    <3> QED BY <3>4
  <2>2. ASSUME NEW x \in T PROVE x \in S
    <3>1. PICK i \in Bad : x = InHand[i][1]
      OBVIOUS
    <3> DEFINE l == LineTo(InHand, i)
    <3>2. i \in Handed(InHand) /\ l # Whole(InHand[i][1])
      BY DEF Bad
    <3>3. l \in lines /\ l[Len(l)] = InHand[i]
      BY <3>2, LinesHanded
    <3>4. l # Whole(l[Len(l)][1]) /\ x = l[Len(l)][1]
      BY <3>1, <3>2, <3>3
    <3> HIDE DEF l, lines
    <3> QED BY <3>3, <3>4
  <2> HIDE DEF S, T
  <2>3. S = T
    BY <2>1, <2>2
  <2> QED BY <2>3 DEF S, T
<1> QED BY <1>1, <1>2, <1>3

\* At most one line more is torn, none while the reader is clean.
LEMMA TornGrows ==
    ASSUME TailsInv, TailRead, logFile.there
    PROVE  /\ garbled' \subseteq WrittenLines
           /\ Torn' \in Nat /\ Torn' <= Torn + 1
           /\ Clean => Torn' = Torn
           /\ EndsOf(InHand) = {} => Torn' = Torn
<1> USE DEF TailsInv
<1>1. Reading /\ garbled \subseteq WrittenLines /\ InHand \in Seq(Chunk) /\ tailReader' = tailReader
  BY HeldIs DEF TailRead, Reading, TailsTyped
<1>2. garbled' = garbled \cup {InHand[i][1] : i \in Bad}
  BY ReadTells
<1>3. \A i \in Bad : /\ i \in EndsOf(InHand) /\ LineTo(InHand, i) # Whole(InHand[i][1])
                     /\ i \in 1..Len(InHand) /\ InHand[i][1] \in WrittenLines
  <2> SUFFICES ASSUME NEW i \in Bad
               PROVE  /\ i \in EndsOf(InHand) /\ LineTo(InHand, i) # Whole(InHand[i][1])
                      /\ i \in 1..Len(InHand) /\ InHand[i][1] \in WrittenLines
    OBVIOUS
  <2>1. i \in EndsOf(InHand) /\ LineTo(InHand, i) # Whole(InHand[i][1])
    BY DEF Bad, Handed
  <2>2. i \in 1..Len(InHand) /\ InHand[i] \in Chunk
    BY <1>1, <2>1, EndsAre
  <2> QED BY <2>1, <2>2, ChunkIs
<1>4. garbled' \subseteq WrittenLines
  BY <1>1, <1>2, <1>3
<1>5. TooLong' = TooLong
  BY <1>1 DEF TooLong
<1>6. Torn' = Cardinality(garbled' \ TooLong) /\ Torn = Cardinality(garbled \ TooLong)
  BY <1>5 DEF Torn
<1>7. IsFiniteSet(garbled \ TooLong) /\ Torn \in Nat /\ Torn' \in Nat
  BY <1>1, <1>4, <1>6, GarbledCount
<1>8. Clean => Torn' = Torn
  <2> SUFFICES ASSUME Clean PROVE Torn' = Torn
    OBVIOUS
  <2>1. \A i \in Bad : InHand[i][1] \in TooLong
    BY <1>1, <1>3, TornIsFirst
  <2>2. garbled' \ TooLong = garbled \ TooLong
    BY <1>2, <2>1
  <2> QED BY <1>6, <2>2
<1>9. EndsOf(InHand) = {} => Torn' = Torn
  <2> SUFFICES ASSUME EndsOf(InHand) = {} PROVE Torn' = Torn
    OBVIOUS
  <2>1. Bad = {}
    BY <1>3
  <2>2. garbled' = garbled
    BY <1>2, <2>1
  <2> QED BY <1>6, <2>2
<1>10. Torn' <= Torn + 1
  <2>1. CASE Bad = {}
    <3>1. garbled' = garbled
      BY <1>2, <2>1
    <3> QED BY <1>6, <1>7, <3>1
  <2>2. CASE Bad # {}
    <3>1. PICK i \in Bad : TRUE
      BY <2>2
    <3>2. ASSUME NEW j \in Bad PROVE j = i
      <4>1. /\ \A k \in 1..(i - 1) : ~Ends(InHand[k])
            /\ \A k \in 1..(j - 1) : ~Ends(InHand[k])
        BY <1>1, <1>3, TornIsFirst
      <4>2. Ends(InHand[i]) /\ Ends(InHand[j]) /\ i \in Nat /\ j \in Nat /\ i > 0 /\ j > 0
        BY <1>1, <1>3, EndsAre
      <4>3. ~(i \in 1..(j - 1)) /\ ~(j \in 1..(i - 1))
        BY <4>1, <4>2
      <4> QED BY <4>2, <4>3
    <3> DEFINE x == InHand[i][1]  G == garbled \ TooLong
    <3>3. garbled' \ TooLong \subseteq G \cup {x}
      BY <1>2, <3>2
    <3>4. IsFiniteSet(G \cup {x}) /\ Cardinality(G \cup {x}) \in Nat
          /\ Cardinality(G \cup {x}) <= Cardinality(G) + 1 /\ Cardinality(G) \in Nat
      <4> HIDE DEF G, x
      <4>1. IsFiniteSet(G)
        BY <1>7 DEF G
      <4>2. IsFiniteSet(G \cup {x})
            /\ Cardinality(G \cup {x}) = IF x \in G THEN Cardinality(G) ELSE Cardinality(G) + 1
        BY <4>1, FS_AddElement
      <4>3. Cardinality(G) \in Nat
        BY <4>1, FS_CardinalityType
      <4> QED BY <4>2, <4>3
    <3>5. Cardinality(garbled' \ TooLong) <= Cardinality(G \cup {x})
      BY <3>3, <3>4, FS_Subset
    <3> HIDE DEF G, x
    <3>6. Cardinality(G) = Torn
      BY <1>6 DEF G
    <3> QED BY <1>6, <1>7, <3>4, <3>5, <3>6
  <2> QED BY <2>1, <2>2
<1> QED BY <1>4, <1>7, <1>8, <1>9, <1>10

----------------------------------------------------------------------------
\* What is ahead of a reader that holds s and is at o of the file.
Ahead(s, o) ==
    [i \in 1..(Len(s) + (Len(logFile.data) + 1 - o)) |->
        IF i <= Len(s) THEN s[i] ELSE Written[o + (i - Len(s))]]
Fits(u) == Flowing(u) /\ (u[1][2] = 1 \/ u[1][1] \in TooLong)

LEMMA LeftOverIs ==
    ASSUME TailsTyped
    PROVE  /\ LeftOver \in Seq(Chunk) /\ Len(LeftOver) = Len(InHand) - LastEnd(InHand)
           /\ Len(LeftOver) \in Nat /\ LastEnd(InHand) \in 0..Len(InHand) /\ Len(InHand) \in Nat
           /\ \A i \in 1..Len(LeftOver) : LeftOver[i] = InHand[LastEnd(InHand) + i] /\ ~Ends(LeftOver[i])
<1> DEFINE L == LastEnd(InHand)  H == Len(InHand)
<1>1. /\ InHand \in Seq(Chunk) /\ H \in Nat /\ L \in 0..H
      /\ \A i \in (L + 1)..H : ~Ends(InHand[i])
      /\ \A i \in 1..H : InHand[i] \in Chunk
  <2>1. InHand \in Seq(Chunk)
    BY HeldIs
  <2> HIDE DEF L, H
  <2>2. L \in 0..H /\ \A i \in (L + 1)..H : ~Ends(InHand[i])
    BY ONLY <2>1, LastEndIs DEF L, H
  <2>3. H \in Nat /\ DOMAIN InHand = 1..H /\ \A i \in DOMAIN InHand : InHand[i] \in Chunk
    BY ONLY <2>1, EndsAre DEF H
  <2> QED BY <2>1, <2>2, <2>3
<1> HIDE DEF L, H
<1>2. LeftOver = SubSeq(InHand, L + 1, H)
  BY DEF LeftOver, L, H
<1>3. \A i \in (L + 1)..H : InHand[i] \in Chunk
  BY <1>1
<1>4. /\ LeftOver \in Seq(Chunk) /\ Len(LeftOver) = IF L + 1 <= H THEN H - (L + 1) + 1 ELSE 0
      /\ \A i \in 1..(H - (L + 1) + 1) : LeftOver[i] = InHand[(L + 1) + i - 1]
  BY <1>1, <1>2, <1>3, SubSeqProperties
<1>5. Len(LeftOver) = H - L
  BY <1>1, <1>4
<1>6. ASSUME NEW i \in 1..Len(LeftOver) PROVE LeftOver[i] = InHand[L + i] /\ ~Ends(LeftOver[i])
  <2>1. (L + 1) + i - 1 = L + i /\ L + i \in (L + 1)..H /\ i \in 1..(H - (L + 1) + 1)
    BY <1>1, <1>5
  <2>2. LeftOver[i] = InHand[(L + 1) + i - 1]
    BY <1>4, <2>1
  <2> QED BY <1>1, <2>1, <2>2
<1> QED BY <1>1, <1>4, <1>5, <1>6 DEF L, H

\* After the last end of a line in what has come, the reader is at the beginning of the next;
\* without one it is where it was.
LEMMA LeftOverFits ==
    ASSUME TailsInv, Reading, EndsOf(InHand) # {} \/ Clean
    PROVE  /\ tailOffset + Len(Got) \in 0..Len(logFile.data)
           /\ Fits(Ahead(LeftOver, tailOffset + Len(Got)))
<1> USE DEF TailsInv
<1> DEFINE n == Len(logFile.data)  off == tailOffset  g == Len(Got)  p == Len(partial)  L == LastEnd(InHand)
           r == Len(LeftOver)  U == Ahead(LeftOver, off + g)  M == r + (n + 1 - (off + g))
<1>1. off <= n
  <2>1. CASE EndsOf(InHand) # {}
    BY <2>1, EndIs
  <2>2. CASE Clean
    BY <2>2 DEF Clean
  <2> QED BY <2>1, <2>2
<1>2. off \in Nat /\ n \in Nat /\ g \in Nat /\ off + g <= n /\ p \in Nat /\ Len(InHand) = p + g
  BY <1>1, GotIs, HeldIs, HeldWritten
<1>3. /\ r = Len(InHand) - L /\ r \in Nat /\ L \in 0..Len(InHand)
      /\ \A i \in 1..r : LeftOver[i] = InHand[L + i]
  BY LeftOverIs
<1>4. \A i \in 1..Len(InHand) : i > p => off + (i - p) \in 1..n /\ InHand[i] = Written[off + (i - p)]
  BY <1>1, HeldWritten
<1>5. U = [i \in 1..M |-> IF i <= r THEN LeftOver[i] ELSE Written[(off + g) + (i - r)]]
  BY DEF Ahead
<1>6. DOMAIN Written = 1..(n + 1)
  BY WrittenIs
<1>7. InHand \in Seq(Chunk)
  BY HeldIs
<1> HIDE DEF n, off, g, p, L, r, U, M
<1>8. /\ DOMAIN U = 1..M /\ M \in Nat /\ M > r /\ M = p + (n + 1 - off) - L
      /\ \A i \in 1..M : U[i] = IF i <= r THEN LeftOver[i] ELSE Written[(off + g) + (i - r)]
  BY <1>2, <1>3, <1>5 DEF M
<1>9. CASE EndsOf(InHand) # {}
  <2>1. L \in EndsOf(InHand) /\ L > p /\ L \in 1..Len(InHand) /\ Ends(InHand[L])
    <3>1. L \in EndsOf(InHand)
      BY <1>7, <1>9, LastEndIs DEF L
    <3> QED BY <3>1, EndIs DEF p
  <2> DEFINE m == off + (L - p)
  <2>2. m \in 1..n /\ InHand[L] = Written[m] /\ M = (n + 1) - m
    BY <1>2, <1>4, <1>8, <2>1
  <2>3. ASSUME NEW i \in 1..M PROVE U[i] = Written[m + i]
    <3>1. CASE i <= r
      <4>1. i \in 1..r /\ L + i \in 1..Len(InHand) /\ L + i > p /\ off + ((L + i) - p) = m + i
        BY <1>2, <1>3, <2>1, <3>1
      <4>2. InHand[L + i] = Written[off + ((L + i) - p)]
        BY <1>4, <4>1
      <4> QED BY <1>3, <1>8, <3>1, <4>1, <4>2
    <3>2. CASE ~(i <= r)
      <4>1. (off + g) + (i - r) = m + i
        BY <1>2, <1>3, <2>1, <3>2
      <4> QED BY <1>8, <3>2, <4>1
    <3> QED BY <3>1, <3>2
  <2> HIDE DEF m
  <2>4. Flowing(U)
    <3>1. n + 1 \in Nat /\ m \in 0..(n + 1) /\ DOMAIN Written = 1..(n + 1) /\ DOMAIN U = 1..((n + 1) - m)
          /\ (\A i \in 1..((n + 1) - m) : U[i] = Written[m + i]) /\ Flowing(Written)
      BY <1>2, <1>6, <1>8, <2>2, <2>3
    <3> HIDE DEF TailsInv
    <3> QED BY <3>1, RestFlows
  <2>5. U[1][2] = 1
    <3>1. 1 \in 1..M /\ m \in DOMAIN Written /\ m + 1 \in DOMAIN Written /\ m < m + 1 /\ Ends(Written[m])
      BY <1>2, <1>3, <1>6, <1>8, <2>1, <2>2
    <3>2. Written[m + 1] = <<Written[m][1] + 1, 1>>
      BY <3>1 DEF Flowing
    <3> QED BY <2>3, <3>1, <3>2
  <2> QED BY <1>2, <2>4, <2>5 DEF Fits, U, n, off, g
<1>10. CASE EndsOf(InHand) = {}
  <2>1. L = 0 /\ Clean
    BY <1>7, <1>10, LastEndIs DEF L
  <2>2. /\ DOMAIN Unread = 1..M /\ M = p + (n + 1 - off)
        /\ \A i \in 1..M : i > p => Unread[i] = Written[off + (i - p)]
    <3>1. M = p + (n + 1 - off)
      BY <1>2, <1>8, <2>1
    <3> QED BY <1>1, <3>1, UnreadIs DEF p, n, off
  <2>3. \A i \in 1..Len(InHand) : InHand[i] = Unread[i]
    BY <1>1, HeldUnread DEF n, off
  <2>4. ASSUME NEW i \in 1..M PROVE U[i] = Unread[i]
    <3>1. CASE i <= r
      <4>1. i \in 1..r /\ L + i = i /\ i \in 1..Len(InHand)
        BY <1>2, <1>3, <2>1, <3>1
      <4>2. LeftOver[i] = InHand[L + i]
        BY <1>3, <4>1
      <4> QED BY <1>8, <2>3, <3>1, <4>1, <4>2
    <3>2. CASE ~(i <= r)
      <4>1. (off + g) + (i - r) = off + (i - p) /\ i > p
        BY <1>2, <1>3, <2>1, <3>2
      <4> QED BY <1>8, <2>2, <3>2, <4>1
    <3> QED BY <3>1, <3>2
  <2>5. Unread = [i \in 1..M |-> Unread[i]] /\ U = [i \in 1..M |-> U[i]]
    <3>1. Unread = [i \in DOMAIN Unread |-> Unread[i]]
      BY DEF Unread
    <3>2. U = [i \in DOMAIN U |-> U[i]]
      BY <1>5
    <3> QED BY <1>8, <2>2, <3>1, <3>2
  <2>6. U = Unread
    BY <2>4, <2>5
  <2>7. Fits(Unread)
    BY <2>1 DEF Clean, Fits
  <2> QED BY <1>2, <2>6, <2>7 DEF U, n, off, g
<1> QED BY <1>9, <1>10

\* The mail reader forgets a beginning only of a line that is too long.
LEMMA DroppedFits ==
    ASSUME TailsTyped, NEW s \in Seq(Chunk), NEW o \in 0..Len(logFile.data), Fits(Ahead(s, o)),
           tailReader = "mail", Len(s) > MailLine, \A i \in 1..Len(s) : ~Ends(s[i])
    PROVE  Fits(Ahead(<<>>, o))
<1> DEFINE n == Len(logFile.data)  r == Len(s)  U == Ahead(s, o)  V == Ahead(<<>>, o)  N == r + (n + 1 - o)
<1>1. n \in Nat /\ r \in Nat /\ MailLine \in Nat \ {0} /\ o \in 0..n /\ DOMAIN s = 1..r
      /\ \A i \in 1..r : s[i] \in Chunk
  BY WrittenIs, TailAssumption, LenProperties, ElementOfSeq
<1>2. /\ U = [i \in 1..N |-> IF i <= r THEN s[i] ELSE Written[o + (i - r)]]
      /\ V = [i \in 1..(0 + (n + 1 - o)) |-> IF i <= 0 THEN <<>>[i] ELSE Written[o + (i - 0)]]
  BY DEF Ahead
<1>3. Flowing(U) /\ (U[1][2] = 1 \/ U[1][1] \in TooLong)
  BY DEF Fits
<1>a. r > MailLine
  OBVIOUS
<1> HIDE DEF n, r, U, V
<1>4. /\ N \in Nat /\ N > r /\ DOMAIN U = 1..N
      /\ \A i \in 1..N : U[i] = IF i <= r THEN s[i] ELSE Written[o + (i - r)]
  BY <1>1, <1>2
<1>5. DOMAIN V = 1..(N - r) /\ \A i \in 1..(N - r) : V[i] = Written[o + i]
  <2>1. 0 + (n + 1 - o) = N - r /\ \A i \in 1..(N - r) : o + (i - 0) = o + i /\ ~(i <= 0)
    BY <1>1
  <2> HIDE DEF N
  <2> QED BY <1>2, <2>1
<1> HIDE DEF N
<1>6. ASSUME NEW i \in 1..(N - r) PROVE V[i] = U[r + i]
  <2>1. r + i \in 1..N /\ ~(r + i <= r) /\ o + ((r + i) - r) = o + i
    BY <1>1, <1>4
  <2> QED BY <1>4, <1>5, <2>1
<1>7. Flowing(V)
  <2>1. r \in 0..N
    BY <1>1, <1>4
  <2> QED BY <1>3, <1>4, <1>5, <1>6, <2>1, RestFlows
<1>8. \A i \in 1..r : U[i] = s[i] /\ i \in 1..N
  BY <1>1, <1>4
<1>9. ASSUME NEW j \in 2..(r + 1) PROVE U[j] = <<U[1][1], U[1][2] + (j - 1)>>
  <2>1. 1 \in DOMAIN U /\ j \in DOMAIN U /\ 1 < j
    BY <1>1, <1>4
  <2>2. ASSUME NEW k \in 1..(j - 1) PROVE ~Ends(U[k])
    <3>1. k \in 1..r
      BY <1>1
    <3> QED BY <1>8, <3>1 DEF r
  <2> QED BY <1>3, <2>1, <2>2 DEF Flowing
<1>10. V[1][1] = U[1][1]
  <2>1. 1 \in 1..(N - r) /\ r + 1 \in 2..(r + 1)
    BY <1>1, <1>4, <1>a
  <2>2. V[1] = U[r + 1]
    BY <1>6, <2>1
  <2>3. U[r + 1] = <<U[1][1], U[1][2] + ((r + 1) - 1)>>
    BY <1>9, <2>1
  <2> QED BY <2>2, <2>3
<1>11. U[1][1] \in TooLong
  <2> SUFFICES ASSUME U[1][2] = 1 PROVE U[1][1] \in TooLong
    BY <1>3
  <2>1. r \in 2..(r + 1) /\ r \in 1..r
    BY <1>1, <1>a
  <2>2. U[r] = <<U[1][1], 1 + (r - 1)>> /\ U[r] = s[r]
    BY <1>8, <1>9, <2>1
  <2>3. s[r] \in Chunk /\ s[r][1] = U[1][1] /\ s[r][2] = r
    <3>1. 1 + (r - 1) = r
      BY <1>1
    <3> QED BY <1>1, <2>1, <2>2, <3>1
  <2>4. U[1][1] \in WrittenLines /\ r <= LineLengths[U[1][1]] /\ LineLengths[U[1][1]] \in Nat
    BY <2>3, ChunkIs
  <2>5. LineLengths[U[1][1]] > MailLine
    BY <1>1, <1>a, <2>4
  <2> QED BY <2>4, <2>5 DEF TooLong
<1> QED BY <1>7, <1>10, <1>11 DEF Fits, V

\* The lines that have come are handed on.
LEMMA ReadKeeps ==
    ASSUME TailsInv, TailRead
    PROVE  TailsInv'
<1> USE DEF TailsInv
<1> DEFINE n == Len(logFile.data)  g == Len(Got)  L == LastEnd(InHand)  p == Len(partial)  off == tailOffset
<1>1. UNCHANGED <<tailReader, logFile, pen, cuts>> /\ tailing.at = "read" /\ Reading
  BY DEF TailRead, Reading
<1>2. CASE ~logFile.there
  <2>1. tailing' = [at |-> "wait", size |-> 0] /\ UNCHANGED <<tailOffset, partial, garbled, lastLine, repeated>>
    BY <1>2 DEF TailRead, told
  <2>2. ~Reading' /\ tailOffset' \in Nat
    BY <2>1 DEF Reading, TailsTyped
  <2> QED BY <1>1, <2>1, <2>2, NotReadingKeeps
<1>3. CASE logFile.there
  <2>1. /\ tailOffset' = off + g /\ partial' = Kept(LeftOver)
        /\ lastLine' = (IF EndsOf(InHand) = {} THEN lastLine ELSE InHand[L][1])
        /\ tailing' = [at |-> "tick", size |-> 0]
    BY <1>3 DEF TailRead, LeftOver, InHand, Got
  <2>2. /\ off \in Nat /\ g \in Nat /\ n \in Nat /\ InHand \in Seq(Chunk) /\ Len(InHand) \in Nat
        /\ DOMAIN logFile.data = 1..n
    BY GotIs, HeldIs, WrittenIs DEF TailsTyped
  <2>3. EndsOf(InHand) # {} => /\ L \in EndsOf(InHand) /\ L \in 1..Len(InHand) /\ L > p /\ off <= n
                             /\ Ends(InHand[L]) /\ InHand[L][1] \in Nat /\ p \in Nat
    <3> SUFFICES ASSUME EndsOf(InHand) # {}
                 PROVE  /\ L \in EndsOf(InHand) /\ L \in 1..Len(InHand) /\ L > p /\ off <= n
                        /\ Ends(InHand[L]) /\ InHand[L][1] \in Nat /\ p \in Nat
      OBVIOUS
    <3>1. L \in EndsOf(InHand)
      BY <2>2, LastEndIs
    <3> QED BY <1>1, <3>1, EndIs, HeldIs
  <2>4. /\ LeftOver \in Seq(Chunk) /\ \A i \in 1..Len(LeftOver) : ~Ends(LeftOver[i])
        /\ (partial' = LeftOver \/ (partial' = <<>> /\ tailReader = "mail" /\ Len(LeftOver) > MailLine))
    BY <2>1, LeftOverIs DEF Kept
  <2>5. partial' \in Seq(Chunk) /\ \A i \in DOMAIN partial' : ~Ends(partial'[i])
    <3>1. CASE partial' = LeftOver
      <4>1. DOMAIN LeftOver = 1..Len(LeftOver)
        BY <2>4, LenProperties
      <4> QED BY <2>4, <3>1, <4>1
    <3>2. CASE partial' = <<>>
      <4>1. <<>> \in Seq(Chunk) /\ DOMAIN <<>> = {}
        OBVIOUS
      <4> QED BY <3>2, <4>1
    <3> QED BY <2>4, <3>1, <3>2
  <2>6. garbled' \subseteq WrittenLines /\ Torn' \in Nat /\ Torn \in Nat /\ Torn' <= Torn + 1
        /\ (Clean => Torn' = Torn) /\ (EndsOf(InHand) = {} => Torn' = Torn)
    BY <1>3, TornGrows, TornIs DEF TailsTyped
  <2>7. TailsTyped'
    <3>1. lastLine' \in Nat
      BY <2>1, <2>3 DEF TailsTyped
    <3>2. tailing' = [at |-> tailing'.at, size |-> tailing'.size] /\ tailing'.size \in Nat /\ tailOffset' \in Nat
      BY <2>1, <2>2
    <3> QED BY <1>1, <2>5, <2>6, <3>1, <3>2 DEF TailsTyped
  <2>8. Flowing(Written)'
    BY <1>1, WrittenStays
  <2>9. EndsOf(InHand) # {} \/ Clean => Clean'
    <3> SUFFICES ASSUME EndsOf(InHand) # {} \/ Clean PROVE Clean'
      OBVIOUS
    <3>1. off + g \in 0..n /\ Fits(Ahead(LeftOver, off + g))
      BY <1>1, LeftOverFits
    <3>2. Fits(Ahead(partial', off + g))
      <4>1. CASE partial' = LeftOver
        BY <3>1, <4>1
      <4>2. CASE partial' = <<>> /\ tailReader = "mail" /\ Len(LeftOver) > MailLine
        <5>1. Fits(Ahead(<<>>, off + g))
          BY <2>4, <3>1, <4>2, DroppedFits
        <5> QED BY <4>2, <5>1
      <4> QED BY <2>4, <4>1, <4>2
    <3>3. Unread' = Ahead(partial', off + g)
      <4>1. Written' = Written
        BY <1>1 DEF Written, PenChunk
      <4> QED BY <1>1, <2>1, <4>1 DEF Unread, Ahead
    <3>4. TooLong' = TooLong
      BY <1>1 DEF TooLong
    <3>5. Flowing(Unread') /\ (Unread'[1][2] = 1 \/ Unread'[1][1] \in TooLong')
      BY <3>2, <3>3, <3>4 DEF Fits
    <3>6. Flowing(Unread)'
      BY <3>5 DEF Flowing, Ends
    <3>7. (tailOffset <= Len(logFile.data))' /\ (Unread[1][2] = 1 \/ Unread[1][1] \in TooLong)'
      BY <1>1, <2>1, <2>2, <3>1, <3>5
    <3> QED BY <3>6, <3>7 DEF Clean
  <2>10. Torn' + Loose' <= cuts'
    <3>1. Loose \in {0, 1} /\ Loose' \in {0, 1} /\ (Loose = 0 <=> Clean) /\ (Clean' => Loose' = 0)
      BY <1>1 DEF Loose
    <3>2. cuts' = cuts /\ cuts \in Nat /\ Torn + Loose <= cuts
      BY <1>1 DEF TailsTyped
    <3>3. CASE Clean
      BY <2>6, <2>9, <3>1, <3>2, <3>3
    <3>4. CASE ~Clean /\ EndsOf(InHand) # {}
      <4>1. Loose = 1 /\ Loose' = 0
        BY <2>9, <3>1, <3>4
      <4>2. Torn + 1 <= cuts
        BY <3>2, <4>1
      <4>3. Torn' <= cuts
        <5> HIDE DEF TailsInv
        <5> QED BY <2>6, <3>2, <4>2
      <4>4. Torn' + Loose' <= cuts
        BY <2>6, <3>2, <4>1, <4>3, NotLoose
      <4> QED BY <3>2, <4>4
    <3>5. CASE ~Clean /\ EndsOf(InHand) = {}
      <4>1. Loose = 1 /\ Torn' = Torn /\ Loose' \in Nat /\ Loose' <= 1
        BY <2>6, <3>1, <3>5
      <4>2. Torn + 1 <= cuts
        BY <3>2, <4>1
      <4>3. Torn + Loose' <= cuts
        BY <2>6, <3>2, <4>1, <4>2, LessTorn
      <4> QED BY <3>2, <4>1, <4>3
    <3> QED BY <3>3, <3>4, <3>5
  <2> DEFINE Q(k) == off + (k - p)
  <2>11. EndsOf(InHand) # {} =>
           /\ Q(L) \in 1..n /\ Ends(Written[Q(L)]) /\ Written[Q(L)] = InHand[L] /\ Q(L) <= off + g
           /\ DOMAIN Written = 1..(n + 1) /\ Written[n + 1] = PenChunk
    <3> SUFFICES ASSUME EndsOf(InHand) # {}
                 PROVE  /\ Q(L) \in 1..n /\ Ends(Written[Q(L)]) /\ Written[Q(L)] = InHand[L] /\ Q(L) <= off + g
                        /\ DOMAIN Written = 1..(n + 1) /\ Written[n + 1] = PenChunk
      OBVIOUS
    <3>1. Q(L) \in 1..n /\ InHand[L] = Written[Q(L)]
      BY <2>3, HeldWritten
    <3>2. Q(L) <= off + g
      <4>1. Len(InHand) = p + g
        BY HeldIs
      <4> HIDE DEF L, p, g, off
      <4> QED BY <2>2, <2>3, <4>1
    <3> QED BY <2>3, <3>1, <3>2, WrittenIs
  <2>12. (lastLine < pen.line)'
    <3>1. CASE EndsOf(InHand) = {}
      BY <1>1, <2>1, <3>1
    <3>2. CASE EndsOf(InHand) # {}
      <4>1. Q(L) \in DOMAIN Written /\ n + 1 \in DOMAIN Written /\ Q(L) < n + 1
        BY <2>2, <2>11, <3>2
      <4>2. Written[Q(L)][1] < Written[n + 1][1]
        <5> HIDE DEF Q, L, n
        <5> QED BY <2>11, <3>2, <4>1 DEF Flowing
      <4>3. InHand[L][1] < pen.line
        BY <2>11, <3>2, <4>2 DEF PenChunk
      <4> QED BY <1>1, <2>1, <3>2, <4>3
    <3> QED BY <3>1, <3>2
  <2>13. ASSUME NEW i \in 1..n, off + g <= n => i > off + g, Ends(logFile.data[i])
         PROVE  lastLine' < logFile.data[i][1]
    <3>1. CASE EndsOf(InHand) = {}
      <4>1. off <= n => i > off
        <5>1. off <= n => off + g <= n
          BY GotIs
        <5> HIDE DEF n, off, g
        <5> QED BY <2>2, <2>13, <5>1
      <4> QED BY <1>1, <2>1, <2>2, <2>13, <3>1, <4>1
    <3>2. CASE EndsOf(InHand) # {}
      <4>1. off + g <= n /\ i > off + g
        BY <2>3, <2>13, <3>2, GotIs
      <4>2. Q(L) \in DOMAIN Written /\ i \in DOMAIN Written /\ Q(L) < i
        <5> HIDE DEF L, n, off, g, p
        <5> QED BY <2>2, <2>3, <2>11, <3>2, <4>1
      <4>3. Written[Q(L)][1] < Written[i][1]
        <5> HIDE DEF Q, L, n
        <5> QED BY <2>11, <3>2, <4>2 DEF Flowing
      <4>4. Written[i] = logFile.data[i]
        BY <2>2, WrittenIs
      <4> QED BY <2>1, <2>11, <3>2, <4>3, <4>4
    <3> QED BY <3>1, <3>2
  <2>14. (Reading => \A i \in DOMAIN logFile.data :
            (tailOffset <= Len(logFile.data) => i > tailOffset) /\ Ends(logFile.data[i])
                => lastLine < logFile.data[i][1])'
    BY <1>1, <2>1, <2>2, <2>13 DEF Ends
  <2>15. ~repeated'
    <3>1. \A i \in Handed(InHand) : ~(InHand[i][1] <= lastLine)
      <4> SUFFICES ASSUME NEW i \in Handed(InHand) PROVE ~(InHand[i][1] <= lastLine)
        OBVIOUS
      <4>1. i \in EndsOf(InHand)
        BY DEF Handed
      <4>2. lastLine < InHand[i][1] /\ InHand[i][1] \in Nat /\ lastLine \in Nat
        BY <1>1, <4>1, EndIs DEF TailsTyped
      <4> QED BY <4>2
    <3> QED BY <1>3, <3>1, ReadTells
  <2>16. (\A i \in DOMAIN partial : ~Ends(partial[i]))'
    BY <2>5 DEF Ends
  <2> QED BY <2>7, <2>8, <2>10, <2>12, <2>14, <2>15, <2>16
<1> QED BY <1>2, <1>3

LEMMA TailsKeep == TailsInv /\ [TailsNext]_tailVars => TailsInv'
<1> SUFFICES ASSUME TailsInv, [TailsNext]_tailVars PROVE TailsInv'
  OBVIOUS
<1>1. CASE FollowLog
  BY <1>1, StartKeeps, TickKeeps, ReadKeeps, RestKeeps DEF FollowLog
<1>2. CASE LeaveTail \/ HotReload \/ ConfigureLog \/ CreateLog
  BY <1>2, RestKeeps
<1>3. CASE WriteChunk
  BY <1>3, WriteKeeps
<1>4. CASE \E how \in {"truncate", "replace", "move"} : RotateLog(how)
  BY <1>4, RotateKeeps
<1>5. CASE UNCHANGED tailVars
  <2>1. /\ UNCHANGED <<logFile, pen, garbled, cuts, lastLine, repeated, tailReader, partial, tailOffset>>
        /\ (Reading' <=> Reading) /\ UNCHANGED tailing
    BY <1>5 DEF tailVars, told, Reading
  <2>2. tailing'.size \in Nat /\ tailing' = [at |-> tailing'.at, size |-> tailing'.size]
    BY <2>1 DEF TailsInv, TailsTyped
  <2> QED BY <2>1, <2>2, SameKeeps
<1> QED BY <1>1, <1>2, <1>3, <1>4, <1>5
        DEF TailsNext, TailStep, WebTail, SSHTail, MailTail, DatabaseTail, FTPTail

\* What follows of the lines that are handed on.
LEMMA TailsHandOn == TailsInv => NoLineTwice /\ LinesStayWhole
<1> SUFFICES ASSUME TailsInv PROVE NoLineTwice /\ LinesStayWhole
  OBVIOUS
<1>1. Torn \in Nat /\ Loose \in {0, 1} /\ cuts \in Nat /\ Torn + Loose <= cuts /\ ~repeated
  BY TornIs DEF TailsInv, TailsTyped, Loose
<1>2. Torn <= cuts
  BY <1>1
<1> QED BY <1>1, <1>2 DEF NoLineTwice, LinesStayWhole, Torn

----------------------------------------------------------------------------
(* Failures, as the watchers of services count them.                       *)

HostTyped ==
    \/ logKind = "mail" /\ machine \in MailHosts
    \/ logKind = "database" /\ machine \in DBHosts
    \/ logKind = "ftp" /\ machine \in FTPHosts
CountsTyped ==
    /\ attempts \in [Origins -> [Ages -> Nat]] /\ failedAt \in [Origins -> [Ages -> 0..Tries]]
    /\ tracked \subseteq Origins /\ flagged \subseteq Origins /\ banCalls \subseteq Origins
    /\ allowList \subseteq Origins /\ abroad \subseteq Origins
    /\ monitor \in BOOLEAN /\ fresh \in BOOLEAN

\* A line is of one address, or of two, and only a mail log has such.
LinesTyped ==
    \A l \in logLines :
        \/ \E a \in Origins : l.names = {a}
        \/ logKind = "mail" /\ \E a, b \in Origins : a # b /\ l.names = {a, b}

\* A failure is in one line that counts, and not counted before that is read.
Counts(l, a) == l \in logLines /\ Seen(l) /\ l.names = {a}
InOneLine == \A l, m : \A a \in Origins : Counts(l, a) /\ Counts(m, a) => l = m
ToBeCounted == \A l : \A a \in Origins : Counts(l, a) => a \in flagged \/ attempts[a][0] < failedAt[a][0]
BelowTries == \A a \in Origins : a \notin flagged => attempts[a][0] < Tries

ServiceInv ==
    /\ HostTyped /\ CountsTyped /\ LinesTyped
    /\ InOneLine /\ ToBeCounted /\ BelowTries /\ OnceCounted

LEMMA WindowIs == Ages = 0..FailureWindow /\ FailureWindow \in Nat \ {0} /\ Tries \in Nat \ {0} /\ 0 \in Ages
  BY ServiceAssumption DEF Ages

\* Of the logs a program writes to, one counts.
LEMMA OneLog ==
    ASSUME HostTyped, NEW p \in Programs, NEW s \in Writes(p) \cap Sources, NEW t \in Writes(p) \cap Sources,
           ~(s = "journal" /\ p \in Skipped(machine)), ~(t = "journal" /\ p \in Skipped(machine))
    PROVE  s = t
<1>1. CASE logKind = "mail"
  <2> DEFINE m == machine
  <2>1. m \in MailHosts
    BY <1>1 DEF HostTyped
  <2>2. /\ m.syslog \in {"none", "written", "stale"} /\ m.journal \in BOOLEAN /\ m.recent \in BOOLEAN
        /\ m.dovecot \subseteq {"own", "log"} /\ m.dovecot # {} /\ m.exim \in {{"own"}, {"own", "log"}}
        /\ (m.recent => m.syslog = "stale" /\ m.journal)
        /\ (m.syslog = "written" => m.exim = {"own"})
        /\ (m.syslog # "written" => m.journal)
    <3> DEFINE R == [syslog : {"none", "written", "stale"}, journal : BOOLEAN, recent : BOOLEAN,
                     dovecot : (SUBSET {"own", "log"}) \ {{}}, exim : {{"own"}, {"own", "log"}}]
    <3>1. \A x \in MailHosts : x \in R /\ (x.recent => x.syslog = "stale" /\ x.journal)
      BY Zenon DEF MailHosts
    <3>2. \A x \in MailHosts : (x.syslog = "written" => x.exim = {"own"}) /\ (x.syslog # "written" => x.journal)
      BY Zenon DEF MailHosts
    <3>3. m \in R
      BY <2>1, <3>1
    <3>4. (m.recent => m.syslog = "stale" /\ m.journal)
      BY <2>1, <3>1
    <3>5. (m.syslog = "written" => m.exim = {"own"}) /\ (m.syslog # "written" => m.journal)
      BY <2>1, <3>2
    <3>6. m.syslog \in {"none", "written", "stale"} /\ m.dovecot \in (SUBSET {"own", "log"}) \ {{}} /\ m.exim \in {{"own"}, {"own", "log"}}
      BY <3>3
    <3>7. m.journal \in BOOLEAN /\ m.recent \in BOOLEAN
      <4>1. m.journal \in BOOLEAN
        BY <3>3
      <4>2. m.recent \in BOOLEAN
        BY <3>3
      <4> QED BY <4>1, <4>2
    <3>8. m.dovecot \subseteq {"own", "log"} /\ m.dovecot # {}
      BY Zenon, <3>6
    <3> QED BY Zenon, <3>4, <3>5, <3>6, <3>7, <3>8
  <2> DEFINE fileRead == m.syslog # "none" /\ ~(m.syslog = "stale" /\ m.journal /\ m.recent)
  <2>3. \A x : x \in Sources <=> \/ x = "syslog" /\ fileRead
                                 \/ x = "journal" /\ ~fileRead /\ m.journal
                                 \/ x = "dovecot" /\ ~fileRead /\ "own" \in m.dovecot
                                 \/ x = "exim"
    BY <1>1 DEF Sources, MailSources
  <2>4. \A x : x \in Syslog(m) <=> (x = "syslog" /\ m.syslog = "written") \/ (x = "journal" /\ m.journal)
    BY DEF Syslog
  <2>5. \A x : x \in Skipped(m) <=> (x = "dovecot" /\ ~fileRead /\ "own" \in m.dovecot) \/ x = "exim"
    <3>1. Sources = MailSources(m)
      BY <1>1 DEF Sources
    <3> QED BY <2>3, <3>1 DEF Skipped
  <2> HIDE DEF fileRead
  <2>6. fileRead <=> m.syslog # "none" /\ ~(m.syslog = "stale" /\ m.journal /\ m.recent)
    BY DEF fileRead
  <2>7. CASE p = "postfix"
    <3>1. s \in Syslog(m) /\ t \in Syslog(m)
      BY <2>7 DEF Writes
    <3> QED BY <2>2, <2>3, <2>4, <2>6, <3>1
  <2>8. CASE p = "dovecot"
    <3>1. \A x \in Writes(p) : (x = "dovecot" /\ "own" \in m.dovecot) \/ ("log" \in m.dovecot /\ x \in Syslog(m))
      BY <2>8 DEF Writes
    <3> QED BY <2>2, <2>3, <2>4, <2>5, <2>6, <2>8, <3>1
  <2>9. CASE p = "exim"
    <3>1. \A x \in Writes(p) : (x = "exim" /\ "own" \in m.exim) \/ ("log" \in m.exim /\ x \in Syslog(m))
      BY <2>9 DEF Writes
    <3> QED BY <2>2, <2>3, <2>4, <2>5, <2>6, <2>9, <3>1
  <2> QED BY <1>1, <2>7, <2>8, <2>9 DEF Programs
<1>2. CASE logKind # "mail"
  <2>1. p \notin {"postfix", "dovecot", "exim"}
    BY <1>2 DEF HostTyped, Programs, DBHosts, FTPHosts
  <2> QED BY <2>1 DEF Writes
<1> QED BY <1>1, <1>2

LEMMA ServiceInitially == ServiceInit => ServiceInv
<1> SUFFICES ASSUME ServiceInit PROVE ServiceInv
  OBVIOUS
<1> USE DEF ServiceInit
<1>1. HostTyped
  BY DEF HostTyped
<1>2. NoFailures \in [Ages -> 0..Tries] /\ NoFailures \in [Ages -> Nat] /\ \A g \in Ages : NoFailures[g] = 0
  BY WindowIs DEF NoFailures
<1>3. CountsTyped
  BY <1>2 DEF CountsTyped
<1>4. LinesTyped /\ InOneLine /\ ToBeCounted
  BY DEF LinesTyped, InOneLine, ToBeCounted, Counts
<1>5. BelowTries /\ OnceCounted
  BY <1>2, WindowIs DEF BelowTries, OnceCounted
<1> QED BY <1>1, <1>3, <1>4, <1>5 DEF ServiceInv

LEMMA SourcesSame == UNCHANGED <<logKind, machine>> =>
    /\ HostTyped' = HostTyped /\ Sources' = Sources /\ Programs' = Programs
    /\ \A l : Seen(l)' = Seen(l) /\ \A p : Writes(p)' = Writes(p)
  BY DEF HostTyped, Sources, Programs, Seen, Skipped, Writes

LEMMA FailsKeep == ASSUME ServiceInv, NEW a \in Origins, NEW p \in Programs, Fails(a, p) PROVE ServiceInv'
<1> USE DEF Fails, policy
<1>1. HostTyped' /\ \A l : Seen(l)' = Seen(l)
  BY SourcesSame DEF ServiceInv
<1>2. failedAt'[a][0] = Capped(failedAt[a][0] + 1) /\ failedAt' \in [Origins -> [Ages -> 0..Tries]]
      /\ \A b \in Origins : \A g \in Ages : (b # a \/ g # 0 => failedAt'[b][g] = failedAt[b][g])
  <2>1. failedAt[a] \in [Ages -> 0..Tries] /\ failedAt[a][0] \in 0..Tries /\ 0 \in Ages
    BY WindowIs DEF ServiceInv, CountsTyped
  <2>2. Capped(failedAt[a][0] + 1) \in 0..Tries
    BY <2>1, WindowIs DEF Capped
  <2>3. failedAt \in [Origins -> [Ages -> 0..Tries]]
    BY DEF ServiceInv, CountsTyped
  <2>4. failedAt' = [failedAt EXCEPT ![a] = [failedAt[a] EXCEPT ![0] = Capped(failedAt[a][0] + 1)]]
    BY <2>3
  <2> QED BY <2>1, <2>2, <2>3, <2>4
<1>3. CountsTyped'
  BY <1>2 DEF ServiceInv, CountsTyped
<1>4. \A l \in logLines' : l \in logLines \/ (l.names = {a} /\ l.program = p /\ l.source \in Writes(p) \cap Sources)
  BY DEF LogLine
<1>5. LinesTyped'
  BY <1>4 DEF ServiceInv, LinesTyped
<1>6. \A l \in logLines : l.names # {a}
  OBVIOUS
<1>7. \A l, b : Counts(l, b)' <=> l \in logLines' /\ Seen(l) /\ l.names = {b}
  BY <1>1 DEF Counts
<1>8. InOneLine'
  <2> SUFFICES ASSUME NEW l, NEW m, NEW b \in Origins, Counts(l, b)', Counts(m, b)' PROVE l = m
    BY DEF InOneLine
  <2>1. CASE b # a
    <3>1. l \in logLines /\ m \in logLines
      BY <1>4, <1>7, <2>1
    <3> QED BY <1>7, <3>1 DEF ServiceInv, InOneLine, Counts
  <2>2. CASE b = a
    <3>1. PICK s \in Writes(p) \cap Sources : l = LogLine(s, p, {a})
      BY <1>6, <1>7, <2>2
    <3>2. PICK t \in Writes(p) \cap Sources : m = LogLine(t, p, {a})
      BY <1>6, <1>7, <2>2
    <3>3. Seen(l) /\ Seen(m)
      BY <1>7
    <3>4. s = t
      BY <3>1, <3>2, <3>3, OneLog DEF Seen, LogLine, ServiceInv
    <3> QED BY <3>1, <3>2, <3>4
  <2> QED BY <2>1, <2>2
<1>9. BelowTries'
  BY DEF ServiceInv, BelowTries
<1>10. ToBeCounted'
  <2> SUFFICES ASSUME NEW l, NEW b \in Origins, Counts(l, b)' PROVE b \in flagged \/ attempts[b][0] < failedAt'[b][0]
    BY DEF ToBeCounted
  <2>1. CASE b # a
    <3>1. l \in logLines
      BY <1>4, <1>7, <2>1
    <3>2. Counts(l, b)
      BY <1>7, <3>1 DEF Counts
    <3> QED BY <1>2, <2>1, <3>2, WindowIs DEF ServiceInv, ToBeCounted
  <2>2. CASE b = a
    <3>1. attempts[a][0] <= failedAt[a][0] /\ (a \in flagged \/ attempts[a][0] < Tries)
      BY WindowIs DEF ServiceInv, OnceCounted, BelowTries
    <3>2. attempts[a][0] \in Nat /\ failedAt[a][0] \in 0..Tries /\ Tries \in Nat
      BY WindowIs DEF ServiceInv, CountsTyped
    <3> QED BY <1>2, <2>2, <3>1, <3>2 DEF Capped
  <2> QED BY <2>1, <2>2
<1>11. OnceCounted'
  <2> SUFFICES ASSUME NEW b \in Origins, NEW g \in Ages PROVE attempts[b][g] <= failedAt'[b][g]
    BY DEF OnceCounted
  <2>1. attempts[b][g] <= failedAt[b][g] /\ attempts[b][g] \in Nat /\ failedAt[b][g] \in 0..Tries /\ Tries \in Nat
    BY WindowIs DEF ServiceInv, OnceCounted, CountsTyped
  <2> QED BY <1>2, <2>1 DEF Capped
<1> QED BY <1>1, <1>3, <1>5, <1>8, <1>9, <1>10, <1>11 DEF ServiceInv

LEMMA ForgesKeep == ASSUME ServiceInv, NEW a \in Origins, NEW b \in Origins, Forges(a, b) PROVE ServiceInv'
<1> USE DEF Forges, policy
<1>1. HostTyped'
  BY SourcesSame DEF ServiceInv
<1>2. \A l \in logLines' : l.names = {a, b} /\ a # b
  BY DEF LogLine
<1>3. LinesTyped'
  BY <1>2 DEF LinesTyped
<1>4. \A l, c : ~Counts(l, c)'
  <2>1. \A c : {a, b} # {c}
    OBVIOUS
  <2> QED BY <1>2, <2>1 DEF Counts
<1> QED BY <1>1, <1>3, <1>4 DEF ServiceInv, CountsTyped, InOneLine, ToBeCounted, BelowTries, OnceCounted

\* The failures of one moment are no more than those of the window.
LEMMA TotalIsMore ==
    ASSUME NEW f \in [Ages -> Nat], f[0] <= Tries PROVE f[0] <= Total(f)
<1> DEFINE all == {h \in Ages \X (1..Tries) : h[2] <= f[h[1]]}
           now == [k \in 1..f[0] |-> <<0, k>>]
<1>1. f[0] \in Nat /\ 0 \in Ages /\ Tries \in Nat /\ FailureWindow \in Nat
  BY WindowIs
<1>2. now \in Injection(1..f[0], all)
  <2>1. \A k \in 1..f[0] : <<0, k>> \in all
    BY <1>1
  <2> QED BY <2>1 DEF Injection, IsInjective
<1>3. IsFiniteSet(all)
  <2>1. IsFiniteSet(Ages) /\ IsFiniteSet(1..Tries)
    BY <1>1, FS_Interval DEF Ages
  <2>2. IsFiniteSet(Ages \X (1..Tries))
    BY <2>1, FS_Product
  <2>3. all \in SUBSET (Ages \X (1..Tries))
    OBVIOUS
  <2> HIDE DEF all
  <2> QED BY <2>2, <2>3, FS_Subset
<1>4. Cardinality(1..f[0]) = f[0]
  BY <1>1, FS_Interval
<1>5. Cardinality(1..f[0]) <= Cardinality(all)
  <2> HIDE DEF all, now
  <2> QED BY <1>2, <1>3, FS_Injection
<1> QED BY <1>4, <1>5 DEF Total

\* An attempt that is counted is below the number that bans, or flagged.
LEMMA RecordIs ==
    ASSUME ServiceInv, NEW a \in Origins, RecordAttempt(a)
    PROVE  /\ attempts' \in [Origins -> [Ages -> Nat]]
           /\ tracked' \subseteq Origins /\ flagged' \subseteq Origins /\ banCalls' \subseteq Origins
           /\ flagged \subseteq flagged'
           /\ \A b \in Origins : b # a => attempts'[b] = attempts[b]
           /\ \A g \in Ages : g # 0 => attempts'[a][g] = attempts[a][g]
           /\ attempts'[a][0] = attempts[a][0] \/ (a \notin flagged /\ attempts'[a][0] = attempts[a][0] + 1)
           /\ a \notin flagged' => attempts'[a][0] < Tries
<1>0. /\ attempts \in [Origins -> [Ages -> Nat]] /\ attempts[a] \in [Ages -> Nat] /\ attempts[a][0] \in Nat
      /\ tracked \subseteq Origins /\ flagged \subseteq Origins /\ banCalls \subseteq Origins
      /\ (a \notin flagged => attempts[a][0] < Tries) /\ Tries \in Nat /\ 0 \in Ages
  BY WindowIs DEF ServiceInv, CountsTyped, BelowTries
<1>1. CASE UNCHANGED <<attempts, tracked, flagged, banCalls, struck>>
  BY <1>0, <1>1
<1>2. CASE FlagAbroad(a)
  BY <1>0, <1>2 DEF FlagAbroad
<1>3. CASE a \notin flagged /\ CountFailure(a)
  <2> DEFINE recent == [attempts[a] EXCEPT ![0] = @ + 1]
  <2>1. /\ attempts' = [attempts EXCEPT ![a] = recent] /\ tracked' = tracked \cup {a}
        /\ (Total(recent) >= Tries => a \in flagged')
        /\ flagged' \in {flagged, flagged \cup {a}} /\ banCalls' \in {banCalls, banCalls \cup {a}}
    BY <1>3 DEF CountFailure
  <2>2. recent \in [Ages -> Nat] /\ recent[0] = attempts[a][0] + 1 /\ recent[0] <= Tries
    BY <1>0, <1>3
  <2>3. recent[0] <= Total(recent)
    <3> HIDE DEF recent
    <3> QED BY <2>2, TotalIsMore
  <2>4. recent[0] >= Tries => Total(recent) >= Tries
    <3>1. Total(recent) \in Int \/ Total(recent) \notin Int
      OBVIOUS
    <3>2. recent[0] >= Tries => recent[0] = Tries
      BY <1>0, <2>2
    <3> HIDE DEF recent
    <3> QED BY <2>3, <3>2
  <2>5. \A g \in Ages : g # 0 => recent[g] = attempts[a][g]
    BY <1>0
  <2> HIDE DEF recent
  <2>6. a \notin flagged' => recent[0] < Tries
    BY <1>0, <2>1, <2>2, <2>4
  <2>7. attempts'[a] = recent /\ \A b \in Origins : b # a => attempts'[b] = attempts[b]
    BY <1>0, <2>1
  <2>8. attempts' \in [Origins -> [Ages -> Nat]]
    BY <1>0, <2>1, <2>2
  <2> QED BY <1>0, <1>3, <2>1, <2>2, <2>5, <2>6, <2>7, <2>8
<1> QED BY <1>1, <1>2, <1>3 DEF RecordAttempt

LEMMA LineCounted == ASSUME ServiceInv, NEW l, ReadLine(l) PROVE ServiceInv'
<1>0. /\ l \in logLines /\ logLines' = logLines \ {l}
      /\ UNCHANGED <<logKind, machine, failedAt, fresh, othersLeft, policy>>
  BY DEF ReadLine
<1>1. HostTyped' /\ \A m : Seen(m)' = Seen(m)
  BY <1>0, SourcesSame DEF ServiceInv
<1>2. LinesTyped'
  BY <1>0 DEF ServiceInv, LinesTyped
<1>3. \A m, b : Counts(m, b)' <=> Counts(m, b) /\ m # l
  BY <1>0, <1>1 DEF Counts
<1>4. InOneLine'
  BY <1>3 DEF ServiceInv, InOneLine
<1>5. CASE UNCHANGED <<attempts, tracked, flagged, banCalls, struck>>
  <2>1. CountsTyped' /\ BelowTries' /\ OnceCounted'
    BY <1>0, <1>5 DEF ServiceInv, CountsTyped, BelowTries, OnceCounted, policy
  <2>2. ToBeCounted'
    BY <1>0, <1>3, <1>5 DEF ServiceInv, ToBeCounted
  <2> QED BY <1>1, <1>2, <1>4, <2>1, <2>2 DEF ServiceInv
<1>6. CASE Seen(l) /\ \E a \in Origins : l.names = {a} /\ RecordAttempt(a)
  <2>1. PICK a \in Origins : l.names = {a} /\ RecordAttempt(a)
    BY <1>6
  <2>2. Counts(l, a)
    BY <1>0, <1>6, <2>1 DEF Counts
  <2>3. /\ attempts' \in [Origins -> [Ages -> Nat]]
        /\ tracked' \subseteq Origins /\ flagged' \subseteq Origins /\ banCalls' \subseteq Origins
        /\ flagged \subseteq flagged'
        /\ \A b \in Origins : b # a => attempts'[b] = attempts[b]
        /\ \A g \in Ages : g # 0 => attempts'[a][g] = attempts[a][g]
        /\ attempts'[a][0] = attempts[a][0] \/ (a \notin flagged /\ attempts'[a][0] = attempts[a][0] + 1)
        /\ a \notin flagged' => attempts'[a][0] < Tries
    BY <2>1, RecordIs
  <2>4. CountsTyped'
    BY <1>0, <2>3 DEF ServiceInv, CountsTyped, policy
  <2>5. BelowTries'
    BY <2>3 DEF ServiceInv, BelowTries
  <2>6. ToBeCounted'
    <3> SUFFICES ASSUME NEW m, NEW b \in Origins, Counts(m, b), m # l
                 PROVE  b \in flagged' \/ attempts'[b][0] < failedAt[b][0]
      BY <1>0, <1>3 DEF ToBeCounted
    <3>1. b # a
      BY <2>2 DEF ServiceInv, InOneLine
    <3> QED BY <2>3, <3>1 DEF ServiceInv, ToBeCounted
  <2>7. OnceCounted'
    <3> SUFFICES ASSUME NEW b \in Origins, NEW g \in Ages PROVE attempts'[b][g] <= failedAt[b][g]
      BY <1>0 DEF OnceCounted
    <3>1. attempts[b][g] <= failedAt[b][g] /\ attempts[b][g] \in Nat /\ failedAt[b][g] \in 0..Tries /\ Tries \in Nat
      BY WindowIs DEF ServiceInv, OnceCounted, CountsTyped
    <3>2. a \in flagged \/ attempts[a][0] < failedAt[a][0]
      BY <2>2 DEF ServiceInv, ToBeCounted
    <3>3. CASE b # a \/ g # 0
      BY <2>3, <3>1, <3>3
    <3>4. CASE b = a /\ g = 0
      BY <2>3, <3>1, <3>2, <3>4
    <3> QED BY <3>3, <3>4
  <2> QED BY <1>1, <1>2, <1>4, <2>4, <2>5, <2>6, <2>7 DEF ServiceInv
<1>7. \/ UNCHANGED <<attempts, tracked, flagged, banCalls, struck>>
      \/ Seen(l) /\ \E a \in Origins : l.names = {a} /\ RecordAttempt(a)
  <2> SUFFICES ASSUME ~UNCHANGED <<attempts, tracked, flagged, banCalls, struck>>
               PROVE  Seen(l) /\ \E a \in Origins : l.names = {a} /\ RecordAttempt(a)
    OBVIOUS
  <2>1. Seen(l) /\ (logKind = "mail" => OneIP(l) # {}) /\ (MailAttempt(l) \/ DBAttempt(l) \/ FTPAttempt(l))
    BY DEF ReadLine
  <2>2. \/ \E a \in Origins : l.names = {a}
        \/ logKind = "mail" /\ \E a, b \in Origins : a # b /\ l.names = {a, b}
    BY <1>0 DEF ServiceInv, LinesTyped
  <2>3. CASE \E a \in Origins : l.names = {a}
    <3>1. PICK a \in Origins : l.names = {a}
      BY <2>3
    <3>2. \A b \in OneIP(l) : b = a
      BY <3>1 DEF OneIP
    <3> QED BY <2>1, <3>1, <3>2 DEF MailAttempt, DBAttempt, FTPAttempt
  <2>4. CASE logKind = "mail" /\ \E a, b \in Origins : a # b /\ l.names = {a, b}
    <3>1. PICK a, b \in Origins : a # b /\ l.names = {a, b}
      BY <2>4
    <3>2. Cardinality(l.names) # 1
      <4>1. IsFiniteSet({a} \cup {b}) /\ {a} \cup {b} = l.names
        BY <3>1, FS_Singleton, FS_AddElement
      <4>2. ~\E c : l.names = {c}
        BY <3>1
      <4> QED BY <4>1, <4>2, FS_Singleton
    <3> QED BY <2>1, <2>4, <3>2 DEF OneIP
  <2> QED BY <2>2, <2>3, <2>4
<1> QED BY <1>5, <1>6, <1>7

LEMMA CleanupKeeps == ASSUME ServiceInv, Cleanup PROVE ServiceInv'
<1> USE DEF Cleanup, policy
<1>1. HostTyped'
  BY SourcesSame DEF ServiceInv
<1>2. logLines' = {}
  OBVIOUS
<1>3. LinesTyped' /\ InOneLine' /\ ToBeCounted'
  BY <1>2 DEF LinesTyped, InOneLine, ToBeCounted, Counts
<1>4. \A f \in [Ages -> Nat] : Older(f) \in [Ages -> Nat] /\ Older(f)[0] = 0
                                 /\ \A g \in Ages : g # 0 => (g - 1) \in Ages /\ Older(f)[g] = f[g - 1]
  BY WindowIs DEF Older
<1>5. attempts \in [Origins -> [Ages -> Nat]] /\ failedAt \in [Origins -> [Ages -> 0..Tries]]
      /\ failedAt \in [Origins -> [Ages -> Nat]] /\ Tries \in Nat \ {0} /\ 0 \in Ages
  <2>1. Tries \in Nat
    BY WindowIs
  <2>2. failedAt \in [Origins -> [Ages -> 0..Tries]]
    BY DEF ServiceInv, CountsTyped
  <2>3. failedAt \in [Origins -> [Ages -> Nat]]
    <3>1. \A a \in Origins : failedAt[a] \in [Ages -> Nat]
      <4> TAKE a \in Origins
      <4>1. failedAt[a] \in [Ages -> 0..Tries] /\ \A x \in 0..Tries : x \in Nat
        BY <2>1, <2>2
      <4> QED BY <4>1
    <3> QED BY <2>2, <3>1
  <2> QED BY <2>2, <2>3, WindowIs DEF ServiceInv, CountsTyped
<1> DEFINE aged == [a \in Origins |-> Older(attempts[a])]
<1>6. aged \in [Origins -> [Ages -> Nat]] /\ \A a \in Origins : aged[a][0] = 0
  BY <1>4, <1>5
<1>7. \A a \in Origins : /\ failedAt'[a] \in [Ages -> Nat] /\ failedAt'[a][0] = 0
                         /\ \A g \in Ages : g # 0 => (g - 1) \in Ages /\ failedAt'[a][g] = failedAt[a][g - 1]
  BY <1>4, <1>5
<1>8. failedAt' \in [Origins -> [Ages -> 0..Tries]]
  <2>1. \A a \in Origins : \A g \in Ages : failedAt'[a][g] \in 0..Tries
    <3> TAKE a \in Origins
    <3> TAKE g \in Ages
    <3>1. CASE g = 0
      BY <1>5, <1>7, <3>1
    <3>2. CASE g # 0
      BY <1>5, <1>7, <3>2
    <3> QED BY <3>1, <3>2
  <2>2. \A a \in Origins : failedAt'[a] \in [Ages -> 0..Tries]
    BY <1>7, <2>1
  <2> QED BY <2>2
<1>9. \A a \in Origins : \A g \in Ages : aged[a][g] <= failedAt'[a][g]
  <2> TAKE a \in Origins
  <2> TAKE g \in Ages
  <2>1. CASE g = 0
    BY <1>6, <1>7, <2>1
  <2>2. CASE g # 0
    <3>1. (g - 1) \in Ages /\ failedAt'[a][g] = failedAt[a][g - 1] /\ aged[a][g] = attempts[a][g - 1]
      BY <1>4, <1>5, <1>7, <2>2
    <3>2. attempts[a][g - 1] <= failedAt[a][g - 1]
      BY <3>1 DEF ServiceInv, OnceCounted
    <3> QED BY <3>1, <3>2
  <2> QED BY <2>1, <2>2
<1>10. NoFailures \in [Ages -> Nat] /\ \A g \in Ages : NoFailures[g] = 0
  BY DEF NoFailures
<1>11. Pruned(aged)
  OBVIOUS
<1> HIDE DEF aged
<1>12. attempts' = aged \/ attempts' = [a \in Origins |-> NoFailures]
  BY <1>11 DEF Pruned
<1>13. tracked' \subseteq Origins /\ flagged' \subseteq Origins
  BY <1>11 DEF Pruned, Unflag, ServiceInv, CountsTyped
<1>14. /\ attempts' \in [Origins -> [Ages -> Nat]] /\ \A a \in Origins : attempts'[a][0] = 0
       /\ \A a \in Origins : \A g \in Ages : attempts'[a][g] <= failedAt'[a][g]
  <2>1. CASE attempts' = aged
    BY <1>6, <1>9, <2>1
  <2>2. CASE attempts' = [a \in Origins |-> NoFailures]
    <3>1. \A a \in Origins : \A g \in Ages : failedAt'[a][g] \in Nat
      BY <1>7
    <3> QED BY <1>5, <1>10, <2>2, <3>1
  <2> QED BY <1>12, <2>1, <2>2
<1>15. CountsTyped'
  BY <1>8, <1>13, <1>14 DEF ServiceInv, CountsTyped
<1> QED BY <1>1, <1>3, <1>5, <1>14, <1>15 DEF ServiceInv, BelowTries, OnceCounted

LEMMA ServiceOthersKeep ==
    ServiceInv /\ (UNCHANGED serviceVars \/ (\E a \in banCalls : OnBan(a)) \/ Policies) => ServiceInv'
<1> SUFFICES ASSUME ServiceInv, UNCHANGED serviceVars \/ (\E a \in banCalls : OnBan(a)) \/ Policies
             PROVE  ServiceInv'
  OBVIOUS
<1>1. /\ UNCHANGED <<logKind, machine, logLines, attempts, failedAt, flagged, tracked>>
      /\ banCalls' \subseteq banCalls /\ allowList' \subseteq Origins /\ abroad' \subseteq Origins
      /\ monitor' \in BOOLEAN /\ fresh' = fresh
  BY ServiceAssumption DEF ServiceInv, CountsTyped, serviceVars, policy, OnBan, Policies
<1>2. HostTyped' /\ \A l, a : Counts(l, a)' = Counts(l, a)
  BY <1>1, SourcesSame DEF ServiceInv, Counts
<1>3. CountsTyped' /\ LinesTyped'
  BY <1>1 DEF ServiceInv, CountsTyped, LinesTyped
<1> QED BY <1>1, <1>2, <1>3 DEF ServiceInv, InOneLine, ToBeCounted, BelowTries, OnceCounted

LEMMA ServiceKeeps == ServiceInv /\ [ServiceNext]_serviceVars => ServiceInv'
  BY FailsKeep, ForgesKeep, LineCounted, CleanupKeeps, ServiceOthersKeep
     DEF ServiceNext, ReadsLine, BanCalls

LEMMA ServiceTypes == ServiceInv => ServiceTypeOK
<1> SUFFICES ASSUME ServiceInv PROVE ServiceTypeOK
  OBVIOUS
<1>1. \A a \in Origins : \A g \in Ages : attempts[a][g] \in 0..Tries /\ failedAt[a][g] \in 0..Tries
  <2> TAKE a \in Origins
  <2> TAKE g \in Ages
  <2>1. attempts[a][g] <= failedAt[a][g] /\ attempts[a][g] \in Nat /\ failedAt[a][g] \in 0..Tries /\ Tries \in Nat
    BY WindowIs DEF ServiceInv, OnceCounted, CountsTyped
  <2> QED BY <2>1
<1> QED BY <1>1 DEF ServiceInv, ServiceTypeOK, HostTyped, CountsTyped

----------------------------------------------------------------------------
(* The access logs of containers.                                          *)

\* The addresses a log takes for proxies are those of a proxy.
AtProxies(infos) == \A i \in infos : i.proxies \subseteq ProxyAddrs
OneServer(d) == d.at # "idle" => \E p, s : d.was = {[proxy |-> p, server |-> s]} /\ p.addr \in ProxyAddrs
WebSourcesInv ==
    /\ webProxy.addr \in ProxyAddrs
    /\ AtProxies(reading) /\ AtProxies(lastFound) /\ AtProxies(detecting.out)
    /\ OneServer(detecting)

LEMMA WebSourcesInitially == SourcesInit => WebSourcesInv
  BY DEF SourcesInit, WebSourcesInv, AtProxies, OneServer, NotLooking, Proxies, ProxyAddrs

LEMMA WebSourcesKeep == WebSourcesInv /\ [SourcesNext]_webSourceVars => WebSourcesInv'
<1> SUFFICES ASSUME WebSourcesInv, [SourcesNext]_webSourceVars PROVE WebSourcesInv'
  OBVIOUS
<1> USE DEF WebSourcesInv
<1>1. CASE Recreate
  <2>1. webProxy'.addr \in ProxyAddrs
    <3>1. CASE UNCHANGED webProxy
      BY <3>1
    <3>2. CASE \E p \in Proxies : webProxy' = [p EXCEPT !.addr = CHOOSE a \in ProxyAddrs : a # webProxy.addr]
      <4>1. (CHOOSE a \in ProxyAddrs : a # webProxy.addr) \in ProxyAddrs
        BY DEF ProxyAddrs
      <4> QED BY <3>2, <4>1 DEF Proxies
    <3> QED BY <1>1, <3>1, <3>2 DEF Recreate
  <2> QED BY <1>1, <2>1 DEF Recreate, AtProxies, OneServer
<1>2. CASE DaemonStops \/ DaemonStarts
  BY <1>2 DEF DaemonStops, DaemonStarts, AtProxies, OneServer
<1>3. CASE ListFails
  BY <1>3 DEF ListFails, ReadThese, AtProxies, OneServer
<1>4. CASE ListContainers
  BY <1>4 DEF ListContainers, NotLooking, AtProxies, OneServer
<1>5. CASE LookAtProxy
  <2>1. AtProxies(detecting'.out)
    BY <1>5 DEF LookAtProxy, AtProxies, Previous, ProxySource, LogInfo
  <2>2. detecting'.was = detecting.was /\ detecting.at # "idle"
    BY <1>5 DEF LookAtProxy
  <2> QED BY <1>5, <2>1, <2>2 DEF LookAtProxy, AtProxies, OneServer
<1>6. CASE LookAtServers
  <2>1. AsListed.proxy.addr \in ProxyAddrs
    <3>1. PICK p, s : detecting.was = {[proxy |-> p, server |-> s]} /\ p.addr \in ProxyAddrs
      BY <1>6 DEF LookAtServers, OneServer
    <3> DEFINE l == [proxy |-> p, server |-> s]
    <3>2. (CHOOSE k \in {l} : TRUE) = l
      <4> HIDE DEF l
      <4> QED OBVIOUS
    <3>3. AsListed = l
      BY <3>1, <3>2 DEF AsListed
    <3> QED BY <3>1, <3>3
  <2>2. PICK out : /\ lastFound' = out /\ reading' = out \cup FileLogs(AsListed.server)
                   /\ \A i \in out : i \in detecting.out \/ i \in lastFound
                                       \/ \E s : i = LogInfo(s, "output", {AsListed.proxy.addr})
    <3> DEFINE wanted == {s \in Servers : Wanted(AsListed.server[s], detecting.read)}
               ok(s) == daemon /\ webServer[s] = AsListed.server[s]
               of(s) == IF ok(s) THEN {LogInfo(s, "output", {AsListed.proxy.addr})} ELSE Previous(s)
               all(taken) == detecting.out \cup UNION {of(s) : s \in taken}
    <3>1. PICK taken \in SUBSET wanted : lastFound' = all(taken) /\ ReadThese(all(taken) \cup FileLogs(AsListed.server))
      BY <1>6 DEF LookAtServers
    <3>2. \A i \in all(taken) : i \in detecting.out \/ i \in lastFound
                                  \/ \E s : i = LogInfo(s, "output", {AsListed.proxy.addr})
      BY DEF Previous
    <3> WITNESS all(taken)
    <3> QED BY <3>1, <3>2 DEF ReadThese
  <2>3. AtProxies(out)
    BY <2>1, <2>2 DEF AtProxies, LogInfo
  <2>4. AtProxies(FileLogs(AsListed.server))
    BY DEF AtProxies, FileLogs, LogInfo
  <2> QED BY <1>6, <2>2, <2>3, <2>4 DEF LookAtServers, NotLooking, AtProxies, OneServer
<1>7. CASE UNCHANGED webSourceVars
  BY <1>7 DEF webSourceVars, AtProxies, OneServer
<1> QED BY <1>1, <1>2, <1>3, <1>4, <1>5, <1>6, <1>7 DEF SourcesNext, DetectSources

\* The address a request is counted for is its client's: a proxy's own is replaced by the
\* one it forwarded last, an edge's by the one it names.
LEMMA NobodyBlamed == WebSourcesInv => NobodyElseBlamed
<1> SUFFICES ASSUME WebSourcesInv, NEW r \in Requests, NEW c \in Counted(r)
             PROVE  c[2] = r.client \/ (c[2] = Edge /\ c[1].path = "file" /\ c[1].of # "proxy")
  BY DEF NobodyElseBlamed
<1>1. PICK i \in reading : /\ c = <<i, ClientIP(EntryIn(r, i), i)>>
                           /\ ClientIP(EntryIn(r, i), i) \notin ProxyAddrs
  BY DEF Counted
<1> DEFINE e == EntryIn(r, i)
<1>2. i.proxies \subseteq ProxyAddrs /\ webProxy.addr \in ProxyAddrs
  BY DEF WebSourcesInv, AtProxies
<1>3. r.client \in Requesters /\ r.edge \in BOOLEAN
  BY DEF Requests
<1>4. Peer(r) = r.client \/ (Peer(r) = Edge /\ r.edge)
  BY <1>3 DEF Peer
<1>5. r.client # Edge /\ r.client \notin ProxyAddrs /\ Edge \notin ProxyAddrs
  BY <1>3, WebSourcesAssumption DEF Edge, ProxyAddrs
<1>6. e.cf = Cf(r)
  BY DEF EntryIn, AtProxy, AtServer
<1>7. \/ e.ip = Peer(r)
      \/ e.ip = webProxy.addr /\ e.forwardedFor # <<>> /\ Forwarded(e) = Peer(r)
  <2>1. Named(r) \in Seq({r.forged})
    <3>1. CASE r.forged = None
      BY <3>1, EmptySeq DEF Named
    <3>2. CASE r.forged # None
      <4>1. Named(r) = <<r.forged>>
        BY <3>2 DEF Named
      <4> HIDE DEF e
      <4> QED BY <4>1
    <3> QED BY <3>1, <3>2
  <2>2. \A s \in Seq({r.forged}) : Append(s, Peer(r)) # <<>> /\ Append(s, Peer(r))[Len(Append(s, Peer(r)))] = Peer(r)
    OBVIOUS
  <2> QED BY <2>1, <2>2 DEF EntryIn, AtProxy, AtServer, Forwarded
<1>8. CASE i.of # "proxy" /\ i.path = "file"
  <2>1. c[2] = e.ip
    BY <1>1, <1>8 DEF ClientIP
  <2> QED BY <1>1, <1>2, <1>4, <1>7, <1>8, <2>1
<1>9. CASE ~(i.of # "proxy" /\ i.path = "file")
  <2> DEFINE ip == IF e.ip \in i.proxies /\ e.forwardedFor # <<>> THEN Forwarded(e) ELSE e.ip
  <2>1. c[2] = IF ip = Edge THEN Cf(r) ELSE ip
    BY <1>1, <1>6, <1>9 DEF ClientIP
  <2>2. ip = Peer(r) \/ ip = webProxy.addr
    BY <1>2, <1>4, <1>5, <1>7
  <2>3. ip # webProxy.addr \/ webProxy.addr = Edge
    BY <1>1, <1>2, <2>1
  <2> HIDE DEF ip
  <2> QED BY <1>2, <1>4, <1>5, <2>1, <2>2, <2>3 DEF Cf
<1> QED BY <1>8, <1>9

----------------------------------------------------------------------------
(* Who is counted for a probe.                                             *)

\* A finite set of positions has a k-th one, for each k up to their number.
LEMMA NthIsOne ==
    ASSUME NEW S \in SUBSET Int, IsFiniteSet(S)
    PROVE  \A k \in 1..Cardinality(S) : Nth(S, k) \in S
<1> DEFINE n == Cardinality(S)
           Before(i) == {j \in S : j < i}
           rank == [i \in S |-> Cardinality(Before(i))]
<1>1. n \in Nat
  BY FS_CardinalityType
<1>2. ASSUME NEW i \in S
      PROVE  /\ IsFiniteSet(Before(i)) /\ Before(i) \in SUBSET S /\ Before(i) # S
             /\ rank[i] \in 0..(n - 1)
  <2>1. Before(i) \in SUBSET S /\ i \notin Before(i)
    OBVIOUS
  <2>2. IsFiniteSet(Before(i)) /\ Cardinality(Before(i)) <= n
        /\ (n = Cardinality(Before(i)) => S = Before(i))
    <3> HIDE DEF Before
    <3> QED BY <2>1, FS_Subset
  <2>3. Cardinality(Before(i)) \in Nat
    <3> HIDE DEF Before
    <3> QED BY <2>2, FS_CardinalityType
  <2> HIDE DEF n, Before
  <2> QED BY <1>1, <2>1, <2>2, <2>3
<1>3. ASSUME NEW i \in S, NEW j \in S, i < j PROVE rank[i] # rank[j]
  <2>1. Before(i) \in SUBSET Before(j) /\ i \in Before(j) /\ i \notin Before(i)
    <3>1. i \in Int /\ j \in Int /\ \A k \in S : k \in Int
      OBVIOUS
    <3>2. ~(i < i) /\ \A k \in S : k < i => k < j
      BY <1>3, <3>1
    <3> QED BY <1>3, <3>2
  <2>2. IsFiniteSet(Before(j))
    BY <1>2
  <2> HIDE DEF Before
  <2>3. Cardinality(Before(i)) # Cardinality(Before(j))
    BY <2>1, <2>2, FS_Subset
  <2> QED BY <2>3
<1>4. rank \in Injection(S, 0..(n - 1))
  <2>1. \A i, j \in S : rank[i] = rank[j] => i = j
    <3> SUFFICES ASSUME NEW i \in S, NEW j \in S, rank[i] = rank[j], i # j PROVE FALSE
      OBVIOUS
    <3>1. i < j \/ j < i
      OBVIOUS
    <3> HIDE DEF rank
    <3> QED BY <1>3, <3>1
  <2>2. rank \in [S -> 0..(n - 1)]
    BY <1>2
  <2> HIDE DEF rank
  <2> QED BY <2>1, <2>2 DEF Injection, IsInjective
<1>5. IsFiniteSet(0..(n - 1)) /\ Cardinality(0..(n - 1)) = n
  BY <1>1, FS_Interval
<1>6. rank \in Surjection(S, 0..(n - 1))
  <2> HIDE DEF rank
  <2> QED BY <1>4, <1>5, FS_Injection
<1> SUFFICES ASSUME NEW k \in 1..n PROVE Nth(S, k) \in S
  OBVIOUS
<1>7. k - 1 \in 0..(n - 1)
  BY <1>1
<1>8. \E i \in S : rank[i] = k - 1
  <2> HIDE DEF rank
  <2> QED BY <1>6, <1>7 DEF Surjection
<1>9. \E i \in S : Cardinality({j \in S : j < i}) = k - 1
  BY <1>8
<1> QED BY <1>9 DEF Nth

Tried == [src : Hosts, port : Ports, ripe : BOOLEAN]

\* What is picked of a list are those at the positions.
LEMMA PickedAreThose ==
    ASSUME NEW list \in Seq(Tried), NEW S \in SUBSET DOMAIN list
    PROVE  /\ Picked(list, S) \in Seq(Tried)
           /\ \A k \in DOMAIN Picked(list, S) : \E i \in S : Picked(list, S)[k] = list[i]
<1> DEFINE n == Cardinality(S)  t == Picked(list, S)
<1>1. DOMAIN list = 1..Len(list) /\ Len(list) \in Nat /\ \A i \in DOMAIN list : list[i] \in Tried
  BY LenProperties, ElementOfSeq
<1>2. IsFiniteSet(S) /\ S \in SUBSET Int /\ n \in Nat
  <2>1. IsFiniteSet(1..Len(list))
    BY <1>1, FS_Interval
  <2> QED BY <1>1, <2>1, FS_Subset, FS_CardinalityType
<1>3. \A k \in 1..n : Nth(S, k) \in S
  BY <1>2, NthIsOne
<1>4. t = [k \in 1..n |-> list[Nth(S, k)]]
  BY DEF Picked
<1> HIDE DEF t, n
<1>6. t \in [1..n -> Tried] /\ DOMAIN t = 1..n
  BY <1>1, <1>3, <1>4
<1>7. t \in Seq(Tried)
  BY <1>2, <1>6, SeqDef
<1>8. \A k \in DOMAIN t : \E i \in S : t[k] = list[i]
  BY <1>3, <1>4, <1>6
<1> QED BY <1>7, <1>8 DEF t

\* Those who wait longest stand in front.
RipeInFront(list) == \A i, j \in DOMAIN list : i < j /\ list[j].ripe => list[i].ripe

\* What waits after an addition waited before or has been added.
LEMMA AddsFromBoth ==
    ASSUME NEW list \in Seq(Tried), NEW more \in Seq(Tried), NEW trusted
    PROVE  /\ Adds(list, more, trusted) \in Seq(Tried)
           /\ \A k \in DOMAIN Adds(list, more, trusted) :
                 \/ \E i \in DOMAIN list : Adds(list, more, trusted)[k] = list[i]
                 \/ \E i \in DOMAIN more : Adds(list, more, trusted)[k] = more[i]
           /\ RipeInFront(list) /\ (\A i \in DOMAIN more : ~more[i].ripe)
                => RipeInFront(Adds(list, more, trusted))
<1> DEFINE new == Picked(more, {i \in DOMAIN more : more[i].port \notin trusted})
           all == list \o new
           m == IF Len(all) < MaxPending THEN Len(all) ELSE MaxPending
           t == SubSeq(all, 1, m)
<1>1. new \in Seq(Tried) /\ \A k \in DOMAIN new : \E i \in DOMAIN more : new[k] = more[i]
  <2> DEFINE S == {i \in DOMAIN more : more[i].port \notin trusted}
  <2>1. S \in SUBSET DOMAIN more
    OBVIOUS
  <2>2. new = Picked(more, S)
    OBVIOUS
  <2> HIDE DEF S, new
  <2>3. /\ Picked(more, S) \in Seq(Tried)
        /\ \A k \in DOMAIN Picked(more, S) : \E i \in S : Picked(more, S)[k] = more[i]
    BY <2>1, PickedAreThose
  <2> QED BY <2>1, <2>2, <2>3
<1> HIDE DEF new
<1>2. /\ all \in Seq(Tried) /\ Len(all) = Len(list) + Len(new)
      /\ \A i \in 1..(Len(list) + Len(new)) :
            all[i] = IF i <= Len(list) THEN list[i] ELSE new[i - Len(list)]
  BY <1>1, ConcatProperties
<1>3. Len(list) \in Nat /\ DOMAIN list = 1..Len(list) /\ Len(new) \in Nat /\ DOMAIN new = 1..Len(new)
  BY <1>1, LenProperties
<1> HIDE DEF all
<1>4. MaxPending \in Nat
  BY ScanAssumption
<1>5. m \in Nat /\ m <= Len(all)
  BY <1>2, <1>3, <1>4
<1> HIDE DEF m
<1>6. \A i \in 1..m : all[i] \in Tried
  <2>1. \A i \in 1..Len(all) : all[i] \in Tried
    BY <1>2, ElementOfSeq
  <2> QED BY <1>2, <1>3, <1>5, <2>1
<1>7. t \in Seq(Tried) /\ Len(t) = m /\ \A i \in 1..m : t[i] = all[i]
  <2>1. /\ t \in Seq(Tried) /\ Len(t) = IF 1 <= m THEN m - 1 + 1 ELSE 0
        /\ \A i \in 1..(m - 1 + 1) : t[i] = all[1 + i - 1]
    <3>1. 1 \in Int /\ m \in Int
      BY <1>5
    <3> QED BY <1>6, <3>1, SubSeqProperties
  <2> HIDE DEF t
  <2>2. Len(t) = m /\ m - 1 + 1 = m /\ \A i \in 1..m : 1 + i - 1 = i
    BY <1>5, <2>1
  <2> QED BY <2>1, <2>2
<1> HIDE DEF t
<1>8. DOMAIN t = 1..m
  BY <1>7, LenProperties
<1>9. ASSUME NEW k \in DOMAIN t
      PROVE (\E i \in DOMAIN list : t[k] = list[i]) \/ (\E i \in DOMAIN more : t[k] = more[i])
  <2>1. k \in 1..m /\ t[k] = all[k] /\ k \in 1..(Len(list) + Len(new))
    BY <1>2, <1>3, <1>5, <1>7, <1>8, <1>9
  <2>2. CASE k <= Len(list)
    <3>1. k \in DOMAIN list /\ t[k] = list[k]
      BY <1>2, <1>3, <2>1, <2>2
    <3> QED BY <3>1
  <2>3. CASE ~(k <= Len(list))
    <3>1. k - Len(list) \in DOMAIN new /\ t[k] = new[k - Len(list)]
      BY <1>2, <1>3, <2>1, <2>3
    <3> QED BY <1>1, <3>1
  <2> QED BY <2>2, <2>3
<1>10. ASSUME RipeInFront(list), \A i \in DOMAIN more : ~more[i].ripe
       PROVE  RipeInFront(t)
  <2> SUFFICES ASSUME NEW i \in DOMAIN t, NEW j \in DOMAIN t, i < j, t[j].ripe PROVE t[i].ripe
    BY DEF RipeInFront
  <2>1. /\ i \in 1..m /\ t[i] = all[i] /\ i \in 1..(Len(list) + Len(new))
        /\ j \in 1..m /\ t[j] = all[j] /\ j \in 1..(Len(list) + Len(new))
    BY <1>2, <1>3, <1>5, <1>7, <1>8
  <2>2. j <= Len(list)
    <3> SUFFICES ASSUME ~(j <= Len(list)) PROVE FALSE
      OBVIOUS
    <3>1. j - Len(list) \in DOMAIN new /\ t[j] = new[j - Len(list)]
      BY <1>2, <1>3, <2>1
    <3> QED BY <1>1, <1>10, <3>1
  <2>3. i \in DOMAIN list /\ j \in DOMAIN list /\ t[i] = list[i] /\ t[j] = list[j]
    BY <1>2, <1>3, <2>1, <2>2
  <2> QED BY <1>10, <2>3 DEF RipeInFront
<1>11. Adds(list, more, trusted) = t
  BY DEF Adds, t, m, all, new
<1> QED BY <1>7, <1>9, <1>10, <1>11

\* The server opened the port for the client: it listens there, has its connection, or
\* is an FTP server that knows the client long enough for the next read of the table.
AnsweredOn(a) == a.port \in listening \/ <<FTPClient, a.port>> \in sockets
OutlastsRead(n, a) == n > nextRead /\ (nextRead = 0 => a.ripe)
OfSession(a) ==
    /\ ftp.on /\ a.port \in PassiveRanges(TRUE)
    /\ \/ FTPClient \in ftpSYN \/ <<FTPClient, Control>> \in sockets
       \/ OutlastsRead(ftpClients[FTPClient], a)
Excused(a) == AnsweredOn(a) \/ OfSession(a) \/ OutlastsRead(misread, a)

ProbesInv ==
    /\ ~blamed
    /\ Control \in listening <=> ftp.on
    /\ <<FTPClient, Control>> \in sockets => ftp.on
    /\ probed \in Sweeps /\ pending \in Seq(Tried)
    /\ nextRead \in 0..2 /\ misread \in Nat /\ ftpClients \in [Hosts -> Nat]
    /\ RipeInFront(pending)
    /\ \A a \in Range(pending) : a.src = FTPClient => Excused(a)

LEMMA ProbesInitially == ProbesInit => ProbesInv
<1> SUFFICES ASSUME ProbesInit PROVE ProbesInv
  OBVIOUS
<1>1. Control # Service /\ Control \in listening <=> ftp.on
  BY ScanAssumption DEF ProbesInit
<1>2. pending \in Seq(Tried) /\ Range(pending) = {} /\ RipeInFront(pending)
  BY EmptySeq DEF ProbesInit, Range, RipeInFront
<1> QED BY <1>1, <1>2, ScanAssumption DEF ProbesInit, ProbesInv

\* What is added to the list, and what becomes of those that waited.
LEMMA AddKeeps ==
    ASSUME ProbesInv, NEW list \in Seq(Tried), NEW more \in Seq(Tried), NEW trusted,
           Add(list, more, trusted),
           \A a \in Range(list) \cup Range(more) : a.src = FTPClient => Excused(a)',
           RipeInFront(list), \A a \in Range(more) : ~a.ripe
    PROVE  /\ pending' \in Seq(Tried) /\ RipeInFront(pending)'
           /\ \A a \in Range(pending)' : a.src = FTPClient => Excused(a)'
<1>1. pending' = Adds(list, more, trusted)
  BY DEF Add
<1>2. /\ pending' \in Seq(Tried)
      /\ \A k \in DOMAIN pending' : \/ \E i \in DOMAIN list : pending'[k] = list[i]
                                   \/ \E i \in DOMAIN more : pending'[k] = more[i]
  BY <1>1, AddsFromBoth
<1>3. Range(pending)' \subseteq Range(list) \cup Range(more)
  BY <1>2 DEF Range
<1>4. \A i \in DOMAIN more : ~more[i].ripe
  BY DEF Range
<1>5. RipeInFront(pending')
  BY <1>1, <1>4, AddsFromBoth
<1>6. RipeInFront(pending)'
  BY <1>5 DEF RipeInFront
<1> QED BY <1>2, <1>3, <1>6

LEMMA AddedByClient ==
    ASSUME NEW p \in Ports
    PROVE  /\ <<Attempt(FTPClient, p)>> \in Seq(Tried)
           /\ Range(<<Attempt(FTPClient, p)>>) = {Attempt(FTPClient, p)}
           /\ \A a \in Range(<<Attempt(FTPClient, p)>>) : ~a.ripe
<1>1. Attempt(FTPClient, p) \in Tried
  BY DEF Attempt, Tried, Hosts
<1> DEFINE one == <<Attempt(FTPClient, p)>>
<1>2. one \in Seq(Tried) /\ DOMAIN one = {1} /\ one[1] = Attempt(FTPClient, p)
  BY <1>1
<1> HIDE DEF one
<1>3. Range(one) = {Attempt(FTPClient, p)}
  BY <1>2 DEF Range
<1>4. ~Attempt(FTPClient, p).ripe
  BY DEF Attempt
<1> QED BY <1>2, <1>3, <1>4 DEF one

\* The client, using what the server offers.
LEMMA ClientKeeps ==
    ASSUME ProbesInv, NEW p \in Ports, Connect(p) \/ Upload(p) \/ Transfer(p)
    PROVE  ProbesInv'
<1> USE DEF ProbesInv
<1>1. CASE Connect(p)
  <2>1. Add(pending, <<Attempt(FTPClient, p)>>, Trusted)
    BY <1>1 DEF Connect
  <2>2. /\ sockets \subseteq sockets' /\ ftpSYN \subseteq ftpSYN'
        /\ (<<FTPClient, Control>> \in sockets' => ftp'.on)
    BY <1>1 DEF Connect, Add
  <2>3. UNCHANGED <<ftp, probed, listening, nextRead, misread, blamed, ftpClients>>
    BY <1>1 DEF Connect
  <2>4. \A a \in Range(pending) : a.src = FTPClient => Excused(a)'
    BY <2>2, <2>3 DEF Excused, AnsweredOn, OfSession, OutlastsRead, PassiveRanges, Passive
  <2>5. \A a \in Range(<<Attempt(FTPClient, p)>>) : Excused(a)'
    BY <1>1, <2>3, AddedByClient DEF Connect, Excused, AnsweredOn, Attempt
  <2>6. <<Attempt(FTPClient, p)>> \in Seq(Tried)
    BY AddedByClient
  <2>7. /\ pending' \in Seq(Tried) /\ RipeInFront(pending)'
        /\ \A a \in Range(pending)' : a.src = FTPClient => Excused(a)'
    BY <2>1, <2>4, <2>5, <2>6, AddKeeps, AddedByClient
  <2> QED BY <2>2, <2>3, <2>7
<1>2. CASE Upload(p)
  <2> DEFINE two == <<Attempt(FTPClient, Control), Attempt(FTPClient, p)>>
  <2>1. Add(pending, two, Trusted)
    BY <1>2 DEF Upload
  <2>2. two \in Seq(Tried) /\ DOMAIN two = {1, 2} /\ two[1].port = Control /\ two[2].port = p
        /\ two[1].src = FTPClient /\ ~two[1].ripe /\ ~two[2].ripe
    <3>1. Attempt(FTPClient, p) \in Tried /\ Attempt(FTPClient, Control) \in Tried
      BY ScanAssumption DEF Attempt, Tried, Hosts
    <3>2. Attempt(FTPClient, p).port = p /\ Attempt(FTPClient, Control).port = Control
          /\ Attempt(FTPClient, Control).src = FTPClient
          /\ ~Attempt(FTPClient, p).ripe /\ ~Attempt(FTPClient, Control).ripe
      BY DEF Attempt
    <3> QED BY <3>1, <3>2
  <2> HIDE DEF two
  <2>3. FTPClient \in ftpSYN'
    <3>1. two[1] \in Range(two)
      BY <2>2 DEF Range
    <3>2. FTPClient \in TriedControl(two)
      BY <2>2, <3>1 DEF TriedControl
    <3> QED BY <2>1, <3>2 DEF Add
  <2>4. UNCHANGED <<ftp, probed, listening, sockets, nextRead, misread, blamed, ftpClients>>
    BY <1>2 DEF Upload
  <2>5. ftp.on /\ p \in PassiveRanges(TRUE) /\ ftpSYN \subseteq ftpSYN'
    BY <1>2, <2>1 DEF Upload, Add
  <2>6. \A a \in Range(pending) : a.src = FTPClient => Excused(a)'
    BY <2>4, <2>5 DEF Excused, AnsweredOn, OfSession, OutlastsRead, PassiveRanges, Passive
  <2>7. \A a \in Range(two) : a.port \in {Control, p} /\ ~a.ripe
    BY <2>2 DEF Range
  <2>8. ASSUME NEW a \in Range(two) PROVE Excused(a)'
    <3>1. a.port = Control => AnsweredOn(a)'
      BY <2>4, <2>5 DEF AnsweredOn
    <3>2. a.port = p => OfSession(a)'
      BY <2>3, <2>4, <2>5 DEF OfSession, PassiveRanges, Passive
    <3> QED BY <2>7, <3>1, <3>2 DEF Excused
  <2>9. \A a \in Range(two) : a.src = FTPClient => Excused(a)'
    BY <2>8
  <2>10. /\ pending' \in Seq(Tried) /\ RipeInFront(pending)'
         /\ \A a \in Range(pending)' : a.src = FTPClient => Excused(a)'
    BY <2>1, <2>2, <2>6, <2>7, <2>9, AddKeeps
  <2> QED BY <2>4, <2>10
<1>3. CASE Transfer(p)
  <2>1. Add(pending, <<Attempt(FTPClient, p)>>, Trusted)
    BY <1>3 DEF Transfer
  <2>2. ftpSYN \subseteq ftpSYN'
    BY <2>1 DEF Add
  <2>3. UNCHANGED <<ftp, probed, listening, sockets, nextRead, misread, blamed, ftpClients>>
    BY <1>3 DEF Transfer
  <2>4. \A a \in Range(pending) : a.src = FTPClient => Excused(a)'
    BY <2>2, <2>3 DEF Excused, AnsweredOn, OfSession, OutlastsRead, PassiveRanges, Passive
  <2>5. ftp.on /\ p \in PassiveRanges(TRUE) /\ <<FTPClient, Control>> \in sockets
    BY <1>3 DEF Transfer
  <2>6. Excused(Attempt(FTPClient, p))'
    <3>1. Attempt(FTPClient, p).port = p
      BY DEF Attempt
    <3> QED BY <2>3, <2>5, <3>1 DEF Excused, OfSession, PassiveRanges, Passive
  <2>7. \A a \in Range(<<Attempt(FTPClient, p)>>) : Excused(a)'
    BY <2>6, AddedByClient
  <2>8. <<Attempt(FTPClient, p)>> \in Seq(Tried)
    BY AddedByClient
  <2>9. /\ pending' \in Seq(Tried) /\ RipeInFront(pending)'
        /\ \A a \in Range(pending)' : a.src = FTPClient => Excused(a)'
    BY <2>1, <2>4, <2>7, <2>8, AddKeeps, AddedByClient
  <2> QED BY <2>3, <2>9
<1> QED BY <1>1, <1>2, <1>3

\* A connection that is over, a service that stops.
LEMMA HostKeeps ==
    ASSUME ProbesInv, StopService \/ \E p \in Ports : HangUp(p)
    PROVE  ProbesInv'
<1> USE DEF ProbesInv
<1>1. CASE StopService
  <2>1. UNCHANGED <<ftp, probed, sockets, localVars, misread, blamed>>
        /\ listening' = listening \ {Service}
    BY <1>1 DEF StopService
  <2>2. UNCHANGED <<pending, ftpSYN, ftpClients, nextRead>>
    BY <2>1 DEF localVars
  <2>3. Control \in listening' <=> ftp'.on
    BY <2>1, ScanAssumption
  <2>4. ASSUME NEW a \in Range(pending), a.src = FTPClient PROVE Excused(a)'
    <3>1. a.port = Service => <<FTPClient, Service>> \in sockets
      BY <1>1, <2>4 DEF StopService
    <3>2. Excused(a)
      BY <2>4
    <3>3. AnsweredOn(a) => AnsweredOn(a)'
      BY <2>1, <2>2, <3>1 DEF AnsweredOn
    <3> QED BY <2>1, <2>2, <3>2, <3>3 DEF Excused, OfSession, OutlastsRead, PassiveRanges, Passive
  <2> QED BY <2>1, <2>2, <2>3, <2>4
<1>2. ASSUME NEW p \in Ports, HangUp(p) PROVE ProbesInv'
  <2>1. UNCHANGED <<ftp, probed, listening, localVars, misread, blamed>>
        /\ sockets' = sockets \ {<<FTPClient, p>>}
    BY <1>2 DEF HangUp
  <2>2. UNCHANGED <<pending, ftpSYN, ftpClients, nextRead>>
    BY <2>1 DEF localVars
  <2>3. ASSUME NEW a \in Range(pending), a.src = FTPClient PROVE Excused(a)'
    <3>1. p = Service /\ p \in listening
      BY <1>2, <2>3 DEF HangUp
    <3>2. Excused(a)
      BY <2>3
    <3>3. AnsweredOn(a) => AnsweredOn(a)'
      BY <2>1, <2>2, <3>1 DEF AnsweredOn
    <3>4. <<FTPClient, Control>> \in sockets => <<FTPClient, Control>> \in sockets'
      BY <2>1, <3>1, ScanAssumption
    <3> QED BY <2>1, <2>2, <3>2, <3>3, <3>4 DEF Excused, OfSession, OutlastsRead, PassiveRanges, Passive
  <2> QED BY <2>1, <2>2, <2>3
<1> QED BY <1>1, <1>2

\* What is left of a list when the first ones are cut off.
LEMMA RestOfList ==
    ASSUME NEW list \in Seq(Tried), NEW n \in 1..Len(list)
    PROVE  /\ SubSeq(list, n + 1, Len(list)) \in Seq(Tried)
           /\ Len(SubSeq(list, n + 1, Len(list))) = Len(list) - n
           /\ \A i \in 1..(Len(list) - n) : SubSeq(list, n + 1, Len(list))[i] = list[n + i]
<1> DEFINE t == SubSeq(list, n + 1, Len(list))
<1>1. Len(list) \in Nat /\ DOMAIN list = 1..Len(list) /\ \A i \in 1..Len(list) : list[i] \in Tried
  BY LenProperties, ElementOfSeq
<1>2. /\ t \in Seq(Tried)
      /\ Len(t) = IF n + 1 <= Len(list) THEN Len(list) - (n + 1) + 1 ELSE 0
      /\ \A i \in 1..(Len(list) - (n + 1) + 1) : t[i] = list[n + 1 + i - 1]
  <2>1. \A i \in (n + 1)..Len(list) : list[i] \in Tried
    BY <1>1
  <2>2. n + 1 \in Int /\ Len(list) \in Int
    BY <1>1
  <2> QED BY <1>1, <2>1, <2>2, SubSeqProperties
<1> HIDE DEF t
<1>3. Len(t) = Len(list) - n
  <2>1. n \in Nat /\ n <= Len(list) /\ Len(list) \in Nat
    BY <1>1
  <2>2. CASE n + 1 <= Len(list)
    BY <1>2, <2>1, <2>2
  <2>3. CASE ~(n + 1 <= Len(list))
    <3>1. n = Len(list)
      BY <2>1, <2>3
    <3> QED BY <1>2, <2>1, <2>3, <3>1
  <2> QED BY <2>2, <2>3
<1>4. \A i \in 1..(Len(list) - n) : t[i] = list[n + i]
  <2> SUFFICES ASSUME NEW i \in 1..(Len(list) - n) PROVE t[i] = list[n + i]
    OBVIOUS
  <2>1. i \in 1..(Len(list) - (n + 1) + 1) /\ n + 1 + i - 1 = n + i
    BY <1>1
  <2>2. t[i] = list[n + 1 + i - 1]
    BY <1>2, <2>1
  <2> QED BY <2>1, <2>2
<1> QED BY <1>2, <1>3, <1>4 DEF t

\* The table is read, or cannot be.
LEMMA DueKeeps ==
    ASSUME ProbesInv, Due
    PROVE  ProbesInv'
<1> USE DEF ProbesInv
<1>1. /\ nextRead = 0 /\ nextRead' \in 1..2 /\ ftpSYN' = {}
      /\ UNCHANGED <<ftp, probed, listening, sockets>>
  BY DEF Due, IsDue, scanHostVars
<1>2. Memory \in Nat /\ Memory > 2
  BY ScanAssumption
<1> DEFINE ready(n) == {pending[i] : i \in 1..n}
<1>3. PICK cut \in 1..Len(pending) :
        /\ IsCut(cut) /\ pending' = SubSeq(pending, cut + 1, Len(pending))
        /\ TableRead(ready(cut)) \/ TableUnread(ready(cut))
  BY DEF Due
<1> DEFINE Ready == ready(cut)
<1>0. DOMAIN pending = 1..Len(pending) /\ Len(pending) \in Nat /\ \A i \in DOMAIN pending : pending[i] \in Tried
  BY LenProperties, ElementOfSeq
<1>4. /\ pending' \in Seq(Tried) /\ RipeInFront(pending)'
      /\ \A a \in Range(pending)' : a \in Range(pending) /\ ~a.ripe
  <2>1. \A i \in DOMAIN pending : i > cut => ~pending[i].ripe
    <3> SUFFICES ASSUME NEW i \in DOMAIN pending, i > cut, pending[i].ripe PROVE FALSE
      OBVIOUS
    <3>1. cut + 1 \in DOMAIN pending /\ ~pending[cut + 1].ripe /\ (cut + 1 < i \/ cut + 1 = i)
      BY <1>0, <1>3 DEF IsCut
    <3> QED BY <3>1 DEF RipeInFront
  <2>2. /\ pending' \in Seq(Tried) /\ Len(pending') = Len(pending) - cut
        /\ \A i \in 1..(Len(pending) - cut) : pending'[i] = pending[cut + i]
    BY <1>3, RestOfList
  <2>3. DOMAIN pending' = 1..(Len(pending) - cut)
    BY <2>2, LenProperties
  <2>4. \A k \in DOMAIN pending' : /\ cut + k \in DOMAIN pending /\ cut + k > cut
                                  /\ pending'[k] = pending[cut + k]
    <3>1. \A k \in 1..(Len(pending) - cut) : cut + k \in 1..Len(pending) /\ cut + k > cut
      BY <1>0, <1>3
    <3> QED BY <1>0, <2>2, <2>3, <3>1
  <2>5. \A k \in DOMAIN pending' : ~pending'[k].ripe
    BY <2>1, <2>4
  <2>6. RipeInFront(pending)'
    BY <2>5 DEF RipeInFront
  <2>7. \A a \in Range(pending)' : a \in Range(pending) /\ ~a.ripe
    BY <2>4, <2>5 DEF Range
  <2> QED BY <2>2, <2>6, <2>7
<1>11. \A a \in Ready : a \in Range(pending) /\ a.ripe
  <2> SUFFICES ASSUME NEW i \in 1..cut PROVE pending[i] \in Range(pending) /\ pending[i].ripe
    OBVIOUS
  <2>1. i \in DOMAIN pending
    BY <1>0
  <2>2. pending[i].ripe
    BY <1>3 DEF IsCut
  <2> QED BY <2>1, <2>2 DEF Range
<1> HIDE DEF ready
<1>5. FTPClient \in Hosts
  BY DEF Hosts
<1>6. \A h \in Hosts : Known(Ready)[h] \in Nat /\ Known(Ready)[h] \in {Memory, ftpClients[h]}
  BY <1>2 DEF Known
<1>7. Known(Ready) \in [Hosts -> Nat]
  BY <1>6 DEF Known
<1>8. (Control \in listening /\ FTPClient \in ftpSYN) => Known(Ready)[FTPClient] = Memory
  BY <1>5 DEF Known
\* Whoever is unripe did not have to outlast this read.
<1>9. ASSUME NEW a \in Range(pending)', a.src = FTPClient
      PROVE  \/ AnsweredOn(a)'
             \/ /\ ftp.on /\ a.port \in PassiveRanges(TRUE)
                /\ FTPClient \in ftpSYN \/ <<FTPClient, Control>> \in sockets
  <2>1. ~a.ripe /\ Excused(a)
    BY <1>4, <1>9
  <2>2. ~OutlastsRead(misread, a) /\ ~OutlastsRead(ftpClients[FTPClient], a)
    BY <1>1, <2>1 DEF OutlastsRead
  <2> QED BY <1>1, <2>1, <2>2 DEF Excused, AnsweredOn, OfSession
<1>10. PassiveRanges(TRUE)' = PassiveRanges(TRUE)
  BY <1>1 DEF PassiveRanges, Passive
<1>12. CASE TableRead(Ready)
  <2>0. /\ ftpClients' = Known(Ready) /\ UNCHANGED misread
        /\ blamed' = (blamed \/ (misread = 0 /\ \E a \in {b \in Ready : IsProbe(b, ftpClients')} :
                                                a.src = FTPClient))
    BY <1>12 DEF TableRead
  <2>1. ASSUME misread = 0, NEW a \in Ready, IsProbe(a, Known(Ready)), a.src = FTPClient PROVE FALSE
    <3>2. Excused(a) /\ a.ripe
      BY <1>11, <2>1
    <3>3. ~AnsweredOn(a)
      BY <2>1 DEF IsProbe, AnsweredOn
    <3>4. ~OutlastsRead(misread, a)
      BY <1>1, <2>1 DEF OutlastsRead
    <3>5. OfSession(a)
      BY <3>2, <3>3, <3>4 DEF Excused
    <3>6. PassiveRanges(Control \in listening) = PassiveRanges(TRUE)
      BY <3>5 DEF OfSession, PassiveRanges
    <3>7. <<FTPClient, Control>> \in sockets => FTPClient \in FTPControl(Ready)
      BY <1>5, <2>1 DEF FTPControl
    <3>8. Known(Ready)[FTPClient] > 0
      <4>1. CASE FTPClient \in ftpSYN \/ <<FTPClient, Control>> \in sockets
        BY <1>2, <1>5, <3>5, <3>7, <4>1 DEF Known, OfSession
      <4>2. CASE ftpClients[FTPClient] > nextRead
        BY <1>1, <1>2, <1>5, <1>6, <4>2
      <4> QED BY <3>5, <4>1, <4>2 DEF OfSession, OutlastsRead
    <3> QED BY <2>1, <3>5, <3>6, <3>8 DEF IsProbe, OfSession
  <2>2. ~blamed'
    BY <2>0, <2>1
  <2>3. ASSUME NEW a \in Range(pending)', a.src = FTPClient PROVE Excused(a)'
    <3>1. CASE FTPClient \in ftpSYN /\ ftp.on /\ a.port \in PassiveRanges(TRUE)
      <4>1. ftpClients'[FTPClient] = Memory
        BY <1>8, <2>0, <3>1
      <4>2. OutlastsRead(ftpClients[FTPClient], a)'
        BY <1>1, <1>2, <4>1 DEF OutlastsRead
      <4> QED BY <1>1, <1>10, <3>1, <4>2 DEF Excused, OfSession
    <3>2. CASE <<FTPClient, Control>> \in sockets /\ ftp.on /\ a.port \in PassiveRanges(TRUE)
      BY <1>1, <1>10, <3>2 DEF Excused, OfSession
    <3>3. CASE AnsweredOn(a)'
      BY <3>3 DEF Excused
    <3> QED BY <1>9, <2>3, <3>1, <3>2, <3>3
  <2>4. misread' \in Nat /\ ftpClients' \in [Hosts -> Nat] /\ nextRead' \in 0..2
    BY <1>1, <1>7, <2>0
  <2>5. pending' \in Seq(Tried) /\ RipeInFront(pending)'
    BY <1>4
  <2> QED BY <1>1, <2>2, <2>3, <2>4, <2>5
<1>13. CASE TableUnread(Ready)
  <2>0. misread' = Memory /\ UNCHANGED <<ftpClients, blamed>>
    BY <1>13 DEF TableUnread
  <2>1. ASSUME NEW a \in Range(pending)' PROVE Excused(a)'
    BY <1>1, <1>2, <2>0 DEF Excused, OutlastsRead
  <2>2. misread' \in Nat /\ ftpClients' \in [Hosts -> Nat] /\ nextRead' \in 0..2 /\ ~blamed'
    BY <1>1, <1>2, <2>0
  <2>3. pending' \in Seq(Tried) /\ RipeInFront(pending)'
    BY <1>4
  <2> QED BY <1>1, <2>1, <2>2, <2>3
<1> QED BY <1>3, <1>12, <1>13

\* A turn ends: the read that is due comes nearer, and everybody who waited is ripe.
LEMMA TurnKeeps ==
    ASSUME ProbesInv, ProbeTurn
    PROVE  ProbesInv'
<1> USE DEF ProbesInv
<1> DEFINE later == Sooner(snap.left)
           trusted == IF later > 0 THEN snap.listening ELSE {}
           old == [i \in 1..Len(pending) |-> [pending[i] EXCEPT !.ripe = TRUE]]
           new == [i \in 1..Len(probed) |-> Attempt(Prober, probed[i])]
<1>1. Add(old, new, trusted)
  BY DEF ProbeTurn
<1>2. /\ nextRead' = Sooner(nextRead) /\ ftpClients' = AllSooner(ftpClients)
      /\ misread' = Sooner(misread) /\ ~IsDue
      /\ UNCHANGED <<ftp, probed, listening, sockets, blamed>>
  BY DEF ProbeTurn
<1>3. DOMAIN pending = 1..Len(pending) /\ Len(pending) \in Nat /\ \A i \in DOMAIN pending : pending[i] \in Tried
  BY LenProperties, ElementOfSeq
<1>4. old \in Seq(Tried) /\ DOMAIN old = DOMAIN pending
      /\ \A i \in DOMAIN pending : /\ old[i].ripe /\ old[i].src = pending[i].src
                                  /\ old[i].port = pending[i].port
  <2>1. ASSUME NEW i \in DOMAIN pending
        PROVE  /\ old[i] \in Tried /\ old[i].ripe /\ old[i].src = pending[i].src
               /\ old[i].port = pending[i].port
    <3>1. pending[i] \in Tried /\ old[i] = [pending[i] EXCEPT !.ripe = TRUE]
      BY <1>3
    <3> HIDE DEF old
    <3> QED BY <3>1 DEF Tried
  <2>2. old \in [1..Len(pending) -> Tried]
    BY <1>3, <2>1
  <2>3. DOMAIN old = DOMAIN pending
    BY <1>3
  <2> HIDE DEF old
  <2>4. old \in Seq(Tried)
    BY <1>3, <2>2, SeqDef
  <2> QED BY <2>1, <2>3, <2>4
<1>5. new \in Seq(Tried) /\ \A a \in Range(new) : a.src # FTPClient /\ ~a.ripe
  <2>1. probed \in Seq(Ports)
    BY ScanAssumption
  <2>2. Len(probed) \in Nat /\ DOMAIN probed = 1..Len(probed) /\ \A i \in DOMAIN probed : probed[i] \in Ports
    BY <2>1, LenProperties, ElementOfSeq
  <2>3. \A i \in 1..Len(probed) : /\ Attempt(Prober, probed[i]) \in Tried
                                  /\ Attempt(Prober, probed[i]).src # FTPClient
                                  /\ ~Attempt(Prober, probed[i]).ripe
    BY <2>2, ScanAssumption DEF Attempt, Tried, Hosts
  <2>4. new \in [1..Len(probed) -> Tried] /\ \A i \in DOMAIN new : new[i].src # FTPClient /\ ~new[i].ripe
    BY <2>3
  <2> HIDE DEF new
  <2> QED BY <2>2, <2>4, SeqDef DEF Range
<1> HIDE DEF old, new, trusted
<1>6. nextRead = 0 => \A i \in DOMAIN pending : ~pending[i].ripe
  <2> SUFFICES ASSUME nextRead = 0, NEW i \in DOMAIN pending, pending[i].ripe PROVE FALSE
    OBVIOUS
  <2>1. pending # <<>> /\ 1 \in DOMAIN pending /\ i \in Nat /\ (1 < i \/ i = 1)
    BY <1>3, EmptySeq
  <2>2. pending[1].ripe
    BY <2>1 DEF RipeInFront
  <2> QED BY <1>2, <2>1, <2>2 DEF IsDue
<1>7. FTPClient \in Hosts /\ ftpClients'[FTPClient] = Sooner(ftpClients[FTPClient])
  BY <1>2 DEF AllSooner, Hosts
<1>8. PassiveRanges(TRUE)' = PassiveRanges(TRUE) /\ ftpSYN \subseteq ftpSYN'
  BY <1>1, <1>2 DEF PassiveRanges, Passive, Add
<1>9. ASSUME NEW n \in Nat, NEW m, m = Sooner(n), NEW a \in Range(pending), OutlastsRead(n, a)
      PROVE  m > nextRead'
  <2>1. nextRead # 0
    BY <1>6, <1>9 DEF OutlastsRead, Range
  <2> QED BY <1>2, <1>9, <2>1 DEF OutlastsRead, Sooner
<1>10. ASSUME NEW b \in Range(old), b.src = FTPClient PROVE Excused(b)'
  <2>1. PICK a \in Range(pending) : /\ a.src = FTPClient /\ Excused(a)
                                  /\ b.ripe /\ b.port = a.port
    BY <1>4, <1>10 DEF Range
  <2>2. CASE AnsweredOn(a)
    BY <1>2, <2>1, <2>2 DEF Excused, AnsweredOn
  <2>3. CASE OutlastsRead(misread, a)
    <3>1. misread' > nextRead'
      BY <1>2, <1>9, <2>1, <2>3
    <3> QED BY <2>1, <3>1 DEF Excused, OutlastsRead
  <2>4. CASE OfSession(a)
    <3>1. CASE OutlastsRead(ftpClients[FTPClient], a)
      <4>1. ftpClients'[FTPClient] > nextRead'
        BY <1>7, <1>9, <2>1, <3>1
      <4> QED BY <1>2, <1>8, <2>1, <2>4, <4>1 DEF Excused, OfSession, OutlastsRead
    <3>2. CASE FTPClient \in ftpSYN \/ <<FTPClient, Control>> \in sockets
      BY <1>2, <1>8, <2>1, <2>4, <3>2 DEF Excused, OfSession
    <3> QED BY <2>4, <3>1, <3>2 DEF OfSession
  <2> QED BY <2>1, <2>2, <2>3, <2>4 DEF Excused
<1>11. /\ pending' \in Seq(Tried) /\ RipeInFront(pending)'
       /\ \A a \in Range(pending)' : a.src = FTPClient => Excused(a)'
  <2>1. RipeInFront(old)
    BY <1>4 DEF RipeInFront
  <2>2. \A a \in Range(old) \cup Range(new) : a.src = FTPClient => Excused(a)'
    BY <1>5, <1>10
  <2> QED BY <1>1, <1>4, <1>5, <2>1, <2>2, AddKeeps
<1>12. nextRead' \in 0..2 /\ misread' \in Nat /\ ftpClients' \in [Hosts -> Nat]
  BY <1>2 DEF Sooner, AllSooner
<1> QED BY <1>2, <1>11, <1>12

LEMMA ProbesKeep == ProbesInv /\ [ProbesNext]_probeVars => ProbesInv'
<1> SUFFICES ASSUME ProbesInv, [ProbesNext]_probeVars PROVE ProbesInv'
  OBVIOUS
<1>1. CASE UNCHANGED probeVars
  BY <1>1 DEF probeVars, scanHostVars, localVars, analyzerVars, ProbesInv, Excused, AnsweredOn, OfSession,
              OutlastsRead, PassiveRanges, Passive
<1> QED BY <1>1, ClientKeeps, HostKeeps, DueKeeps, TurnKeeps DEF ProbesNext

----------------------------------------------------------------------------
(* Destinations: the verdict over a listed address.                        *)

\* The days of a log that count, from any day.
OnDays(log) == {a \in DestDays : log[a] > 0}
DaysOn(log) == Cardinality(OnDays(log))
Logged == [DestDays -> 0..MaxConns]
FlagTyped == [age : 0..FlagDays, regular : BOOLEAN]
Live(f) == f.age < FlagDays
RegularNow(f) == Live(f) /\ f.regular

\* Before a listed address was reached nothing is known of it.
NothingKnown ==
    /\ link = "none" /\ ~linkSeen /\ flag = NoFlag /\ destFile.flag = NoFlag
    /\ \A a \in DestDays : days[a] = 0 /\ destFile.days[a] = 0

\* Of one that was listed from the first day on, only a restart leaves days without
\* a verdict over them: one each.  What is on disk is a day ahead at most.
JudgedAtOnce ==
    first = "listed" /\ ~hidden /\ ~expired =>
        /\ ~Live(flag) => DaysOn(days) <= starts
        /\ ~Live(destFile.flag) => DaysOn(destFile.days) <= starts + 1
        /\ Live(destFile.flag) => flag = destFile.flag
        /\ starts < MinDays => ~RegularNow(flag)

DestInv ==
    /\ DestinationsTypeOK
    /\ first = "never" => NothingKnown
    /\ first = "listed" => onLists
    /\ JudgedAtOnce

LEMMA DestConstants ==
    /\ WindowDays \in Nat \ {0} /\ MinDays \in Nat \ {0} /\ FlagDays \in Nat \ {0} /\ MaxConns \in Nat \ {0}
    /\ MaxStarts \in Nat \ {0} /\ 0 \in DestDays /\ MinDays > 1
  BY DestinationAssumption DEF DestDays

LEMMA DaysFinite == \A log : IsFiniteSet(OnDays(log)) /\ DaysOn(log) \in Nat
<1> TAKE log
<1>1. IsFiniteSet(DestDays)
  BY DestConstants, FS_Interval DEF DestDays
<1>2. OnDays(log) \in SUBSET DestDays
  BY DEF OnDays
<1> QED BY <1>1, <1>2, FS_Subset, FS_CardinalityType DEF DaysOn

LEMMA DaysFewer == ASSUME NEW log, NEW old, OnDays(log) \subseteq OnDays(old) PROVE DaysOn(log) <= DaysOn(old)
  BY DaysFinite, FS_Subset DEF DaysOn

LEMMA DaysToday ==
    ASSUME NEW log, NEW old, OnDays(log) \subseteq OnDays(old) \cup {0} PROVE DaysOn(log) <= DaysOn(old) + 1
<1> DEFINE S == OnDays(old) \cup {0}
<1>0. IsFiniteSet(OnDays(old)) /\ DaysOn(old) \in Nat /\ DaysOn(old) = Cardinality(OnDays(old))
  BY DaysFinite DEF DaysOn
<1>1. IsFiniteSet(S) /\ Cardinality(S) \in Nat /\ Cardinality(S) <= DaysOn(old) + 1
  <2>1. IsFiniteSet(S) /\ Cardinality(S) = IF 0 \in OnDays(old) THEN DaysOn(old) ELSE DaysOn(old) + 1
    BY <1>0, FS_AddElement
  <2> QED BY <1>0, <2>1
<1>2. DaysOn(log) <= Cardinality(S)
  BY <1>1, FS_Subset DEF DaysOn
<1>3. DaysOn(log) \in Nat
  BY DaysFinite
<1> QED BY <1>0, <1>1, <1>2, <1>3

Shifted(log) == [a \in DestDays |-> IF a = 0 THEN 0 ELSE log[a - 1]]
LEMMA DaysShifted ==
    ASSUME NEW log \in Logged
    PROVE  /\ Shifted(log) \in Logged /\ DaysOn(Shifted(log)) <= DaysOn(log)
           /\ (\A a \in DestDays : log[a] = 0) => \A a \in DestDays : Shifted(log)[a] = 0
<1>1. \A a \in DestDays : a \in Int /\ (a # 0 => a - 1 \in DestDays)
  BY DestConstants DEF DestDays
<1>2. Shifted(log) \in Logged
  BY <1>1, DestConstants DEF Shifted, Logged
<1> DEFINE f == [a \in OnDays(Shifted(log)) |-> a - 1]
<1>3. f \in Injection(OnDays(Shifted(log)), OnDays(log))
  <2>1. \A a \in OnDays(Shifted(log)) : a # 0 /\ a \in Int /\ f[a] = a - 1 /\ f[a] \in OnDays(log)
    BY <1>1 DEF OnDays, Shifted
  <2>2. f \in [OnDays(Shifted(log)) -> OnDays(log)]
    BY <2>1
  <2>3. \A a, b \in OnDays(Shifted(log)) : f[a] = f[b] => a = b
    BY <2>1
  <2> QED BY <2>2, <2>3 DEF Injection, IsInjective
<1>4. DaysOn(Shifted(log)) <= DaysOn(log)
  <2> HIDE DEF f
  <2> QED BY <1>3, DaysFinite, FS_Injection DEF DaysOn
<1> QED BY <1>1, <1>2, <1>4 DEF Shifted

LEMMA DestInitially == DestinationsInit => DestInv
<1> SUFFICES ASSUME DestinationsInit PROVE DestInv
  OBVIOUS
<1>1. days \in Logged /\ NoFlag \in FlagTyped
  BY DestConstants DEF DestinationsInit, Logged, FlagTyped, NoFlag
<1>2. destFile \in [days : Logged, flag : FlagTyped] /\ flag \in FlagTyped
  BY <1>1 DEF DestinationsInit
<1>3. DestinationsTypeOK
  <2>1. ~linkSeen /\ linkSeen \in BOOLEAN /\ hidden \in BOOLEAN /\ expired \in BOOLEAN /\ onLists \in BOOLEAN
    BY DEF DestinationsInit
  <2>2. starts \in 0..MaxStarts /\ link \in {"none", "open", "closing"}
        /\ first \in {"never", "unlisted", "listed"}
    BY DestConstants DEF DestinationsInit
  <2> QED BY <1>1, <1>2, <2>1, <2>2 DEF DestinationsTypeOK, Logged, FlagTyped
<1>4. NothingKnown /\ first = "never"
  BY DEF DestinationsInit, NothingKnown
<1> QED BY <1>3, <1>4 DEF DestInv, JudgedAtOnce

LEMMA ReachKeeps == DestInv /\ Reach => DestInv'
<1> SUFFICES ASSUME DestInv, Reach PROVE DestInv'
  OBVIOUS
<1> USE DEF Reach
<1>1. DestinationsTypeOK'
  BY DEF DestInv, DestinationsTypeOK
<1>2. CASE first = "never"
  <2>1. NothingKnown
    BY <1>2 DEF DestInv
  <2>2. OnDays(days) = {} /\ OnDays(destFile.days) = {}
    BY <2>1 DEF NothingKnown, OnDays
  <2>3. DaysOn(days) = 0 /\ DaysOn(destFile.days) = 0
    BY <2>2, FS_EmptySet DEF DaysOn
  <2>4. ~Live(flag) /\ ~Live(destFile.flag)
    BY <2>1, DestConstants DEF NothingKnown, Live, NoFlag
  <2>5. starts \in Nat
    BY DEF DestInv, DestinationsTypeOK
  <2>6. JudgedAtOnce'
    BY <2>3, <2>4, <2>5 DEF JudgedAtOnce, RegularNow
  <2> QED BY <1>1, <1>2, <2>6 DEF DestInv
<1>3. CASE first # "never"
  BY <1>1, <1>3 DEF DestInv, JudgedAtOnce
<1> QED BY <1>2, <1>3

LEMMA LeaveKeeps == DestInv /\ (Leave \/ UpdateFeed \/ UNCHANGED destVars) => DestInv'
<1> SUFFICES ASSUME DestInv, Leave \/ UpdateFeed \/ UNCHANGED destVars PROVE DestInv'
  OBVIOUS
<1>1. DestinationsTypeOK'
  <2>1. UNCHANGED <<days, flag, destFile, hidden, expired, starts>>
    BY DEF Leave, UpdateFeed, destVars
  <2>2. /\ link' \in {"none", "open", "closing"} /\ onLists' \in BOOLEAN
        /\ first' \in {"never", "unlisted", "listed"}
    BY DEF DestInv, DestinationsTypeOK, Leave, UpdateFeed, destVars
  <2>3. linkSeen' \in BOOLEAN /\ (linkSeen' => linkSeen /\ link' # "none")
    <3>1. linkSeen \in BOOLEAN /\ (linkSeen => link # "none")
      BY DEF DestInv, DestinationsTypeOK
    <3>2. CASE Leave
      <4>1. linkSeen' = (linkSeen /\ link = "open")
        BY <3>2 DEF Leave
      <4>2. link = "open" => link' = "closing"
        BY <3>2 DEF Leave
      <4> QED BY <4>1, <4>2
    <3>3. CASE UpdateFeed \/ UNCHANGED destVars
      <4>1. linkSeen' = linkSeen /\ link' = link
        BY <3>3 DEF UpdateFeed, destVars
      <4> QED BY <3>1, <4>1
    <3> QED BY <3>2, <3>3
  <2> QED BY <2>1, <2>2, <2>3 DEF DestInv, DestinationsTypeOK
<1>2. CASE Leave
  <2>1. first # "never"
    BY <1>2 DEF DestInv, NothingKnown, Leave
  <2> QED BY <1>1, <1>2, <2>1 DEF DestInv, JudgedAtOnce, Leave
<1>3. CASE UpdateFeed
  BY <1>1, <1>3 DEF DestInv, JudgedAtOnce, NothingKnown, UpdateFeed
<1>4. CASE UNCHANGED destVars
  BY <1>1, <1>4 DEF DestInv, JudgedAtOnce, NothingKnown, destVars
<1> QED BY <1>2, <1>3, <1>4

\* A verdict over an address of few days is that it is not regular.
LEMMA VerdictIs ==
    ASSUME NEW log, NEW old, OnDays(log) \subseteq OnDays(old) \cup {0}, DaysOn(old) < MinDays
    PROVE  Verdict(log).regular = FALSE
<1>1. DaysCounted(log, 1) \subseteq OnDays(old)
  BY DestConstants DEF DaysCounted, OnDays, DestDays
<1>2. Cardinality(DaysCounted(log, 1)) <= DaysOn(old) /\ Cardinality(DaysCounted(log, 1)) \in Nat
  BY <1>1, DaysFinite, FS_Subset, FS_CardinalityType DEF DaysOn
<1>3. ~(Cardinality(DaysCounted(log, 1)) >= MinDays)
  BY <1>2, DaysFinite, DestConstants
<1> QED BY <1>3 DEF Verdict, IsRegular

LEMMA EgressScanKeeps == ASSUME DestInv, NEW save \in BOOLEAN, EgressScan(save) PROVE DestInv'
<1> DEFINE counts == link # "none" /\ ~linkSeen
           log == IF counts /\ days[0] < MaxConns THEN [days EXCEPT ![0] = @ + 1] ELSE days
           matches == link = "open" /\ onLists
<1>1. /\ days' = log /\ linkSeen' = (link # "none")
      /\ destFile' = IF save THEN [days |-> log, flag |-> flag] ELSE destFile
      /\ flag' = IF matches /\ ~Live(flag) THEN Verdict(log) ELSE flag
      /\ hidden' = (hidden \/ (counts /\ onLists /\ ~matches /\ ~Live(flag)))
      /\ UNCHANGED <<link, onLists, first, expired, starts>>
  BY DEF EgressScan, Flagged, Live
<1>2. /\ link \in {"none", "open", "closing"} /\ linkSeen \in BOOLEAN /\ onLists \in BOOLEAN
      /\ days \in Logged /\ flag \in FlagTyped
      /\ destFile \in [days : Logged, flag : FlagTyped]
      /\ first \in {"never", "unlisted", "listed"} /\ hidden \in BOOLEAN /\ expired \in BOOLEAN
      /\ starts \in 0..MaxStarts /\ (linkSeen => link # "none" /\ days[0] > 0)
  BY DEF DestInv, DestinationsTypeOK, Logged, FlagTyped
<1>3. log \in Logged /\ (link # "none" => log[0] > 0) /\ (~counts => log = days)
      /\ OnDays(log) \subseteq OnDays(days) \cup {0}
  BY <1>2, DestConstants DEF Logged, OnDays
<1>4. Verdict(log) \in FlagTyped /\ Verdict(log).age = 0
  <2>1. IsRegular(log, 1) \in BOOLEAN
    BY DEF IsRegular
  <2> QED BY <2>1, DestConstants DEF Verdict, FlagTyped
<1>5. flag' \in FlagTyped /\ destFile' \in [days : Logged, flag : FlagTyped] /\ hidden' \in BOOLEAN
  <2> HIDE DEF log, counts, matches
  <2>1. flag' \in FlagTyped
    BY <1>1, <1>2, <1>4
  <2>2. [days |-> log, flag |-> flag] \in [days : Logged, flag : FlagTyped]
    BY <1>2, <1>3
  <2>3. destFile' \in [days : Logged, flag : FlagTyped]
    BY <1>1, <1>2, <2>2
  <2> QED BY <1>1, <1>2, <2>1, <2>3
<1>6. DestinationsTypeOK'
  <2> HIDE DEF log
  <2>1. days' \in Logged /\ (linkSeen' => link' # "none" /\ days'[0] > 0) /\ linkSeen' \in BOOLEAN
    BY <1>1, <1>2, <1>3
  <2> QED BY <1>1, <1>2, <1>5, <2>1 DEF DestinationsTypeOK, Logged, FlagTyped
<1>7. first' = "never" => NothingKnown'
  <2> SUFFICES ASSUME first = "never" PROVE NothingKnown'
    BY <1>1
  <2>1. NothingKnown
    BY DEF DestInv
  <2>2. ~counts /\ ~matches
    BY <2>1 DEF NothingKnown
  <2> HIDE DEF log, counts, matches
  <2> QED BY <1>1, <1>3, <2>1, <2>2 DEF NothingKnown
<1>8. JudgedAtOnce'
  <2> SUFFICES ASSUME first = "listed", ~hidden', ~expired
               PROVE  /\ ~Live(flag') => DaysOn(log) <= starts
                      /\ ~Live(destFile'.flag) => DaysOn(destFile'.days) <= starts + 1
                      /\ Live(destFile'.flag) => flag' = destFile'.flag
                      /\ starts < MinDays => ~RegularNow(flag')
    <3> HIDE DEF log
    <3> QED BY <1>1 DEF JudgedAtOnce, Live, RegularNow
  <2>1. /\ ~Live(flag) => DaysOn(days) <= starts
        /\ ~Live(destFile.flag) => DaysOn(destFile.days) <= starts + 1
        /\ Live(destFile.flag) => flag = destFile.flag
        /\ starts < MinDays => ~RegularNow(flag)
        /\ onLists
    BY <1>1, <1>2 DEF DestInv, JudgedAtOnce
  <2>2. ~counts \/ matches \/ Live(flag)
    BY <1>1, <1>2, <2>1
  <2> HIDE DEF log, counts, matches
  <2>3. Live(Verdict(log))
    BY <1>4, DestConstants DEF Live
  <2>4. ~Live(flag') => DaysOn(log) <= starts
    BY <1>1, <1>3, <2>1, <2>2, <2>3
  <2>5. ~Live(flag) => DaysOn(log) <= starts + 1
    BY <1>2, <1>3, <2>1, DaysToday, DaysFinite
  <2>6. starts < MinDays => ~RegularNow(flag')
    <3>1. CASE matches /\ ~Live(flag)
      <4>1. starts < MinDays => DaysOn(days) < MinDays
        BY <1>2, <2>1, <3>1, DaysFinite, DestConstants
      <4>2. starts < MinDays => ~Verdict(log).regular
        BY <1>3, <4>1, VerdictIs
      <4> QED BY <1>1, <3>1, <4>2 DEF RegularNow
    <3>2. CASE ~(matches /\ ~Live(flag))
      BY <1>1, <2>1, <3>2
    <3> QED BY <3>1, <3>2
  <2>7. CASE save
    <3>1. destFile'.days = log /\ destFile'.flag = flag
      BY <1>1, <2>7
    <3>2. Live(flag) => flag' = flag
      BY <1>1
    <3> QED BY <2>4, <2>5, <2>6, <3>1, <3>2
  <2>8. CASE ~save
    <3>1. destFile' = destFile
      BY <1>1, <2>8
    <3>2. Live(destFile.flag) => flag' = destFile.flag
      BY <1>1, <2>1
    <3> QED BY <2>1, <2>4, <2>6, <3>1, <3>2
  <2> QED BY <2>7, <2>8
<1>9. first' = "listed" => onLists'
  BY <1>1 DEF DestInv
<1> QED BY <1>6, <1>7, <1>8, <1>9 DEF DestInv

AgedFlag(f) == IF f.age + 1 < FlagDays THEN [f EXCEPT !.age = @ + 1] ELSE NoFlag
LEMMA AgedIs ==
    ASSUME NEW f \in FlagTyped
    PROVE  /\ AgedFlag(f) \in FlagTyped
           /\ Live(AgedFlag(f)) => Live(f) /\ AgedFlag(f).regular = f.regular
           /\ ~Live(f) => AgedFlag(f) = NoFlag
           /\ Live(f) /\ ~Live(AgedFlag(f)) => f.age + 1 >= FlagDays
           /\ f = NoFlag => AgedFlag(f) = NoFlag
<1>1. f.age \in 0..FlagDays /\ f.regular \in BOOLEAN /\ FlagDays \in Nat \ {0}
  BY DestConstants DEF FlagTyped
<1>2. NoFlag \in FlagTyped /\ NoFlag.age = FlagDays /\ ~Live(NoFlag)
  BY <1>1 DEF FlagTyped, NoFlag, Live
<1>3. CASE f.age + 1 < FlagDays
  <2>1. AgedFlag(f) = [f EXCEPT !.age = f.age + 1]
    BY <1>3 DEF AgedFlag
  <2>2. AgedFlag(f) \in FlagTyped /\ AgedFlag(f).age = f.age + 1 /\ AgedFlag(f).regular = f.regular
    BY <1>1, <1>3, <2>1 DEF FlagTyped
  <2> QED BY <1>1, <1>2, <1>3, <2>2 DEF Live
<1>4. CASE ~(f.age + 1 < FlagDays)
  BY <1>1, <1>2, <1>4 DEF AgedFlag
<1> QED BY <1>3, <1>4

LEMMA MidnightKeeps == DestInv /\ Midnight => DestInv'
<1> SUFFICES ASSUME DestInv, Midnight PROVE DestInv'
  OBVIOUS
<1>1. /\ days' = Shifted(days) /\ flag' = AgedFlag(flag)
      /\ destFile' = [days |-> Shifted(destFile.days), flag |-> AgedFlag(destFile.flag)]
      /\ expired' = (expired \/ (Live(flag) /\ flag.age + 1 >= FlagDays))
      /\ linkSeen' = FALSE /\ UNCHANGED <<link, onLists, first, hidden, starts>>
  BY DEF Midnight, Shifted, AgedFlag, Flagged, Live
<1>2. /\ link \in {"none", "open", "closing"} /\ onLists \in BOOLEAN
      /\ days \in Logged /\ flag \in FlagTyped
      /\ destFile \in [days : Logged, flag : FlagTyped]
      /\ first \in {"never", "unlisted", "listed"} /\ hidden \in BOOLEAN /\ expired \in BOOLEAN
      /\ starts \in 0..MaxStarts
  BY DEF DestInv, DestinationsTypeOK, Logged, FlagTyped
<1>3. destFile.days \in Logged /\ destFile.flag \in FlagTyped
  BY <1>2
<1>4. /\ Shifted(days) \in Logged /\ DaysOn(Shifted(days)) <= DaysOn(days)
      /\ Shifted(destFile.days) \in Logged /\ DaysOn(Shifted(destFile.days)) <= DaysOn(destFile.days)
  BY <1>2, <1>3, DaysShifted
<1>5. /\ AgedFlag(flag) \in FlagTyped /\ AgedFlag(destFile.flag) \in FlagTyped
      /\ destFile'.days = Shifted(destFile.days) /\ destFile'.flag = AgedFlag(destFile.flag)
  BY <1>1, <1>2, <1>3, AgedIs
<1>6. DestinationsTypeOK'
  <2>1. destFile' \in [days : Logged, flag : FlagTyped]
    BY <1>1, <1>4, <1>5
  <2>2. expired' \in BOOLEAN
    BY <1>1
  <2> QED BY <1>1, <1>2, <1>4, <1>5, <2>1, <2>2 DEF DestinationsTypeOK, Logged, FlagTyped
<1>7. first' = "never" => NothingKnown'
  <2> SUFFICES ASSUME first = "never" PROVE NothingKnown'
    BY <1>1
  <2>1. NothingKnown
    BY DEF DestInv
  <2>2. \A a \in DestDays : Shifted(days)[a] = 0 /\ Shifted(destFile.days)[a] = 0
    BY <1>2, <1>3, <2>1, DaysShifted DEF NothingKnown
  <2>3. AgedFlag(flag) = NoFlag /\ AgedFlag(destFile.flag) = NoFlag
    BY <1>2, <1>3, <2>1, AgedIs DEF NothingKnown
  <2> QED BY <1>1, <1>5, <2>1, <2>2, <2>3 DEF NothingKnown
<1>8. JudgedAtOnce'
  <2> SUFFICES ASSUME first = "listed", ~hidden, ~expired'
               PROVE  /\ ~Live(flag') => DaysOn(days') <= starts
                      /\ ~Live(destFile'.flag) => DaysOn(destFile'.days) <= starts + 1
                      /\ Live(destFile'.flag) => flag' = destFile'.flag
                      /\ starts < MinDays => ~RegularNow(flag')
    BY <1>1 DEF JudgedAtOnce, Live, RegularNow
  <2>1. /\ ~Live(flag) => DaysOn(days) <= starts
        /\ ~Live(destFile.flag) => DaysOn(destFile.days) <= starts + 1
        /\ Live(destFile.flag) => flag = destFile.flag
        /\ starts < MinDays => ~RegularNow(flag)
    BY <1>1 DEF DestInv, JudgedAtOnce
  <2>2. Live(flag) => Live(AgedFlag(flag))
    BY <1>1, <1>2, AgedIs
  <2>3. Live(destFile.flag) => Live(AgedFlag(destFile.flag))
    BY <2>1, <2>2
  <2>4. (Live(AgedFlag(flag)) => Live(flag) /\ AgedFlag(flag).regular = flag.regular)
        /\ (Live(AgedFlag(destFile.flag)) => Live(destFile.flag))
    BY <1>2, <1>3, AgedIs
  <2>5. /\ DaysOn(days) \in Nat /\ DaysOn(Shifted(days)) \in Nat /\ starts \in Nat
        /\ DaysOn(destFile.days) \in Nat /\ DaysOn(Shifted(destFile.days)) \in Nat
    BY <1>2, DaysFinite
  <2>6. ~Live(flag') => DaysOn(days') <= starts
    BY <1>1, <1>4, <2>1, <2>2, <2>5
  <2>7. ~Live(destFile'.flag) => DaysOn(destFile'.days) <= starts + 1
    BY <1>4, <1>5, <2>1, <2>3, <2>5
  <2>8. Live(destFile'.flag) => flag' = destFile'.flag
    BY <1>1, <1>5, <2>1, <2>4
  <2>9. starts < MinDays => ~RegularNow(flag')
    BY <1>1, <2>1, <2>4 DEF RegularNow
  <2> QED BY <2>6, <2>7, <2>8, <2>9
<1> QED BY <1>1, <1>6, <1>7, <1>8 DEF DestInv

LEMMA DestRestartKeeps == DestInv /\ DestRestart => DestInv'
<1> SUFFICES ASSUME DestInv, DestRestart PROVE DestInv'
  OBVIOUS
<1> USE DEF DestRestart
<1>0. destFile \in [days : Logged, flag : FlagTyped] /\ starts \in Nat
  BY DestConstants DEF DestInv, DestinationsTypeOK, Logged, FlagTyped
<1>1. DestinationsTypeOK'
  <2>1. days' \in Logged /\ flag' \in FlagTyped
    BY <1>0
  <2>2. starts' \in 0..MaxStarts
    BY <1>0, DestConstants
  <2>3. ~linkSeen' /\ linkSeen' \in BOOLEAN
    OBVIOUS
  <2> QED BY <2>1, <2>2, <2>3 DEF DestInv, DestinationsTypeOK, Logged, FlagTyped
<1>2. starts \in Nat /\ starts' = starts + 1 /\ MinDays \in Nat
  BY DestConstants DEF DestInv, DestinationsTypeOK
<1>3. JudgedAtOnce'
  <2> SUFFICES ASSUME first = "listed", ~hidden, ~expired
               PROVE  /\ ~Live(flag') => DaysOn(days') <= starts + 1
                      /\ ~Live(destFile.flag) => DaysOn(destFile.days) <= starts + 2
                      /\ Live(destFile.flag) => flag' = destFile.flag
                      /\ starts + 1 < MinDays => ~RegularNow(flag')
    BY <1>2 DEF JudgedAtOnce, Live, RegularNow
  <2>1. /\ ~Live(destFile.flag) => DaysOn(destFile.days) <= starts + 1
        /\ Live(destFile.flag) => flag = destFile.flag
        /\ starts < MinDays => ~RegularNow(flag)
    BY DEF DestInv, JudgedAtOnce
  <2>2. DaysOn(destFile.days) \in Nat
    BY DaysFinite
  <2>3. RegularNow(destFile.flag) => Live(destFile.flag)
    BY DEF RegularNow
  <2> QED BY <1>2, <2>1, <2>2, <2>3
<1> QED BY <1>1, <1>3 DEF DestInv, NothingKnown

LEMMA DestKeeps == DestInv /\ [DestinationsNext]_destVars => DestInv'
  BY ReachKeeps, LeaveKeeps, MidnightKeeps, DestRestartKeeps, EgressScanKeeps DEF DestinationsNext

LEMMA ListedIsJudged == DestInv => ListedIsNotRegular
  BY DEF DestInv, JudgedAtOnce, ListedIsNotRegular, JudgedRegular, Flagged, RegularNow, Live

----------------------------------------------------------------------------
(* DNS traffic: who asked.                                                 *)

FinderType == [table : [DnsPorts -> Procs \cup {NoProc}], old : BOOLEAN, byInode : SUBSET (Procs \X DnsPorts),
               scans : 0..MaxScans]
HeldOne(p) == held[p] \cup {NoProc}
\* A table that is not old tells who held a port lately.
FinderFits(f) == f \in FinderType /\ (f.old \/ \A p \in DnsPorts : f.table[p] \in HeldOne(p))

DnsTyped ==
    /\ \A p \in DnsPorts : socks[p].name \in DnsNames \cup {NoProc} /\ socks[p].proc \in Procs \cup {NoProc}
                              /\ (socks[p] # Closed => socks[p].name \in DnsNames)
    /\ held \in [DnsPorts -> SUBSET (Procs \cup {NoProc})] /\ socks = [p \in DnsPorts |-> socks[p]]
    /\ askers \in [DnsNames -> SUBSET DnsPorts] /\ loopQuery \in [DnsNames -> {0} \cup DnsPorts]
    /\ subs \in [DnsNames -> Nat] /\ nx \in [DnsNames -> Nat] /\ warned \in [Keys -> Nat]
    /\ flight.kind # "none" => flight.port \in DnsPorts /\ flight.name \in DnsNames
\* Whoever holds a port is known to have held it, and who asked the stub as well.
Traced ==
    /\ \A p \in DnsPorts : socks[p].proc \in HeldOne(p)
    /\ \A n \in DnsNames : loopQuery[n] # 0 => loopQuery[n] \in askers[n]
DnsInv == DnsTyped /\ FinderFits(finder) /\ Traced /\ wrong = {}

LEMMA DnsConstants ==
    /\ IsFiniteSet(DnsNames)
    /\ Unique \in Nat \ {0} /\ MaxNames \in Nat \ {0} /\ HalfWindows \in Nat \ {0} /\ Cooldown \in Nat \ {0}
    /\ MaxScans \in Nat \ {0}
  BY DnsAssumption

LEMMA NoInodesFit == NoInodes \in FinderType /\ NoInodes.old
  BY DnsConstants DEF NoInodes, FinderType

LEMMA DnsInitially == DnsInit => DnsInv
<1> SUFFICES ASSUME DnsInit PROVE DnsInv
  OBVIOUS
<1>1. DnsTyped
  BY DEF DnsInit, DnsTyped, Zero, Closed, NoPacket, HeldNow
<1> QED BY <1>1, NoInodesFit DEF DnsInit, DnsInv, FinderFits, Traced, Zero, Closed, HeldOne

LEMMA OpenKeeps ==
    ASSUME DnsInv, NEW p \in DnsPorts, NEW n \in DnsNames, NEW proc \in Procs, NEW dst, OpenSocket(p, proc, dst, n)
    PROVE  DnsInv'
<1> DEFINE s == [proc |-> proc, dst |-> dst, name |-> n]
<1>1. /\ socks' = [socks EXCEPT ![p] = s] /\ held' = [held EXCEPT ![p] = @ \cup {proc}]
      /\ flight' \in {NoPacket, [kind |-> "query", port |-> p, dst |-> socks'[p].dst, name |-> socks'[p].name]}
      /\ UNCHANGED <<finder, loopQuery, subs, nx, warned, askers, wrong>>
  BY DEF OpenSocket, DnsFrame, Packet, analyzer
<1>2. DnsTyped
  BY DEF DnsInv
<1>3. socks'[p] = s /\ (\A q \in DnsPorts : q # p => socks'[q] = socks[q]) /\ socks' = [q \in DnsPorts |-> socks'[q]]
      /\ (\A q \in DnsPorts : held[q] \subseteq held'[q]) /\ proc \in held'[p]
      /\ held' \in [DnsPorts -> SUBSET (Procs \cup {NoProc})]
  BY <1>1, <1>2 DEF DnsTyped
<1>4. flight'.kind # "none" => flight'.port \in DnsPorts /\ flight'.name \in DnsNames
  BY <1>1, <1>3 DEF NoPacket
<1>5. DnsTyped'
  BY <1>1, <1>2, <1>3, <1>4 DEF DnsTyped
<1>6. \A q \in DnsPorts : HeldOne(q) \subseteq HeldOne(q)'
  BY <1>3 DEF HeldOne
<1>7. FinderFits(finder)'
  BY <1>1, <1>6 DEF DnsInv, FinderFits
<1>8. Traced'
  <2>1. \A q \in DnsPorts : socks'[q].proc \in HeldOne(q)'
    BY <1>3, <1>6 DEF DnsInv, Traced, HeldOne
  <2> QED BY <1>1, <2>1 DEF DnsInv, Traced
<1> QED BY <1>1, <1>5, <1>7, <1>8 DEF DnsInv

LEMMA AskKeeps ==
    ASSUME DnsInv, NEW p \in DnsPorts,
           AskAgain(p) \/ Answered(p, "listed") \/ Answered(p, "nx")
    PROVE  DnsInv'
<1>1. /\ UNCHANGED <<socks, held, finder, loopQuery, subs, nx, warned, askers, wrong>>
      /\ socks[p] # Closed
      /\ \E k : flight' \in {NoPacket, [kind |-> k, port |-> p, dst |-> socks'[p].dst, name |-> socks'[p].name]}
  BY DEF AskAgain, Answered, DnsFrame, Packet, analyzer
<1>2. DnsTyped
  BY DEF DnsInv
<1>3. flight'.kind # "none" => flight'.port \in DnsPorts /\ flight'.name \in DnsNames
  BY <1>1, <1>2 DEF NoPacket, DnsTyped
<1>4. DnsTyped'
  BY <1>1, <1>2, <1>3 DEF DnsTyped
<1> QED BY <1>1, <1>4 DEF DnsInv, FinderFits, Traced, HeldOne

LEMMA CloseKeeps == ASSUME DnsInv, NEW p \in DnsPorts, Close(p) PROVE DnsInv'
<1>1. /\ socks' = [socks EXCEPT ![p] = Closed]
      /\ UNCHANGED <<flight, held, finder, loopQuery, subs, nx, warned, askers, wrong>>
  BY DEF Close, DnsFrame, analyzer
<1>2. DnsTyped
  BY DEF DnsInv
<1>3. socks'[p] = Closed /\ (\A q \in DnsPorts : q # p => socks'[q] = socks[q]) /\ socks' = [q \in DnsPorts |-> socks'[q]]
  BY <1>1, <1>2 DEF DnsTyped
<1>4. DnsTyped'
  BY <1>1, <1>2, <1>3 DEF DnsTyped, Closed
<1>5. Traced' /\ FinderFits(finder)'
  BY <1>1, <1>3 DEF DnsInv, Traced, FinderFits, HeldOne, Closed
<1> QED BY <1>1, <1>4, <1>5 DEF DnsInv

LEMMA TimeKeeps ==
    DnsInv /\ (Moment \/ FewSeconds \/ HalfWindow \/ Switch \/ Scan \/ UNCHANGED dnsVars) => DnsInv'
<1> SUFFICES ASSUME DnsInv, Moment \/ FewSeconds \/ HalfWindow \/ Switch \/ Scan \/ UNCHANGED dnsVars
             PROVE  DnsInv'
  OBVIOUS
<1>1. DnsTyped /\ finder \in FinderType
  BY DEF DnsInv, FinderFits
<1>2. \A S, f : f \in [S -> Nat] => Less(f) \in [S -> Nat]
  BY DEF Less
<1>3. CASE Moment
  <2>1. finder' \in FinderType /\ finder'.old
    BY <1>1, <1>3 DEF Moment, FinderType
  <2> QED BY <1>3, <2>1 DEF Moment, analyzer, DnsInv, DnsTyped, FinderFits, Traced, HeldOne
<1>4. CASE FewSeconds \/ HalfWindow
  <2>1. finder' \in FinderType /\ finder'.old
    <3>1. finder' = [finder EXCEPT !.old = TRUE, !.scans = MaxScans]
      BY <1>4 DEF FewSeconds, HalfWindow, SecondsOver
    <3>2. MaxScans \in 0..MaxScans
      BY DnsConstants
    <3> QED BY <1>1, <3>1, <3>2 DEF FinderType
  <2>2. /\ UNCHANGED <<socks, flight, wrong>> /\ held' = HeldNow(socks)
        /\ askers' = [n \in DnsNames |-> {}] /\ loopQuery' = Zero(DnsNames)
        /\ subs' \in {subs, Less(subs)} /\ nx' \in {nx, Less(nx)} /\ warned' \in {warned, Less(warned)}
    BY <1>4 DEF FewSeconds, HalfWindow, SecondsOver, analyzer
  <2>3. held' \in [DnsPorts -> SUBSET (Procs \cup {NoProc})]
    BY <1>1, <2>2 DEF HeldNow, DnsTyped
  <2>4. subs' \in [DnsNames -> Nat] /\ nx' \in [DnsNames -> Nat] /\ warned' \in [Keys -> Nat]
    BY <1>1, <1>2, <2>2 DEF DnsTyped
  <2>5. DnsTyped'
    BY <1>1, <2>2, <2>3, <2>4 DEF DnsTyped, Zero
  <2>6. Traced'
    BY <1>1, <2>2 DEF Traced, Zero, HeldNow, HeldOne
  <2> QED BY <2>1, <2>2, <2>5, <2>6 DEF DnsInv, FinderFits
<1>5. CASE Switch
  <2>1. DnsTyped' /\ Traced'
    BY <1>1, <1>5 DEF Switch, DnsInv, DnsTyped, Traced, Zero, HeldOne
  <2> QED BY <1>5, <2>1, NoInodesFit DEF Switch, DnsInv, FinderFits
<1>6. CASE Scan
  <2>1. warned' \in [Keys -> Nat]
    BY <1>1, <1>6, DnsConstants DEF Scan, Report, DnsTyped
  <2>2. DnsTyped'
    BY <1>1, <1>6, <2>1 DEF Scan, DnsTyped, analyzer
  <2> QED BY <1>6, <2>2 DEF Scan, DnsInv, FinderFits, Traced, HeldOne, analyzer
<1>7. CASE UNCHANGED dnsVars
  BY <1>7 DEF dnsVars, analyzer, DnsInv, DnsTyped, FinderFits, Traced, HeldOne
<1> QED BY <1>3, <1>4, <1>5, <1>6, <1>7

\* Who is found for a port held it lately.
LEMMA LookupIs ==
    ASSUME DnsInv, NEW f, FinderFits(f), NEW p \in DnsPorts
    PROVE  Lookup(f, p).proc \in HeldOne(p) /\ FinderFits(Lookup(f, p).f)
<1> DEFINE g == Refreshed(f)
<1>1. g \in FinderType /\ ~g.old /\ \A q \in DnsPorts : g.table[q] \in HeldOne(q)
  <2>1. CASE f.old
    BY <2>1 DEF Refreshed, FinderFits, FinderType, DnsInv, DnsTyped, Traced
  <2>2. CASE ~f.old
    BY <2>2 DEF Refreshed, FinderFits, FinderType
  <2> QED BY <2>1, <2>2
<1> HIDE DEF g
<1> DEFINE q == g.table[p]
           tried == [g EXCEPT !.scans = @ - 1]
           found == [g EXCEPT !.scans = @ - 1, !.byInode = @ \cup {<<q, p>>}]
<1>3. FinderFits(g)
  BY <1>1 DEF FinderFits
<1>4. q \in HeldOne(p) /\ NoProc \in HeldOne(p) /\ q \in Procs \cup {NoProc} /\ g.scans \in 0..MaxScans
  BY <1>1 DEF HeldOne, FinderType
<1>5. CASE q = NoProc \/ <<q, p>> \in g.byInode \/ q = Resolver \/ g.scans = 0
  <2>1. Lookup(f, p) \in {[proc |-> NoProc, f |-> g], [proc |-> q, f |-> g]}
    BY <1>5 DEF Lookup, g
  <2> HIDE DEF q
  <2> QED BY <1>3, <1>4, <2>1
<1>6. CASE ~(q = NoProc \/ <<q, p>> \in g.byInode \/ q = Resolver \/ g.scans = 0)
  <2>1. Lookup(f, p) \in {[proc |-> NoProc, f |-> tried], [proc |-> q, f |-> found]}
    BY <1>6 DEF Lookup, g
  <2>2. g.scans - 1 \in 0..MaxScans /\ q \in Procs
    BY <1>4, <1>6, DnsConstants
  <2> HIDE DEF q
  <2>3. tried \in FinderType /\ tried.table = g.table
    BY <1>1, <2>2 DEF FinderType
  <2>4. g.byInode \cup {<<q, p>>} \in SUBSET (Procs \X DnsPorts)
    BY <1>1, <2>2 DEF FinderType
  <2>5. found \in FinderType /\ found.table = g.table
    BY <1>1, <2>2, <2>4 DEF FinderType
  <2>6. FinderFits(tried) /\ FinderFits(found)
    BY <1>1, <2>3, <2>5 DEF FinderFits
  <2> HIDE DEF tried, found
  <2> QED BY <1>4, <2>1, <2>6
<1> QED BY <1>5, <1>6

LEMMA OwnerIs ==
    ASSUME DnsInv, NEW p \in DnsPorts, NEW n \in DnsNames
    PROVE  Owner(finder, p, n).proc \in {NoProc} \cup Possible(p, n) /\ FinderFits(Owner(finder, p, n).f)
<1> DEFINE asker == IF loopQuery[n] = 0 THEN [proc |-> NoProc, f |-> finder] ELSE Lookup(finder, loopQuery[n])
<1>1. FinderFits(finder)
  BY DEF DnsInv
<1>2. asker.proc \in {NoProc} \cup Possible(p, n) /\ FinderFits(asker.f)
  <2>1. CASE loopQuery[n] = 0
    BY <1>1, <2>1
  <2>2. CASE loopQuery[n] # 0
    <3>1. loopQuery[n] \in DnsPorts /\ loopQuery[n] \in askers[n]
      BY <2>2 DEF DnsInv, DnsTyped, Traced
    <3>2. Lookup(finder, loopQuery[n]).proc \in HeldOne(loopQuery[n]) /\ FinderFits(Lookup(finder, loopQuery[n]).f)
      BY <1>1, <3>1, LookupIs
    <3>3. held[loopQuery[n]] \subseteq Possible(p, n)
      BY <3>1 DEF Possible
    <3> QED BY <2>2, <3>2, <3>3 DEF HeldOne
  <2> QED BY <2>1, <2>2
<1>3. Owner(finder, p, n) = IF asker.proc # NoProc THEN asker ELSE Lookup(asker.f, p)
  BY DEF Owner
<1> HIDE DEF asker
<1>4. Lookup(asker.f, p).proc \in HeldOne(p) /\ FinderFits(Lookup(asker.f, p).f)
  BY <1>2, LookupIs
<1>5. HeldOne(p) \subseteq {NoProc} \cup Possible(p, n)
  BY DEF HeldOne, Possible
<1> QED BY <1>2, <1>3, <1>4, <1>5

\* The names that are kept grow, and are as many as they were if there was no room.
LEMMA KeepNameIs ==
    ASSUME NEW s \in [DnsNames -> Nat], NEW n \in DnsNames
    PROVE  /\ KeepName(s, n) \in [DnsNames -> Nat]
           /\ Cardinality(Tracked(s)) <= Cardinality(Tracked(KeepName(s, n)))
           /\ Cardinality(Tracked(s)) \in Nat /\ Cardinality(Tracked(KeepName(s, n))) \in Nat
<1>1. KeepName(s, n) \in [DnsNames -> Nat]
  BY DnsConstants DEF KeepName
<1>2. Tracked(s) \subseteq Tracked(KeepName(s, n))
  BY DnsConstants DEF Tracked, KeepName
<1>3. \A u : IsFiniteSet(Tracked(u)) /\ Cardinality(Tracked(u)) \in Nat
  <2> TAKE u
  <2>1. Tracked(u) \in SUBSET DnsNames
    BY DEF Tracked
  <2> QED BY <2>1, DnsConstants, FS_Subset, FS_CardinalityType
<1> QED BY <1>1, <1>2, <1>3, FS_Subset

\* What is reported is not reported again at once.
LEMMA ReportIs ==
    ASSUME DnsInv, NEW keys, Report(keys)
    PROVE  warned' \in [Keys -> Nat] /\ \A k \in keys \cap Keys : warned'[k] # 0
<1>1. warned \in [Keys -> Nat]
  BY DEF DnsInv, DnsTyped
<1> QED BY <1>1, DnsConstants DEF Report

LEMMA QueryKeeps == DnsInv /\ HandleQuery => DnsInv'
<1> SUFFICES ASSUME DnsInv, HandleQuery PROVE DnsInv'
  OBVIOUS
<1> DEFINE p == flight.port
           n == flight.name
           d == flight.dst
           o == Owner(finder, p, n)
           r == IF d \in Listed THEN {<<"resolver", d, NoProc>>}
                ELSE IF d \in Others /\ Configured # {} /\ o.proc # Resolver
                     THEN {<<"unlisted", d, o.proc>>} ELSE {}
           t == IF Cardinality(Tracked(subs)) < MaxNames /\ Cardinality(Tracked(subs')) >= Unique
                THEN {Tunnel} ELSE {}
           looks == d \in Outside \/ (t # {} /\ warned[Tunnel] = 0)
           room  == Cardinality({x \in DnsNames : loopQuery[x] # 0}) < MaxNames
<1>1. /\ flight.kind = "query" /\ flight' = NoPacket
      /\ UNCHANGED <<socks, held, nx>>
      /\ loopQuery' = IF d = "stub" /\ room THEN [loopQuery EXCEPT ![n] = p] ELSE loopQuery
      /\ askers' = IF d = "stub" THEN [askers EXCEPT ![n] = @ \cup {p}] ELSE askers
      /\ subs' = KeepName(subs, n)
      /\ Report(r \cup t)
      /\ finder' = IF looks THEN o.f ELSE finder
      /\ Judge(r \cup t, o.proc, p, n, subs', "tunnel")
  BY DEF HandleQuery, Done
<1>2. DnsTyped /\ wrong = {}
  BY DEF DnsInv
<1>3. p \in DnsPorts /\ n \in DnsNames
  BY <1>1, <1>2 DEF DnsTyped
<1> HIDE DEF p, n
<1>4. o.proc \in {NoProc} \cup Possible(p, n) /\ FinderFits(o.f)
  BY <1>3, OwnerIs
<1>5. warned' \in [Keys -> Nat] /\ \A k \in (r \cup t) \cap Keys : warned'[k] # 0
  <2> HIDE DEF r, t
  <2> QED BY <1>1, ReportIs
<1>6. /\ subs' \in [DnsNames -> Nat] /\ Cardinality(Tracked(subs)) <= Cardinality(Tracked(subs'))
      /\ Cardinality(Tracked(subs)) \in Nat /\ Cardinality(Tracked(subs')) \in Nat
  BY <1>1, <1>2, <1>3, KeepNameIs DEF DnsTyped
<1>7. Tunnel \in Keys
  BY DEF Tunnel, Keys
<1>8. ~(Cardinality(Tracked(subs')) \in Unique..MaxNames - 1 /\ warned'[Tunnel] = 0)
  <2> SUFFICES ASSUME Cardinality(Tracked(subs')) \in Unique..MaxNames - 1 PROVE warned'[Tunnel] # 0
    OBVIOUS
  <2>1. Tunnel \in t
    BY <1>6, DnsConstants
  <2> QED BY <1>5, <1>7, <2>1
<1> HIDE DEF o, r, t, looks, room
<1>9. wrong' = {}
  BY <1>1, <1>2, <1>4, <1>8 DEF Judge, Tunnel
<1>10. loopQuery' \in [DnsNames -> {0} \cup DnsPorts] /\ askers' \in [DnsNames -> SUBSET DnsPorts]
       /\ \A m \in DnsNames : loopQuery'[m] # 0 => loopQuery'[m] \in askers'[m]
  <2>1. \A m \in DnsNames : loopQuery[m] # 0 => loopQuery[m] \in askers[m]
    BY DEF DnsInv, Traced
  <2> QED BY <1>1, <1>2, <1>3, <2>1 DEF DnsTyped
<1>11. DnsTyped'
  BY <1>1, <1>2, <1>5, <1>6, <1>10 DEF DnsTyped, NoPacket
<1>12. Traced'
  BY <1>1, <1>10 DEF DnsInv, Traced, HeldOne
<1>13. FinderFits(finder)'
  BY <1>1, <1>4 DEF DnsInv, FinderFits, HeldOne
<1> QED BY <1>9, <1>11, <1>12, <1>13 DEF DnsInv

LEMMA AnswerKeeps == DnsInv /\ HandleAnswer => DnsInv'
<1> SUFFICES ASSUME DnsInv, HandleAnswer PROVE DnsInv'
  OBVIOUS
<1> DEFINE p == flight.port
           n == flight.name
           o == Owner(finder, p, n)
           e == IF flight.kind = "listed" THEN {<<"answer", n, NoProc>>}
                ELSE IF Cardinality(Tracked(nx')) >= Unique THEN {Dga} ELSE {}
           s == IF flight.kind = "nx" THEN nx' ELSE Zero(DnsNames)
           now == \E k \in e : warned[k] = 0
<1>1. /\ flight.kind \in {"listed", "nx"} /\ flight' = NoPacket
      /\ UNCHANGED <<socks, held, loopQuery, subs, askers>>
      /\ nx' = IF flight.kind = "nx" THEN KeepName(nx, n) ELSE nx
      /\ Report(e)
      /\ finder' = IF now THEN o.f ELSE finder
      /\ Judge(e, o.proc, p, n, s, "dga")
  BY DEF HandleAnswer, Done
<1>2. DnsTyped /\ wrong = {}
  BY DEF DnsInv
<1>3. p \in DnsPorts /\ n \in DnsNames
  BY <1>1, <1>2 DEF DnsTyped
<1> HIDE DEF p, n
<1>4. o.proc \in {NoProc} \cup Possible(p, n) /\ FinderFits(o.f)
  BY <1>3, OwnerIs
<1>5. warned' \in [Keys -> Nat] /\ \A k \in e \cap Keys : warned'[k] # 0
  <2> HIDE DEF e
  <2> QED BY <1>1, ReportIs
<1>6. nx' \in [DnsNames -> Nat] /\ (flight.kind = "nx" => Cardinality(Tracked(nx')) \in Nat)
  BY <1>1, <1>2, <1>3, KeepNameIs DEF DnsTyped
<1>7. Dga \in Keys
  BY DEF Dga, Keys
<1>8. ~(Cardinality(Tracked(s)) \in Unique..MaxNames - 1 /\ warned'[Dga] = 0)
  <2>1. CASE flight.kind = "nx"
    <3> SUFFICES ASSUME Cardinality(Tracked(nx')) \in Unique..MaxNames - 1 PROVE warned'[Dga] # 0
      BY <2>1
    <3>1. Dga \in e
      BY <1>6, <2>1, DnsConstants
    <3> QED BY <1>5, <1>7, <3>1
  <2>2. CASE flight.kind # "nx"
    <3>1. Tracked(Zero(DnsNames)) = {}
      BY DEF Tracked, Zero
    <3>2. Cardinality(Tracked(s)) = 0
      BY <2>2, <3>1, FS_EmptySet
    <3> QED BY <3>2, DnsConstants
  <2> QED BY <2>1, <2>2
<1> HIDE DEF o, e, s, now
<1>9. wrong' = {}
  BY <1>1, <1>2, <1>4, <1>8 DEF Judge, Dga
<1>10. DnsTyped'
  BY <1>1, <1>2, <1>5, <1>6 DEF DnsTyped, NoPacket
<1>11. Traced' /\ FinderFits(finder)'
  BY <1>1, <1>4 DEF DnsInv, Traced, FinderFits, HeldOne
<1> QED BY <1>9, <1>10, <1>11 DEF DnsInv

LEMMA DnsKeeps == DnsInv /\ [DnsNext]_dnsVars => DnsInv'
  BY OpenKeeps, AskKeeps, CloseKeeps, TimeKeeps, QueryKeeps, AnswerKeeps DEF DnsNext

----------------------------------------------------------------------------
(* The components together.                                                 *)

\* A step of the composition is one of a component, or leaves it as it is.
LEMMA EachComponent ==
    [SourcesStep]_<<which, setVars, logVars, seenVars>> =>
        /\ [TailsNext]_tailVars /\ [ServiceNext]_serviceVars /\ [SourcesNext]_webSourceVars
        /\ [ProbesNext]_probeVars /\ [DestinationsNext]_destVars /\ [DnsNext]_dnsVars
  BY DEF SourcesStep, setVars, logVars, seenVars

SourcesInv == TailsInv /\ ServiceInv /\ WebSourcesInv /\ ProbesInv /\ DestInv /\ DnsInv

\* A line of a log is handed on once, and whole; a failure is counted once, and for who it
\* is about; a client of the server is not taken for a scanner, nor a listed address for a
\* destination the server depends on; a question is not laid to a process that did not ask.
\* For any logs, hosts, addresses, ports, applications and bounds.
THEOREM NobodyIsMisjudged == SourcesRun => []NobodyMisjudged
<1>1. SourcesStart => SourcesInv
  BY TailsInitially, ServiceInitially, WebSourcesInitially, ProbesInitially, DestInitially, DnsInitially
     DEF SourcesStart, SourcesInv
<1>2. SourcesInv /\ [SourcesStep]_<<which, setVars, logVars, seenVars>> => SourcesInv'
  BY EachComponent, TailsKeep, ServiceKeeps, WebSourcesKeep, ProbesKeep, DestKeeps, DnsKeeps DEF SourcesInv
<1>3. SourcesInv => NobodyMisjudged
  BY TailsHandOn, NobodyBlamed, ListedIsJudged
     DEF SourcesInv, ServiceInv, ProbesInv, DnsInv, ClientsSpared, AsksTraced, NobodyMisjudged
<1> QED BY <1>1, <1>2, <1>3, PTL DEF SourcesRun
=============================================================================
