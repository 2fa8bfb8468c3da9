----------------------------- MODULE DataProofs -----------------------------
(***************************************************************************)
(* Proofs about the parts that take data apart and keep it, for any values  *)
(* of their constants: the UDP log, the serial line reader, the legacy      *)
(* proxy, the WiFi scan and the firmware upload.                            *)
(***************************************************************************)
EXTENDS UdpLog, Parsers, SequenceTheorems, FiniteSetTheorems, FunctionTheorems,
        WellFoundedInduction, TLAPS

-----------------------------------------------------------------------------
(* Numbers, sequences and functions *)

\* A number that is the least, or the greatest, of a set is its Min, or its Max.
LEMMA MinIs ==
    ASSUME NEW S \in SUBSET Int, NEW m \in S, \A x \in S : m <= x
    PROVE  Min(S) = m
<1>1. \E x \in S : \A y \in S : x <= y
    OBVIOUS
<1>2. \A x \in S : (\A y \in S : x <= y) => x = m
    OBVIOUS
<1> QED
    BY <1>1, <1>2, Zenon DEF Min

LEMMA MaxIs ==
    ASSUME NEW S \in SUBSET Int, NEW m \in S, \A x \in S : x <= m
    PROVE  Max(S) = m
<1>1. \E x \in S : \A y \in S : x >= y
    OBVIOUS
<1>2. \A x \in S : (\A y \in S : x >= y) => x = m
    OBVIOUS
<1> QED
    BY <1>1, <1>2, Zenon DEF Max

\* A set of naturals that is not empty has a Min, and one that is bounded has a Max.
LEMMA MinExists ==
    ASSUME NEW S \in SUBSET Nat, S # {}
    PROVE  Min(S) \in S /\ \A x \in S : Min(S) <= x
<1> DEFINE Less == {p \in Nat \X Nat : p[1] < p[2]}
<1>1. PICK m \in S : \A x \in S : <<x, m>> \notin Less
    BY NatLessThanWellFounded, WFMin DEF OpToRel
<1>3. ASSUME NEW x \in S PROVE m <= x
  <2>1. <<x, m>> \in Nat \X Nat /\ <<x, m>>[1] = x /\ <<x, m>>[2] = m
    OBVIOUS
  <2>2. ~(x < m)
    BY <1>1, <2>1
  <2> QED
    BY <2>2
<1>4. Min(S) = m
    BY <1>3, MinIs
<1> QED
    BY <1>3, <1>4

LEMMA MaxExists ==
    ASSUME NEW n \in Nat, NEW S \in SUBSET (0 .. n), S # {}
    PROVE  Max(S) \in S /\ \A x \in S : x <= Max(S)
<1> DEFINE T == {y \in 0 .. n : n - y \in S}
<1>1. T \in SUBSET Nat /\ T # {}
  <2>1. PICK x \in S : TRUE
    OBVIOUS
  <2>2. n - x \in 0 .. n /\ n - (n - x) = x
    BY <2>1
  <2>3. n - x \in T
    BY <2>1, <2>2
  <2>4. \A y \in 0 .. n : y \in Nat
    OBVIOUS
  <2> QED
    BY <2>3, <2>4, Zenon
<1>2. Min(T) \in T /\ \A y \in T : Min(T) <= y
    BY <1>1, MinExists
<1> DEFINE m == n - Min(T)
<1>3. m \in S
    BY <1>2
<1>4. ASSUME NEW x \in S PROVE x <= m
  <2>1. n - x \in T
    OBVIOUS
  <2>2. Min(T) <= n - x /\ Min(T) \in Int
    BY <1>2, <2>1
  <2> QED
    BY <2>2
<1> HIDE DEF m
<1>5. Max(S) = m
    BY <1>3, <1>4, MaxIs
<1> QED
    BY <1>3, <1>4, <1>5

-----------------------------------------------------------------------------

\* Two elements of a sequence, and three made of one and two.
LEMMA PairSub ==
    ASSUME NEW s \in Seq(Nat), NEW i \in Nat, i >= 1, i + 1 <= Len(s)
    PROVE  SubSeq(s, i, i + 1) = <<s[i], s[i + 1]>>
<1> DEFINE t == SubSeq(s, i, i + 1)
<1>1. Len(s) \in Nat /\ i \in 1 .. Len(s) + 1 /\ i + 1 \in i - 1 .. Len(s) /\ (i + 1) - i + 1 = 2
    BY LenProperties
<1>2. t \in Seq(Nat) /\ Len(t) = IF i <= i + 1 THEN (i + 1) - i + 1 ELSE 0
    BY <1>1, SubSeqProperties
<1>3. \A j \in 1 .. (i + 1) - i + 1 : t[j] = s[i + j - 1]
    BY <1>1, SubSeqProperties
<1> HIDE DEF t
<1>4. Len(t) = 2
    BY <1>1, <1>2
<1>5. 1 \in 1 .. (i + 1) - i + 1 /\ 2 \in 1 .. (i + 1) - i + 1 /\ i + 1 - 1 = i /\ i + 2 - 1 = i + 1
    OBVIOUS
<1>6. t[1] = s[i] /\ t[2] = s[i + 1]
    BY <1>3, <1>5
<1>7. t = <<t[1], t[2]>>
    BY <1>2, <1>4
<1> QED
    BY <1>6, <1>7 DEF t
LEMMA Triple ==
    ASSUME NEW a \in Nat, NEW b \in Nat, NEW c \in Nat
    PROVE  <<a>> \o <<b, c>> = <<a, b, c>>
<1> DEFINE s == <<a>> \o <<b, c>>
<1> DEFINE x == <<a>>
<1> DEFINE y == <<b, c>>
<1>1. x \in Seq(Nat) /\ y \in Seq(Nat) /\ Len(x) = 1 /\ Len(y) = 2 /\ x[1] = a /\ y[1] = b /\ y[2] = c
    OBVIOUS
<1> HIDE DEF x, y
<1>2. /\ x \o y \in Seq(Nat) /\ Len(x \o y) = Len(x) + Len(y)
      /\ \A i \in 1 .. Len(x) + Len(y) : (x \o y)[i] = IF i <= Len(x) THEN x[i] ELSE y[i - Len(x)]
    BY <1>1, ConcatProperties
<1>3. (x \o y)[1] = a /\ (x \o y)[2] = b /\ (x \o y)[3] = c /\ Len(x \o y) = 3
    BY <1>1, <1>2
<1>4. \A z \in Seq(Nat) : Len(z) = 3 => z = <<z[1], z[2], z[3]>>
    OBVIOUS
<1>5. x \o y = <<(x \o y)[1], (x \o y)[2], (x \o y)[3]>>
    BY <1>2, <1>3, <1>4
<1>6. x \o y = <<a, b, c>>
    BY <1>3, <1>5, Zenon
<1> QED
    BY <1>6, Zenon DEF x, y

\* A concatenation, position by position.
LEMMA ConcatCells ==
    ASSUME NEW S, NEW s \in Seq(S), NEW t \in Seq(S)
    PROVE  /\ s \o t \in Seq(S) /\ Len(s \o t) = Len(s) + Len(t)
           /\ \A k \in 1 .. Len(s) : (s \o t)[k] = s[k]
           /\ \A k \in 1 .. Len(t) : (s \o t)[Len(s) + k] = t[k]
<1>1. Len(s) \in Nat /\ Len(t) \in Nat
    BY LenProperties
<1>2. /\ s \o t \in Seq(S) /\ Len(s \o t) = Len(s) + Len(t)
      /\ \A k \in 1 .. Len(s) + Len(t) : (s \o t)[k] = IF k <= Len(s) THEN s[k] ELSE t[k - Len(s)]
    BY ConcatProperties
<1>3. ASSUME NEW k \in 1 .. Len(s) PROVE (s \o t)[k] = s[k]
    BY <1>1, <1>2
<1>4. ASSUME NEW k \in 1 .. Len(t) PROVE (s \o t)[Len(s) + k] = t[k]
  <2>1. Len(s) + k \in 1 .. Len(s) + Len(t) /\ ~(Len(s) + k <= Len(s)) /\ (Len(s) + k) - Len(s) = k
    BY <1>1
  <2> QED
    BY <1>2, <2>1
<1> QED
    BY <1>2, <1>3, <1>4

\* Positions counted from a inside n.
LEMMA Between ==
    ASSUME NEW n \in Nat, NEW a \in 0 .. n, NEW l \in Nat, a + l <= n
    PROVE  \A k \in 1 .. l : a + k \in 1 .. n
    OBVIOUS

\* What a bijection is.
LEMMA OneToOne ==
    ASSUME NEW S, NEW T, NEW f \in Bijection(S, T)
    PROVE  /\ f \in [S -> T] /\ \A i, j \in S : f[i] = f[j] => i = j
           /\ \A k \in T : \E i \in S : f[i] = k
    BY DEF Bijection, Injection, Surjection, IsInjective

-----------------------------------------------------------------------------
(* UdpLog: the inductive invariant *)

\* The log is sorted by time, and the datagram being appended is not older.
Sorted ==
    /\ packet.ts <= clock
    /\ \A i \in 1 .. Len(log) : log[i].ts <= packet.ts
    /\ \A i, j \in 1 .. Len(log) : i <= j => log[i].ts <= log[j].ts

\* `since' is the timestamp of the latest line a client got.
SinceIsLatest ==
    \A r \in Readers :
        /\ \A i \in Got(r) : log[i].ts <= since[r]
        /\ since[r] = 0 \/ \E j \in Got(r) : log[j].ts = since[r]

IInv == TypeOK /\ Sorted /\ SinceIsLatest /\ NoRepeat /\ MissedSharesTimestamp

-----------------------------------------------------------------------------
(* The log *)

\* What appending a line does to the log.
LEMMA AppendLineLog ==
    ASSUME TypeOK, AppendLine
    PROVE  /\ log' \in Seq(Line) /\ Len(log') = Len(log) + 1 /\ Len(log) \in Nat
           /\ \A i \in 1 .. Len(log) : log'[i] = log[i]
           /\ log'[Len(log')] = [ts |-> packet.ts, source |-> packet.source]
<1>1. [ts |-> packet.ts, source |-> packet.source] \in Line /\ log \in Seq(Line)
    BY DEF TypeOK, Line
<1>2. log' = Append(log, [ts |-> packet.ts, source |-> packet.source])
    BY DEF AppendLine
<1> QED
    BY <1>1, <1>2, AppendProperties, LenProperties

\* Lines, and the positions that exist, only become more.
LEMMA TypeOKStep == TypeOK /\ [Next]_vars => TypeOK'
<1> SUFFICES ASSUME TypeOK, [Next]_vars PROVE TypeOK'
    OBVIOUS
<1> USE BoundsAssumption DEF TypeOK, logVars, askVars, readVars
<1>1. Len(log) \in Nat /\ \A i \in 1 .. Len(log) : log[i] \in Line
    BY ElementOfSeq, LenProperties
<1>2. CASE Tick
    BY <1>2 DEF Tick
<1>3. ASSUME NEW s \in Sources, NEW n \in 1 .. MaxLines, Receive(s, n) PROVE TypeOK'
    BY <1>3 DEF Receive
<1>4. CASE AppendLine
  <2>1. log' \in Seq(Line) /\ Len(log') = Len(log) + 1
    BY <1>4, AppendLineLog
  <2>2. start' \in 0 .. Len(log')
    BY <1>1, <1>4, <2>1 DEF AppendLine
  <2>3. packet' \in [ts : 1 .. MaxClock, source : Sources, left : Nat]
    <3>1. packet.left - 1 \in Nat
      BY <1>4 DEF AppendLine
    <3>2. packet' = [packet EXCEPT !.left = packet.left - 1]
      BY <1>4 DEF AppendLine
    <3> QED
      BY <3>1, <3>2
  <2>4. get' \in [Readers -> {"idle", "scan", "broken"}]
    BY <1>4 DEF AppendLine, BreakScans
  <2>5. 1 .. Len(log) \subseteq 1 .. Len(log')
    BY <1>1, <2>1
  <2>6. /\ page' \in [Readers -> SUBSET (1 .. Len(log'))]
        /\ seen' \in [Readers -> SUBSET (1 .. Len(log'))]
    BY <1>4, <2>5 DEF AppendLine
  <2> QED
    BY <1>4, <2>1, <2>2, <2>3, <2>4, <2>6 DEF AppendLine
<1>5. CASE Clear
    BY <1>1, <1>5 DEF Clear, BreakScans
<1>6. ASSUME NEW r \in Readers, GetBegins(r) \/ GetFails(r) PROVE TypeOK'
    BY <1>6 DEF GetBegins, GetFails
<1>7. ASSUME NEW r \in Readers, GetEnds(r) PROVE TypeOK'
  <2>1. Answer(r) \subseteq 1 .. Len(log)
    BY <1>1 DEF Answer, Fresh, Buffered
  <2>2. \A i \in 1 .. Len(log) : log[i].ts \in 0 .. MaxClock
    BY <1>1 DEF Line
  <2>3. since' \in [Readers -> 0 .. MaxClock]
    <3>1. CASE Answer(r) = {}
      BY <1>7, <3>1 DEF GetEnds
    <3>2. CASE Answer(r) # {}
      <4>1. PICK l \in Answer(r) : since' = [since EXCEPT ![r] = log[l].ts]
        BY <1>7, <3>2 DEF GetEnds
      <4> QED
        BY <2>1, <2>2, <4>1
    <3> QED
      BY <3>1, <3>2
  <2>4. /\ page' \in [Readers -> SUBSET (1 .. Len(log))]
        /\ seen' \in [Readers -> SUBSET (1 .. Len(log))]
        /\ get' \in [Readers -> {"idle", "scan", "broken"}]
    BY <1>7, <2>1 DEF GetEnds
  <2> QED
    BY <1>7, <2>3, <2>4 DEF GetEnds
<1>8. CASE UNCHANGED vars
    BY <1>8 DEF vars
<1> QED
    BY <1>2, <1>3, <1>4, <1>5, <1>6, <1>7, <1>8 DEF Next

\* The clock does not go back, and a datagram is appended before the next is received.
LEMMA SortedStep == TypeOK /\ Sorted /\ [Next]_vars => Sorted'
<1> SUFFICES ASSUME TypeOK, Sorted, [Next]_vars PROVE Sorted'
    OBVIOUS
<1> USE BoundsAssumption DEF Sorted
<1>1. /\ Len(log) \in Nat
      /\ \A i \in 1 .. Len(log) : log[i].ts \in Nat
      /\ clock \in Nat /\ packet.ts \in Nat
  <2>1. Len(log) \in Nat /\ \A i \in 1 .. Len(log) : log[i] \in Line
    BY ElementOfSeq, LenProperties DEF TypeOK
  <2> QED
    BY <2>1 DEF TypeOK, Line
<1>2. CASE Tick
    BY <1>1, <1>2 DEF Tick
<1>3. ASSUME NEW s \in Sources, NEW n \in 1 .. MaxLines, Receive(s, n) PROVE Sorted'
  <2>1. packet'.ts = clock /\ clock' = clock /\ log' = log
    BY <1>3 DEF Receive
  <2> QED
    BY <1>1, <2>1
<1>4. CASE AppendLine
  <2>1. /\ Len(log') = Len(log) + 1
        /\ \A i \in 1 .. Len(log) : log'[i] = log[i]
        /\ log'[Len(log) + 1].ts = packet.ts
    BY <1>4, AppendLineLog
  <2>2. packet'.ts = packet.ts /\ clock' = clock
    BY <1>4 DEF AppendLine, TypeOK
  <2>3. \A i \in 1 .. Len(log') : log'[i].ts <= packet'.ts
    BY <1>1, <2>1, <2>2
  <2>4. ASSUME NEW i \in 1 .. Len(log'), NEW j \in 1 .. Len(log'), i <= j
        PROVE  log'[i].ts <= log'[j].ts
    BY <1>1, <2>1, <2>3, <2>2, <2>4
  <2> QED
    BY <2>2, <2>3, <2>4
<1>5. CASE UNCHANGED <<clock, log, packet>>
    BY <1>5
<1> QED
    BY <1>2, <1>3, <1>4, <1>5
    DEF Next, Clear, GetBegins, GetEnds, GetFails, vars, logVars

-----------------------------------------------------------------------------
(* Reading *)

\* The limit cuts off the latest of the lines: an answer has every line that passes the
\* tests and comes before one in the answer.
LEMMA AnswerIsPrefix ==
    ASSUME TypeOK, NEW r \in Readers, NEW l \in Answer(r), NEW i \in Fresh(r), i < l
    PROVE  i \in Answer(r)
<1> DEFINE Before(k) == {j \in Fresh(r) : j < k}
<1>1. Len(log) \in Nat /\ start \in Nat
    BY LenProperties DEF TypeOK
<1>2. Fresh(r) \subseteq 1 .. Len(log) /\ l \in Fresh(r)
    BY <1>1 DEF Fresh, Buffered, Answer
<1>3. IsFiniteSet(1 .. Len(log))
    BY <1>1, FS_Interval
<1>4. Before(l) \subseteq 1 .. Len(log) /\ i \in Before(l)
    BY <1>2
<1>5. Before(i) \in SUBSET Before(l)
    BY <1>1, <1>2
<1>6. IsFiniteSet(Before(l)) /\ Cardinality(Before(l)) \in Nat
    BY <1>3, <1>4, FS_Subset, FS_CardinalityType
<1>7. Cardinality(Before(i)) <= Cardinality(Before(l)) /\ Cardinality(Before(i)) \in Nat
    BY <1>5, <1>6, FS_Subset, FS_CardinalityType
<1>8. Cardinality(Before(l)) # 0
    BY <1>4, <1>6, FS_EmptySet, FS_CardinalityType, FS_Subset
<1>9. Cardinality(Before(l)) < limit[r] /\ limit[r] \in Nat
    BY <1>8, BoundsAssumption DEF Answer, TypeOK
<1>10. Cardinality(Before(i)) < limit[r]
    BY <1>6, <1>7, <1>9
<1> QED
    BY <1>10 DEF Answer

\* What the tests let through is new to the client: it comes after all the client got.
LEMMA FreshIsLater ==
    ASSUME IInv, NEW r \in Readers, NEW i \in Fresh(r), NEW j \in Got(r)
    PROVE  j < i
<1>1. Len(log) \in Nat /\ \A k \in 1 .. Len(log) : log[k] \in Line
    BY ElementOfSeq, LenProperties DEF IInv, TypeOK
<1>2. i \in 1 .. Len(log) /\ j \in 1 .. Len(log)
    BY <1>1 DEF IInv, TypeOK, Fresh, Buffered, Got
<1>3. log[j].ts <= since[r] /\ log[i].ts > since[r]
    BY DEF IInv, SinceIsLatest, Fresh
<1>4. since[r] \in Nat /\ log[i].ts \in Nat /\ log[j].ts \in Nat
    BY <1>1, <1>2, BoundsAssumption DEF IInv, TypeOK, Line
<1>5. i <= j => log[i].ts <= log[j].ts
    BY <1>2 DEF IInv, Sorted
<1> QED
    BY <1>2, <1>3, <1>4, <1>5

\* GetEnds keeps the three properties of the reader it is for.
LEMMA GetEndsStep ==
    ASSUME IInv, NEW r \in Readers, GetEnds(r)
    PROVE  SinceIsLatest' /\ NoRepeat' /\ MissedSharesTimestamp'
<1> USE DEF IInv
<1>1. Len(log) \in Nat /\ start \in Nat /\ \A k \in 1 .. Len(log) : log[k] \in Line
    BY ElementOfSeq, LenProperties DEF TypeOK
<1>2. /\ Answer(r) \subseteq Fresh(r) /\ Fresh(r) \subseteq 1 .. Len(log)
      /\ \A k \in 1 .. Len(log) : log[k].ts \in Nat
    BY <1>1, BoundsAssumption DEF Answer, Fresh, Buffered, Line
<1>3. /\ UNCHANGED <<log, start, filter>>
      /\ \A o \in Readers \ {r} : seen'[o] = seen[o] /\ page'[o] = page[o] /\ since'[o] = since[o]
      /\ seen'[r] = Got(r) /\ page'[r] = Answer(r)
    BY DEF GetEnds, TypeOK, logVars, askVars, Got
<1>4. /\ Answer(r) = {} => since'[r] = since[r]
      /\ Answer(r) # {} => \E l \in Answer(r) : /\ \A j \in Answer(r) : j <= l
                                                /\ since'[r] = log[l].ts
    BY DEF GetEnds, TypeOK
<1>5. NoRepeat'
  <2>1. \A i \in Answer(r), j \in Got(r) : j < i
    BY <1>2, FreshIsLater
  <2> QED
    BY <1>3, <2>1 DEF NoRepeat
<1>6. \A o \in Readers \ {r} : Got(o)' = Got(o)
    BY <1>3 DEF Got
<1>7. Got(r)' = Got(r) \cup Answer(r)
    BY <1>3 DEF Got
<1>8. since[r] \in Nat /\ \A i \in Answer(r) : log[i].ts > since[r]
    BY <1>2, BoundsAssumption DEF TypeOK, Fresh
<1>9. SinceIsLatest'
  <2>1. /\ \A i \in Got(r)' : log[i].ts <= since'[r]
        /\ since'[r] = 0 \/ \E j \in Got(r)' : log[j].ts = since'[r]
    <3>1. CASE Answer(r) = {}
      BY <1>4, <1>7, <3>1 DEF SinceIsLatest
    <3>2. CASE Answer(r) # {}
      <4>1. PICK l \in Answer(r) : (\A j \in Answer(r) : j <= l) /\ since'[r] = log[l].ts
        BY <1>4, <3>2
      <4>2. \A i \in Answer(r) : log[i].ts <= log[l].ts
        BY <1>2, <4>1 DEF Sorted
      <4>3. ASSUME NEW i \in Got(r) PROVE log[i].ts <= log[l].ts
        <5>1. log[i].ts <= since[r] /\ log[l].ts > since[r] /\ i \in 1 .. Len(log)
          BY <1>8 DEF SinceIsLatest, Got, TypeOK
        <5> QED
          BY <1>2, <1>8, <5>1
      <4> QED
        BY <1>7, <4>1, <4>2, <4>3
    <3> QED
      BY <3>1, <3>2
  <2> QED
    BY <1>3, <1>6, <2>1 DEF SinceIsLatest
<1>10. MissedSharesTimestamp'
  <2>1. ASSUME NEW i \in Buffered \ Got(r)', Wanted(r, i), log[i].ts <= since'[r]
        PROVE  \E j \in Got(r)' : log[j].ts = log[i].ts
    <3>1. i \in 1 .. Len(log)
      BY <1>1 DEF Buffered
    <3>2. CASE log[i].ts <= since[r]
      BY <1>7, <2>1, <3>2 DEF MissedSharesTimestamp
    <3>3. CASE ~(log[i].ts <= since[r])
      <4>1. i \in Fresh(r)
        BY <1>2, <1>8, <2>1, <3>1, <3>3 DEF Fresh
      <4>2. PICK l \in Answer(r) : (\A j \in Answer(r) : j <= l) /\ since'[r] = log[l].ts
        BY <1>4, <2>1, <3>3
      <4>3. ~(i < l)
        BY <1>7, <2>1, <4>1, AnswerIsPrefix
      <4>4. l \in 1 .. Len(log) /\ l <= i
        BY <1>2, <3>1, <4>3
      <4>5. log[l].ts <= log[i].ts
        BY <3>1, <4>4 DEF Sorted
      <4>6. log[l].ts = log[i].ts
        BY <1>2, <2>1, <3>1, <4>2, <4>4, <4>5
      <4> QED
        BY <1>7, <4>6
    <3> QED
      BY <3>2, <3>3
  <2>2. Buffered' = Buffered /\ \A o \in Readers : \A i \in Buffered : Wanted(o, i)' = Wanted(o, i)
    BY <1>3 DEF Buffered, Wanted
  <2>3. ASSUME NEW o \in Readers, NEW i \in (Buffered \ Got(o))', Wanted(o, i)',
               log'[i].ts <= since'[o]
        PROVE  \E j \in Got(o)' : log'[j].ts = log'[i].ts
    <3>1. CASE o = r
      BY <1>3, <2>1, <2>2, <2>3, <3>1
    <3>2. CASE o # r
      BY <1>3, <1>6, <2>2, <2>3, <3>2 DEF MissedSharesTimestamp
    <3> QED
      BY <3>1, <3>2
  <2> QED
    BY <2>3 DEF MissedSharesTimestamp
<1> QED
    BY <1>5, <1>9, <1>10

\* A new line is no older than what the clients got; an old one may leave the buffer.
LEMMA AppendLineStep ==
    ASSUME IInv, AppendLine
    PROVE  SinceIsLatest' /\ NoRepeat' /\ MissedSharesTimestamp'
<1> USE DEF IInv
<1>1. /\ Len(log) \in Nat /\ Len(log') = Len(log) + 1
      /\ \A i \in 1 .. Len(log) : log'[i] = log[i]
      /\ log'[Len(log) + 1].ts = packet.ts
    BY AppendLineLog
<1>2. UNCHANGED <<filter, since, page, seen>> /\ start' >= start /\ start \in Nat /\ start' \in Nat
    BY <1>1 DEF AppendLine, askVars, TypeOK
<1>3. \A r \in Readers : Got(r)' = Got(r) /\ Got(r) \subseteq 1 .. Len(log)
    BY <1>2 DEF Got, TypeOK
<1>4. NoRepeat'
    BY <1>2 DEF NoRepeat
<1>5. SinceIsLatest'
    BY <1>1, <1>2, <1>3 DEF SinceIsLatest
<1>6. MissedSharesTimestamp'
  <2> SUFFICES ASSUME NEW r \in Readers, NEW i \in (Buffered \ Got(r))', Wanted(r, i)',
                      log'[i].ts <= since'[r]
               PROVE  \E j \in Got(r)' : log'[j].ts = log'[i].ts
    BY DEF MissedSharesTimestamp
  <2>1. i \in start' + 1 .. Len(log) + 1
    BY <1>1 DEF Buffered
  <2>2. CASE i <= Len(log)
    <3>1. i \in Buffered \ Got(r) /\ i \in 1 .. Len(log)
      <4>1. i \in start + 1 .. Len(log) /\ i \in 1 .. Len(log)
        <5>1. \A a, b, n \in Nat : b >= a =>
                 \A k \in b + 1 .. n + 1 : k <= n => k \in a + 1 .. n /\ k \in 1 .. n
          OBVIOUS
        <5> QED
          BY <1>1, <1>2, <2>1, <2>2, <5>1, Zenon
      <4>2. i \notin Got(r)
        BY <1>3
      <4> QED
        BY <4>1, <4>2 DEF Buffered
    <3>2. Wanted(r, i) /\ log[i].ts <= since[r]
      BY <1>1, <1>2, <3>1 DEF Wanted
    <3>3. \E j \in Got(r) : log[j].ts = log[i].ts
      BY <3>1, <3>2 DEF MissedSharesTimestamp
    <3> QED
      BY <1>1, <1>3, <3>1, <3>3
  <2>3. CASE i = Len(log) + 1
    <3>1. packet.ts <= since[r] /\ packet.ts \in Nat \ {0} /\ since[r] \in Nat
      BY <1>1, <1>2, <2>3, BoundsAssumption DEF TypeOK
    <3>2. PICK j \in Got(r) : log[j].ts = since[r]
      BY <3>1 DEF SinceIsLatest
    <3>3. j \in 1 .. Len(log) /\ log[j].ts <= packet.ts
      BY <1>3, <3>2 DEF Sorted
    <3>4. log[j].ts = packet.ts
      BY <3>1, <3>2, <3>3
    <3> QED
      BY <1>1, <1>3, <2>3, <3>2, <3>3, <3>4
  <2> QED
    BY <1>1, <1>2, <2>1, <2>2, <2>3
<1> QED
    BY <1>4, <1>5, <1>6

\* The other actions leave the log and what the clients got alone.
LEMMA ReadingStep == IInv /\ [Next]_vars => SinceIsLatest' /\ NoRepeat' /\ MissedSharesTimestamp'
<1> SUFFICES ASSUME IInv, [Next]_vars
             PROVE  SinceIsLatest' /\ NoRepeat' /\ MissedSharesTimestamp'
    OBVIOUS
<1>1. CASE AppendLine
    BY <1>1, AppendLineStep
<1>2. ASSUME NEW r \in Readers, GetEnds(r)
      PROVE  SinceIsLatest' /\ NoRepeat' /\ MissedSharesTimestamp'
    BY <1>2, GetEndsStep
<1>3. CASE Clear
  <2>1. UNCHANGED <<log, filter, since, page, seen>> /\ start' = Len(log) /\ Len(log) \in Nat
    BY <1>3, LenProperties DEF Clear, askVars, IInv, TypeOK
  <2>2. Buffered' = {}
    BY <2>1 DEF Buffered
  <2> QED
    BY <2>1, <2>2 DEF IInv, SinceIsLatest, NoRepeat, MissedSharesTimestamp, Got
<1>4. CASE UNCHANGED <<log, start, filter, since, page, seen>>
    BY <1>4 DEF IInv, SinceIsLatest, NoRepeat, MissedSharesTimestamp, Got, Buffered, Wanted
<1> QED
    BY <1>1, <1>2, <1>3, <1>4
    DEF Next, Tick, Receive, GetBegins, GetFails, vars, logVars, askVars, readVars

-----------------------------------------------------------------------------
(* The theorems *)

\* The initial states satisfy the invariant.
LEMMA InitIInv == Init => IInv
<1> SUFFICES ASSUME Init PROVE IInv
    OBVIOUS
<1> USE BoundsAssumption DEF Init
<1>1. log \in Seq(Line) /\ Len(log) = 0
    BY EmptySeq
<1>2. TypeOK
    BY <1>1 DEF TypeOK
<1>3. Sorted /\ SinceIsLatest
    BY <1>1 DEF Sorted, SinceIsLatest, Got
<1>4. NoRepeat /\ MissedSharesTimestamp
    BY <1>1 DEF NoRepeat, MissedSharesTimestamp, Buffered
<1> QED
    BY <1>2, <1>3, <1>4 DEF IInv

\* The invariant holds in every state.
LEMMA Invariance == Spec => []IInv
<1>1. Init => IInv
    BY InitIInv
<1>2. IInv /\ [Next]_vars => IInv'
    BY TypeOKStep, SortedStep, ReadingStep DEF IInv
<1> QED
    BY <1>1, <1>2, PTL DEF Spec

\* The deque's window lies in the log, and answers consist of lines that exist.
THEOREM TypeCorrect == Spec => []TypeOK
<1>1. IInv => TypeOK
    BY DEF IInv
<1> QED
    BY <1>1, Invariance, PTL

\* Following `since' never returns a line twice, whatever the capacity and the limit.
THEOREM NeverRepeats == Spec => []NoRepeat
<1>1. IInv => NoRepeat
    BY DEF IInv
<1> QED
    BY <1>1, Invariance, PTL

\* Only lines that share a timestamp with one already returned can be skipped.
THEOREM OnlySameTimeMissed == Spec => []MissedSharesTimestamp
<1>1. IInv => MissedSharesTimestamp
    BY DEF IInv
<1> QED
    BY <1>1, Invariance, PTL

-----------------------------------------------------------------------------
(* FirmwareUpload *)

UploadTypeOK == content \in Seq(Solids \cup White)

\* The content stays one.
LEMMA UploadInvariance == UploadSpec => []UploadTypeOK
<1>1. UploadInit => UploadTypeOK
    BY DEF UploadInit, UploadTypeOK
<1>2. UploadTypeOK /\ [UploadNext]_content => UploadTypeOK'
    BY AppendProperties DEF UploadTypeOK, UploadNext, GrowFile
<1> QED
    BY <1>1, <1>2, PTL DEF UploadSpec

\* The part of the form, position by position.
LEMMA FilePartCells ==
    ASSUME NEW c \in Seq(Solids \cup White)
    PROVE  /\ FilePart(c) \in Seq(Solids \cup White \cup {"header"})
           /\ Len(FilePart(c)) = Len(c) + 4
           /\ FilePart(c)[1] = "nl" /\ FilePart(c)[2] = "header" /\ FilePart(c)[3] = "gap"
           /\ \A i \in 1 .. Len(c) : FilePart(c)[i + 3] = c[i]
           /\ FilePart(c)[Len(c) + 4] = "nl"
<1> DEFINE S == Solids \cup White \cup {"header"}
<1> DEFINE h == <<"nl", "header", "gap">>
<1>0. "nl" \in S /\ "header" \in S /\ "gap" \in S /\ Solids \cup White \subseteq S
    BY DEF White
<1> HIDE DEF S
<1>1. h \in Seq(S) /\ Len(h) = 3 /\ h[1] = "nl" /\ h[2] = "header" /\ h[3] = "gap"
    BY <1>0
<1>2. c \in Seq(S) /\ <<"nl">> \in Seq(S) /\ Len(c) \in Nat
    BY <1>0, SeqMonotonic, LenProperties
<1> HIDE DEF h
<1>3. /\ h \o c \in Seq(S) /\ Len(h \o c) = 3 + Len(c)
      /\ \A i \in 1 .. 3 + Len(c) : (h \o c)[i] = IF i <= 3 THEN h[i] ELSE c[i - 3]
  <2>1. /\ h \o c \in Seq(S) /\ Len(h \o c) = Len(h) + Len(c)
        /\ \A i \in 1 .. Len(h) + Len(c) : (h \o c)[i] = IF i <= Len(h) THEN h[i] ELSE c[i - Len(h)]
    BY <1>1, <1>2, ConcatProperties, Zenon
  <2> QED
    BY <1>1, <2>1, Zenon
<1>4. /\ FilePart(c) \in Seq(S) /\ Len(FilePart(c)) = Len(c) + 4
      /\ \A i \in 1 .. Len(c) + 4 :
            FilePart(c)[i] = IF i <= Len(c) + 3 THEN (h \o c)[i] ELSE <<"nl">>[i - (Len(c) + 3)]
  <2>1. FilePart(c) = (h \o c) \o <<"nl">>
    BY DEF FilePart, h
  <2>2. Len(<<"nl">>) = 1
    OBVIOUS
  <2> HIDE DEF FilePart
  <2> QED
    BY <1>2, <1>3, <2>1, <2>2, ConcatProperties
<1>5. \A i \in 1 .. Len(c) : FilePart(c)[i + 3] = c[i]
    BY <1>2, <1>3, <1>4
<1>6. FilePart(c)[Len(c) + 4] = "nl"
    BY <1>2, <1>4
<1>7. FilePart(c)[1] = "nl" /\ FilePart(c)[2] = "header" /\ FilePart(c)[3] = "gap"
    BY <1>1, <1>2, <1>3, <1>4
<1> QED
    BY <1>4, <1>5, <1>6, <1>7 DEF S

\* What _handle_firmware_upload stores: stripping takes the line ends around the part, and
\* the first empty line is the one after the headers.
LEMMA StoredIsContent ==
    ASSUME NEW c \in Seq(Solids \cup White), c # <<>>, c[Len(c)] \notin White
    PROVE  Stored(c) = c
<1> DEFINE n == Len(c)
<1> DEFINE part == FilePart(c)
<1> DEFINE solid == {i \in 1 .. Len(part) : part[i] \notin White}
<1> DEFINE body == SubSeq(part, 2, n + 3)
<1>1. n \in Nat /\ n >= 1
    BY EmptySeq
<1>2. /\ part \in Seq(Solids \cup White \cup {"header"}) /\ Len(part) = n + 4
      /\ part[1] = "nl" /\ part[2] = "header" /\ part[3] = "gap"
      /\ \A i \in 1 .. n : part[i + 3] = c[i]
      /\ part[n + 4] = "nl"
    BY FilePartCells
<1> HIDE DEF n, part
<1>3. 2 \in solid /\ n + 3 \in solid /\ \A i \in solid : 2 <= i /\ i <= n + 3
  <2>1. "nl" \in White /\ "header" \notin White
    BY DEF White
  <2>2. part[n + 3] = c[n] /\ c[n] \notin White
    BY <1>1, <1>2 DEF n
  <2> QED
    BY <1>1, <1>2, <2>1, <2>2
<1>4. Min(solid) = 2 /\ Max(solid) = n + 3
  <2>1. solid \in SUBSET Int
    OBVIOUS
  <2> HIDE DEF solid
  <2> QED
    BY <1>3, <2>1, MinIs, MaxIs
<1>5. Strip(part, White) = body
    BY <1>3, <1>4, Zenon DEF Strip
<1>6. /\ Len(body) = n + 2 /\ \A i \in 1 .. n + 2 : body[i] = part[i + 1]
      /\ body \in Seq(Solids \cup White \cup {"header"})
    BY <1>1, <1>2, SubSeqProperties
<1> HIDE DEF body
<1>7. Min(Gaps(body)) = 2 /\ Gaps(body) # {}
  <2>1. 2 \in Gaps(body) /\ Gaps(body) \in SUBSET Int /\ \A i \in Gaps(body) : 2 <= i
    BY <1>1, <1>2, <1>6 DEF Gaps
  <2> QED
    BY <2>1, MinIs
<1>8. Stored(c) = SubSeq(body, 3, n + 2)
  <2>1. Strip(FilePart(c), White) = body
    BY <1>5 DEF part
  <2>2. Stored(c) = SubSeq(body, Min(Gaps(body)) + 1, Len(body))
    BY <1>7, <2>1, Zenon DEF Stored
  <2> QED
    BY <1>6, <1>7, <2>2
<1>9. /\ SubSeq(body, 3, n + 2) \in Seq(Solids \cup White \cup {"header"})
      /\ Len(SubSeq(body, 3, n + 2)) = n
      /\ \A i \in 1 .. n : SubSeq(body, 3, n + 2)[i] = c[i]
    BY <1>1, <1>2, <1>6, SubSeqProperties
<1> QED
    BY <1>8, <1>9, SeqEqual DEF n

\* A file of any length that does not end in white space is stored by the upload handler as it
\* was sent, whatever empty lines it has at its beginning or inside.
THEOREM UploadStoredAsSent == UploadSpec => []StoredAsSent
<1>1. UploadTypeOK => StoredAsSent
    BY StoredIsContent DEF UploadTypeOK, StoredAsSent
<1> QED
    BY <1>1, UploadInvariance, PTL

-----------------------------------------------------------------------------
(* SerialLines *)

\* A byte is decoded to a cell, and a cell encoded to a byte.
LEMMA CellTypes ==
    /\ \A x \in Cells : Byte(x) \in Bytes \cup {"?"} /\ (x # "nl" => Byte(x) # "nl")
    /\ "nl" \in Bytes /\ "nl" \in Cells
BY PlainAssumption DEF Cells, Bytes, Byte

\* decode() keeps the length, and works cell by cell.
LEMMA DecodeCells ==
    ASSUME NEW b \in Seq(Bytes \cup {"?"})
    PROVE  /\ Decode(b) \in Seq(Cells) /\ Len(Decode(b)) = Len(b) /\ Len(b) \in Nat
           /\ \A i \in 1 .. Len(b) : Decode(b)[i] = Cell(b, i) /\ Cell(b, i) \in Cells
<1>1. Len(b) \in Nat /\ \A i \in 1 .. Len(b) : b[i] \in Bytes \cup {"?"}
    BY LenProperties, ElementOfSeq
<1>2. \A i \in 1 .. Len(b) : Cell(b, i) \in Cells
    BY <1>1, PlainAssumption DEF Cell, Bytes, Cells
<1>3. Decode(b) \in [1 .. Len(b) -> Cells]
    BY <1>2 DEF Decode
<1>4. Decode(b) \in Seq(Cells)
    BY <1>1, <1>3, SeqDef
<1>5. Len(Decode(b)) = Len(b)
    BY <1>1, <1>3, <1>4, LenProperties
<1>6. \A i \in 1 .. Len(b) : Decode(b)[i] = Cell(b, i)
    BY Zenon DEF Decode
<1> QED
    BY <1>1, <1>2, <1>4, <1>5, <1>6

\* Encoding, byte by byte.
LEMMA EncodeCells ==
    ASSUME NEW c \in Seq(Cells)
    PROVE  /\ Encode(c) \in Seq(Bytes \cup {"?"}) /\ Len(Encode(c)) = Len(c)
           /\ \A i \in 1 .. Len(c) : Encode(c)[i] = Byte(c[i])
<1>1. Len(c) \in Nat /\ \A i \in 1 .. Len(c) : c[i] \in Cells
    BY LenProperties, ElementOfSeq
<1>2. Encode(c) \in [1 .. Len(c) -> Bytes \cup {"?"}]
    BY <1>1, CellTypes DEF Encode
<1>3. Encode(c) \in Seq(Bytes \cup {"?"})
    BY <1>1, <1>2, SeqDef
<1>4. Len(Encode(c)) = Len(c)
    BY <1>1, <1>2, <1>3, LenProperties
<1>5. \A i \in 1 .. Len(c) : Encode(c)[i] = Byte(c[i])
    BY Zenon DEF Encode
<1> QED
    BY <1>3, <1>4, <1>5

\* strip() takes characters from both sides only.
LEMMA StrippedType ==
    ASSUME NEW c \in Seq(Cells)
    PROVE  Stripped(c) \in Seq(Cells)
<1> DEFINE solid == {i \in 1 .. Len(c) : c[i] \notin {" "}}
<1>1. Len(c) \in Nat /\ \A i \in 1 .. Len(c) : c[i] \in Cells
    BY LenProperties, ElementOfSeq
<1>2. CASE solid = {}
    BY <1>2, EmptySeq, Zenon DEF Stripped, Strip
<1>3. CASE solid # {}
  <2>1. Min(solid) \in 1 .. Len(c) /\ Max(solid) \in 1 .. Len(c)
    <3>1. solid \subseteq 1 .. Len(c)
      OBVIOUS
    <3>3. \A i \in 1 .. Len(c) : i \in Nat /\ i \in 0 .. Len(c)
      BY <1>1
    <3>2. solid \in SUBSET Nat /\ solid \in SUBSET (0 .. Len(c))
      BY <3>1, <3>3, Zenon
    <3> HIDE DEF solid
    <3> QED
      BY <1>1, <1>3, <3>1, <3>2, MinExists, MaxExists
  <2>2. SubSeq(c, Min(solid), Max(solid)) \in Seq(Cells)
    <3> HIDE DEF solid
    <3>1. \A i \in Min(solid) .. Max(solid) : c[i] \in Cells
      BY <1>1, <2>1
    <3> QED
      BY <2>1, <3>1, SubSeqProperties
  <2> QED
    BY <1>3, <2>2, Zenon DEF Stripped, Strip
<1> QED
    BY <1>2, <1>3

\* A boundary between chunks that is not inside a character changes no cell before it.
LEMMA CellsStay ==
    ASSUME NEW s \in Seq(Bytes), NEW c \in Seq(Bytes),
           s # <<>> /\ c # <<>> => ~(s[Len(s)] = "e1" /\ c[1] = "e2")
    PROVE  \A i \in 1 .. Len(s) : Cell(s \o c, i) = Cell(s, i)
<1> DEFINE t == s \o c
<1>1. /\ Len(s) \in Nat /\ Len(c) \in Nat /\ Len(t) = Len(s) + Len(c)
      /\ \A i \in 1 .. Len(s) + Len(c) : t[i] = IF i <= Len(s) THEN s[i] ELSE c[i - Len(s)]
    BY ConcatProperties, LenProperties
<1> HIDE DEF t
<1>2. ASSUME NEW i \in 1 .. Len(s) PROVE Cell(t, i) = Cell(s, i)
  <2>1. t[i] = s[i] /\ (i > 1 => t[i - 1] = s[i - 1])
    BY <1>1
  <2>2. i < Len(s) => t[i + 1] = s[i + 1] /\ i < Len(t)
    BY <1>1
  <2>3. i = Len(s) /\ i < Len(t) => ~(s[i] = "e1" /\ t[i + 1] = "e2")
    <3> SUFFICES ASSUME i = Len(s), i < Len(t) PROVE ~(s[i] = "e1" /\ t[i + 1] = "e2")
      OBVIOUS
    <3>1. s # <<>> /\ c # <<>>
      BY <1>1, EmptySeq
    <3>2. t[i + 1] = c[1]
      BY <1>1
    <3> QED
      BY <3>1, <3>2
  <2>4. i = Len(s) \/ i < Len(s)
    BY <1>1
  <2> QED
    BY <1>1, <2>1, <2>2, <2>3, <2>4 DEF Cell
<1> QED
    BY <1>2 DEF t

\* Decoding a line that was decoded, encoded again and joined with the next chunk gives
\* what decoding the whole stream gives.
LEMMA DecodeAgain ==
    ASSUME NEW s \in Seq(Bytes), NEW c \in Seq(Bytes),
           s # <<>> /\ c # <<>> => ~(s[Len(s)] = "e1" /\ c[1] = "e2"),
           NEW p \in 0 .. Len(s), p = 0 \/ s[p] = "nl",
           NEW b \in Seq(Bytes \cup {"?"}), Len(b) = Len(s) - p,
           \A i \in 1 .. Len(b) : b[i] = Byte(Cell(s, p + i))
    PROVE  \A i \in 1 .. Len(b) + Len(c) : Cell(b \o c, i) = Cell(s \o c, p + i)
<1> DEFINE t == s \o c
<1> DEFINE d == b \o c
<1>1. /\ Len(s) \in Nat /\ Len(c) \in Nat /\ Len(t) = Len(s) + Len(c)
      /\ \A i \in 1 .. Len(s) + Len(c) : t[i] = IF i <= Len(s) THEN s[i] ELSE c[i - Len(s)]
    BY ConcatProperties, LenProperties
<1>2. /\ Len(b) \in Nat /\ Len(d) = Len(b) + Len(c)
      /\ \A i \in 1 .. Len(b) + Len(c) : d[i] = IF i <= Len(b) THEN b[i] ELSE c[i - Len(b)]
  <2>1. c \in Seq(Bytes \cup {"?"})
    BY SeqMonotonic
  <2> QED
    BY <2>1, ConcatProperties, LenProperties
<1>3. \A i \in 1 .. Len(s) : Cell(t, i) = Cell(s, i)
    BY CellsStay
<1>4. \A i \in 1 .. Len(s) : s[i] \in Bytes /\ s[i] \notin {"?", "E1", "E2"}
  <2>1. \A x \in Bytes : x \notin {"?", "E1", "E2"}
    BY PlainAssumption DEF Bytes
  <2> QED
    BY <2>1, ElementOfSeq
<1>5. \A i \in 1 .. Len(c) : c[i] \in Bytes
    BY ElementOfSeq
<1> HIDE DEF t, d
<1>6. ASSUME NEW i \in 1 .. Len(b)
      PROVE  d[i] = b[i] /\ b[i] = Byte(Cell(s, p + i)) /\ p + i \in 1 .. Len(s)
  <2>1. i \in 1 .. Len(b) + Len(c) /\ i <= Len(b) /\ p + i \in 1 .. Len(s)
    BY <1>1, <1>2
  <2> QED
    BY <1>2, <2>1
\* The cells of the line that was kept.
<1>7. ASSUME NEW i \in 1 .. Len(b) PROVE Cell(d, i) = Cell(s, p + i)
  <2>1. i \in Int /\ p \in Int /\ p + i \in 1 .. Len(s) /\ s[p + i] \notin {"?", "E1", "E2"}
    BY <1>1, <1>4, <1>6
  <2>2. CASE Cell(s, p + i) = "E1"
    <3>1. s[p + i] = "e1" /\ p + i < Len(s) /\ s[p + i + 1] = "e2"
      BY <2>1, <2>2 DEF Cell
    <3>2. i + 1 \in 1 .. Len(b) /\ p + (i + 1) = p + i + 1
      BY <1>1, <1>2, <2>1, <3>1
    <3>3. Cell(s, p + i + 1) = "E2"
      BY <2>1, <3>1 DEF Cell
    <3>4. d[i] = "e1" /\ d[i + 1] = "e2" /\ i < Len(d)
      BY <1>1, <1>2, <1>6, <2>2, <3>2, <3>3, SMTT(30) DEF Byte
    <3> QED
      BY <2>2, <3>4 DEF Cell
  <2>3. CASE Cell(s, p + i) = "E2"
    <3>1. s[p + i] = "e2" /\ p + i > 1 /\ s[p + i - 1] = "e1"
      BY <2>1, <2>3 DEF Cell
    <3>2. i > 1
      <4> SUFFICES ASSUME i = 1 PROVE FALSE
        BY <1>2
      <4>1. p > 0 /\ s[p] = "e1"
        BY <2>1, <3>1
      <4> QED
        BY <4>1
    <3>3. i - 1 \in 1 .. Len(b) /\ p + (i - 1) = p + i - 1 /\ p + i - 1 < Len(s)
      BY <1>2, <2>1, <3>2
    <3>4. Cell(s, p + i - 1) = "E1"
      <4>1. p + i - 1 + 1 = p + i
        BY <2>1
      <4> QED
        BY <3>1, <3>3, <4>1 DEF Cell
    <3>5. d[i] = "e2" /\ d[i - 1] = "e1"
      BY <1>6, <2>3, <3>3, <3>4 DEF Byte
    <3> QED
      BY <2>3, <3>2, <3>5 DEF Cell
  <2>4. CASE Cell(s, p + i) \notin {"E1", "E2"}
    <3>1. d[i] = Cell(s, p + i)
      BY <1>6, <2>4 DEF Byte
    <3>2. Cell(s, p + i) # "e1" /\ Cell(s, p + i) # "e2"
      BY <2>1 DEF Cell
    <3> QED
      BY <3>1, <3>2 DEF Cell
  <2> QED
    BY <2>2, <2>3, <2>4
\* The cells of the chunk.
<1>8. ASSUME NEW i \in Len(b) + 1 .. Len(b) + Len(c) PROVE Cell(d, i) = Cell(t, p + i)
  <2>1. /\ i \in Int /\ p \in Int /\ p + i \in Len(s) + 1 .. Len(s) + Len(c)
        /\ d[i] = c[i - Len(b)] /\ t[p + i] = c[i - Len(b)]
    <3>1. p + i - Len(s) = i - Len(b) /\ p + i > Len(s) /\ p + i <= Len(s) + Len(c)
      BY <1>1, <1>2
    <3> QED
      BY <1>1, <1>2, <3>1
  <2>2. i < Len(d) <=> p + i < Len(t)
    BY <1>1, <1>2
  <2>3. i < Len(d) => d[i + 1] = t[p + i + 1]
    <3> SUFFICES ASSUME i < Len(d) PROVE d[i + 1] = t[p + i + 1]
      OBVIOUS
    <3>1. i + 1 - Len(b) = p + i + 1 - Len(s) /\ p + i + 1 \in Len(s) + 1 .. Len(s) + Len(c)
      BY <1>1, <1>2
    <3> QED
      BY <1>1, <1>2, <3>1
  <2>4. i > Len(b) + 1 => i > 1 /\ p + i > 1 /\ d[i - 1] = t[p + i - 1]
    <3> SUFFICES ASSUME i > Len(b) + 1 PROVE i > 1 /\ p + i > 1 /\ d[i - 1] = t[p + i - 1]
      OBVIOUS
    <3>1. i - 1 - Len(b) = p + i - 1 - Len(s) /\ p + i - 1 \in Len(s) + 1 .. Len(s) + Len(c)
      BY <1>1, <1>2
    <3> DEFINE j == i - 1
    <3> DEFINE k == p + i - 1
    <3>2. j \in 1 .. Len(b) + Len(c) /\ ~(j <= Len(b)) /\ k \in 1 .. Len(s) + Len(c) /\ ~(k <= Len(s))
      BY <1>1, <1>2, <3>1
    <3>3. j - Len(b) = k - Len(s)
      BY <3>1
    <3> HIDE DEF j, k
    <3>4. d[j] = c[j - Len(b)] /\ t[k] = c[k - Len(s)]
      BY <1>1, <1>2, <3>2
    <3>5. d[i - 1] = t[p + i - 1]
      BY <3>3, <3>4 DEF j, k
    <3> QED
      BY <1>1, <1>2, <3>5
  <2>5. CASE i > Len(b) + 1
    <3>1. d[i] = t[p + i] /\ i > 1 /\ p + i > 1 /\ d[i - 1] = t[p + i - 1]
      BY <2>1, <2>4, <2>5
    <3>2. (i < Len(d) /\ d[i + 1] = "e2") <=> (p + i < Len(t) /\ t[p + i + 1] = "e2")
      BY <2>2, <2>3
    <3>3. CASE d[i] = "e1"
      BY <3>1, <3>2, <3>3 DEF Cell
    <3>4. CASE d[i] # "e1"
      BY <3>1, <3>4 DEF Cell
    <3> QED
      BY <3>3, <3>4
  <2>6. CASE i = Len(b) + 1
    <3>1. t[p + i] = c[1] /\ p + i = Len(s) + 1 /\ c # <<>>
      <4>1. i - Len(b) = 1 /\ p + i = Len(s) + 1 /\ Len(c) # 0
        BY <1>1, <1>2, <2>6
      <4> QED
        BY <2>1, <4>1
    <3>2. c[1] = "e2" /\ p + i > 1 => t[p + i - 1] # "e1"
      <4> SUFFICES ASSUME c[1] = "e2", p + i > 1 PROVE t[p + i - 1] # "e1"
        OBVIOUS
      <4>1. s # <<>> /\ t[p + i - 1] = s[Len(s)]
        <5>1. Len(s) >= 1 /\ p + i - 1 = Len(s)
          BY <1>1, <3>1
        <5> QED
          BY <1>1, <5>1
      <4> QED
        BY <3>1, <4>1
    <3>3. i > 1 => d[i - 1] # "e1"
      <4> SUFFICES ASSUME i > 1 PROVE d[i - 1] # "e1"
        OBVIOUS
      <4>1. i - 1 \in 1 .. Len(b) /\ p + (i - 1) = Len(s)
        BY <1>1, <1>2, <2>6
      <4>2. d[i - 1] = Byte(Cell(s, Len(s)))
        BY <1>6, <4>1
      <4>3. Cell(s, Len(s)) \notin {"E1", "e1"}
        BY <1>1, <1>4, <4>1 DEF Cell
      <4> QED
        BY <4>2, <4>3 DEF Byte
    <3> QED
      BY <2>1, <2>2, <2>3, <3>1, <3>2, <3>3, SMTT(30) DEF Cell
  <2> QED
    BY <1>2, <2>5, <2>6
<1>9. ASSUME NEW i \in 1 .. Len(b) + Len(c) PROVE Cell(d, i) = Cell(t, p + i)
  <2>1. CASE i <= Len(b)
    <3>1. i \in 1 .. Len(b) /\ p + i \in 1 .. Len(s)
      BY <1>1, <1>2, <2>1
    <3> QED
      BY <1>3, <1>7, <3>1
  <2>2. CASE i > Len(b)
    BY <1>1, <1>2, <1>8, <2>2
  <2> QED
    BY <1>2, <2>1, <2>2
<1> QED
    BY <1>9 DEF t, d

-----------------------------------------------------------------------------
(* The lines of a stream *)

\* Sequences that agree from m to n have the same subsequence there.
LEMMA SubSeqSame ==
    ASSUME NEW S, NEW f, NEW g, NEW m \in Int, NEW n \in Int,
           \A i \in m .. n : f[i] = g[i] /\ f[i] \in S
    PROVE  SubSeq(f, m, n) = SubSeq(g, m, n)
<1>1. \A i \in m .. n : f[i] \in S /\ g[i] \in S
    OBVIOUS
<1>2. /\ SubSeq(f, m, n) \in Seq(S) /\ Len(SubSeq(f, m, n)) = (IF m <= n THEN n - m + 1 ELSE 0)
      /\ \A i \in 1 .. n - m + 1 : SubSeq(f, m, n)[i] = f[m + i - 1]
    BY <1>1, SubSeqProperties
<1>3. /\ SubSeq(g, m, n) \in Seq(S) /\ Len(SubSeq(g, m, n)) = (IF m <= n THEN n - m + 1 ELSE 0)
      /\ \A i \in 1 .. n - m + 1 : SubSeq(g, m, n)[i] = g[m + i - 1]
    BY <1>1, SubSeqProperties
<1>4. ASSUME NEW i \in 1 .. Len(SubSeq(f, m, n)) PROVE SubSeq(f, m, n)[i] = SubSeq(g, m, n)[i]
  <2>1. i \in 1 .. n - m + 1 /\ m + i - 1 \in m .. n
    BY <1>2
  <2> QED
    BY <1>2, <1>3, <2>1
<1> QED
    BY <1>2, <1>3, <1>4, SeqEqual

\* The lines that are not blank and end at p or before.
Past(bytes, p) == {e \in SolidLines(bytes) : e <= p}

\* There are finitely many lines in a stream.
LEMMA PastFinite ==
    ASSUME NEW s \in Seq(Bytes), NEW p \in Int
    PROVE  /\ Past(s, p) \subseteq 1 .. Len(s) + 1 /\ IsFiniteSet(Past(s, p))
           /\ Cardinality(Past(s, p)) \in Nat
<1>1. Len(s) \in Nat
    BY LenProperties
<1>2. Past(s, p) \subseteq 1 .. Len(s) + 1
    BY <1>1 DEF Past, SolidLines, LineEnds, Ends
<1>3. IsFiniteSet(1 .. Len(s) + 1)
    BY <1>1, FS_Interval
<1> QED
    BY <1>2, <1>3, FS_Subset, FS_CardinalityType

\* The line that begins after p ends at the next line end.
LEMMA LineAfter ==
    ASSUME NEW s \in Seq(Bytes), NEW p \in 0 .. Len(s), p = 0 \/ s[p] = "nl",
           NEW e \in p + 1 .. Len(s) + 1, \A i \in p + 1 .. e - 1 : s[i] # "nl"
    PROVE  /\ LineBefore(s, e) = Stripped(SubSeq(Decode(s), p + 1, e - 1))
           /\ \A x \in LineEnds(s) : x <= p \/ x >= e
<1>1. Len(s) \in Nat
    BY LenProperties
<1> DEFINE P == {0} \cup {i \in Ends(s) : i < e}
<1>2. p \in P /\ P \in SUBSET Int /\ \A x \in P : x <= p
  <2>1. p \in P
    BY <1>1 DEF Ends
  <2>2. \A x \in P : x \in Int /\ x <= p
    BY <1>1 DEF Ends
  <2> QED
    BY <2>1, <2>2
<1>3. Max(P) = p
  <2> HIDE DEF P
  <2> QED
    BY <1>2, MaxIs
<1>4. LineBefore(s, e) = Stripped(SubSeq(Decode(s), p + 1, e - 1))
    BY <1>3, Zenon DEF LineBefore
<1>5. \A x \in LineEnds(s) : x <= p \/ x >= e
    BY <1>1 DEF LineEnds, Ends
<1> QED
    BY <1>4, <1>5

\* Lines that are complete stay as they are when more is read.
LEMMA LinesStay ==
    ASSUME NEW s \in Seq(Bytes), NEW c \in Seq(Bytes),
           s # <<>> /\ c # <<>> => ~(s[Len(s)] = "e1" /\ c[1] = "e2"),
           NEW p \in 0 .. Len(s)
    PROVE  /\ \A e \in Ends(s) : LineBefore(s \o c, e) = LineBefore(s, e)
           /\ Past(s \o c, p) = Past(s, p)
<1> DEFINE t == s \o c
<1>1. /\ Len(s) \in Nat /\ Len(c) \in Nat /\ Len(t) = Len(s) + Len(c) /\ t \in Seq(Bytes)
      /\ \A i \in 1 .. Len(s) + Len(c) : t[i] = IF i <= Len(s) THEN s[i] ELSE c[i - Len(s)]
    BY ConcatProperties, LenProperties
<1>2. \A i \in 1 .. Len(s) : Cell(t, i) = Cell(s, i)
    BY CellsStay
<1> HIDE DEF t
<1>3. s \in Seq(Bytes \cup {"?"}) /\ t \in Seq(Bytes \cup {"?"})
    BY <1>1, SeqMonotonic
<1>4. /\ \A i \in 1 .. Len(s) : i \in 1 .. Len(t) /\ t[i] = s[i]
      /\ \A i \in 1 .. Len(s) : Decode(t)[i] = Decode(s)[i] /\ Decode(s)[i] \in Cells
  <2>1. \A i \in 1 .. Len(s) : i \in 1 .. Len(t) /\ t[i] = s[i]
    BY <1>1
  <2>2. ASSUME NEW i \in 1 .. Len(s) PROVE Decode(t)[i] = Decode(s)[i] /\ Decode(s)[i] \in Cells
    <3>1. Decode(s)[i] = Cell(s, i) /\ Cell(s, i) \in Cells
      BY <1>3, DecodeCells
    <3>2. Decode(t)[i] = Cell(t, i)
      BY <1>3, <2>1, DecodeCells
    <3> QED
      BY <1>2, <3>1, <3>2
  <2> QED
    BY <2>1, <2>2
<1>5. \A i \in 1 .. Len(s) : i \in Ends(t) <=> i \in Ends(s)
    BY <1>4 DEF Ends
<1>6. ASSUME NEW e \in Ends(s) PROVE LineBefore(t, e) = LineBefore(s, e)
  <2> DEFINE P == {0} \cup {i \in Ends(s) : i < e}
  <2>1. e \in 1 .. Len(s)
    BY DEF Ends
  <2>2. {0} \cup {i \in Ends(t) : i < e} = P
    <3>1. \A i \in Ends(t) : i < e => i \in 1 .. Len(s)
      BY <1>1, <2>1 DEF Ends
    <3>2. \A i \in Ends(s) : i \in 1 .. Len(s)
      BY DEF Ends
    <3> QED
      BY <1>5, <3>1, <3>2
  <2>3. Max(P) \in 0 .. Len(s)
    <3>1. \A x \in P : x \in 0 .. Len(s)
      BY <1>1 DEF Ends
    <3>2. P \in SUBSET (0 .. Len(s)) /\ P # {}
      BY <3>1
    <3> HIDE DEF P
    <3> QED
      BY <1>1, <3>2, MaxExists
  <2> DEFINE m == Max(P)
  <2> HIDE DEF P
  <2>4. SubSeq(Decode(t), m + 1, e - 1) = SubSeq(Decode(s), m + 1, e - 1)
    <3>1. m \in 0 .. Len(s) /\ e - 1 \in Int /\ m + 1 \in Int
      BY <1>1, <2>1, <2>3
    <3> HIDE DEF m
    <3>2. \A i \in m + 1 .. e - 1 : i \in 1 .. Len(s)
      BY <1>1, <2>1, <3>1
    <3>3. \A i \in m + 1 .. e - 1 :
            Decode(t)[i] = Decode(s)[i] /\ Decode(s)[i] \in Cells /\ Decode(t)[i] \in Cells
      BY <1>4, <3>2
    <3> QED
      BY <3>1, <3>3, SubSeqSame
  <2> QED
    BY <2>2, <2>4, Zenon DEF LineBefore, m, P
<1>7. Past(t, p) = Past(s, p)
  <2>1. ASSUME NEW x \in Past(t, p) PROVE x \in Past(s, p)
    <3>1. x \in LineEnds(t) /\ x <= p /\ LineBefore(t, x) # <<>>
      BY DEF Past, SolidLines
    <3>2. x \in Ends(s)
      BY <1>1, <1>5, <3>1 DEF LineEnds, Ends
    <3> QED
      BY <1>6, <3>1, <3>2 DEF Past, SolidLines, LineEnds
  <2>2. ASSUME NEW x \in Past(s, p) PROVE x \in Past(t, p)
    <3>1. x \in LineEnds(s) /\ x <= p /\ LineBefore(s, x) # <<>>
      BY DEF Past, SolidLines
    <3>2. x \in Ends(s)
      BY <1>1, <3>1 DEF LineEnds, Ends
    <3>3. x \in Ends(t)
      BY <1>1, <1>5, <3>2 DEF Ends
    <3> QED
      BY <1>6, <3>1, <3>2, <3>3 DEF Past, SolidLines, LineEnds
  <2> QED
    BY <2>1, <2>2
<1> QED
    BY <1>6, <1>7 DEF t

-----------------------------------------------------------------------------
(* The reader *)

\* Where the line begins that has not been collected yet.
Begin == Len(stream) - (IF reader = "split" THEN Len(text) ELSE Len(buf))

\* The lines that end at p or before have been collected, and none of them matched.
Collected(p) ==
    /\ Len(lines) = Cardinality(Past(stream, p))
    /\ \A e \in Past(stream, p) :
          /\ lines[Cardinality(Past(stream, e))] = LineBefore(stream, e)
          /\ ~Matches(LineBefore(stream, e))

\* What is left is the rest of the stream, decoded, or decoded and encoded again.
Rest ==
    /\ Begin \in 0 .. Len(stream) /\ (Begin = 0 \/ stream[Begin] = "nl")
    /\ reader = "split" => \A i \in 1 .. Len(text) : text[i] = Cell(stream, Begin + i)
    /\ reader = "read" =>
          \A i \in 1 .. Len(buf) :
              buf[i] = Byte(Cell(stream, Begin + i)) /\ stream[Begin + i] # "nl"

LinesIInv ==
    /\ LinesTypeOK
    /\ reader # "done" => matched = FALSE
    /\ reader # "done" /\ ~torn => Rest /\ Collected(Begin)
    /\ LinesIndependentOfChunks

\* Collecting a line keeps the types of the results.
LEMMA CollectType ==
    ASSUME LinesTypeOK, NEW line \in Seq(Cells), Collect(line)
    PROVE  lines' \in Seq(Seq(Cells)) /\ matched' \in BOOLEAN
<1>1. Stripped(line) \in Seq(Cells)
    BY StrippedType
<1>2. CASE Stripped(line) = <<>>
    BY <1>2 DEF Collect, LinesTypeOK
<1>3. CASE Stripped(line) # <<>>
  <2>1. lines' = Append(lines, Stripped(line)) /\ matched' = Matches(Stripped(line))
    BY <1>3 DEF Collect
  <2>2. lines' \in Seq(Seq(Cells))
    BY <1>1, <2>1, AppendProperties DEF LinesTypeOK
  <2>3. matched' \in BOOLEAN
    BY <2>1, Zenon DEF Matches
  <2> QED
    BY <2>2, <2>3
<1> QED
    BY <1>2, <1>3

\* Where the first line of the text ends.
LEMMA FirstEnd ==
    ASSUME NEW c \in Seq(Cells), Ends(c) # {}
    PROVE  /\ Min(Ends(c)) \in 1 .. Len(c) /\ c[Min(Ends(c))] = "nl"
           /\ \A i \in 1 .. Min(Ends(c)) - 1 : c[i] # "nl"
<1>1. Len(c) \in Nat
    BY LenProperties
<1>2. Ends(c) \in SUBSET Nat
    BY <1>1 DEF Ends
<1>3. Min(Ends(c)) \in Ends(c) /\ \A x \in Ends(c) : Min(Ends(c)) <= x
    BY <1>2, MinExists
<1>4. Min(Ends(c)) \in 1 .. Len(c) /\ c[Min(Ends(c))] = "nl"
    BY <1>3 DEF Ends
<1>5. ASSUME NEW i \in 1 .. Min(Ends(c)) - 1, c[i] = "nl" PROVE FALSE
  <2>1. i \in Ends(c)
    BY <1>1, <1>4, <1>5 DEF Ends
  <2> QED
    BY <1>3, <1>4, <2>1
<1> QED
    BY <1>4, <1>5

\* Every step keeps the types.
LEMMA LinesTypeStep == LinesTypeOK /\ [LinesNext]_lineVars => LinesTypeOK'
<1> SUFFICES ASSUME LinesTypeOK, [LinesNext]_lineVars PROVE LinesTypeOK'
    OBVIOUS
<1>1. ASSUME NEW x \in Bytes, Arrive(x) PROVE LinesTypeOK'
  <2>1. Append(chunk, x) \in Seq(Bytes)
    BY AppendProperties DEF LinesTypeOK
  <2> QED
    BY <1>1, <2>1 DEF Arrive, LinesTypeOK
<1>2. CASE ReadChunk
  <2>1. stream \o chunk \in Seq(Bytes)
    BY ConcatProperties DEF LinesTypeOK
  <2>2. buf \o chunk \in Seq(Bytes \cup {"?"})
    <3>1. chunk \in Seq(Bytes \cup {"?"}) /\ buf \in Seq(Bytes \cup {"?"})
      BY SeqMonotonic DEF LinesTypeOK
    <3> QED
      BY <3>1, ConcatProperties
  <2>3. text' \in Seq(Cells)
    BY <1>2, <2>2, DecodeCells DEF ReadChunk
  <2>4. torn' \in BOOLEAN
    BY <1>2, Zenon DEF ReadChunk
  <2> QED
    BY <1>2, <2>1, <2>3, <2>4, EmptySeq DEF ReadChunk, LinesTypeOK
<1>3. CASE TakeLine
  <2> DEFINE j == Min(Ends(text))
  <2>1. j \in 1 .. Len(text) /\ text \in Seq(Cells) /\ Len(text) \in Nat
    BY <1>3, FirstEnd, LenProperties DEF TakeLine, LinesTypeOK
  <2>2. \A i \in 1 .. Len(text) : text[i] \in Cells
    BY <2>1, ElementOfSeq
  <2>3. SubSeq(text, 1, j - 1) \in Seq(Cells) /\ SubSeq(text, j + 1, Len(text)) \in Seq(Cells)
    <3> HIDE DEF j
    <3> QED
      BY <2>1, <2>2, SubSeqProperties
  <2>4. lines' \in Seq(Seq(Cells)) /\ matched' \in BOOLEAN
    BY <1>3, <2>3, CollectType DEF TakeLine
  <2> QED
    BY <1>3, <2>3, <2>4 DEF TakeLine, LinesTypeOK
<1>4. CASE KeepRest
    BY <1>4, EncodeCells, EmptySeq DEF KeepRest, LinesTypeOK
<1>5. CASE Deadline
  <2>1. Decode(buf) \in Seq(Cells)
    BY DecodeCells DEF LinesTypeOK
  <2>2. lines' \in Seq(Seq(Cells)) /\ matched' \in BOOLEAN
    BY <1>5, <2>1, CollectType DEF Deadline
  <2> QED
    BY <1>5, <2>2 DEF Deadline, LinesTypeOK
<1>6. CASE UNCHANGED lineVars
    BY <1>6 DEF lineVars, LinesTypeOK
<1> QED
    BY <1>1, <1>2, <1>3, <1>4, <1>5, <1>6 DEF LinesNext

\* Collecting the next line: it is numbered by the lines that are not blank up to its end.
LEMMA CollectNext ==
    ASSUME LinesTypeOK, matched = FALSE, NEW p \in 0 .. Len(stream), Collected(p),
           NEW e \in LineEnds(stream), p < e, \A x \in LineEnds(stream) : x <= p \/ x >= e,
           NEW line, Stripped(line) = LineBefore(stream, e), Collect(line),
           LineBefore(stream, e) \in Seq(Cells)
    PROVE  /\ Len(lines') = Cardinality(Past(stream, e))
           /\ \A x \in Past(stream, e) :
                 /\ lines'[Cardinality(Past(stream, x))] = LineBefore(stream, x)
                 /\ x # e => ~Matches(LineBefore(stream, x))
           /\ matched' <=> (e \in Past(stream, e) /\ Matches(LineBefore(stream, e)))
<1> DEFINE B == LineBefore(stream, e)
<1>1. Len(stream) \in Nat /\ e \in Int /\ e >= 1 /\ stream \in Seq(Bytes) /\ p \in Int
    BY LenProperties DEF LinesTypeOK, LineEnds, Ends
<1>2. e \in Past(stream, e) <=> B # <<>>
    BY <1>1 DEF Past, SolidLines
<1>3. \A x \in Past(stream, e) : x = e \/ x \in Past(stream, p)
    BY <1>1 DEF Past, SolidLines, LineEnds, Ends
<1>4. \A x \in Past(stream, p) : x \in Past(stream, e) /\ x # e /\ x \in Int
    BY <1>1 DEF Past, SolidLines, LineEnds, Ends
<1>5. /\ IsFiniteSet(Past(stream, p)) /\ Cardinality(Past(stream, p)) \in Nat
      /\ e \notin Past(stream, p)
    BY <1>1, <1>4, PastFinite
<1>6. CASE B = <<>>
  <2>1. Past(stream, e) = Past(stream, p)
    BY <1>2, <1>3, <1>4, <1>6
  <2>2. lines' = lines /\ matched' = FALSE
    BY <1>6 DEF Collect
  <2> QED
    BY <1>2, <1>4, <1>6, <2>1, <2>2 DEF Collected
<1>7. CASE B # <<>>
  <2>1. Past(stream, e) = Past(stream, p) \cup {e}
    BY <1>2, <1>3, <1>4, <1>7
  <2>2. lines' = Append(lines, B) /\ matched' = Matches(B)
    BY <1>7 DEF Collect
  <2>3. Cardinality(Past(stream, e)) = Cardinality(Past(stream, p)) + 1
    BY <1>5, <2>1, FS_AddElement
  <2>4. /\ Len(lines) = Cardinality(Past(stream, p)) /\ Len(lines') = Len(lines) + 1
        /\ \A k \in 1 .. Len(lines) : lines'[k] = lines[k]
        /\ lines'[Len(lines) + 1] = B
    <3>1. lines \in Seq(Seq(Cells)) /\ B \in Seq(Cells)
      BY DEF LinesTypeOK
    <3> HIDE DEF B
    <3> QED
      BY <2>2, <3>1, AppendProperties DEF Collected
  <2>5. ASSUME NEW x \in Past(stream, p)
        PROVE  /\ lines'[Cardinality(Past(stream, x))] = LineBefore(stream, x)
               /\ ~Matches(LineBefore(stream, x))
    <3>1. x \in Int /\ x <= p /\ x \in Past(stream, x) /\ Past(stream, x) \subseteq Past(stream, p)
      BY <1>1, <1>4 DEF Past, SolidLines, LineEnds, Ends
    <3>2. Cardinality(Past(stream, x)) \in 1 .. Len(lines)
      <4>1. IsFiniteSet(Past(stream, x)) /\ Cardinality(Past(stream, x)) \in Nat
        BY <1>1, <3>1, PastFinite
      <4>2. Cardinality(Past(stream, x)) # 0
        BY <3>1, <4>1, FS_EmptySet
      <4>3. Cardinality(Past(stream, x)) <= Cardinality(Past(stream, p))
        BY <1>5, <3>1, FS_Subset
      <4> QED
        BY <1>5, <2>4, <4>1, <4>2, <4>3
    <3> QED
      BY <2>4, <3>2 DEF Collected
  <2>6. lines'[Cardinality(Past(stream, e))] = B
    BY <2>3, <2>4
  <2> QED
    BY <1>2, <1>7, <2>1, <2>2, <2>3, <2>4, <2>5, <2>6
<1> QED
    BY <1>6, <1>7

\* The read ends with the first line that matches, or with the stream.
LEMMA ReadEnds ==
    ASSUME LinesTypeOK, NEW e \in LineEnds(stream), stream' = stream,
           matched' \in BOOLEAN, matched' \/ e = Len(stream) + 1,
           Len(lines') = Cardinality(Past(stream, e)),
           \A x \in Past(stream, e) :
               /\ lines'[Cardinality(Past(stream, x))] = LineBefore(stream, x)
               /\ x # e => ~Matches(LineBefore(stream, x)),
           matched' <=> (e \in Past(stream, e) /\ Matches(LineBefore(stream, e)))
    PROVE  LinesIndependentOfChunks'
<1>1. Len(stream) \in Nat /\ e \in Int /\ e <= Len(stream) + 1
    BY LenProperties DEF LinesTypeOK, LineEnds, Ends
<1>2. \A x \in SolidLines(stream) : x \in Int /\ x <= Len(stream) + 1
    BY <1>1 DEF SolidLines, LineEnds, Ends
<1>3. ASSUME NEW x \in Past(stream, e) PROVE x \in Listed(stream)
  <2>1. x \in SolidLines(stream) /\ x <= e
    BY DEF Past
  <2>2. \A f \in SolidLines(stream) : f < x => f \in Past(stream, e) /\ f # e
    BY <1>1, <1>2, <2>1 DEF Past
  <2> QED
    BY <2>1, <2>2 DEF Listed
<1>4. ASSUME NEW x \in Listed(stream) PROVE x \in Past(stream, e)
  <2>1. x \in SolidLines(stream) /\ \A f \in SolidLines(stream) : f < x => ~Matches(LineBefore(stream, f))
    BY DEF Listed
  <2>2. CASE matched'
    <3>1. e \in SolidLines(stream) /\ Matches(LineBefore(stream, e))
      BY <2>2 DEF Past
    <3>2. ~(e < x)
      BY <2>1, <3>1
    <3> QED
      BY <1>1, <1>2, <2>1, <3>2 DEF Past
  <2>3. CASE e = Len(stream) + 1
    BY <1>2, <2>1, <2>3 DEF Past
  <2> QED
    BY <2>2, <2>3
<1>5. Listed(stream) = Past(stream, e)
    BY <1>3, <1>4
<1>6. ASSUME NEW x \in Past(stream, e) PROVE {f \in Listed(stream) : f <= x} = Past(stream, x)
  <2>1. x \in Int /\ x <= e
    BY <1>2 DEF Past
  <2>2. \A f \in SolidLines(stream) : f <= x => f \in Listed(stream)
    BY <1>1, <1>2, <1>5, <2>1 DEF Past
  <2> QED
    BY <2>2 DEF Past, Listed
<1>7. /\ Len(lines') = Cardinality(Listed(stream))
      /\ \A x \in Listed(stream) :
            lines'[Cardinality({f \in Listed(stream) : f <= x})] = LineBefore(stream, x)
    BY <1>5, <1>6
<1>8. matched' <=> \E x \in Listed(stream) : Matches(LineBefore(stream, x))
    BY <1>5
<1> QED
    BY <1>7, <1>8 DEF LinesIndependentOfChunks

\* Reading keeps the invariant: a chunk is appended to what was kept.
LEMMA ReadChunkStep ==
    ASSUME LinesIInv, ReadChunk
    PROVE  ~torn' => Rest' /\ Collected(Begin)'
<1> SUFFICES ASSUME ~torn' PROVE Rest' /\ Collected(Begin)'
    OBVIOUS
<1> DEFINE p == Begin
<1>1. /\ stream \in Seq(Bytes) /\ chunk \in Seq(Bytes) /\ buf \in Seq(Bytes \cup {"?"})
      /\ stream' = stream \o chunk /\ text' = Decode(buf \o chunk)
      /\ reader = "read" /\ reader' = "split" /\ lines' = lines
    BY DEF LinesIInv, LinesTypeOK, ReadChunk
<1>2. ~torn /\ (stream # <<>> /\ chunk # <<>> => ~(stream[Len(stream)] = "e1" /\ chunk[1] = "e2"))
    BY DEF ReadChunk
<1>3. Rest /\ Collected(p)
    BY <1>1, <1>2 DEF LinesIInv
<1>4. /\ p \in 0 .. Len(stream) /\ (p = 0 \/ stream[p] = "nl") /\ Len(buf) = Len(stream) - p
      /\ \A i \in 1 .. Len(buf) : buf[i] = Byte(Cell(stream, p + i))
  <2>1. Len(buf) \in Nat /\ Len(stream) \in Nat
    BY <1>1, LenProperties
  <2>2. p = Len(stream) - Len(buf)
    BY <1>1 DEF Begin
  <2>3. /\ p \in 0 .. Len(stream) /\ (p = 0 \/ stream[p] = "nl")
        /\ \A i \in 1 .. Len(buf) : buf[i] = Byte(Cell(stream, p + i))
    BY <1>1, <1>3 DEF Rest
  <2> QED
    BY <2>1, <2>2, <2>3
<1>5. /\ Len(stream) \in Nat /\ Len(chunk) \in Nat /\ Len(buf) \in Nat
      /\ Len(stream') = Len(stream) + Len(chunk) /\ stream' \in Seq(Bytes)
      /\ \A i \in 1 .. Len(stream) : stream'[i] = stream[i]
    BY <1>1, ConcatProperties, LenProperties
<1>6. /\ Len(text') = Len(buf) + Len(chunk)
      /\ \A i \in 1 .. Len(text') : text'[i] = Cell(buf \o chunk, i)
  <2>1. buf \o chunk \in Seq(Bytes \cup {"?"}) /\ Len(buf \o chunk) = Len(buf) + Len(chunk)
    <3>1. chunk \in Seq(Bytes \cup {"?"})
      BY <1>1, SeqMonotonic
    <3> QED
      BY <1>1, <3>1, ConcatProperties
  <2>2. /\ Len(Decode(buf \o chunk)) = Len(buf \o chunk)
        /\ \A i \in 1 .. Len(buf \o chunk) : Decode(buf \o chunk)[i] = Cell(buf \o chunk, i)
    BY <2>1, DecodeCells
  <2> QED
    BY <1>1, <2>1, <2>2
<1>7. Begin' = p
    BY <1>1, <1>4, <1>5, <1>6 DEF Begin
<1> HIDE DEF p
<1>8. \A i \in 1 .. Len(text') : text'[i] = Cell(stream', p + i)
    BY <1>1, <1>2, <1>4, <1>6, DecodeAgain, ZenonT(60)
<1>9. Rest'
  <2>1. p \in 0 .. Len(stream') /\ (p = 0 \/ stream'[p] = "nl")
    BY <1>4, <1>5
  <2> QED
    BY <1>1, <1>7, <1>8, <2>1 DEF Rest
<1>10. /\ Len(lines') = Cardinality(Past(stream', p))
       /\ \A e \in Past(stream', p) :
             /\ lines'[Cardinality(Past(stream', e))] = LineBefore(stream', e)
             /\ ~Matches(LineBefore(stream', e))
  <2>1. Past(stream', p) = Past(stream, p) /\ \A e \in Ends(stream) : LineBefore(stream', e) = LineBefore(stream, e)
    BY <1>1, <1>2, <1>4, LinesStay
  <2>2. ASSUME NEW e \in Past(stream, p)
        PROVE  LineBefore(stream', e) = LineBefore(stream, e) /\ Past(stream', e) = Past(stream, e)
    <3>1. e \in Ends(stream)
      BY <1>4, <1>5 DEF Past, SolidLines, LineEnds, Ends
    <3>2. e \in 0 .. Len(stream)
      BY <1>5, <3>1 DEF Ends
    <3> QED
      BY <1>1, <1>2, <2>1, <3>1, <3>2, LinesStay
  <2>3. Collected(p)
    BY <1>3 DEF p
  <2> QED
    BY <1>1, <2>1, <2>2, <2>3 DEF Collected
<1>11. Collected(Begin)'
    BY <1>7, <1>10 DEF Collected
<1> QED
    BY <1>9, <1>11

\* So does taking a line: it is the next one of the stream.
LEMMA TakeLineStep ==
    ASSUME LinesIInv, TakeLine, ~torn'
    PROVE  /\ ~matched' => Rest' /\ Collected(Begin)'
           /\ matched' => LinesIndependentOfChunks'
<1> DEFINE p == Begin
<1> DEFINE j == Min(Ends(text))
<1> DEFINE e == p + j
<1> DEFINE line == SubSeq(text, 1, j - 1)
<1>1. /\ stream \in Seq(Bytes) /\ text \in Seq(Cells) /\ stream' = stream /\ LinesTypeOK
      /\ reader = "split" /\ matched = FALSE /\ ~torn /\ Rest /\ Collected(p)
      /\ Collect(line) /\ text' = SubSeq(text, j + 1, Len(text))
      /\ reader' = (IF matched' THEN "done" ELSE "split")
    BY DEF LinesIInv, LinesTypeOK, TakeLine
<1>2. Len(stream) \in Nat /\ Len(text) \in Nat /\ p = Len(stream) - Len(text)
    BY <1>1, LenProperties DEF Begin
<1>3. /\ p \in 0 .. Len(stream) /\ (p = 0 \/ stream[p] = "nl")
      /\ \A i \in 1 .. Len(text) : text[i] = Cell(stream, p + i)
    BY <1>1 DEF Rest
<1>4. j \in 1 .. Len(text) /\ text[j] = "nl" /\ \A i \in 1 .. j - 1 : text[i] # "nl"
    BY <1>1, FirstEnd DEF TakeLine
<1>5. matched' \in BOOLEAN
  <2>1. \A i \in 1 .. j - 1 : text[i] \in Cells
    <3> HIDE DEF j
    <3> QED
      BY <1>1, <1>2, <1>4, ElementOfSeq
  <2>2. line \in Seq(Cells)
    <3> HIDE DEF j
    <3> QED
      BY <1>4, <2>1, SubSeqProperties
  <2> QED
    BY <1>1, <2>2, CollectType
<1> HIDE DEF p, j
<1>6. /\ e \in p + 1 .. Len(stream) + 1 /\ e \in Int /\ e \in 1 .. Len(stream)
      /\ p \in Int /\ j \in Int
    BY <1>2, <1>3, <1>4
\* A cell is a line end when its byte is one.
<1>7. \A i \in 1 .. Len(stream) : Cell(stream, i) = "nl" <=> stream[i] = "nl"
    BY DEF Cell
<1>8. stream[e] = "nl" /\ \A i \in p + 1 .. e - 1 : stream[i] # "nl"
  <2>1. stream[e] = "nl"
    BY <1>3, <1>4, <1>6, <1>7
  <2>2. ASSUME NEW i \in p + 1 .. e - 1 PROVE stream[i] # "nl"
    <3>1. i - p \in 1 .. j - 1 /\ i - p \in 1 .. Len(text) /\ p + (i - p) = i /\ i \in 1 .. Len(stream)
      BY <1>2, <1>3, <1>4, <1>6
    <3>2. text[i - p] # "nl" /\ text[i - p] = Cell(stream, p + (i - p))
      BY <1>3, <1>4, <3>1
    <3> QED
      BY <1>7, <3>1, <3>2
  <2> QED
    BY <2>1, <2>2
<1>9. /\ LineBefore(stream, e) = Stripped(SubSeq(Decode(stream), p + 1, e - 1))
      /\ \A x \in LineEnds(stream) : x <= p \/ x >= e
  <2> HIDE DEF e
  <2> QED
    BY <1>1, <1>3, <1>6, <1>8, LineAfter
<1>10. e \in LineEnds(stream)
    BY <1>6, <1>8 DEF LineEnds, Ends
<1>11. /\ line = SubSeq(Decode(stream), p + 1, e - 1)
       /\ SubSeq(Decode(stream), p + 1, e - 1) \in Seq(Cells)
  <2> DEFINE u == SubSeq(Decode(stream), p + 1, e - 1)
  <2>1. \A i \in 1 .. Len(stream) : Decode(stream)[i] = Cell(stream, i) /\ Cell(stream, i) \in Cells
    <3>1. stream \in Seq(Bytes \cup {"?"})
      BY <1>1, SeqMonotonic
    <3> QED
      BY <3>1, DecodeCells
  <2>2. /\ \A i \in 1 .. j - 1 : text[i] \in Cells
        /\ \A i \in p + 1 .. e - 1 : Decode(stream)[i] \in Cells
    <3>1. \A i \in 1 .. j - 1 : i \in 1 .. Len(text)
      BY <1>2, <1>4
    <3>2. \A i \in p + 1 .. e - 1 : i \in 1 .. Len(stream)
      BY <1>2, <1>3, <1>6
    <3> QED
      BY <1>1, <2>1, <3>1, <3>2, ElementOfSeq
  <2>3. line \in Seq(Cells) /\ Len(line) = j - 1 /\ \A i \in 1 .. j - 1 : line[i] = text[i]
    BY <1>4, <1>6, <2>2, SubSeqProperties
  <2>4. /\ u \in Seq(Cells) /\ Len(u) = j - 1
        /\ \A i \in 1 .. j - 1 : u[i] = Decode(stream)[p + i]
    <3>1. /\ u \in Seq(Cells) /\ Len(u) = (IF p + 1 <= e - 1 THEN e - 1 - (p + 1) + 1 ELSE 0)
          /\ \A i \in 1 .. e - 1 - (p + 1) + 1 : u[i] = Decode(stream)[p + 1 + i - 1]
      <4> HIDE DEF e
      <4> QED
        BY <1>6, <2>2, SubSeqProperties
    <3>2. e - 1 - (p + 1) + 1 = j - 1 /\ j - 1 >= 0
      BY <1>4, <1>6
    <3>3. \A i \in 1 .. j - 1 : p + 1 + i - 1 = p + i
      BY <1>6
    <3> HIDE DEF u, e
    <3> QED
      BY <1>6, <3>1, <3>2, <3>3
  <2>5. ASSUME NEW i \in 1 .. j - 1 PROVE line[i] = u[i]
    <3>1. i \in 1 .. Len(text) /\ p + i \in 1 .. Len(stream)
      BY <1>2, <1>3, <1>4, <1>6
    <3> QED
      BY <1>3, <2>1, <2>3, <2>4, <3>1
  <2> HIDE DEF line, u
  <2>6. line = u
    BY <2>3, <2>4, <2>5, SeqEqual
  <2> QED
    BY <2>4, <2>6 DEF u
<1>12. LineBefore(stream, e) \in Seq(Cells) /\ Stripped(line) = LineBefore(stream, e)
    BY <1>9, <1>11, StrippedType
<1>13. /\ Len(lines') = Cardinality(Past(stream, e))
       /\ \A x \in Past(stream, e) :
             /\ lines'[Cardinality(Past(stream, x))] = LineBefore(stream, x)
             /\ x # e => ~Matches(LineBefore(stream, x))
       /\ matched' <=> (e \in Past(stream, e) /\ Matches(LineBefore(stream, e)))
  <2>1. p < e
    BY <1>4, <1>6
  <2> HIDE DEF e, line
  <2> QED
    BY <1>1, <1>3, <1>9, <1>10, <1>12, <2>1, CollectNext
<1>14. ASSUME matched' PROVE LinesIndependentOfChunks'
  <2> HIDE DEF e
  <2> QED
    BY <1>1, <1>5, <1>10, <1>13, <1>14, ReadEnds
<1>15. ASSUME ~matched' PROVE Rest' /\ Collected(Begin)'
  <2>1. /\ Len(text') = Len(text) - j
        /\ \A i \in 1 .. Len(text) - j : text'[i] = text[j + i]
    <3>1. \A i \in j + 1 .. Len(text) : text[i] \in Cells
      BY <1>1, <1>2, <1>4, ElementOfSeq
    <3>2. /\ Len(SubSeq(text, j + 1, Len(text))) = (IF j + 1 <= Len(text) THEN Len(text) - (j + 1) + 1 ELSE 0)
          /\ \A i \in 1 .. Len(text) - (j + 1) + 1 : SubSeq(text, j + 1, Len(text))[i] = text[j + 1 + i - 1]
      BY <1>2, <1>6, <3>1, SubSeqProperties
    <3>3. Len(text) - (j + 1) + 1 = Len(text) - j /\ \A i \in 1 .. Len(text) - j : j + 1 + i - 1 = j + i
      BY <1>2, <1>6
    <3>4. Len(SubSeq(text, j + 1, Len(text))) = Len(text) - j
      BY <1>2, <1>4, <3>2
    <3>5. \A i \in 1 .. Len(text) - j : SubSeq(text, j + 1, Len(text))[i] = text[j + i]
      BY <3>2, <3>3
    <3>6. text' = SubSeq(text, j + 1, Len(text))
      BY <1>1
    <3> QED
      BY <3>4, <3>5, <3>6, Zenon
  <2>2. Begin' = e /\ reader' = "split"
    <3>1. reader' = "split" /\ Len(stream') = Len(stream)
      BY <1>1, <1>15
    <3>2. Begin' = Len(stream) - Len(text')
      BY <3>1 DEF Begin
    <3> QED
      BY <1>2, <1>6, <2>1, <3>1, <3>2
  <2>3. ASSUME NEW i \in 1 .. Len(text') PROVE text'[i] = Cell(stream, e + i)
    <3>1. j + i \in 1 .. Len(text) /\ p + (j + i) = e + i
      BY <1>2, <1>4, <1>6, <2>1
    <3> QED
      BY <1>3, <2>1, <3>1
  <2>4. Rest'
    <3>1. e \in 0 .. Len(stream) /\ stream[e] = "nl"
      BY <1>2, <1>6, <1>8
    <3> HIDE DEF e
    <3> QED
      BY <1>1, <2>2, <2>3, <3>1 DEF Rest
  <2>5. Collected(Begin)'
    <3> HIDE DEF e
    <3> QED
      BY <1>1, <1>13, <1>15, <2>2 DEF Collected
  <2> QED
    BY <2>4, <2>5
<1> QED
    BY <1>14, <1>15

\* So does the deadline: what is left is the last line.
LEMMA DeadlineStep ==
    ASSUME LinesIInv, Deadline, ~torn'
    PROVE  LinesIndependentOfChunks'
<1> DEFINE p == Begin
<1> DEFINE e == Len(stream) + 1
<1>1. /\ stream \in Seq(Bytes) /\ buf \in Seq(Bytes \cup {"?"}) /\ stream' = stream /\ LinesTypeOK
      /\ reader = "read" /\ matched = FALSE /\ ~torn /\ Rest /\ Collected(p)
      /\ Collect(Decode(buf))
    BY DEF LinesIInv, LinesTypeOK, Deadline
<1>2. Len(stream) \in Nat /\ Len(buf) \in Nat /\ p = Len(stream) - Len(buf)
    BY <1>1, LenProperties DEF Begin
<1>3. /\ p \in 0 .. Len(stream) /\ (p = 0 \/ stream[p] = "nl") /\ Len(buf) = Len(stream) - p
      /\ \A i \in 1 .. Len(buf) : buf[i] = Byte(Cell(stream, p + i)) /\ stream[p + i] # "nl"
  <2>1. /\ p \in 0 .. Len(stream) /\ (p = 0 \/ stream[p] = "nl")
        /\ \A i \in 1 .. Len(buf) : buf[i] = Byte(Cell(stream, p + i)) /\ stream[p + i] # "nl"
    BY <1>1 DEF Rest
  <2> QED
    BY <1>2, <2>1
<1> HIDE DEF p
<1>12. /\ p \in Int /\ 0 <= p /\ p <= Len(stream) /\ Len(buf) = Len(stream) - p
       /\ Len(stream) \in Nat /\ Len(buf) \in Nat
  <2>1. p \in 0 .. Len(stream) /\ Len(buf) = Len(stream) - p
    BY <1>3, Zenon
  <2> QED
    BY <1>2, <2>1
<1>4. \A i \in p + 1 .. e - 1 : stream[i] # "nl"
  <2>1. ASSUME NEW i \in p + 1 .. e - 1 PROVE stream[i] # "nl"
    <3>1. i - p \in 1 .. Len(buf) /\ p + (i - p) = i
      BY <1>12
    <3> QED
      BY <1>3, <3>1
  <2> QED
    BY <2>1
<1>5. e \in p + 1 .. Len(stream) + 1 /\ p < e /\ e \in LineEnds(stream) /\ p \in Int /\ e \in Int
    BY <1>12 DEF LineEnds
<1>6. /\ LineBefore(stream, e) = Stripped(SubSeq(Decode(stream), p + 1, e - 1))
      /\ \A x \in LineEnds(stream) : x <= p \/ x >= e
    BY <1>1, <1>3, <1>4, <1>5, LineAfter
\* The line that was kept is decoded like the end of the stream.
<1>7. \A i \in 1 .. Len(buf) : Cell(buf, i) = Cell(stream, p + i)
  <2>1. <<>> \in Seq(Bytes) /\ Len(<<>>) = 0
    BY EmptySeq
  <2>2. buf \o <<>> = buf /\ stream \o <<>> = stream
    BY <1>1, ConcatEmptySeq
  <2>3. \A i \in 1 .. Len(buf) + Len(<<>>) : Cell(buf \o <<>>, i) = Cell(stream \o <<>>, p + i)
    BY <1>1, <1>3, <2>1, DecodeAgain, ZenonT(60)
  <2> QED
    BY <1>2, <2>1, <2>2, <2>3
<1>8. SubSeq(Decode(stream), p + 1, e - 1) = Decode(buf) /\ Decode(buf) \in Seq(Cells)
  <2> DEFINE u == SubSeq(Decode(stream), p + 1, e - 1)
  <2>1. \A i \in 1 .. Len(stream) : Decode(stream)[i] = Cell(stream, i) /\ Cell(stream, i) \in Cells
    <3>1. stream \in Seq(Bytes \cup {"?"})
      BY <1>1, SeqMonotonic
    <3> QED
      BY <3>1, DecodeCells
  <2>2. /\ Decode(buf) \in Seq(Cells) /\ Len(Decode(buf)) = Len(buf)
        /\ \A i \in 1 .. Len(buf) : Decode(buf)[i] = Cell(buf, i)
    BY <1>1, DecodeCells
  <2>3. \A i \in p + 1 .. e - 1 : Decode(stream)[i] \in Cells
    BY <1>12, <2>1
  <2>4. /\ u \in Seq(Cells) /\ Len(u) = Len(buf)
        /\ \A i \in 1 .. Len(buf) : u[i] = Decode(stream)[p + i]
    <3>1. /\ u \in Seq(Cells) /\ Len(u) = (IF p + 1 <= e - 1 THEN e - 1 - (p + 1) + 1 ELSE 0)
          /\ \A i \in 1 .. e - 1 - (p + 1) + 1 : u[i] = Decode(stream)[p + 1 + i - 1]
      <4> HIDE DEF e
      <4> QED
        BY <1>5, <2>3, SubSeqProperties
    <3>2. e - 1 - (p + 1) + 1 = Len(buf) /\ \A i \in 1 .. Len(buf) : p + 1 + i - 1 = p + i
      BY <1>12
    <3> HIDE DEF u, e
    <3> QED
      BY <1>2, <1>5, <3>1, <3>2
  <2>5. ASSUME NEW i \in 1 .. Len(buf) PROVE u[i] = Decode(buf)[i]
    <3>1. p + i \in 1 .. Len(stream)
      BY <1>12
    <3> QED
      BY <1>7, <2>1, <2>2, <2>4, <3>1
  <2> HIDE DEF u
  <2>6. u = Decode(buf)
    BY <2>2, <2>4, <2>5, SeqEqual
  <2> QED
    BY <2>2, <2>6 DEF u
<1>9. LineBefore(stream, e) \in Seq(Cells) /\ Stripped(Decode(buf)) = LineBefore(stream, e)
    BY <1>6, <1>8, StrippedType
<1>10. /\ Len(lines') = Cardinality(Past(stream, e))
       /\ \A x \in Past(stream, e) :
             /\ lines'[Cardinality(Past(stream, x))] = LineBefore(stream, x)
             /\ x # e => ~Matches(LineBefore(stream, x))
       /\ matched' <=> (e \in Past(stream, e) /\ Matches(LineBefore(stream, e)))
  <2> HIDE DEF e
  <2> QED
    BY <1>1, <1>3, <1>5, <1>6, <1>9, CollectNext
<1>11. matched' \in BOOLEAN
    BY <1>1, <1>8, CollectType
<1> QED
    BY <1>1, <1>5, <1>10, <1>11, ReadEnds

\* So does keeping what follows the last line end.
LEMMA KeepRestStep ==
    ASSUME LinesIInv, KeepRest, ~torn'
    PROVE  Rest' /\ Collected(Begin)'
<1>1. /\ stream \in Seq(Bytes) /\ text \in Seq(Cells) /\ stream' = stream /\ lines' = lines
      /\ reader = "split" /\ reader' = "read" /\ Rest /\ Collected(Begin) /\ buf' = Encode(text)
      /\ Ends(text) = {}
    BY DEF LinesIInv, LinesTypeOK, KeepRest
<1>2. Len(buf') = Len(text) /\ \A i \in 1 .. Len(text) : buf'[i] = Byte(text[i])
    BY <1>1, EncodeCells
<1>3. Begin' = Begin
    BY <1>1, <1>2 DEF Begin
<1>4. ASSUME NEW i \in 1 .. Len(text)
      PROVE  buf'[i] = Byte(Cell(stream, Begin + i)) /\ stream[Begin + i] # "nl"
  <2>1. text[i] = Cell(stream, Begin + i) /\ text[i] # "nl"
    BY <1>1 DEF Rest, Ends
  <2>2. stream[Begin + i] # "nl"
    BY <2>1 DEF Cell
  <2> QED
    BY <1>2, <2>1, <2>2
<1>5. Rest'
  <2>1. Begin \in 0 .. Len(stream) /\ (Begin = 0 \/ stream[Begin] = "nl")
    BY <1>1 DEF Rest
  <2> QED
    BY <1>1, <1>2, <1>3, <1>4, <2>1 DEF Rest
<1>6. Collected(Begin)'
    BY <1>1, <1>3 DEF Collected
<1> QED
    BY <1>5, <1>6

\* It holds at the start.
LEMMA LinesInitIInv == LinesInit => LinesIInv
<1> SUFFICES ASSUME LinesInit PROVE LinesIInv
    OBVIOUS
<1>1. LinesTypeOK
    BY EmptySeq DEF LinesInit, LinesTypeOK
<1>2. stream = <<>> /\ lines = <<>> /\ reader = "read" /\ Len(stream) = 0 /\ Len(buf) = 0 /\ Len(lines) = 0
    BY DEF LinesInit
<1>3. Begin = 0
    BY <1>2 DEF Begin
<1>4. Past(stream, 0) = {}
    BY <1>2 DEF Past, SolidLines, LineEnds, Ends
<1>5. Rest
    BY <1>2, <1>3 DEF Rest
<1>6. Collected(0)
    BY <1>2, <1>4, FS_EmptySet DEF Collected
<1> QED
    BY <1>1, <1>2, <1>3, <1>5, <1>6 DEF LinesInit, LinesIInv, LinesIndependentOfChunks

\* The inductive invariant of the line reader.
LEMMA LinesInvariance == LinesSpec => []LinesIInv
<1>1. LinesIInv /\ [LinesNext]_lineVars => LinesIInv'
  <2> SUFFICES ASSUME LinesIInv, [LinesNext]_lineVars PROVE LinesIInv'
    OBVIOUS
  <2>1. LinesTypeOK'
    BY LinesTypeStep DEF LinesIInv
  <2>2. ASSUME NEW x \in Bytes, Arrive(x) PROVE LinesIInv'
    BY <2>1, <2>2 DEF Arrive, LinesIInv, Rest, Collected, Begin, LinesIndependentOfChunks
  <2>3. CASE ReadChunk
    <3>1. reader' = "split" /\ matched' = FALSE /\ LinesIndependentOfChunks'
      BY <2>3 DEF ReadChunk, LinesIInv, LinesIndependentOfChunks
    <3> QED
      BY <2>1, <2>3, <3>1, ReadChunkStep DEF LinesIInv
  <2>4. CASE TakeLine
    <3>1. reader' = (IF matched' THEN "done" ELSE "split") /\ matched' \in BOOLEAN
      BY <2>1, <2>4 DEF TakeLine, LinesTypeOK
    <3>2. reader' # "done" \/ torn' => LinesIndependentOfChunks'
      BY DEF LinesIndependentOfChunks
    <3> QED
      BY <2>1, <2>4, <3>1, <3>2, TakeLineStep DEF LinesIInv
  <2>5. CASE KeepRest
    <3>1. reader' = "read" /\ matched' = FALSE /\ LinesIndependentOfChunks'
      BY <2>5 DEF KeepRest, LinesIInv, LinesIndependentOfChunks
    <3> QED
      BY <2>1, <2>5, <3>1, KeepRestStep DEF LinesIInv
  <2>6. CASE Deadline
    <3>1. reader' = "done" /\ (torn' => LinesIndependentOfChunks')
      BY <2>6 DEF Deadline, LinesIndependentOfChunks
    <3> QED
      BY <2>1, <2>6, <3>1, DeadlineStep DEF LinesIInv
  <2>7. CASE UNCHANGED lineVars
    BY <2>1, <2>7 DEF lineVars, LinesIInv, Rest, Collected, Begin, LinesIndependentOfChunks
  <2> QED
    BY <2>2, <2>3, <2>4, <2>5, <2>6, <2>7 DEF LinesNext
<1> QED
    BY <1>1, LinesInitIInv, PTL DEF LinesSpec

\* _read_serial_lines returns the lines of the stream, up to the first that matches, however
\* the stream was cut into chunks: for streams of any length, and any bytes.
THEOREM ChunksDoNotMatter == LinesSpec => []LinesIndependentOfChunks
<1>1. LinesIInv => LinesIndependentOfChunks
    BY DEF LinesIInv
<1> QED
    BY <1>1, LinesInvariance, PTL

-----------------------------------------------------------------------------
(* LegacyProxy: the inductive invariant *)

\* Command c was sent at m, and the next one after it.
Follows(c, m) ==
    /\ <<m[1] + Len(c.sent), m[2] + Len(c.means)>> \in marks
    /\ \A k \in 1 .. Len(c.sent) : sent[m[1] + k] = c.sent[k]
    /\ \A k \in 1 .. Len(c.means) : means[m[2] + k] = c.means[k]
    /\ \A n \in marks : n[1] <= m[1] \/ n[1] >= m[1] + Len(c.sent)

\* What the client sent is a row of commands, and `marks' are the places between them.
Marked ==
    /\ <<0, 0>> \in marks /\ <<Len(sent), Len(means)>> \in marks
    /\ \A m, n \in marks : m[1] <= n[1] => m[2] <= n[2]
    /\ \A m \in marks : m[1] = Len(sent) \/ \E c \in Commands : Follows(c, m)

\* The chunk is the beginning of it.
Chunked ==
    /\ at = 0 => out = <<>>
    /\ at > 0 => Len(data) <= Len(sent) /\ \A i \in 1 .. Len(data) : data[i] = sent[i]

\* Everything up to some place between commands is decoded; the loop is there, or the chunk
\* ends inside the next command.
DecodedTo(m) ==
    /\ m[1] < at /\ m[1] <= Len(data) /\ m[2] <= Len(out)
    /\ \A k \in 1 .. m[2] : out[k] = means[k]
    /\ \/ at = m[1] + 1 /\ Len(out) = m[2]
       \/ m[1] < Len(data) /\ \A n \in marks : n[1] <= m[1] \/ n[1] > Len(data)

ProxyIInv ==
    /\ ProxyTypeOK /\ Marked /\ Chunked
    /\ at > 0 => \E m \in marks : DecodedTo(m)
    /\ AnswersTellSetting

\* A round of the loop of handle_rfc2217.
DecodeRound == DataByte \/ EscapedByte \/ Setting \/ Negotiation \/ OtherCommand

-----------------------------------------------------------------------------
(* The four kinds of command, each decoded in one round *)

\* A byte that is not 255 is data.
LEMMA DecodeData ==
    ASSUME ProxyTypeOK, InChunk, data[at] # IAC, DecodeRound
    PROVE  at' = at + 1 /\ out' = out \o << <<data[at]>> >>
           /\ UNCHANGED <<clientVars, data, portVars>>
<1>1. DataByte
    BY DEF DecodeRound, EscapedByte, Setting, IsSetting, Negotiation, IsNegotiation, OtherCommand,
           Command
<1>2. Append(out, <<data[at]>>) = out \o << <<data[at]>> >>
    BY AppendIsConcat, ElementOfSeq, SMTT(30) DEF ProxyTypeOK, InChunk
<1> QED
    BY <1>1, <1>2 DEF DataByte

\* 255 twice is the byte 255.
LEMMA DecodeEscaped ==
    ASSUME ProxyTypeOK, Command(IAC), DecodeRound
    PROVE  at' = at + 2 /\ out' = out \o << <<IAC>> >>
           /\ UNCHANGED <<clientVars, data, portVars>>
<1>1. EscapedByte
    BY DEF DecodeRound, DataByte, Setting, IsSetting, Negotiation, IsNegotiation, OtherCommand,
           Command, InChunk, ProxyTypeOK, Verbs, IAC, SB, DO, DONT, WILL, WONT
<1>2. Append(out, <<IAC>>) = out \o << <<IAC>> >>
    BY AppendIsConcat DEF ProxyTypeOK, IAC
<1> QED
    BY <1>1, <1>2 DEF EscapedByte

\* A negotiation is answered.
LEMMA DecodeNegotiation ==
    ASSUME ProxyTypeOK, IsNegotiation, DecodeRound
    PROVE  at' = at + 3 /\ out' = out \o Reply(data[at + 1], data[at + 2])
           /\ UNCHANGED <<clientVars, data, portVars>>
<1>1. PICK v \in Verbs : Command(v)
    BY DEF IsNegotiation
<1>2. v # IAC /\ v # SB
    BY DEF Verbs, IAC, SB, DO, DONT, WILL, WONT
<1>3. data[at] = IAC /\ data[at + 1] = v /\ at # Len(data)
    BY <1>1 DEF Command, ProxyTypeOK
<1>4. ~DataByte /\ ~EscapedByte /\ ~Setting /\ ~OtherCommand
    BY <1>2, <1>3 DEF DataByte, EscapedByte, Setting, IsSetting, Command, OtherCommand
<1> QED
    BY <1>4 DEF DecodeRound, Negotiation

\* A setting goes to _handle_com_port_option with its command and value.
LEMMA DecodeSetting ==
    ASSUME ProxyTypeOK, Command(SB), at + 6 <= Len(data), data[at + 2] = COM_PORT_OPTION,
           data[at + 3] # IAC, data[at + 4] # IAC, data[at + 5] = IAC, data[at + 6] = SE,
           DecodeRound
    PROVE  at' = at + 7 /\ out' = out \o << <<SB, data[at + 3], data[at + 4]>> >>
           /\ UNCHANGED <<clientVars, data>> /\ HandleOption(<<data[at + 3], data[at + 4]>>)
<1>0. at \in Nat /\ Len(data) \in Nat /\ data \in Seq(Nat) /\ out \in Seq(Seq(Nat)) /\ at > 0
    BY DEF ProxyTypeOK, Command, InChunk
<1>1. at + 5 \in SettingEnds /\ SettingEnds \subseteq Int
    BY <1>0 DEF SettingEnds
<1>2. ASSUME NEW j \in SettingEnds PROVE at + 5 <= j
  <2>1. j \in at + 3 .. Len(data) - 1 /\ data[j] = IAC
    BY DEF SettingEnds
  <2>2. j # at + 3 /\ j # at + 4
    BY <2>1
  <2> QED
    BY <1>0, <2>1, <2>2
<1>3. Min(SettingEnds) = at + 5
    BY <1>1, <1>2, MinIs
<1>4. Setting
  <2>1. IsSetting
    BY <1>0, <1>1 DEF IsSetting
  <2>2. data[at] = IAC /\ data[at + 1] = SB /\ at # Len(data)
    BY <1>0 DEF Command
  <2>3. SB # IAC /\ SB \notin Verbs
    BY DEF SB, IAC, Verbs, DO, DONT, WILL, WONT
  <2>4. ~DataByte /\ ~EscapedByte /\ ~Negotiation /\ ~OtherCommand
    BY <2>1, <2>2, <2>3
       DEF DataByte, EscapedByte, Negotiation, IsNegotiation, Command, OtherCommand
  <2> QED
    BY <2>4 DEF DecodeRound
<1> DEFINE sub == SubSeq(data, at + 3, Min(SettingEnds) - 1)
<1>5. sub = <<data[at + 3], data[at + 4]>>
  <2>1. (at + 5) - 1 = at + 3 + 1 /\ at + 3 >= 1 /\ at + 3 \in Nat /\ at + 3 + 1 = at + 4
    BY <1>0
  <2>2. sub = SubSeq(data, at + 3, at + 3 + 1)
    BY <1>3, <2>1, Zenon
  <2>3. SubSeq(data, at + 3, at + 3 + 1) = <<data[at + 3], data[at + 3 + 1]>>
    BY <1>0, <2>1, PairSub, SMTT(30)
  <2> QED
    BY <2>1, <2>2, <2>3, Zenon
<1>6. Append(out, <<SB>> \o sub) = out \o << <<SB, data[at + 3], data[at + 4]>> >>
  <2>1. at + 3 \in 1 .. Len(data) /\ at + 4 \in 1 .. Len(data)
    BY <1>0
  <2>2. data[at + 3] \in Nat /\ data[at + 4] \in Nat /\ SB \in Nat
    BY <1>0, <2>1, ElementOfSeq, SMTT(30) DEF SB
  <2>4. <<SB>> \o sub = <<SB, data[at + 3], data[at + 4]>>
    BY <1>5, <2>2, Triple
  <2>5. <<SB, data[at + 3], data[at + 4]>> \in Seq(Nat)
    BY <2>2
  <2> QED
    BY <1>0, <2>4, <2>5, AppendIsConcat
<1>7. HandleOption(sub) /\ out' = Append(out, <<SB>> \o sub) /\ at' = Min(SettingEnds) + 2
      /\ UNCHANGED <<clientVars, data>>
    BY <1>4 DEF Setting
<1>8. (at + 5) + 2 = at + 7
    BY DEF ProxyTypeOK
<1> QED
    BY <1>3, <1>5, <1>6, <1>7, <1>8, Zenon

-----------------------------------------------------------------------------
(* Settings *)

\* What a setting does to the port, and that the answer tells it.
LEMMA OptionHandled ==
    ASSUME port \in Ports, NEW a \in Nat, NEW b \in Nat, HandleOption(<<a, b>>)
    PROVE  port' \in Ports /\ asked' \in Nat \X Nat /\ told' \in Nat \X Nat /\ AnswersTellSetting'
<1> DEFINE o == <<a, b>>
<1> DEFINE p == SetOption(port, o)
<1>1. o[1] = a /\ o[2] = b /\ Len(o) = 2 /\ o # <<>> /\ o \in Nat \X Nat
    OBVIOUS
<1>2. port' = p /\ asked' = o /\ told' = <<a, AnswerOption(p, o)>>
    BY <1>1 DEF HandleOption
<1>3. p \in Ports
  <2>1. Lookup(Parities, b, "N") \in {Parities[k] : k \in 1 .. 5}
    BY DEF Lookup, Parities
  <2>2. Lookup(StopBits, b, 2) \in {2, 3, 4}
    BY DEF Lookup, StopBits
  <2> HIDE DEF o
  <2>3. CASE a = SET_BAUDRATE
    <3>1. p = [port EXCEPT !.baud = IF b > 0 THEN b ELSE @]
      BY <1>1, <2>3 DEF SetOption, SET_BAUDRATE, SET_DATASIZE, SET_PARITY, SET_STOPSIZE, SET_CONTROL
    <3> QED
      BY <3>1 DEF Ports
  <2>4. CASE a = SET_DATASIZE
    <3>1. p = [port EXCEPT !.size = IF b \in 5 .. 8 THEN b ELSE @]
      BY <1>1, <2>4 DEF SetOption, SET_BAUDRATE, SET_DATASIZE, SET_PARITY, SET_STOPSIZE, SET_CONTROL
    <3> QED
      BY <3>1 DEF Ports
  <2>5. CASE a = SET_PARITY
    <3>1. p = [port EXCEPT !.parity = Lookup(Parities, b, "N")]
      BY <1>1, <2>5 DEF SetOption, SET_BAUDRATE, SET_DATASIZE, SET_PARITY, SET_STOPSIZE, SET_CONTROL
    <3> QED
      BY <2>1, <3>1 DEF Ports
  <2>6. CASE a = SET_STOPSIZE
    <3>1. p = [port EXCEPT !.stop = Lookup(StopBits, b, 2)]
      BY <1>1, <2>6 DEF SetOption, SET_BAUDRATE, SET_DATASIZE, SET_PARITY, SET_STOPSIZE, SET_CONTROL
    <3> QED
      BY <2>2, <3>1 DEF Ports
  <2>7. CASE a = SET_CONTROL
    <3>1. p = [port EXCEPT !.dtr = IF b \in {8, 9} THEN b = 8 ELSE @,
                           !.rts = IF b \in {11, 12} THEN b = 11 ELSE @]
      BY <1>1, <2>7 DEF SetOption, SET_BAUDRATE, SET_DATASIZE, SET_PARITY, SET_STOPSIZE, SET_CONTROL
    <3> QED
      BY <3>1 DEF Ports
  <2>8. CASE a \notin {SET_BAUDRATE, SET_DATASIZE, SET_PARITY, SET_STOPSIZE, SET_CONTROL}
    <3>1. p = port
      BY <1>1, <2>8 DEF SetOption, SET_BAUDRATE, SET_DATASIZE, SET_PARITY, SET_STOPSIZE, SET_CONTROL
    <3> QED
      BY <3>1
  <2> QED
    BY <2>3, <2>4, <2>5, <2>6, <2>7, <2>8
<1> HIDE DEF p
<1>4. AnswerOption(p, o) \in Nat
  <2>1. Position(Parities, p.parity) \in 1 .. 5
    BY <1>3 DEF Position, Parities, Ports
  <2>2. ASSUME NEW v \in {2, 4} PROVE Position(StopBits, v) \in 1 .. 3
    BY DEF Position, StopBits
  <2>3. p.baud \in Nat /\ p.size \in Nat /\ (IF p.stop = 3 THEN 2 ELSE p.stop) \in {2, 4}
    BY <1>3 DEF Ports
  <2>4. Position(StopBits, IF p.stop = 3 THEN 2 ELSE p.stop) \in 1 .. 3
    BY <2>2, <2>3
  <2> QED
    BY <1>1, <2>1, <2>3, <2>4
       DEF AnswerOption, SET_BAUDRATE, SET_DATASIZE, SET_PARITY, SET_STOPSIZE, SET_CONTROL
<1> DEFINE other == [baud |-> 9, size |-> 5, parity |-> "S", stop |-> 4,
                     dtr |-> ~p.dtr, rts |-> ~p.rts]
<1> DEFINE t == <<a, AnswerOption(p, o)>>
<1>5. a # SET_STOPSIZE \/ p.stop # 3 => Asked(SetOption(other, t), o) = Asked(p, o)
  <2> USE DEF SET_BAUDRATE, SET_DATASIZE, SET_PARITY, SET_STOPSIZE, SET_CONTROL
  <2>1. t[1] = a /\ t[2] = AnswerOption(p, o)
    OBVIOUS
  <2>2. CASE a = SET_BAUDRATE
    <3>1. t[2] = p.baud /\ p.baud > 0
      BY <1>1, <1>3, <2>1, <2>2 DEF AnswerOption, Ports
    <3>2. SetOption(other, t) = [other EXCEPT !.baud = IF t[2] > 0 THEN t[2] ELSE @]
      BY <2>1, <2>2 DEF SetOption
    <3>3. SetOption(other, t).baud = p.baud
      BY <3>1, <3>2
    <3>4. \A q : Asked(q, o) = q.baud
      BY <1>1, <2>2 DEF Asked
    <3> QED
      BY <3>3, <3>4
  <2>3. CASE a = SET_DATASIZE
    <3>1. t[2] = p.size /\ p.size \in 5 .. 8
      BY <1>1, <1>3, <2>1, <2>3 DEF AnswerOption, Ports
    <3>2. SetOption(other, t) = [other EXCEPT !.size = IF t[2] \in 5 .. 8 THEN t[2] ELSE @]
      BY <2>1, <2>3 DEF SetOption
    <3>3. SetOption(other, t).size = p.size
      BY <3>1, <3>2
    <3>4. \A q : Asked(q, o) = q.size
      BY <1>1, <2>3 DEF Asked
    <3> QED
      BY <3>3, <3>4
  <2>4. CASE a = SET_PARITY
    <3>1. t[2] = Position(Parities, p.parity)
      BY <1>1, <1>3, <2>1, <2>4 DEF AnswerOption, Ports
    <3>2. Lookup(Parities, Position(Parities, p.parity), "N") = p.parity
      BY <1>3 DEF Lookup, Position, Parities, Ports
    <3>3. SetOption(other, t) = [other EXCEPT !.parity = Lookup(Parities, t[2], "N")]
      BY <2>1, <2>4 DEF SetOption
    <3>4. SetOption(other, t).parity = p.parity
      BY <3>1, <3>2, <3>3
    <3>5. \A q : Asked(q, o) = q.parity
      BY <1>1, <2>4 DEF Asked
    <3> QED
      BY <3>4, <3>5
  <2>5. CASE a = SET_STOPSIZE /\ p.stop # 3
    <3>1. t[2] = Position(StopBits, p.stop)
      BY <1>1, <1>3, <2>1, <2>5 DEF AnswerOption, Ports
    <3>2. Lookup(StopBits, Position(StopBits, p.stop), 2) = p.stop
      BY <1>3, <2>5 DEF Lookup, Position, StopBits, Ports
    <3>3. SetOption(other, t) = [other EXCEPT !.stop = Lookup(StopBits, t[2], 2)]
      BY <2>1, <2>5 DEF SetOption
    <3>4. SetOption(other, t).stop = p.stop
      BY <3>1, <3>2, <3>3
    <3>5. \A q : Asked(q, o) = q.stop
      BY <1>1, <2>5 DEF Asked
    <3> QED
      BY <3>4, <3>5
  <2>6. CASE a = SET_CONTROL
    <3>1. t[2] = b
      BY <1>1, <2>1, <2>6 DEF AnswerOption
    <3>2. ASSUME NEW q \in Ports
          PROVE  /\ b \in {8, 9} => SetOption(q, o).dtr = (b = 8)
                 /\ b \in {11, 12} => SetOption(q, o).rts = (b = 11)
      <4>1. SetOption(q, o) = [q EXCEPT !.dtr = IF b \in {8, 9} THEN b = 8 ELSE @,
                                        !.rts = IF b \in {11, 12} THEN b = 11 ELSE @]
        BY <1>1, <2>6 DEF SetOption
      <4> QED
        BY <4>1 DEF Ports
    <3>3. other \in Ports
      <4>1. "S" \in {Parities[k] : k \in 1 .. 5}
        BY DEF Parities
      <4>2. (~p.dtr) \in BOOLEAN /\ (~p.rts) \in BOOLEAN
        OBVIOUS
      <4> QED
        BY <4>1, <4>2 DEF Ports
    <3>5. t = o
      BY <3>1
    <3>6. \A q : Asked(q, o) = IF b \in {8, 9} THEN q.dtr
                               ELSE IF b \in {11, 12} THEN q.rts ELSE TRUE
      BY <1>1, <2>6 DEF Asked
    <3> HIDE DEF o, t, other
    <3>7. b \in {8, 9} => SetOption(other, o).dtr = p.dtr
      BY <3>2, <3>3 DEF p
    <3>8. b \in {11, 12} => SetOption(other, o).rts = p.rts
      BY <3>2, <3>3 DEF p
    <3> QED
      BY <3>5, <3>6, <3>7, <3>8
  <2>7. CASE a \notin {SET_BAUDRATE, SET_DATASIZE, SET_PARITY, SET_STOPSIZE, SET_CONTROL}
    <3>1. \A q : Asked(q, o) = TRUE
      BY <1>1, <2>7 DEF Asked
    <3> QED
      BY <3>1
  <2> QED
    BY <2>2, <2>3, <2>4, <2>5, <2>6, <2>7
<1>6. told' \in Nat \X Nat
    BY <1>2, <1>4
<1>7. AnswersTellSetting'
  <2> HIDE DEF o
  <2>1. AnswersTellSetting' = (asked'[1] # SET_STOPSIZE \/ port'.stop # 3 =>
          Asked(SetOption([baud |-> 9, size |-> 5, parity |-> "S", stop |-> 4,
                           dtr |-> ~port'.dtr, rts |-> ~port'.rts], told'), asked') = Asked(port', asked'))
    BY DEF AnswersTellSetting
  <2> QED
    BY <1>1, <1>2, <1>5, <2>1
<1> QED
    BY <1>1, <1>2, <1>3, <1>6, <1>7

-----------------------------------------------------------------------------
(* A round of the loop *)

\* A round goes on in the chunk, and keeps what came out before it.
LEMMA RoundExtends ==
    ASSUME ProxyTypeOK, DecodeRound
    PROVE  /\ at' \in Nat /\ at' > at /\ UNCHANGED <<clientVars, data>>
           /\ out' \in Seq(Seq(Nat)) /\ Len(out') >= Len(out)
           /\ \A k \in 1 .. Len(out) : out'[k] = out[k]
<1>0. at \in Nat /\ data \in Seq(Nat) /\ out \in Seq(Seq(Nat)) /\ Len(data) \in Nat /\ Len(out) \in Nat
    BY LenProperties DEF ProxyTypeOK
<1>1. ASSUME NEW x \in Seq(Seq(Nat))
      PROVE  /\ out \o x \in Seq(Seq(Nat)) /\ Len(out \o x) >= Len(out)
             /\ \A k \in 1 .. Len(out) : (out \o x)[k] = out[k]
  <2>1. /\ out \o x \in Seq(Seq(Nat)) /\ Len(out \o x) = Len(out) + Len(x)
        /\ \A k \in 1 .. Len(out) + Len(x) :
              (out \o x)[k] = IF k <= Len(out) THEN out[k] ELSE x[k - Len(out)]
    BY <1>0, ConcatProperties
  <2>2. Len(x) \in Nat
    BY LenProperties
  <2> QED
    BY <1>0, <2>1, <2>2
<1>2. ASSUME NEW x \in Seq(Nat)
      PROVE  /\ Append(out, x) \in Seq(Seq(Nat)) /\ Len(Append(out, x)) >= Len(out)
             /\ \A k \in 1 .. Len(out) : Append(out, x)[k] = out[k]
    BY <1>0, AppendProperties
<1>3. CASE DataByte
  <2>1. <<data[at]>> \in Seq(Nat)
    <3>1. data[at] \in Nat
      BY <1>0, <1>3, ElementOfSeq DEF DataByte, InChunk
    <3> QED
      BY <3>1
  <2> QED
    BY <1>0, <1>2, <1>3, <2>1 DEF DataByte
<1>4. CASE EscapedByte
  <2>1. <<IAC>> \in Seq(Nat)
    BY DEF IAC
  <2> QED
    BY <1>0, <1>2, <1>4, <2>1 DEF EscapedByte
<1>5. CASE Negotiation
  <2>1. Reply(data[at + 1], data[at + 2]) \in Seq(Seq(Nat))
    BY DEF Reply, WILL, DO, COM_PORT_OPTION
  <2> QED
    BY <1>0, <1>1, <1>5, <2>1 DEF Negotiation
<1>6. CASE OtherCommand
    BY <1>0, <1>6 DEF OtherCommand
<1>7. CASE Setting
  <2> DEFINE e == Min(SettingEnds)
  <2>1. SettingEnds \in SUBSET Nat /\ SettingEnds # {}
    <3>1. \A j \in at + 3 .. Len(data) - 1 : j \in Nat
      BY <1>0
    <3>2. SettingEnds \in SUBSET Nat
      BY <3>1, Zenon DEF SettingEnds
    <3> QED
      BY <1>7, <3>2, Zenon DEF Setting, IsSetting
  <2>2. e \in SettingEnds
    BY <2>1, MinExists
  <2>3. e \in at + 3 .. Len(data) - 1
    BY <2>2 DEF SettingEnds
  <2> DEFINE sub == SubSeq(data, at + 3, e - 1)
  <2>4. sub \in Seq(Nat)
    <3> HIDE DEF e
    <3>1. \A i \in at + 3 .. e - 1 : data[i] \in Nat
      BY <1>0, <2>3, ElementOfSeq
    <3> QED
      BY <1>0, <2>3, <3>1, SubSeqProperties
  <2>5. <<SB>> \o sub \in Seq(Nat)
    <3> HIDE DEF sub
    <3>1. <<SB>> \in Seq(Nat)
      BY DEF SB
    <3> QED
      BY <2>4, <3>1, ConcatProperties
  <2>6. out' = Append(out, <<SB>> \o sub) /\ at' = e + 2 /\ UNCHANGED <<clientVars, data>>
    BY <1>7 DEF Setting
  <2> HIDE DEF sub, e
  <2>7. at' \in Nat /\ at' > at
    BY <1>0, <2>3, <2>6
  <2> QED
    BY <1>2, <2>5, <2>6, <2>7
<1> QED
    BY <1>3, <1>4, <1>5, <1>6, <1>7 DEF DecodeRound

\* Inside a command there is no IAC SE.
LEMMA NoEndInside ==
    ASSUME ProxyTypeOK, NEW c \in Commands, NEW k \in 1 .. Len(c.sent) - 2, c.sent[k] = IAC
    PROVE  c.sent[k + 1] # SE
<1> USE DEF IAC, SE, SB, COM_PORT_OPTION
<1>1. CASE \E b \in DataBytes : c = [sent |-> <<b>>, means |-> << <<b>> >>]
    BY <1>1
<1>2. CASE c = [sent |-> <<IAC, IAC>>, means |-> << <<IAC>> >>]
    BY <1>2
<1>3. CASE \E v \in Verbs, o \in Options : c = [sent |-> <<IAC, v, o>>, means |-> Reply(v, o)]
  <2>1. PICK v \in Verbs, o \in Options : c = [sent |-> <<IAC, v, o>>, means |-> Reply(v, o)]
    BY <1>3
  <2>2. k = 1
    BY <2>1
  <2>3. c.sent[k + 1] = v
    BY <2>1, <2>2
  <2> QED
    BY <2>3 DEF Verbs, DO, DONT, WILL, WONT
<1>4. CASE \E r \in Requests : c = [sent |-> <<IAC, SB, COM_PORT_OPTION, r[1], r[2], IAC, SE>>,
                                    means |-> << <<SB, r[1], r[2]>> >>]
  <2>1. PICK r \in Requests : c = [sent |-> <<IAC, SB, COM_PORT_OPTION, r[1], r[2], IAC, SE>>,
                                   means |-> << <<SB, r[1], r[2]>> >>]
    BY <1>4
  <2>2. r[1] # IAC /\ r[2] # IAC
    BY ClientAssumption
  <2>3. k \in 1 .. 5
    BY <2>1
  <2>4. /\ c.sent[1] = IAC /\ c.sent[2] = SB /\ c.sent[3] = COM_PORT_OPTION
        /\ c.sent[4] = r[1] /\ c.sent[5] = r[2]
    BY <2>1
  <2>5. k = 1
    BY <2>2, <2>3, <2>4
  <2> QED
    BY <2>4, <2>5
<1> QED
    BY <1>1, <1>2, <1>3, <1>4 DEF Commands

\* What a round has to do with a command c that is in the chunk: decode it as it was meant.
DecodesAll(c) ==
    /\ at' = at + Len(c.sent) /\ out' = out \o c.means /\ c.means \in Seq(Seq(Nat))
    /\ Len(c.sent) \in Nat /\ Len(c.sent) > 0
    /\ AnswersTellSetting' /\ port' \in Ports /\ asked' \in Nat \X Nat /\ told' \in Nat \X Nat

\* Any of the four, where it is in the chunk completely.
LEMMA CommandDecoded ==
    ASSUME ProxyTypeOK, DecodeRound, at > 0, NEW c \in Commands, at + Len(c.sent) - 1 <= Len(data),
           \A k \in 1 .. Len(c.sent) : data[at + k - 1] = c.sent[k], AnswersTellSetting
    PROVE  DecodesAll(c)
<1>0. at \in Nat /\ data \in Seq(Nat) /\ Len(data) \in Nat /\ port \in Ports
    BY LenProperties DEF ProxyTypeOK
<1>p. UNCHANGED portVars => /\ AnswersTellSetting' /\ port' \in Ports /\ asked' \in Nat \X Nat
                            /\ told' \in Nat \X Nat
    BY DEF portVars, AnswersTellSetting, ProxyTypeOK
<1>1. ASSUME NEW b \in DataBytes, c = [sent |-> <<b>>, means |-> << <<b>> >>] PROVE DecodesAll(c)
  <2>1. b \in Nat /\ b # IAC
    BY ClientAssumption
  <2>2. Len(c.sent) = 1 /\ c.sent[1] = b /\ c.means = << <<b>> >> /\ c.means \in Seq(Seq(Nat))
    BY <1>1, <2>1
  <2>3. data[at] = b /\ at <= Len(data)
    BY <1>0, <2>2
  <2>4. at' = at + 1 /\ out' = out \o << <<data[at]>> >> /\ UNCHANGED <<clientVars, data, portVars>>
    BY <2>1, <2>3, DecodeData DEF InChunk
  <2> QED
    BY <1>p, <2>2, <2>3, <2>4 DEF DecodesAll
<1>2. ASSUME c = [sent |-> <<IAC, IAC>>, means |-> << <<IAC>> >>] PROVE DecodesAll(c)
  <2>2. Len(c.sent) = 2 /\ c.sent[1] = IAC /\ c.sent[2] = IAC /\ c.means = << <<IAC>> >>
        /\ c.means \in Seq(Seq(Nat))
    BY <1>2 DEF IAC
  <2>3. Command(IAC)
    BY <1>0, <2>2 DEF Command, InChunk
  <2>4. at' = at + 2 /\ out' = out \o << <<IAC>> >> /\ UNCHANGED <<clientVars, data, portVars>>
    BY <2>3, DecodeEscaped
  <2> QED
    BY <1>p, <2>2, <2>4 DEF DecodesAll
<1>3. ASSUME NEW v \in Verbs, NEW o \in Options, c = [sent |-> <<IAC, v, o>>, means |-> Reply(v, o)]
      PROVE  DecodesAll(c)
  <2>2. Len(c.sent) = 3 /\ c.sent[1] = IAC /\ c.sent[2] = v /\ c.sent[3] = o /\ c.means = Reply(v, o)
    BY <1>3
  <2>3. c.means \in Seq(Seq(Nat))
    BY <2>2 DEF Reply, DO, WILL, COM_PORT_OPTION
  <2>4. data[at] = IAC /\ data[at + 1] = v /\ data[at + 2] = o /\ at + 2 <= Len(data)
    BY <1>0, <2>2, SMTT(30)
  <2>5. Command(v)
    BY <1>0, <2>4 DEF Command, InChunk
  <2>6. IsNegotiation
    BY <2>4, <2>5 DEF IsNegotiation
  <2>7. at' = at + 3 /\ out' = out \o Reply(data[at + 1], data[at + 2])
        /\ UNCHANGED <<clientVars, data, portVars>>
    BY <2>6, DecodeNegotiation
  <2> QED
    BY <1>p, <2>2, <2>3, <2>4, <2>7 DEF DecodesAll
<1>4. ASSUME NEW r \in Requests,
             c = [sent |-> <<IAC, SB, COM_PORT_OPTION, r[1], r[2], IAC, SE>>,
                  means |-> << <<SB, r[1], r[2]>> >>]
      PROVE  DecodesAll(c)
  <2>1. r[1] \in Nat /\ r[1] # IAC /\ r[2] \in Nat /\ r[2] # IAC /\ SB \in Nat
    BY ClientAssumption DEF SB
  <2>2. /\ Len(c.sent) = 7 /\ c.sent[1] = IAC /\ c.sent[2] = SB /\ c.sent[3] = COM_PORT_OPTION
        /\ c.sent[4] = r[1] /\ c.sent[5] = r[2] /\ c.sent[6] = IAC /\ c.sent[7] = SE
        /\ c.means = << <<SB, r[1], r[2]>> >>
    BY <1>4
  <2>3. c.means \in Seq(Seq(Nat))
    BY <2>1, <2>2
  <2>8. \A k \in 1 .. 7 : data[at + k - 1] = c.sent[k]
    BY <2>2
  <2>9. at + 1 - 1 = at /\ at + 2 - 1 = at + 1 /\ at + 3 - 1 = at + 2 /\ at + 4 - 1 = at + 3
        /\ at + 5 - 1 = at + 4 /\ at + 6 - 1 = at + 5 /\ at + 7 - 1 = at + 6
    BY <1>0
  <2>4. /\ at + 6 <= Len(data) /\ data[at] = IAC /\ data[at + 1] = SB
        /\ data[at + 2] = COM_PORT_OPTION /\ data[at + 3] = r[1] /\ data[at + 4] = r[2]
        /\ data[at + 5] = IAC /\ data[at + 6] = SE
    <3>1. at + 6 <= Len(data)
      BY <1>0, <2>2, <2>9
    <3>2. data[at + 1 - 1] = c.sent[1] /\ data[at + 2 - 1] = c.sent[2] /\ data[at + 3 - 1] = c.sent[3]
          /\ data[at + 4 - 1] = c.sent[4] /\ data[at + 5 - 1] = c.sent[5]
          /\ data[at + 6 - 1] = c.sent[6] /\ data[at + 7 - 1] = c.sent[7]
      BY <2>8
    <3> QED
      BY <2>2, <2>9, <3>1, <3>2, Zenon
  <2>5. Command(SB)
    <3>1. at < Len(data) /\ at <= Len(data)
      <4>1. \A d \in Nat : at + 6 <= d => at < d /\ at <= d
        BY <1>0
      <4> QED
        BY <1>0, <2>4, <4>1, Zenon
    <3> QED
      BY <2>4, <3>1 DEF Command, InChunk
  <2>6. at' = at + 7 /\ out' = out \o << <<SB, data[at + 3], data[at + 4]>> >>
        /\ HandleOption(<<data[at + 3], data[at + 4]>>)
    BY <2>1, <2>4, <2>5, DecodeSetting
  <2>7. port' \in Ports /\ asked' \in Nat \X Nat /\ told' \in Nat \X Nat /\ AnswersTellSetting'
    BY <1>0, <2>1, <2>4, <2>6, OptionHandled
  <2> QED
    BY <2>2, <2>3, <2>4, <2>6, <2>7 DEF DecodesAll
<1> QED
    BY <1>1, <1>2, <1>3, <1>4 DEF Commands

\* When the chunk ends inside a command, no setting is found in the rest of it.
LEMMA NoSettingInside ==
    ASSUME ProxyTypeOK, Chunked, at > 0, NEW m \in marks, m[1] < at, NEW c \in Commands,
           Follows(c, m), m[1] + Len(c.sent) > Len(data)
    PROVE  ~Setting
<1>0. /\ at \in Nat /\ data \in Seq(Nat) /\ Len(data) \in Nat /\ sent \in Seq(Nat) /\ m[1] \in Nat
      /\ Len(sent) \in Nat
    BY LenProperties DEF ProxyTypeOK
<1>1. Len(c.sent) \in Nat
    BY DEF Commands
<1>2. SUFFICES ASSUME NEW j \in SettingEnds PROVE FALSE
    BY DEF Setting, IsSetting
<1>3. j \in at + 3 .. Len(data) - 1 /\ data[j] = IAC /\ data[j + 1] = SE
    BY DEF SettingEnds
<1> DEFINE k == j - m[1]
<1>4. k \in 1 .. Len(c.sent) - 2 /\ k + 1 \in 1 .. Len(c.sent) /\ m[1] + k = j
      /\ m[1] + (k + 1) = j + 1 /\ j \in 1 .. Len(data) /\ j + 1 \in 1 .. Len(data)
  <2>1. \A a, d, x, l, y \in Int : x < a /\ x + l > d /\ y \in a + 3 .. d - 1 /\ x >= 0 =>
          /\ y - x \in 1 .. l - 2 /\ y - x + 1 \in 1 .. l /\ x + (y - x) = y
          /\ x + (y - x + 1) = y + 1 /\ y \in 1 .. d /\ y + 1 \in 1 .. d
    OBVIOUS
  <2>2. j \in Int
    BY <1>0, <1>3
  <2>3. at \in Int /\ Len(data) \in Int /\ m[1] \in Int /\ Len(c.sent) \in Int /\ m[1] >= 0
    BY <1>0, <1>1
  <2> QED
    BY <1>3, <2>1, <2>2, <2>3, SMTT(30)
<1>5. data[j] = sent[j] /\ data[j + 1] = sent[j + 1]
    BY <1>4 DEF Chunked
<1> HIDE DEF k
<1>6. sent[m[1] + k] = c.sent[k] /\ sent[m[1] + (k + 1)] = c.sent[k + 1]
  <2>1. \A i \in 1 .. Len(c.sent) : sent[m[1] + i] = c.sent[i]
    BY DEF Follows
  <2>2. k \in 1 .. Len(c.sent)
    BY <1>1, <1>4
  <2> QED
    BY <1>4, <2>1, <2>2
<1> QED
    BY <1>3, <1>4, <1>5, <1>6, NoEndInside

-----------------------------------------------------------------------------
(* The invariant *)

\* Commands and their meanings are sequences.
LEMMA CommandTypes ==
    ASSUME NEW c \in Commands
    PROVE  c.sent \in Seq(Nat) /\ c.means \in Seq(Seq(Nat)) /\ Len(c.sent) \in Nat \ {0}
           /\ Len(c.means) \in Nat
<1> USE DEF IAC, SE, SB, COM_PORT_OPTION
<1>1. CASE \E b \in DataBytes : c = [sent |-> <<b>>, means |-> << <<b>> >>]
    BY <1>1, ClientAssumption
<1>2. CASE c = [sent |-> <<IAC, IAC>>, means |-> << <<IAC>> >>]
    BY <1>2
<1>3. CASE \E v \in Verbs, o \in Options : c = [sent |-> <<IAC, v, o>>, means |-> Reply(v, o)]
    BY <1>3, ClientAssumption DEF Reply, Verbs, DO, DONT, WILL, WONT
<1>4. CASE \E r \in Requests : c = [sent |-> <<IAC, SB, COM_PORT_OPTION, r[1], r[2], IAC, SE>>,
                                    means |-> << <<SB, r[1], r[2]>> >>]
  <2>1. PICK r \in Requests : c = [sent |-> <<IAC, SB, COM_PORT_OPTION, r[1], r[2], IAC, SE>>,
                                   means |-> << <<SB, r[1], r[2]>> >>]
    BY <1>4
  <2>2. r[1] \in Nat /\ r[2] \in Nat
    BY ClientAssumption
  <2> QED
    BY <2>1, <2>2
<1> QED
    BY <1>1, <1>2, <1>3, <1>4 DEF Commands

\* Sending a command.
LEMMA ClientSendsStep ==
    ASSUME ProxyIInv, NEW c \in Commands, ClientSends(c)
    PROVE  ProxyIInv'
<1>0. /\ sent \in Seq(Nat) /\ means \in Seq(Seq(Nat)) /\ Len(sent) \in Nat /\ Len(means) \in Nat
      /\ marks \subseteq (0 .. Len(sent)) \X (0 .. Len(means))
    BY LenProperties DEF ProxyIInv, ProxyTypeOK
<1>1. c.sent \in Seq(Nat) /\ c.means \in Seq(Seq(Nat)) /\ Len(c.sent) \in Nat /\ Len(c.sent) > 0
      /\ Len(c.means) \in Nat
    BY CommandTypes
<1>2. /\ sent' \in Seq(Nat) /\ Len(sent') = Len(sent) + Len(c.sent)
      /\ \A k \in 1 .. Len(sent) : sent'[k] = sent[k]
      /\ \A k \in 1 .. Len(c.sent) : sent'[Len(sent) + k] = c.sent[k]
    BY <1>0, <1>1, ConcatCells DEF ClientSends
<1>3. /\ means' \in Seq(Seq(Nat)) /\ Len(means') = Len(means) + Len(c.means)
      /\ \A k \in 1 .. Len(means) : means'[k] = means[k]
      /\ \A k \in 1 .. Len(c.means) : means'[Len(means) + k] = c.means[k]
    BY <1>0, <1>1, ConcatCells DEF ClientSends
<1> DEFINE new == <<Len(sent) + Len(c.sent), Len(means) + Len(c.means)>>
<1>4. marks' = marks \cup {new} /\ at = 0 /\ UNCHANGED <<data, at, out, portVars>>
    BY <1>2, <1>3 DEF ClientSends
<1>5. new[1] = Len(sent) + Len(c.sent) /\ new[2] = Len(means) + Len(c.means)
      /\ new \in (0 .. Len(sent')) \X (0 .. Len(means'))
  <2>1. Len(sent) + Len(c.sent) \in 0 .. Len(sent') /\ Len(means) + Len(c.means) \in 0 .. Len(means')
    BY <1>0, <1>1, <1>2, <1>3
  <2> QED
    BY <2>1, Zenon
<1> HIDE DEF new
<1>6. \A m \in marks : m[1] \in 0 .. Len(sent) /\ m[2] \in 0 .. Len(means)
    BY <1>0
<1>7. ProxyTypeOK'
  <2>0. /\ 0 .. Len(sent) \subseteq 0 .. Len(sent')
        /\ 0 .. Len(means) \subseteq 0 .. Len(means')
    BY <1>0, <1>1, <1>2, <1>3, SMTT(30)
  <2>1. marks \subseteq (0 .. Len(sent')) \X (0 .. Len(means'))
    BY <1>0, <2>0
  <2>2. marks' \subseteq (0 .. Len(sent')) \X (0 .. Len(means'))
    BY <1>4, <1>5, <2>1
  <2> QED
    BY <1>2, <1>3, <1>4, <2>2 DEF ProxyIInv, ProxyTypeOK, portVars
<1>8. Marked'
  <2>1. <<0, 0>> \in marks' /\ <<Len(sent'), Len(means')>> \in marks'
    BY <1>2, <1>3, <1>4 DEF ProxyIInv, Marked, new
  <2>2. ASSUME NEW m \in marks', NEW n \in marks', m[1] <= n[1] PROVE m[2] <= n[2]
    <3>1. CASE m \in marks /\ n \in marks
      BY <2>2, <3>1 DEF ProxyIInv, Marked
    <3>2. CASE m \in marks /\ n = new
      BY <1>0, <1>1, <1>5, <1>6, <3>2
    <3>3. CASE m = new /\ n \in marks
      BY <1>0, <1>1, <1>5, <1>6, <2>2, <3>3
    <3>4. CASE m = new /\ n = new
      BY <1>0, <1>1, <1>5, <3>4
    <3> QED
      BY <1>4, <3>1, <3>2, <3>3, <3>4
  <2>3. ASSUME NEW m \in marks', m[1] # Len(sent') PROVE \E d \in Commands : Follows(d, m)'
    <3>1. m \in marks
      BY <1>2, <1>4, <1>5, <2>3
    <3>2. m[1] \in 0 .. Len(sent) /\ m[2] \in 0 .. Len(means)
      BY <1>6, <3>1
    <3>3. CASE m[1] = Len(sent)
      <4>1. m[2] = Len(means)
        <5>1. <<Len(sent), Len(means)>> \in marks /\ <<Len(sent), Len(means)>>[1] = Len(sent)
              /\ <<Len(sent), Len(means)>>[2] = Len(means)
          BY DEF ProxyIInv, Marked
        <5>2. Len(means) <= m[2]
          <6>1. \A n \in marks : n[1] <= m[1] => n[2] <= m[2]
            BY <3>1 DEF ProxyIInv, Marked
          <6>2. Len(sent) <= m[1]
            BY <1>0, <3>3
          <6> QED
            BY <5>1, <6>1, <6>2, Zenon
        <5> QED
          BY <1>0, <3>2, <5>2
      <4>2. <<m[1] + Len(c.sent), m[2] + Len(c.means)>> \in marks'
        BY <1>4, <3>3, <4>1 DEF new
      <4>3. \A k \in 1 .. Len(c.sent) : sent'[m[1] + k] = c.sent[k]
        BY <1>2, <3>3, Zenon
      <4>4. \A k \in 1 .. Len(c.means) : means'[m[2] + k] = c.means[k]
        BY <1>3, <4>1, Zenon
      <4>5. \A n \in marks' : n[1] <= m[1] \/ n[1] >= m[1] + Len(c.sent)
        BY <1>0, <1>1, <1>4, <1>5, <1>6, <3>3
      <4>6. Follows(c, m)'
        BY <4>2, <4>3, <4>4, <4>5 DEF Follows
      <4> QED
        BY <4>6
    <3>4. CASE m[1] # Len(sent)
      <4>1. PICK d \in Commands : Follows(d, m)
        BY <3>1, <3>4 DEF ProxyIInv, Marked
      <4>2. <<m[1] + Len(d.sent), m[2] + Len(d.means)>> \in marks
        BY <4>1 DEF Follows
      <4>3. Len(d.sent) \in Nat /\ Len(d.means) \in Nat
        BY CommandTypes
      <4>4. m[1] + Len(d.sent) <= Len(sent) /\ m[2] + Len(d.means) <= Len(means)
        <5> DEFINE next == <<m[1] + Len(d.sent), m[2] + Len(d.means)>>
        <5>1. next[1] = m[1] + Len(d.sent) /\ next[2] = m[2] + Len(d.means)
          OBVIOUS
        <5>2. next[1] \in 0 .. Len(sent) /\ next[2] \in 0 .. Len(means)
          BY <1>6, <4>2, Zenon
        <5> QED
          BY <1>0, <5>1, <5>2
      <4>5. \A k \in 1 .. Len(d.sent) : sent'[m[1] + k] = d.sent[k]
        <5>1. \A k \in 1 .. Len(d.sent) : sent[m[1] + k] = d.sent[k]
          BY <4>1 DEF Follows
        <5>2. \A k \in 1 .. Len(d.sent) : m[1] + k \in 1 .. Len(sent)
          BY <1>0, <3>2, <4>3, <4>4, Between
        <5> QED
          BY <1>2, <5>1, <5>2
      <4>6. \A k \in 1 .. Len(d.means) : means'[m[2] + k] = d.means[k]
        <5>1. \A k \in 1 .. Len(d.means) : means[m[2] + k] = d.means[k]
          BY <4>1 DEF Follows
        <5>2. \A k \in 1 .. Len(d.means) :
                 m[2] + k \in 1 .. Len(means)
          BY <1>0, <3>2, <4>3, <4>4, Between
        <5> QED
          BY <1>3, <5>1, <5>2
      <4>7. \A n \in marks' : n[1] <= m[1] \/ n[1] >= m[1] + Len(d.sent)
        <5>1. \A n \in marks : n[1] <= m[1] \/ n[1] >= m[1] + Len(d.sent)
          BY <4>1 DEF Follows
        <5>2. new[1] >= m[1] + Len(d.sent)
          BY <1>0, <1>1, <1>5, <3>2, <4>3, <4>4, SMTT(30)
        <5> QED
          BY <1>4, <5>1, <5>2
      <4>8. Follows(d, m)'
        BY <1>4, <4>2, <4>5, <4>6, <4>7 DEF Follows
      <4> QED
        BY <4>8
    <3> QED
      BY <3>3, <3>4
  <2> QED
    BY <2>1, <2>2, <2>3 DEF Marked
<1>9. Chunked' /\ at' = 0
    BY <1>4 DEF ProxyIInv, Chunked
<1>10. AnswersTellSetting'
    BY <1>4 DEF ProxyIInv, AnswersTellSetting, portVars
<1> QED
    BY <1>7, <1>8, <1>9, <1>10 DEF ProxyIInv

\* What the client sent does not change while a chunk is decoded.
LEMMA MarkedStays ==
    ASSUME Marked, UNCHANGED <<sent, means, marks>>
    PROVE  Marked'
<1>1. ASSUME NEW c, NEW m, Follows(c, m) PROVE Follows(c, m)'
    BY <1>1 DEF Follows
<1>2. ASSUME NEW m \in marks, m[1] # Len(sent) PROVE \E c \in Commands : Follows(c, m)'
  <2>1. PICK c \in Commands : Follows(c, m)
    BY <1>2 DEF Marked
  <2> QED
    BY <1>1, <2>1
<1>3. <<0, 0>> \in marks /\ <<Len(sent), Len(means)>> \in marks
      /\ \A m, n \in marks : m[1] <= n[1] => m[2] <= n[2]
    BY DEF Marked
<1>4. sent' = sent /\ means' = means /\ marks' = marks
    OBVIOUS
<1>5. \A m \in marks' : m[1] = Len(sent') \/ \E c \in Commands : Follows(c, m)'
    BY <1>2, <1>4
<1>6. <<0, 0>> \in marks' /\ <<Len(sent'), Len(means')>> \in marks'
      /\ \A m, n \in marks' : m[1] <= n[1] => m[2] <= n[2]
    BY <1>3, <1>4
<1> QED
    BY <1>5, <1>6 DEF Marked

\* A chunk arrives.
LEMMA RecvChunkStep ==
    ASSUME ProxyIInv, NEW n \in 1 .. Len(sent), RecvChunk(n)
    PROVE  ProxyIInv'
<1>0. sent \in Seq(Nat) /\ Len(sent) \in Nat /\ n \in Nat /\ n <= Len(sent)
    BY LenProperties DEF ProxyIInv, ProxyTypeOK
<1>1. data' = SubSeq(sent, 1, n) /\ at' = 1 /\ at = 0 /\ UNCHANGED <<clientVars, out, portVars>>
    BY DEF RecvChunk
<1>2. data' \in Seq(Nat) /\ Len(data') = n /\ \A i \in 1 .. n : data'[i] = sent[i]
  <2>1. \A i \in 1 .. n : sent[i] \in Nat
    BY <1>0, ElementOfSeq
  <2>2. /\ data' \in Seq(Nat) /\ Len(data') = (IF 1 <= n THEN n - 1 + 1 ELSE 0)
        /\ \A i \in 1 .. n - 1 + 1 : data'[i] = sent[1 + i - 1]
    BY <1>0, <1>1, <2>1, SubSeqProperties
  <2>3. n - 1 + 1 = n /\ 1 <= n /\ \A i \in 1 .. n : 1 + i - 1 = i
    BY <1>0
  <2> QED
    BY <2>2, <2>3
<1>3. out = <<>> /\ Len(out) = 0
    BY <1>1 DEF ProxyIInv, Chunked
<1>4. ProxyTypeOK'
    BY <1>1, <1>2 DEF ProxyIInv, ProxyTypeOK, clientVars, portVars
<1>5. Marked'
    BY <1>1, MarkedStays DEF ProxyIInv, clientVars
<1>6. Chunked'
    BY <1>0, <1>1, <1>2 DEF Chunked, clientVars
<1>7. <<0, 0>> \in marks' /\ DecodedTo(<<0, 0>>)'
  <2>1. <<0, 0>> \in marks
    BY DEF ProxyIInv, Marked
  <2> QED
    BY <1>0, <1>1, <1>2, <1>3, <2>1 DEF DecodedTo, clientVars
<1>8. AnswersTellSetting'
    BY <1>1 DEF ProxyIInv, AnswersTellSetting, portVars
<1> QED
    BY <1>4, <1>5, <1>6, <1>7, <1>8 DEF ProxyIInv

\* A round of the loop.
LEMMA DecodeRoundStep ==
    ASSUME ProxyIInv, DecodeRound
    PROVE  ProxyIInv'
<1>0. /\ ProxyTypeOK /\ at \in Nat /\ Len(data) \in Nat /\ out \in Seq(Seq(Nat)) /\ Len(out) \in Nat
      /\ \A n \in marks : n[1] \in Nat /\ n[2] \in Nat /\ n[1] <= Len(sent)
      /\ Len(sent) \in Nat
    BY LenProperties DEF ProxyIInv, ProxyTypeOK
<1>1. InChunk
    BY DEF DecodeRound, DataByte, EscapedByte, Setting, IsSetting, Negotiation, IsNegotiation,
           OtherCommand, Command
<1>2. at > 0 /\ at <= Len(data) /\ Len(data) <= Len(sent)
      /\ \A i \in 1 .. Len(data) : data[i] = sent[i]
    BY <1>1 DEF ProxyIInv, Chunked, InChunk
<1>3. PICK m \in marks : DecodedTo(m)
    BY <1>2 DEF ProxyIInv
<1>4. /\ at' \in Nat /\ at' > at /\ UNCHANGED <<clientVars, data>>
      /\ out' \in Seq(Seq(Nat)) /\ Len(out') >= Len(out)
      /\ \A k \in 1 .. Len(out) : out'[k] = out[k]
    BY <1>0, RoundExtends
<1>5. UNCHANGED <<sent, means, marks, data>>
    BY <1>4 DEF clientVars
<1>6. Marked' /\ Chunked'
  <2>1. Marked'
    BY <1>5, MarkedStays DEF ProxyIInv
  <2>2. Chunked'
    BY <1>0, <1>2, <1>4, <1>5 DEF Chunked
  <2> QED
    BY <2>1, <2>2
<1>7. m[1] \in Nat /\ m[2] \in Nat /\ m[1] < at /\ m[1] <= Len(data) /\ m[2] <= Len(out)
      /\ \A k \in 1 .. m[2] : out[k] = means[k]
    BY <1>0, <1>3 DEF DecodedTo
<1>8. m[1] # Len(sent)
    BY <1>0, <1>2, <1>7
<1>9. PICK c \in Commands : Follows(c, m)
    BY <1>8 DEF ProxyIInv, Marked
<1>10. c.sent \in Seq(Nat) /\ c.means \in Seq(Seq(Nat)) /\ Len(c.sent) \in Nat /\ Len(c.sent) > 0
       /\ Len(c.means) \in Nat
    BY CommandTypes
<1> DEFINE next == <<m[1] + Len(c.sent), m[2] + Len(c.means)>>
<1>11. next \in marks /\ next[1] = m[1] + Len(c.sent) /\ next[2] = m[2] + Len(c.means)
    BY <1>9 DEF Follows
<1> HIDE DEF next
<1>12. \A k \in 1 .. m[2] : out'[k] = means[k]
  <2>1. \A k \in 1 .. m[2] : k \in 1 .. Len(out)
    BY <1>0, <1>7
  <2> QED
    BY <1>4, <1>7, <2>1, Zenon
<1>13. CASE at = m[1] + 1 /\ Len(out) = m[2] /\ m[1] + Len(c.sent) <= Len(data)
  <2>1. \A k \in 1 .. Len(c.sent) : data[at + k - 1] = c.sent[k]
    <3>1. \A k \in 1 .. Len(c.sent) : sent[m[1] + k] = c.sent[k]
      BY <1>9 DEF Follows
    <3>2. \A k \in 1 .. Len(c.sent) : at + k - 1 = m[1] + k
      BY <1>7, <1>10, <1>13
    <3>3. \A k \in 1 .. Len(c.sent) : m[1] + k \in 1 .. Len(data)
      BY <1>0, <1>7, <1>10, <1>13, SMTT(30)
    <3> QED
      BY <1>2, <3>1, <3>2, <3>3
  <2>2. at + Len(c.sent) - 1 <= Len(data)
    BY <1>0, <1>7, <1>10, <1>13
  <2>3. DecodesAll(c)
    BY <1>0, <1>2, <2>1, <2>2, CommandDecoded DEF ProxyIInv
  <2>4. /\ Len(out') = Len(out) + Len(c.means)
        /\ \A k \in 1 .. Len(c.means) : out'[Len(out) + k] = c.means[k]
    BY <1>0, <1>10, <2>3, ConcatCells, SMTT(30) DEF DecodesAll
  <2>5. DecodedTo(next)'
    <3>1. \A k \in 1 .. next[2] : out'[k] = means[k]
      <4>1. \A k \in 1 .. Len(c.means) : out'[m[2] + k] = means[m[2] + k]
        BY <1>9, <1>13, <2>4 DEF Follows
      <4> SUFFICES ASSUME NEW k \in 1 .. next[2] PROVE out'[k] = means[k]
        OBVIOUS
      <4>2. k \in 1 .. m[2] \/ (k - m[2] \in 1 .. Len(c.means) /\ m[2] + (k - m[2]) = k)
        BY <1>7, <1>10, <1>11, SMTT(30)
      <4> QED
        BY <1>12, <4>1, <4>2
    <3>2. next[1] < at' /\ next[1] <= Len(data) /\ at' = next[1] + 1 /\ Len(out') = next[2]
      <4>1. at' = at + Len(c.sent)
        BY <2>3 DEF DecodesAll
      <4>2. m[1] + Len(c.sent) < at + Len(c.sent) /\ at + Len(c.sent) = m[1] + Len(c.sent) + 1
        <5>1. \A x, l \in Nat : x + l < x + 1 + l /\ x + 1 + l = x + l + 1
          OBVIOUS
        <5> QED
          BY <1>7, <1>10, <1>13, <5>1, Zenon
      <4> QED
        BY <1>11, <1>13, <2>4, <4>1, <4>2
    <3>3. next[2] <= Len(out')
      BY <1>7, <1>10, <1>11, <3>2
    <3> QED
      BY <1>5, <3>1, <3>2, <3>3 DEF DecodedTo, next
  <2>6. ProxyTypeOK' /\ AnswersTellSetting'
    BY <1>0, <1>4, <1>5, <2>3 DEF ProxyTypeOK, DecodesAll
  <2> QED
    BY <1>5, <1>6, <1>11, <2>5, <2>6 DEF ProxyIInv
<1>14. CASE ~(at = m[1] + 1 /\ Len(out) = m[2] /\ m[1] + Len(c.sent) <= Len(data))
  <2>1. m[1] + Len(c.sent) > Len(data)
    <3>1. CASE at = m[1] + 1 /\ Len(out) = m[2]
      BY <1>0, <1>7, <1>10, <1>14, <3>1
    <3>2. CASE \A n \in marks : n[1] <= m[1] \/ n[1] > Len(data)
      BY <1>0, <1>7, <1>10, <1>11, <3>2
    <3> QED
      BY <1>3, <3>1, <3>2 DEF DecodedTo
  <2>2. \A n \in marks : n[1] <= m[1] \/ n[1] > Len(data)
    <3>1. \A n \in marks : n[1] <= m[1] \/ n[1] >= m[1] + Len(c.sent)
      BY <1>9 DEF Follows
    <3> QED
      BY <1>0, <1>7, <1>10, <2>1, <3>1
  <2>3. ~Setting
    BY <1>0, <1>2, <1>7, <1>9, <2>1, NoSettingInside DEF ProxyIInv
  <2>4. UNCHANGED portVars
    BY <2>3 DEF DecodeRound, DataByte, EscapedByte, Negotiation, OtherCommand
  <2>5. ProxyTypeOK' /\ AnswersTellSetting'
    BY <1>0, <1>4, <1>5, <2>4 DEF ProxyIInv, ProxyTypeOK, AnswersTellSetting, portVars
  <2>6. m[1] < at' /\ m[1] < Len(data) /\ m[2] <= Len(out')
    BY <1>0, <1>2, <1>4, <1>7, LenProperties
  <2>7. DecodedTo(m)'
    BY <1>5, <1>7, <1>12, <2>2, <2>6 DEF DecodedTo
  <2> QED
    BY <1>5, <1>6, <2>5, <2>7 DEF ProxyIInv
<1> QED
    BY <1>13, <1>14

\* The invariant holds at the start.
LEMMA ProxyInitIInv == ProxyInit => ProxyIInv
<1> SUFFICES ASSUME ProxyInit PROVE ProxyIInv
    OBVIOUS
<1>1. ProxyTypeOK
  <2>1. port \in Ports
    BY DEF ProxyInit, Ports, Parities
  <2> QED
    BY <2>1 DEF ProxyInit, ProxyTypeOK
<1>2. Marked
    BY DEF ProxyInit, Marked
<1>3. Chunked /\ at = 0
    BY DEF ProxyInit, Chunked
<1>4. AnswersTellSetting
  <2>1. asked[1] = 0 /\ asked = <<0, 0>>
    BY DEF ProxyInit
  <2>2. \A q : Asked(q, asked) = TRUE
    BY <2>1 DEF Asked, SET_BAUDRATE, SET_DATASIZE, SET_PARITY, SET_STOPSIZE, SET_CONTROL
  <2> QED
    BY <2>2 DEF AnswersTellSetting
<1> QED
    BY <1>1, <1>2, <1>3, <1>4 DEF ProxyIInv

\* The inductive invariant of the legacy proxy.
LEMMA ProxyInvariance == ProxySpec => []ProxyIInv
<1>1. ProxyIInv /\ [ProxyNext]_proxyVars => ProxyIInv'
  <2> SUFFICES ASSUME ProxyIInv, [ProxyNext]_proxyVars PROVE ProxyIInv'
    OBVIOUS
  <2>1. CASE \E c \in Commands : ClientSends(c)
    BY <2>1, ClientSendsStep
  <2>2. CASE \E n \in 1 .. Len(sent) : RecvChunk(n)
    BY <2>2, RecvChunkStep
  <2>3. CASE DecodeRound
    BY <2>3, DecodeRoundStep
  <2>4. CASE UNCHANGED proxyVars
    <3>1. UNCHANGED <<sent, means, marks, data, at, out, port, asked, told>>
      BY <2>4 DEF proxyVars, clientVars, portVars
    <3>2. Marked'
      BY <3>1, MarkedStays DEF ProxyIInv
    <3>3. at' > 0 => \E m \in marks' : DecodedTo(m)'
      <4> SUFFICES ASSUME at' > 0 PROVE \E m \in marks' : DecodedTo(m)'
        OBVIOUS
      <4>1. PICK m \in marks : DecodedTo(m)
        BY <3>1 DEF ProxyIInv
      <4>2. DecodedTo(m)'
        BY <3>1, <4>1 DEF DecodedTo
      <4> QED
        BY <3>1, <4>2
    <3>4. ProxyTypeOK' /\ Chunked' /\ AnswersTellSetting'
      BY <3>1 DEF ProxyIInv, ProxyTypeOK, Chunked, AnswersTellSetting
    <3> QED
      BY <3>2, <3>3, <3>4 DEF ProxyIInv
  <2> QED
    BY <2>1, <2>2, <2>3, <2>4 DEF ProxyNext, DecodeRound
<1> QED
    BY <1>1, ProxyInitIInv, PTL DEF ProxySpec

\* What was decoded up to a place between commands is what the client meant.
LEMMA DecodedAsMeant == ProxyIInv => CommandsDecoded
<1> SUFFICES ASSUME ProxyIInv, at > Len(data) PROVE
        /\ data = sent => out = means
        /\ \A n \in marks : n[1] <= Len(data) =>
              n[2] <= Len(out) /\ \A k \in 1 .. n[2] : out[k] = means[k]
    BY DEF CommandsDecoded
<1>0. /\ at \in Nat /\ Len(data) \in Nat /\ out \in Seq(Seq(Nat)) /\ Len(out) \in Nat
      /\ means \in Seq(Seq(Nat)) /\ Len(means) \in Nat /\ Len(sent) \in Nat
      /\ \A n \in marks : n[1] \in Nat /\ n[2] \in Nat /\ n[1] <= Len(sent) /\ n[2] <= Len(means)
    BY LenProperties DEF ProxyIInv, ProxyTypeOK
<1>1. PICK m \in marks : DecodedTo(m)
    BY <1>0 DEF ProxyIInv
<1>2. m[2] <= Len(out) /\ \A k \in 1 .. m[2] : out[k] = means[k]
    BY <1>1 DEF DecodedTo
<1>3. ASSUME NEW n \in marks, n[1] <= Len(data)
      PROVE  n[1] <= m[1] /\ n[2] <= m[2]
  <2>1. n[1] <= m[1]
    <3>1. CASE at = m[1] + 1
      BY <1>0, <1>3, <3>1
    <3>2. CASE \A l \in marks : l[1] <= m[1] \/ l[1] > Len(data)
      BY <1>0, <1>3, <3>2
    <3> QED
      BY <1>1, <3>1, <3>2 DEF DecodedTo
  <2> QED
    BY <2>1 DEF ProxyIInv, Marked
<1>4. ASSUME NEW n \in marks, n[1] <= Len(data)
      PROVE  n[2] <= Len(out) /\ \A k \in 1 .. n[2] : out[k] = means[k]
    BY <1>0, <1>2, <1>3, <1>4
<1>5. ASSUME data = sent PROVE out = means
  <2> DEFINE last == <<Len(sent), Len(means)>>
  <2>1. last \in marks /\ last[1] = Len(sent) /\ last[2] = Len(means)
    BY DEF ProxyIInv, Marked
  <2> HIDE DEF last
  <2>2. last[1] <= m[1] /\ last[2] <= m[2]
    BY <1>0, <1>3, <1>5, <2>1
  <2>3. m[1] = Len(sent) /\ m[2] = Len(means)
    BY <1>0, <2>1, <2>2
  <2>4. Len(out) = m[2]
    BY <1>0, <1>1, <1>5, <2>3 DEF DecodedTo
  <2> QED
    BY <1>0, <1>2, <2>3, <2>4, SeqEqual
<1> QED
    BY <1>4, <1>5

\* Whatever a telnet client sends, and wherever a chunk of it ends, handle_rfc2217 decodes the
\* commands that are complete as the client meant them.
THEOREM ProxyDecodes == ProxySpec => []CommandsDecoded
    BY ProxyInvariance, DecodedAsMeant, PTL

\* Whatever settings are asked for in whatever order, _handle_com_port_option answers with the
\* setting the port then has.
THEOREM ProxyAnswers == ProxySpec => []AnswersTellSetting
<1>1. ProxyIInv => AnswersTellSetting
    BY DEF ProxyIInv
<1> QED
    BY <1>1, ProxyInvariance, PTL

\* The variables of the legacy proxy keep their types, and the port never gets a setting a
\* serial port does not have.
THEOREM ProxyTypes == ProxySpec => []ProxyTypeOK
<1>1. ProxyIInv => ProxyTypeOK
    BY DEF ProxyIInv
<1> QED
    BY <1>1, ProxyInvariance, PTL

-----------------------------------------------------------------------------
(* WifiScan: the inductive invariant *)

\* The list s has every named network of the first n once, and nothing else.
ListsAll(s, n) ==
    \E place \in Bijection(Named(n), 1 .. Len(s)) :
        \A i \in Named(n) : Lists(s[place[i]], air[i])

\* `current' is the network of the last BSS line, as far as its lines have been read.
PartlyRead ==
    LET b == air[Len(air)]
    IN  /\ todo \subseteq b.security \cup {"SSID", "signal"}
        /\ current.ssid = IF "SSID" \in todo THEN Hidden ELSE b.ssid
        /\ current.rssi = IF "signal" \in todo THEN 0 ELSE b.rssi
        /\ \/ current.auth = "OPEN" /\ b.security \subseteq todo
           \/ \E p \in b.security \ todo : current.auth = AuthOf[p]

\* All networks but the last one are listed.
ScanIInv ==
    /\ ScanTypeOK /\ ScanListsNetworks
    /\ ListsAll(networks, Len(air) - 1)
    /\ scanned => todo = {}
    /\ IF air = <<>> THEN todo = {} /\ current = Nothing ELSE PartlyRead

-----------------------------------------------------------------------------
(* The sort *)

\* i comes before j in the sorted list of s.
Before(s, i, j) == s[i].rssi > s[j].rssi \/ (s[i].rssi = s[j].rssi /\ i <= j)

\* The rank of a network is its place: no two have the same, and a stronger one has a smaller.
LEMMA AheadRank ==
    ASSUME NEW s, NEW n \in Nat, Len(s) = n, \A i \in 1 .. n : s[i].rssi \in Int
    PROVE  [i \in 1 .. n |-> Cardinality(Ahead(s, i))] \in Bijection(1 .. n, 1 .. n)
           /\ \A i, j \in 1 .. n :
                 Cardinality(Ahead(s, i)) <= Cardinality(Ahead(s, j)) => s[i].rssi >= s[j].rssi
<1> DEFINE A(i) == Ahead(s, i)
<1> DEFINE rank == [i \in 1 .. n |-> Cardinality(A(i))]
<1>1. IsFiniteSet(1 .. n) /\ Cardinality(1 .. n) = n
    BY FS_Interval
<1>2. ASSUME NEW i \in 1 .. n
      PROVE  /\ A(i) \in SUBSET (1 .. n) /\ i \in A(i)
             /\ \A j \in 1 .. n : j \in A(i) <=> Before(s, j, i)
  <2>1. i <= i /\ s[i].rssi = s[i].rssi
    OBVIOUS
  <2> QED
    BY <2>1, Zenon DEF Ahead, Before
<1>3. ASSUME NEW i \in 1 .. n
      PROVE  IsFiniteSet(A(i)) /\ Cardinality(A(i)) \in 1 .. n
  <2>1. IsFiniteSet(A(i)) /\ Cardinality(A(i)) <= n
    BY <1>1, <1>2, FS_Subset
  <2>2. Cardinality(A(i)) \in Nat
    BY <2>1, FS_CardinalityType
  <2>3. Cardinality(A(i)) # 0
    BY <1>2, <2>1, FS_EmptySet
  <2> HIDE DEF A
  <2> QED
    BY <2>1, <2>2, <2>3
<1>4. ASSUME NEW i \in 1 .. n, NEW j \in 1 .. n, i # j, Before(s, i, j)
      PROVE  Cardinality(A(i)) < Cardinality(A(j))
  <2>1. ~Before(s, j, i)
    BY <1>4 DEF Before
  <2>2. ASSUME NEW k \in 1 .. n, Before(s, k, i) PROVE Before(s, k, j)
    BY <1>4, <2>2 DEF Before
  <2>3. A(i) \in SUBSET A(j) /\ A(i) # A(j)
    <3> HIDE DEF A
    <3> QED
      BY <1>2, <2>1, <2>2
  <2>4. Cardinality(A(i)) <= Cardinality(A(j)) /\ Cardinality(A(i)) # Cardinality(A(j))
    <3> HIDE DEF A
    <3> QED
      BY <1>3, <2>3, FS_Subset
  <2> HIDE DEF A
  <2> QED
    BY <1>3, <2>4
<1>5. ASSUME NEW i \in 1 .. n, NEW j \in 1 .. n, i # j PROVE Before(s, i, j) \/ Before(s, j, i)
    BY <1>5 DEF Before
<1>6. \A i, j \in 1 .. n : Cardinality(A(i)) = Cardinality(A(j)) => i = j
  <2> HIDE DEF A
  <2> QED
    BY <1>3, <1>4, <1>5, SMTT(30)
<1>7. rank \in [1 .. n -> 1 .. n] /\ \A i, j \in 1 .. n : rank[i] = rank[j] => i = j
  <2> HIDE DEF A
  <2> QED
    BY <1>3, <1>6
<1>8. rank \in Injection(1 .. n, 1 .. n)
  <2> HIDE DEF rank
  <2> QED
    BY <1>7, Fun_IsInj
<1>9. rank \in Surjection(1 .. n, 1 .. n)
  <2> HIDE DEF rank
  <2> QED
    BY <1>1, <1>8, FS_Injection
<1>10. rank \in Bijection(1 .. n, 1 .. n)
  <2> HIDE DEF rank
  <2> QED
    BY <1>8, <1>9, Fun_IsBij
<1>11. ASSUME NEW i \in 1 .. n, NEW j \in 1 .. n, Cardinality(A(i)) <= Cardinality(A(j))
       PROVE  s[i].rssi >= s[j].rssi
  <2> HIDE DEF A
  <2>1. CASE i = j
    BY <2>1
  <2>2. CASE i # j
    <3>1. ~Before(s, j, i)
      BY <1>3, <1>4, <1>11, <2>2
    <3> QED
      BY <1>5, <2>2, <3>1 DEF Before
  <2> QED
    BY <2>1, <2>2
<1> QED
    BY <1>10, <1>11

\* sort loses and adds nothing, and puts the strongest first.
LEMMA SortProperties ==
    ASSUME NEW s, NEW n \in Nat, Len(s) = n, \A i \in 1 .. n : s[i] \in Network
    PROVE  /\ ByStrength(s) \in Seq(Network) /\ Len(ByStrength(s)) = n
           /\ \E rank \in Bijection(1 .. n, 1 .. n) : \A i \in 1 .. n : ByStrength(s)[rank[i]] = s[i]
           /\ \A k, l \in 1 .. n : k <= l => ByStrength(s)[k].rssi >= ByStrength(s)[l].rssi
<1> DEFINE A(i) == Ahead(s, i)
<1> DEFINE rank == [i \in 1 .. n |-> Cardinality(A(i))]
<1> DEFINE At(k) == CHOOSE i \in 1 .. n : Cardinality(A(i)) = k
<1>1. \A i \in 1 .. n : s[i].rssi \in Int
  <2>1. \A x \in Network : x.rssi \in Signals \cup {0}
    BY DEF Network
  <2> QED
    <3>1. Signals \cup {0} \subseteq Int
      BY ScanAssumption
    <3>2. \A i \in 1 .. n : s[i].rssi \in Signals \cup {0}
      BY <2>1, Zenon
    <3> QED
      BY <3>1, <3>2, Zenon
<1>2. rank \in Bijection(1 .. n, 1 .. n)
      /\ \A i, j \in 1 .. n : Cardinality(A(i)) <= Cardinality(A(j)) => s[i].rssi >= s[j].rssi
    BY <1>1, AheadRank
<1>3. /\ rank \in [1 .. n -> 1 .. n] /\ \A i, j \in 1 .. n : rank[i] = rank[j] => i = j
      /\ \A k \in 1 .. n : \E i \in 1 .. n : rank[i] = k
  <2>1. rank \in Bijection(1 .. n, 1 .. n)
    BY <1>2
  <2>2. \A f \in Bijection(1 .. n, 1 .. n) :
           /\ f \in [1 .. n -> 1 .. n] /\ \A i, j \in 1 .. n : f[i] = f[j] => i = j
           /\ \A k \in 1 .. n : \E i \in 1 .. n : f[i] = k
    BY OneToOne
  <2> HIDE DEF rank
  <2>3. rank \in [1 .. n -> 1 .. n] 
    BY <2>1, <2>2, Zenon
  <2>4. \A i, j \in 1 .. n : rank[i] = rank[j] => i = j
    BY <2>1, <2>2, Zenon
  <2>5. \A k \in 1 .. n : \E i \in 1 .. n : rank[i] = k
    BY <2>1, <2>2, Zenon
  <2> QED
    BY <2>3, <2>4, <2>5
<1> HIDE DEF A
<1>4. \A i \in 1 .. n : rank[i] = Cardinality(A(i))
    OBVIOUS
<1> HIDE DEF rank
<1>5. ASSUME NEW k \in 1 .. n PROVE At(k) \in 1 .. n /\ Cardinality(A(At(k))) = k
  <2>1. \E i \in 1 .. n : Cardinality(A(i)) = k
    BY <1>3, <1>4
  <2> QED
    BY <2>1, Zenon
<1>6. ByStrength(s) = [k \in 1 .. n |-> s[At(k)]]
  <2>1. ByStrength(s) =
          [k \in 1 .. Len(s) |-> s[CHOOSE i \in 1 .. Len(s) : Cardinality(Ahead(s, i)) = k]]
    BY Zenon DEF ByStrength
  <2>2. ByStrength(s) = [k \in 1 .. n |-> s[CHOOSE i \in 1 .. n : Cardinality(Ahead(s, i)) = k]]
    BY <2>1
  <2> QED
    BY <2>2, Zenon DEF A
<1> HIDE DEF At
<1>7. ByStrength(s) \in Seq(Network) /\ Len(ByStrength(s)) = n
  <2>1. \A k \in 1 .. n : s[At(k)] \in Network
    BY <1>5
  <2> QED
    BY <1>6, <2>1
<1>8. ASSUME NEW i \in 1 .. n PROVE ByStrength(s)[rank[i]] = s[i]
  <2>1. rank[i] \in 1 .. n
    BY <1>3
  <2>2. rank[At(rank[i])] = rank[i] /\ At(rank[i]) \in 1 .. n
    BY <1>4, <1>5, <2>1
  <2>3. At(rank[i]) = i
    BY <1>3, <2>2
  <2> QED
    BY <1>6, <2>1, <2>3
<1>9. ASSUME NEW k \in 1 .. n, NEW l \in 1 .. n, k <= l
      PROVE  ByStrength(s)[k].rssi >= ByStrength(s)[l].rssi
  <2>1. ByStrength(s)[k] = s[At(k)] /\ ByStrength(s)[l] = s[At(l)]
    BY <1>6
  <2>2. s[At(k)].rssi >= s[At(l)].rssi
    BY <1>2, <1>5, <1>9
  <2> QED
    BY <2>1, <2>2
<1> QED
    BY <1>2, <1>7, <1>8, <1>9

-----------------------------------------------------------------------------
(* The list *)

\* A list stays one when its list is sorted.
LEMMA SortLists ==
    ASSUME NEW s \in Seq(Network), NEW n, ListsAll(s, n)
    PROVE  /\ ListsAll(ByStrength(s), n) /\ ByStrength(s) \in Seq(Network)
           /\ \A k, l \in 1 .. Len(ByStrength(s)) :
                 k <= l => ByStrength(s)[k].rssi >= ByStrength(s)[l].rssi
<1> DEFINE t == ByStrength(s)
<1>1. Len(s) \in Nat /\ \A i \in 1 .. Len(s) : s[i] \in Network
    BY LenProperties, ElementOfSeq
<1>2. /\ t \in Seq(Network) /\ Len(t) = Len(s)
      /\ \E rank \in Bijection(1 .. Len(s), 1 .. Len(s)) : \A i \in 1 .. Len(s) : t[rank[i]] = s[i]
      /\ \A k, l \in 1 .. Len(s) : k <= l => t[k].rssi >= t[l].rssi
    BY <1>1, SortProperties
<1> HIDE DEF t
<1>3. PICK rank \in Bijection(1 .. Len(s), 1 .. Len(s)) : \A i \in 1 .. Len(s) : t[rank[i]] = s[i]
    BY <1>2
<1>4. PICK place \in Bijection(Named(n), 1 .. Len(s)) : \A i \in Named(n) : Lists(s[place[i]], air[i])
    BY DEF ListsAll
<1> DEFINE both == [i \in Named(n) |-> rank[place[i]]]
<1>5. both \in Bijection(Named(n), 1 .. Len(t))
    BY <1>2, Fun_BijTransitive
<1>6. ASSUME NEW i \in Named(n) PROVE Lists(t[both[i]], air[i])
  <2>1. place[i] \in 1 .. Len(s)
    BY OneToOne, SMTT(30)
  <2>2. t[rank[place[i]]] = s[place[i]]
    BY <1>3, <2>1
  <2> QED
    BY <1>4, <2>2
<1>7. ListsAll(t, n)
  <2> HIDE DEF both
  <2> QED
    BY <1>5, <1>6 DEF ListsAll
<1> QED
    BY <1>2, <1>7 DEF t

\* When the lines of the last network have been read, Flush lists it too.
LEMMA FlushLists ==
    ASSUME ScanIInv, todo = {}
    PROVE  Flush \in Seq(Network) /\ ListsAll(Flush, Len(air))
<1>0. /\ air \in Seq(Bss) /\ Len(air) \in Nat /\ networks \in Seq(Network) /\ Len(networks) \in Nat
      /\ current \in Network
    BY LenProperties DEF ScanIInv, ScanTypeOK
<1>1. Flush \in Seq(Network)
    BY <1>0, AppendProperties DEF Flush
<1>2. PICK place \in Bijection(Named(Len(air) - 1), 1 .. Len(networks)) :
        \A i \in Named(Len(air) - 1) : Lists(networks[place[i]], air[i])
    BY DEF ScanIInv, ListsAll
<1>3. /\ place \in [Named(Len(air) - 1) -> 1 .. Len(networks)]
      /\ \A i, j \in Named(Len(air) - 1) : place[i] = place[j] => i = j
      /\ \A k \in 1 .. Len(networks) : \E i \in Named(Len(air) - 1) : place[i] = k
  <2> DEFINE S == Named(Len(air) - 1)
  <2> DEFINE T == 1 .. Len(networks)
  <2>1. place \in Bijection(S, T)
    OBVIOUS
  <2> HIDE DEF S, T
  <2>2. place \in [S -> T] /\ \A i, j \in S : place[i] = place[j] => i = j
    BY <2>1, OneToOne
  <2>3. \A k \in T : \E i \in S : place[i] = k
    BY <2>1, OneToOne
  <2> QED
    BY <2>2, <2>3 DEF S, T
<1>4. CASE air = <<>>
  <2>1. Len(air) = 0 /\ current.ssid = Hidden
    BY <1>4 DEF ScanIInv, Nothing
  <2>2. Flush = networks
    BY <2>1 DEF Flush
  <2>3. Named(Len(air) - 1) = Named(Len(air))
    BY <2>1 DEF Named
  <2> QED
    BY <1>1, <2>2, <2>3 DEF ScanIInv, ListsAll
<1>5. CASE air # <<>>
  <2> DEFINE n == Len(air)
  <2> DEFINE b == air[n]
  <2>1. n \in Nat /\ n > 0
    BY <1>0, <1>5, EmptySeq
  <2>2. b \in Bss
    BY <1>0, <2>1, ElementOfSeq
  <2>3. Lists(current, b)
    <3>1. PartlyRead
      BY <1>5 DEF ScanIInv
    <3>2. current.ssid = b.ssid /\ current.rssi = b.rssi
      BY <3>1 DEF PartlyRead
    <3>3. current.auth \in Auths(b)
      BY <3>1 DEF PartlyRead, Auths
    <3> QED
      BY <3>2, <3>3 DEF Lists
  <2>4. CASE b.ssid = Hidden
    <3>1. Flush = networks
      BY <2>3, <2>4 DEF Flush, Lists
    <3>2. Named(n - 1) = Named(n)
      <4>1. ASSUME NEW i \in 1 .. n, air[i].ssid # Hidden PROVE i \in 1 .. n - 1
        <5>1. i # n
          BY <2>4, <4>1
        <5> HIDE DEF n
        <5> QED
          BY <2>1, <5>1
      <4>2. \A i \in 1 .. n - 1 : i \in 1 .. n
        <5> HIDE DEF n
        <5> QED
          BY <2>1
      <4> QED
        BY <4>1, <4>2 DEF Named
    <3> QED
      BY <1>1, <3>1, <3>2 DEF ScanIInv, ListsAll
  <2>5. CASE b.ssid # Hidden
    <3>1. Flush = Append(networks, current)
      BY <2>3, <2>5 DEF Flush, Lists
    <3> DEFINE m == Len(networks)
    <3>2. /\ Len(Flush) = m + 1 /\ Flush[m + 1] = current
          /\ \A k \in 1 .. m : Flush[k] = networks[k]
      BY <1>0, <3>1, AppendProperties
    <3>3. n \notin Named(n - 1) /\ n \in Named(n) /\ Named(n) = Named(n - 1) \cup {n}
      <4>1. \A i : i \in 1 .. n <=> i \in 1 .. n - 1 \/ i = n
        <5> HIDE DEF n
        <5> QED
          BY <2>1
      <4>2. n \notin 1 .. n - 1
        <5> HIDE DEF n
        <5> QED
          BY <2>1
      <4> QED
        BY <2>5, <4>1, <4>2 DEF Named
    <3> DEFINE new == [i \in Named(n) |-> IF i = n THEN m + 1 ELSE place[i]]
    <3> HIDE DEF n, m
    <3>4. m \in Nat
      BY <1>0 DEF m
    <3>5. /\ place \in [Named(n - 1) -> 1 .. m] /\ \A i, j \in Named(n - 1) : place[i] = place[j] => i = j
          /\ \A k \in 1 .. m : \E i \in Named(n - 1) : place[i] = k
      BY <1>3 DEF n, m
    <3>6. new \in [Named(n) -> 1 .. m + 1]
      BY <3>3, <3>4, <3>5
    <3>7. ASSUME NEW i \in Named(n), NEW j \in Named(n), new[i] = new[j] PROVE i = j
      BY <3>3, <3>4, <3>5, <3>7
    <3>8. ASSUME NEW k \in 1 .. m + 1 PROVE \E i \in Named(n) : new[i] = k
      <4>1. CASE k = m + 1
        BY <3>3, <4>1
      <4>2. CASE k \in 1 .. m
        <5>1. PICK i \in Named(n - 1) : place[i] = k
          BY <3>5, <4>2
        <5>2. i \in Named(n) /\ i # n
          BY <3>3
        <5>3. new[i] = k
          BY <5>1, <5>2
        <5> QED
          BY <5>2, <5>3
      <4> QED
        BY <3>4, <4>1, <4>2
    <3>9. new \in Bijection(Named(n), 1 .. Len(Flush))
      <4> HIDE DEF new
      <4> QED
        BY <3>2, <3>6, <3>7, <3>8, Fun_IsBij DEF m
    <3>10. ASSUME NEW i \in Named(n) PROVE Lists(Flush[new[i]], air[i])
      <4>1. CASE i = n
        BY <2>3, <3>2, <4>1 DEF n, m
      <4>2. CASE i # n
        <5>1. i \in Named(n - 1)
          BY <3>3, <4>2
        <5>2. new[i] = place[i] /\ place[i] \in 1 .. m
          BY <3>5, <4>2, <5>1
        <5>3. Lists(networks[place[i]], air[i])
          BY <1>2, <5>1 DEF n
        <5> QED
          BY <3>2, <5>2, <5>3 DEF m
      <4> QED
        BY <4>1, <4>2
    <3>11. ListsAll(Flush, n)
      <4> HIDE DEF new
      <4> QED
        BY <3>9, <3>10 DEF ListsAll
    <3> QED
      BY <1>1, <3>11 DEF n
  <2> QED
    BY <2>4, <2>5
<1> QED
    BY <1>4, <1>5

-----------------------------------------------------------------------------
(* The invariant *)

\* A BSS line.
LEMMA BssLineStep ==
    ASSUME ScanIInv, NEW b \in Bss, BssLine(b)
    PROVE  ScanIInv'
<1>0. air \in Seq(Bss) /\ Len(air) \in Nat
    BY LenProperties DEF ScanIInv, ScanTypeOK
<1>1. /\ ~scanned /\ todo = {} /\ air' = Append(air, b) /\ todo' = b.security \cup {"SSID", "signal"}
      /\ networks' = Flush /\ current' = Nothing /\ found' = found /\ scanned' = scanned
    BY DEF BssLine
<1>2. Flush \in Seq(Network) /\ ListsAll(Flush, Len(air))
    BY <1>1, FlushLists
<1>3. /\ air' \in Seq(Bss) /\ Len(air') = Len(air) + 1 /\ air'[Len(air) + 1] = b
      /\ \A i \in 1 .. Len(air) : air'[i] = air[i]
    BY <1>0, <1>1, AppendProperties
<1>4. b.security \subseteq Protocols
    BY DEF Bss
<1>5. ScanTypeOK'
  <2>1. Nothing \in Network
    BY DEF Nothing, Network
  <2>2. todo' \subseteq Protocols \cup {"SSID", "signal"}
    BY <1>1, <1>4
  <2> QED
    BY <1>1, <1>2, <1>3, <2>1, <2>2 DEF ScanIInv, ScanTypeOK
<1>6. ListsAll(networks, Len(air) - 1)'
  <2> DEFINE n == Len(air)
  <2>1. Len(air') - 1 = n
    BY <1>0, <1>3
  <2>2. {i \in 1 .. n : air'[i].ssid # Hidden} = Named(n)
    BY <1>3 DEF Named
  <2>3. PICK place \in Bijection(Named(n), 1 .. Len(Flush)) :
          \A i \in Named(n) : Lists(Flush[place[i]], air[i])
    BY <1>2 DEF ListsAll
  <2>4. \A i \in Named(n) : Lists(Flush[place[i]], air'[i])
    BY <1>3, <2>3 DEF Named
  <2>5. \E f \in Bijection({i \in 1 .. n : air'[i].ssid # Hidden}, 1 .. Len(networks')) :
          \A i \in {j \in 1 .. n : air'[j].ssid # Hidden} : Lists(networks'[f[i]], air'[i])
    BY <1>1, <2>2, <2>3, <2>4
  <2>6. \E f \in Bijection({i \in 1 .. Len(air') - 1 : air'[i].ssid # Hidden}, 1 .. Len(networks')) :
          \A i \in {j \in 1 .. Len(air') - 1 : air'[j].ssid # Hidden} : Lists(networks'[f[i]], air'[i])
    BY <2>1, <2>5
  <2> QED
    BY <2>6 DEF ListsAll, Named, Lists
<1>7. air' # <<>> /\ PartlyRead'
  <2>1. air'[Len(air')] = b /\ air' # <<>>
    BY <1>0, <1>3
  <2> QED
    BY <1>1, <2>1 DEF PartlyRead, Nothing
<1>8. ~scanned'
    BY <1>1
<1> QED
    BY <1>5, <1>6, <1>7, <1>8 DEF ScanIInv, ScanListsNetworks

\* A line about a network.
LEMMA DetailLineStep ==
    ASSUME ScanIInv, NEW tag \in todo, DetailLine(tag)
    PROVE  ScanIInv'
<1>0. air \in Seq(Bss) /\ Len(air) \in Nat /\ current \in Network
      /\ todo \subseteq Protocols \cup {"SSID", "signal"}
    BY LenProperties DEF ScanIInv, ScanTypeOK
<1> DEFINE b == air[Len(air)]
<1>1. /\ todo' = todo \ {tag} /\ air' = air /\ networks' = networks /\ found' = found
      /\ scanned' = scanned
      /\ current' = IF tag = "SSID" THEN [current EXCEPT !.ssid = b.ssid]
                    ELSE IF tag = "signal" THEN [current EXCEPT !.rssi = b.rssi]
                    ELSE [current EXCEPT !.auth = AuthOf[tag]]
    BY DEF DetailLine
<1>2. air # <<>> /\ PartlyRead /\ ~scanned
    BY DEF ScanIInv
<1>3. b \in Bss
    BY <1>0, <1>2, ElementOfSeq, EmptySeq
<1>4. b.ssid \in Ssids \cup {Hidden} /\ b.rssi \in Signals
    BY <1>3 DEF Bss
<1>5. ListsAll(networks, Len(air) - 1)'
    BY <1>1, ZenonT(60) DEF ScanIInv, ListsAll, Named, Lists
<1>6. current' \in Network /\ PartlyRead'
  <2> HIDE DEF b
  <2>0. /\ todo \subseteq b.security \cup {"SSID", "signal"}
        /\ current.ssid = (IF "SSID" \in todo THEN Hidden ELSE b.ssid)
        /\ current.rssi = (IF "signal" \in todo THEN 0 ELSE b.rssi)
        /\ \/ current.auth = "OPEN" /\ b.security \subseteq todo
           \/ \E p \in b.security \ todo : current.auth = AuthOf[p]
    BY <1>2 DEF PartlyRead, b
  <2>b. b.security \subseteq Protocols /\ "SSID" \notin b.security /\ "signal" \notin b.security
    BY <1>3 DEF Bss, Protocols
  <2>1. CASE tag = "SSID"
    <3>1. current' = [current EXCEPT !.ssid = b.ssid]
      BY <1>1, <2>1
    <3>2. current'.ssid = b.ssid /\ current'.rssi = current.rssi /\ current'.auth = current.auth
          /\ current' \in Network
      BY <1>0, <1>4, <3>1 DEF Network
    <3>3. "SSID" \notin todo' /\ ("signal" \in todo' <=> "signal" \in todo)
      BY <1>1, <2>1
    <3>4. \/ current'.auth = "OPEN" /\ b.security \subseteq todo'
          \/ \E p \in b.security \ todo' : current'.auth = AuthOf[p]
      BY <1>1, <2>0, <2>b, <2>1, <3>2
    <3> QED
      BY <1>1, <2>0, <3>2, <3>3, <3>4 DEF PartlyRead, b
  <2>2. CASE tag = "signal"
    <3>1. current' = [current EXCEPT !.rssi = b.rssi]
      BY <1>1, <2>2
    <3>2. current'.rssi = b.rssi /\ current'.ssid = current.ssid /\ current'.auth = current.auth
          /\ current' \in Network
      BY <1>0, <1>4, <3>1 DEF Network
    <3>3. "signal" \notin todo' /\ ("SSID" \in todo' <=> "SSID" \in todo)
      BY <1>1, <2>2
    <3>4. \/ current'.auth = "OPEN" /\ b.security \subseteq todo'
          \/ \E p \in b.security \ todo' : current'.auth = AuthOf[p]
      BY <1>1, <2>0, <2>b, <2>2, <3>2
    <3> QED
      BY <1>1, <2>0, <3>2, <3>3, <3>4 DEF PartlyRead, b
  <2>3. CASE tag \notin {"SSID", "signal"}
    <3>1. current' = [current EXCEPT !.auth = AuthOf[tag]]
      BY <1>1, <2>3
    <3>2. tag \in b.security /\ tag \in Protocols
      BY <2>0, <2>b, <2>3
    <3>3. AuthOf[tag] \in {"WPA2", "WPA", "WEP"}
      BY <3>2 DEF AuthOf, Protocols
    <3>4. current'.rssi = current.rssi /\ current'.ssid = current.ssid /\ current'.auth = AuthOf[tag]
          /\ current' \in Network
      BY <1>0, <3>1, <3>3 DEF Network
    <3>5. ("SSID" \in todo' <=> "SSID" \in todo) /\ ("signal" \in todo' <=> "signal" \in todo)
          /\ tag \notin todo'
      BY <1>1, <2>3
    <3> QED
      BY <1>1, <2>0, <3>2, <3>4, <3>5 DEF PartlyRead, b
  <2> QED
    BY <2>1, <2>2, <2>3
<1>7. ScanTypeOK'
    BY <1>0, <1>1, <1>6 DEF ScanIInv, ScanTypeOK
<1> QED
    BY <1>1, <1>2, <1>5, <1>6, <1>7 DEF ScanIInv, ScanListsNetworks

\* The end of the output: the list is sorted and returned.
LEMMA EndOfOutputStep ==
    ASSUME ScanIInv, EndOfOutput
    PROVE  ScanIInv'
<1>1. todo = {} /\ found' = ByStrength(Flush) /\ scanned' = TRUE
      /\ air' = air /\ todo' = todo /\ networks' = networks /\ current' = current
    BY DEF EndOfOutput
<1>2. Flush \in Seq(Network) /\ ListsAll(Flush, Len(air))
    BY <1>1, FlushLists
<1>3. /\ ListsAll(ByStrength(Flush), Len(air)) /\ ByStrength(Flush) \in Seq(Network)
      /\ \A k, l \in 1 .. Len(ByStrength(Flush)) :
            k <= l => ByStrength(Flush)[k].rssi >= ByStrength(Flush)[l].rssi
    BY <1>2, SortLists
<1>4. ListsAll(found', Len(air)) /\ found' \in Seq(Network)
      /\ \A k, l \in 1 .. Len(found') : k <= l => found'[k].rssi >= found'[l].rssi
    BY <1>1, <1>3
<1>5. ScanListsNetworks'
  <2>1. \E place \in Bijection(Named(Len(air)), 1 .. Len(found')) :
          \A i \in Named(Len(air)) : Lists(found'[place[i]], air[i])
    BY <1>4 DEF ListsAll
  <2> QED
    BY <1>1, <1>4, <2>1, ZenonT(60) DEF ScanListsNetworks, Named, Lists
<1>6. ListsAll(networks, Len(air) - 1)'
    BY <1>1, ZenonT(60) DEF ScanIInv, ListsAll, Named, Lists
<1>7. ScanTypeOK'
    BY <1>1, <1>4 DEF ScanIInv, ScanTypeOK
<1>8. PartlyRead => PartlyRead'
    BY <1>1 DEF PartlyRead
<1> QED
    BY <1>1, <1>5, <1>6, <1>7, <1>8 DEF ScanIInv

\* The inductive invariant of the scan.
LEMMA ScanInvariance == ScanSpec => []ScanIInv
<1>1. ScanInit => ScanIInv
  <2> SUFFICES ASSUME ScanInit PROVE ScanIInv
    OBVIOUS
  <2>1. ScanTypeOK
    <3>1. Nothing \in Network
      BY DEF Nothing, Network
    <3>2. <<>> \in Seq(Bss) /\ <<>> \in Seq(Network)
      BY EmptySeq
    <3> QED
      BY <3>1, <3>2 DEF ScanInit, ScanTypeOK
  <2>2. ListsAll(networks, Len(air) - 1)
    <3>1. Named(Len(air) - 1) = {} /\ 1 .. Len(networks) = {}
      BY DEF ScanInit, Named
    <3> DEFINE f == [i \in {} |-> 0]
    <3>2. f \in [{} -> {}]
      OBVIOUS
    <3> HIDE DEF f
    <3>3. f \in Bijection({}, {})
      BY <3>2, Fun_IsBij
    <3> QED
      BY <3>1, <3>3 DEF ListsAll
  <2> QED
    BY <2>1, <2>2 DEF ScanInit, ScanIInv, ScanListsNetworks
<1>2. ScanIInv /\ [ScanNext]_scanVars => ScanIInv'
  <2> SUFFICES ASSUME ScanIInv, [ScanNext]_scanVars PROVE ScanIInv'
    OBVIOUS
  <2>1. CASE \E b \in Bss : BssLine(b)
    BY <2>1, BssLineStep
  <2>2. CASE \E tag \in todo : DetailLine(tag)
    BY <2>2, DetailLineStep
  <2>3. CASE EndOfOutput
    BY <2>3, EndOfOutputStep
  <2>4. CASE UNCHANGED scanVars
    <3>1. /\ air' = air /\ todo' = todo /\ networks' = networks /\ current' = current
          /\ found' = found /\ scanned' = scanned
      BY <2>4 DEF scanVars
    <3>2. ListsAll(networks, Len(air) - 1)'
      BY <3>1, ZenonT(60) DEF ScanIInv, ListsAll, Named, Lists
    <3>3. ScanTypeOK'
      BY <3>1 DEF ScanIInv, ScanTypeOK
    <3>4. ScanListsNetworks'
      BY <3>1, ZenonT(60) DEF ScanIInv, ScanListsNetworks, Named, Lists
    <3>5. PartlyRead => PartlyRead'
      BY <3>1 DEF PartlyRead
    <3> QED
      BY <3>1, <3>2, <3>3, <3>4, <3>5 DEF ScanIInv
  <2> QED
    BY <2>1, <2>2, <2>3, <2>4 DEF ScanNext
<1> QED
    BY <1>1, <1>2, PTL DEF ScanSpec

\* Whatever networks there are, in whatever order iw prints their lines, scan lists every network
\* with a name once, with its own signal and security, the strongest first.
THEOREM ScanLists == ScanSpec => []ScanListsNetworks
<1>1. ScanIInv => ScanListsNetworks
    BY DEF ScanIInv
<1> QED
    BY <1>1, ScanInvariance, PTL

-----------------------------------------------------------------------------
(* Parsers *)

\* The machines that Parsers runs behave as each of them does alone.
LEMMA EachAlone == ParsersSpec => LinesSpec /\ ProxySpec /\ ScanSpec /\ UploadSpec
<1>1. ParsersInit => LinesInit /\ ProxyInit /\ ScanInit /\ UploadInit
    BY DEF ParsersInit
<1>2. [ParsersNext]_parserVars =>
        /\ [LinesNext]_lineVars /\ [ProxyNext]_proxyVars /\ [ScanNext]_scanVars
        /\ [UploadNext]_content
    BY DEF ParsersNext, parserVars
<1> QED
    BY <1>1, <1>2, PTL DEF ParsersSpec, LinesSpec, ProxySpec, ScanSpec, UploadSpec

\* The results of the four loops, for the specification that runs them.
THEOREM ParsersCorrect ==
    ParsersSpec => [](/\ LinesIndependentOfChunks /\ CommandsDecoded /\ AnswersTellSetting
                      /\ ScanListsNetworks /\ StoredAsSent)
    BY EachAlone, ChunksDoNotMatter, ProxyDecodes, ProxyAnswers, ScanLists, UploadStoredAsSent, PTL
=============================================================================
