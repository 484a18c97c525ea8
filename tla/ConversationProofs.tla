-------------------------- MODULE ConversationProofs --------------------------
(***************************************************************************)
(* Proofs about ConversationController and ConversationRuntime for every   *)
(* value of their constants.  First the controller alone: what trimming    *)
(* does to a history, that it is the two loops of the code, the inductive  *)
(* invariant, the theorems of Spec.  Then the runtime: what the steps of   *)
(* the controller do to the active request, the inductive invariant over   *)
(* the event loop, the workers and the consumers, the window that catches  *)
(* up, and the step-by-step proof that the runtime implements              *)
(* RequestLifecycle.                                                       *)
(***************************************************************************)
EXTENDS ConversationRuntime, MCConversationController, FiniteSetTheorems, SequenceTheorems, TLAPS

-----------------------------------------------------------------------------
(* Histories.                                                              *)

\* A non-empty set of natural numbers contains its minimum.
LEMMA MinInSet ==
  ASSUME NEW S \in SUBSET Nat, S # {}
  PROVE  Min(S) \in S /\ \A x \in S : Min(S) <= x
<1>1. PICK x \in S : \A y \in S : ~(<<y, x>> \in OpToRel(<, Nat))
  BY NatLessThanWellFounded, WFMin
<1>2. ASSUME NEW y \in S
      PROVE  x <= y
  <2>1. <<y, x>> \in OpToRel(<, Nat) <=> y < x
    BY DEF OpToRel
  <2>2. ~(y < x)
    BY <1>1, <2>1, Zenon
  <2> QED  BY <2>2
<1> QED  BY <1>2 DEF Min

\* The interval from 1 to n has n elements.
LEMMA IntervalSize ==
  ASSUME NEW n \in Nat
  PROVE  IsFiniteSet(1 .. n) /\ Cardinality(1 .. n) = n
<1>1. 1 \in Int /\ n \in Int
  OBVIOUS
<1>2. /\ IsFiniteSet(1 .. n)
      /\ Cardinality(1 .. n) = IF 1 > n THEN 0 ELSE n - 1 + 1
  BY <1>1, FS_Interval, Zenon
<1>3. (IF 1 > n THEN 0 ELSE n - 1 + 1) = n
  OBVIOUS
<1> QED  BY <1>2, <1>3

\* Dropping the first k messages shifts the others down by k.
LEMMA DropFirstIsSuffix ==
  ASSUME NEW s \in Seq(Message), NEW k \in 0 .. Len(s)
  PROVE  /\ DropFirst(s, k) \in Seq(Message)
         /\ Len(DropFirst(s, k)) = Len(s) - k
         /\ \A i \in 1 .. Len(s) - k : DropFirst(s, k)[i] = s[k + i]
<1>1. Len(s) \in Nat /\ \A i \in 1 .. Len(s) : s[i] \in Message
  BY LenProperties, ElementOfSeq
<1>2. /\ k + 1 \in Int
      /\ \A i \in k + 1 .. Len(s) : s[i] \in Message
  BY <1>1
<1>3. /\ SubSeq(s, k + 1, Len(s)) \in Seq(Message)
      /\ Len(SubSeq(s, k + 1, Len(s))) =
           IF k + 1 <= Len(s) THEN Len(s) - (k + 1) + 1 ELSE 0
      /\ \A i \in 1 .. Len(s) - (k + 1) + 1 :
           SubSeq(s, k + 1, Len(s))[i] = s[(k + 1) + i - 1]
  BY <1>1, <1>2, SubSeqProperties
<1> QED  BY <1>1, <1>3 DEF DropFirst

\* A history has finitely many bytes.
LEMMA BytePositionsFinite ==
  ASSUME NEW s \in Seq(Message)
  PROVE  IsFiniteSet(BytePositions(s)) /\ HistoryBytes(s) \in Nat
<1> DEFINE Row(i) == {i} \X (1 .. s[i].size)
           Rows == {Row(i) : i \in DOMAIN s}
<1>1. IsFiniteSet(DOMAIN s)
  BY LenProperties, FS_Interval
<1>2. \A i \in DOMAIN s : IsFiniteSet(Row(i))
  <2> TAKE i \in DOMAIN s
  <2>1. s[i] \in Message
    BY LenProperties, ElementOfSeq, Zenon
  <2>1a. s[i].size \in Nat
    BY <2>1 DEF Message
  <2>2. IsFiniteSet(1 .. s[i].size)
    BY <2>1a, FS_Interval
  <2> QED  BY <2>2, FS_Singleton, FS_Product
<1>3. IsFiniteSet(Rows)
  <2> DEFINE row == [i \in DOMAIN s |-> Row(i)]
  <2>1. row \in Surjection(DOMAIN s, Rows)
    BY DEF Surjection
  <2> QED  BY <1>1, <2>1, FS_Surjection
<1>4. IsFiniteSet(UNION Rows)
  BY <1>2, <1>3, FS_UNION
<1> QED  BY <1>4, FS_CardinalityType DEF BytePositions, HistoryBytes

\* The bytes of a history are the pairs of a message and a place in it.
LEMMA BytePositionsAre ==
  ASSUME NEW s \in Seq(Message), NEW p
  PROVE  p \in BytePositions(s) <=>
           \E i \in 1 .. Len(s) : \E b \in 1 .. s[i].size : p = <<i, b>>
<1>1. DOMAIN s = 1 .. Len(s)
  BY LenProperties
<1> QED  BY <1>1 DEF BytePositions

\* Appending a message adds its bytes.
LEMMA AppendBytes ==
  ASSUME NEW s \in Seq(Message), NEW m \in Message
  PROVE  HistoryBytes(Append(s, m)) <= HistoryBytes(s) + m.size
<1> DEFINE t == Append(s, m)
           row == {Len(s) + 1} \X (1 .. m.size)
<1>1. /\ t \in Seq(Message) /\ Len(t) = Len(s) + 1 /\ Len(s) \in Nat
      /\ \A i \in 1 .. Len(s) : t[i] = s[i]
      /\ t[Len(s) + 1] = m
  BY AppendProperties, LenProperties
<1> HIDE DEF t
<1>2. BytePositions(t) \subseteq BytePositions(s) \cup row
  <2> SUFFICES ASSUME NEW p \in BytePositions(t)
               PROVE  p \in BytePositions(s) \cup row
    OBVIOUS
  <2>1. PICK i \in 1 .. Len(t) : \E b \in 1 .. t[i].size : p = <<i, b>>
    <3>1. t \in Seq(Message)
      BY <1>1
    <3> QED  BY <3>1, BytePositionsAre
  <2>2. CASE i \in 1 .. Len(s)
    BY <1>1, <2>1, <2>2, BytePositionsAre
  <2>3. CASE i = Len(s) + 1
    BY <1>1, <2>1, <2>3
  <2> QED  BY <1>1, <2>2, <2>3
<1>3. m.size \in Nat
  BY DEF Message
<1>4. IsFiniteSet(row) /\ Cardinality(row) = m.size
  <2>1. IsFiniteSet(1 .. m.size) /\ Cardinality(1 .. m.size) = m.size
    BY <1>3, IntervalSize
  <2>2. IsFiniteSet({Len(s) + 1}) /\ Cardinality({Len(s) + 1}) = 1
    BY FS_Singleton
  <2>3. IsFiniteSet(row) /\ Cardinality(row) = 1 * m.size
    <3>1. /\ IsFiniteSet(row)
          /\ Cardinality(row) = Cardinality({Len(s) + 1}) * Cardinality(1 .. m.size)
      BY <2>1, <2>2, FS_Product, Zenon
    <3> QED  BY <2>1, <2>2, <3>1
  <2> QED  BY <1>3, <2>3
<1> HIDE DEF row
<1>5. /\ IsFiniteSet(BytePositions(s) \cup row)
      /\ Cardinality(BytePositions(s) \cup row) <=
           Cardinality(BytePositions(s)) + m.size
  <2>1. IsFiniteSet(BytePositions(s)) /\ Cardinality(BytePositions(s)) \in Nat
    BY BytePositionsFinite, FS_CardinalityType
  <2>2. Cardinality(BytePositions(s) \cap row) \in Nat
    BY <2>1, FS_Intersection, FS_CardinalityType
  <2>3. /\ IsFiniteSet(BytePositions(s) \cup row)
        /\ Cardinality(BytePositions(s) \cup row) =
             Cardinality(BytePositions(s)) + Cardinality(row)
               - Cardinality(BytePositions(s) \cap row)
    BY <1>4, <2>1, FS_Union, Zenon
  <2> QED  BY <1>3, <1>4, <2>1, <2>2, <2>3
<1>6. Cardinality(BytePositions(t)) <= Cardinality(BytePositions(s) \cup row)
  BY <1>2, <1>5, FS_Subset
<1>7. /\ Cardinality(BytePositions(t)) \in Nat
      /\ Cardinality(BytePositions(s)) \in Nat
      /\ Cardinality(BytePositions(s) \cup row) \in Nat
  BY <1>1, <1>5, BytePositionsFinite, FS_CardinalityType
<1> QED  BY <1>3, <1>5, <1>6, <1>7 DEF HistoryBytes, t

\* What trimming promises: the result is a suffix of the history, within both
\* limits, that does not begin with an answer.
LEMMA TrimFacts ==
  ASSUME NEW s \in Seq(Message), NEW limit \in Nat
  PROVE  /\ Trim(s, limit) \in Seq(Message)
         /\ Len(Trim(s, limit)) <= limit
         /\ HistoryBytes(Trim(s, limit)) <= MaxHistoryBytes
         /\ NoLeadingAnswer(Trim(s, limit))
         /\ \E k \in 0 .. Len(s) : Trim(s, limit) = DropFirst(s, k)
<1> DEFINE Drops == {k \in 0 .. Len(s) : IsTrimmed(DropFirst(s, k), limit)}
<1>1. Len(s) \in Nat
  BY LenProperties
<1>2. DropFirst(s, Len(s)) = <<>>
  BY <1>1, DropFirstIsSuffix, EmptySeq
<1>3. HistoryBytes(<<>>) = 0
  <2>1. BytePositions(<<>>) = {}
    <3>1. <<>> \in Seq(Message) /\ 1 .. Len(<<>>) = {}
      BY EmptySeq
    <3> QED  BY <3>1, BytePositionsAre, Zenon
  <2> QED  BY <2>1, FS_EmptySet DEF HistoryBytes
<1>4. IsTrimmed(<<>>, limit)
  BY <1>3, EmptySeq, LimitsAssumption DEF IsTrimmed, NoLeadingAnswer
<1>5. Len(s) \in Drops
  BY <1>1, <1>2, <1>4
<1>6. Drops \subseteq Nat
  BY <1>1
<1>7. Min(Drops) \in Drops
  BY <1>5, <1>6, MinInSet
<1>8. Trim(s, limit) = DropFirst(s, Min(Drops))
  BY DEF Trim
<1> QED  BY <1>7, <1>8, DropFirstIsSuffix DEF IsTrimmed

\* Trimming a history without a pending message leaves none pending.
Settled(s) == \A i \in 1 .. Len(s) : ~s[i].pending

LEMMA TrimKeepsSettled ==
  ASSUME NEW s \in Seq(Message), NEW limit \in Nat, Settled(s)
  PROVE  Settled(Trim(s, limit))
<1>1. PICK k \in 0 .. Len(s) : Trim(s, limit) = DropFirst(s, k)
  BY TrimFacts
<1>2. /\ Len(DropFirst(s, k)) = Len(s) - k /\ Len(s) \in Nat
      /\ \A i \in 1 .. Len(s) - k : DropFirst(s, k)[i] = s[k + i]
  BY DropFirstIsSuffix, LenProperties
<1>3. ASSUME NEW i \in 1 .. Len(s) - k
      PROVE  ~DropFirst(s, k)[i].pending
  <2>1. k + i \in 1 .. Len(s)
    BY <1>2
  <2> QED  BY <1>2, <2>1 DEF Settled
<1> QED  BY <1>1, <1>2, <1>3 DEF Settled

-----------------------------------------------------------------------------
(* The loops of trim_history, as MCConversationController has them.  A     *)
(* recursive function is the one function that satisfies its equation: it  *)
(* exists since the function it should be does satisfy it, and agrees with *)
(* that one since there is no least place where they differ.               *)

\* The bytes of the first n messages.
BytesUpTo(s, n) == UNION {{i} \X (1 .. s[i].size) : i \in 1 .. n}

\* They are finitely many, and each message adds its own.
LEMMA BytesAddUp ==
  ASSUME NEW s \in Seq(Message)
  PROVE  /\ \A n \in 0 .. Len(s) : Cardinality(BytesUpTo(s, n)) \in Nat
         /\ Cardinality(BytesUpTo(s, 0)) = 0
         /\ \A n \in 1 .. Len(s) :
              Cardinality(BytesUpTo(s, n)) = Cardinality(BytesUpTo(s, n - 1)) + s[n].size
         /\ Cardinality(BytesUpTo(s, Len(s))) = HistoryBytes(s)
<1>1. DOMAIN s = 1 .. Len(s) /\ Len(s) \in Nat
  BY LenProperties
<1>2. BytesUpTo(s, Len(s)) = BytePositions(s)
  BY <1>1 DEF BytesUpTo, BytePositions
<1>3. ASSUME NEW n \in 0 .. Len(s)
      PROVE  /\ IsFiniteSet(BytesUpTo(s, n))
             /\ Cardinality(BytesUpTo(s, n)) \in Nat
  <2>1. BytesUpTo(s, n) \subseteq BytePositions(s)
    <3>1. 1 .. n \subseteq DOMAIN s
      BY <1>1
    <3> QED  BY <3>1, Zenon DEF BytesUpTo, BytePositions
  <2>2. IsFiniteSet(BytePositions(s))
    BY BytePositionsFinite
  <2> QED  BY <2>1, <2>2, FS_Subset, FS_CardinalityType
<1>4. Cardinality(BytesUpTo(s, 0)) = 0
  <2>1. 1 .. 0 = {}
    OBVIOUS
  <2>2. BytesUpTo(s, 0) = {}
    BY <2>1 DEF BytesUpTo
  <2> QED  BY <2>2, FS_EmptySet
<1>5. ASSUME NEW n \in 1 .. Len(s)
      PROVE  Cardinality(BytesUpTo(s, n)) = Cardinality(BytesUpTo(s, n - 1)) + s[n].size
  <2> DEFINE row == {n} \X (1 .. s[n].size)
  <2>1. s[n].size \in Nat
    <3>1. s[n] \in Message
      BY ElementOfSeq
    <3> QED  BY <3>1 DEF Message
  <2>2. IsFiniteSet(row) /\ Cardinality(row) = s[n].size
    <3>1. IsFiniteSet(1 .. s[n].size) /\ Cardinality(1 .. s[n].size) = s[n].size
      BY <2>1, IntervalSize
    <3>2. IsFiniteSet({n}) /\ Cardinality({n}) = 1
      BY FS_Singleton
    <3>3. /\ IsFiniteSet(row)
          /\ Cardinality(row) = Cardinality({n}) * Cardinality(1 .. s[n].size)
      BY <3>1, <3>2, FS_Product, Zenon
    <3> QED  BY <2>1, <3>1, <3>2, <3>3
  <2>3. n - 1 \in 0 .. Len(s) /\ 1 .. n = (1 .. n - 1) \cup {n} /\ n \notin 1 .. n - 1
    BY <1>1
  <2>4. BytesUpTo(s, n) = BytesUpTo(s, n - 1) \cup row
    BY <2>3 DEF BytesUpTo
  <2>5. BytesUpTo(s, n - 1) \cap row = {}
    BY <2>3 DEF BytesUpTo
  <2> HIDE DEF row
  <2>6. Cardinality(BytesUpTo(s, n - 1) \cup row) =
          Cardinality(BytesUpTo(s, n - 1)) + Cardinality(row)
            - Cardinality(BytesUpTo(s, n - 1) \cap row)
    BY <1>3, <2>2, <2>3, FS_Union
  <2>7. Cardinality(BytesUpTo(s, n - 1)) \in Nat
    BY <1>3, <2>3
  <2>8. Cardinality(BytesUpTo(s, n - 1) \cap row) = 0
    BY <2>5, FS_EmptySet
  <2> QED  BY ONLY <2>1, <2>2, <2>4, <2>6, <2>7, <2>8
<1> QED  BY <1>2, <1>3, <1>4, <1>5 DEF HistoryBytes

\* The sum of the code is the number of bytes.
LEMMA SumIsBytes ==
  ASSUME NEW s \in Seq(Message)
  PROVE  SumOfSizes(s) = HistoryBytes(s)
<1> DEFINE Step(f) == [n \in 0 .. Len(s) |-> IF n = 0 THEN 0 ELSE f[n - 1] + s[n].size]
           sum == CHOOSE f : f = Step(f)
           bytes == [n \in 0 .. Len(s) |-> Cardinality(BytesUpTo(s, n))]
<1>1. Len(s) \in Nat
  BY LenProperties
<1>2. bytes = Step(bytes)
  <2> SUFFICES ASSUME NEW n \in 0 .. Len(s)
               PROVE  bytes[n] = Step(bytes)[n]
    OBVIOUS
  <2>1. CASE n = 0
    BY <1>1, <2>1, BytesAddUp
  <2>2. CASE n # 0
    <3>1. n \in 1 .. Len(s) /\ n - 1 \in 0 .. Len(s)
      BY <1>1, <2>2
    <3>2. bytes[n] = bytes[n - 1] + s[n].size
      BY <3>1, BytesAddUp
    <3> QED  BY <2>2, <3>2
  <2> QED  BY <2>1, <2>2
<1>3. sum = Step(sum)
  BY <1>2
<1>4. SumOfSizes(s) = sum[Len(s)]
  BY DEF SumOfSizes
<1> HIDE DEF sum, bytes
<1>5. /\ sum[0] = 0
      /\ \A n \in 1 .. Len(s) : sum[n] = sum[n - 1] + s[n].size
  BY <1>1, <1>3
<1>6. /\ bytes[0] = 0
      /\ \A n \in 1 .. Len(s) : bytes[n] = bytes[n - 1] + s[n].size
  BY <1>1, <1>2
<1>7. ASSUME NEW n \in 0 .. Len(s), sum[n] # bytes[n]
      PROVE  FALSE
  <2> DEFINE Differ == {j \in 0 .. Len(s) : sum[j] # bytes[j]}
  <2>1. Differ \in SUBSET Nat /\ Differ # {}
    BY <1>1, <1>7
  <2>2. Min(Differ) \in Differ /\ \A j \in Differ : Min(Differ) <= j
    BY <2>1, MinInSet
  <2> DEFINE m == Min(Differ)
  <2>3. m \in 0 .. Len(s) /\ sum[m] # bytes[m]
    BY <2>2
  <2>4. m # 0
    BY <1>5, <1>6, <2>3
  <2>5. m \in 1 .. Len(s) /\ m - 1 \in 0 .. Len(s)
    BY <1>1, <2>3, <2>4
  <2>6. m - 1 \notin Differ
    BY <2>2, <2>5
  <2>7. sum[m - 1] = bytes[m - 1]
    BY <2>5, <2>6
  <2> QED  BY <1>5, <1>6, <2>3, <2>5, <2>7
<1>8. sum[Len(s)] = bytes[Len(s)]
  BY <1>1, <1>7
<1>9. bytes[Len(s)] = HistoryBytes(s)
  BY <1>1, BytesAddUp DEF bytes
<1> QED  BY <1>4, <1>8, <1>9

\* Dropping messages drops bytes.
LEMMA SuffixIsSmaller ==
  ASSUME NEW s \in Seq(Message), NEW k \in 0 .. Len(s)
  PROVE  HistoryBytes(DropFirst(s, k)) <= HistoryBytes(s)
<1> DEFINE t == DropFirst(s, k)
           shift == [p \in BytePositions(t) |-> <<k + p[1], p[2]>>]
<1>1. /\ t \in Seq(Message) /\ Len(t) = Len(s) - k /\ Len(s) \in Nat /\ Len(t) \in Nat
      /\ \A i \in 1 .. Len(t) : t[i] = s[k + i]
  BY DropFirstIsSuffix, LenProperties
<1> HIDE DEF t
<1>2. ASSUME NEW p \in BytePositions(t)
      PROVE  /\ p[1] \in 1 .. Len(t) /\ p = <<p[1], p[2]>>
             /\ <<k + p[1], p[2]>> \in BytePositions(s)
  <2>1. PICK i \in 1 .. Len(t) : \E b \in 1 .. t[i].size : p = <<i, b>>
    BY <1>1, BytePositionsAre
  <2>2. PICK b \in 1 .. t[i].size : p = <<i, b>>
    BY <2>1
  <2>3. p[1] = i /\ p[2] = b
    BY <2>2
  <2>4. k + i \in 1 .. Len(s) /\ b \in 1 .. s[k + i].size
    BY <1>1
  <2>5. <<k + i, b>> \in BytePositions(s)
    BY <2>4, BytePositionsAre
  <2> QED  BY <2>2, <2>3, <2>5
<1>3. shift \in Injection(BytePositions(t), BytePositions(s))
  <2>1. shift \in [BytePositions(t) -> BytePositions(s)]
    BY <1>2
  <2>2. ASSUME NEW p \in BytePositions(t), NEW q \in BytePositions(t), shift[p] = shift[q]
        PROVE  p = q
    <3>1. k + p[1] = k + q[1] /\ p[2] = q[2]
      BY <2>2
    <3>2. p[1] \in 1 .. Len(t) /\ q[1] \in 1 .. Len(t)
      BY <1>2, Zenon
    <3>3. p[1] = q[1]
      BY ONLY <1>1, <3>1, <3>2, k \in 0 .. Len(s)
    <3> QED  BY <1>2, <3>1, <3>3, Zenon
  <2> QED  BY <2>1, <2>2 DEF Injection, IsInjective
<1>4. IsFiniteSet(BytePositions(s))
  BY BytePositionsFinite
<1> QED  BY <1>3, <1>4, FS_Injection, Zenon DEF HistoryBytes, t

\* A loop that goes from k to k + 1 while k is in Bad, and then returns done[k].
Loop(n, Bad, done, f) == [k \in 0 .. n |-> IF k \in Bad THEN f[k + 1] ELSE done[k]]

\* It arrives at the least place where it may stop.
LEMMA LoopArrives ==
  ASSUME NEW n \in Nat, NEW Bad \in SUBSET (0 .. n), n \notin Bad, NEW done
  PROVE  /\ \E f : f = Loop(n, Bad, done, f)
         /\ \A f : f = Loop(n, Bad, done, f) => f[0] = done[Min((0 .. n) \ Bad)]
<1> DEFINE From(k) == {j \in k .. n : j \notin Bad}
           arrive == [k \in 0 .. n |-> done[Min(From(k))]]
<1>1. ASSUME NEW k \in 0 .. n
      PROVE  /\ Min(From(k)) \in From(k)
             /\ \A j \in From(k) : Min(From(k)) <= j
  <2>1. From(k) \in SUBSET Nat /\ n \in From(k)
    OBVIOUS
  <2> QED  BY <2>1, MinInSet
<1>2. ASSUME NEW k \in 0 .. n
      PROVE  arrive[k] = IF k \in Bad THEN arrive[k + 1] ELSE done[k]
  <2>1. CASE k \in Bad
    <3>1. k + 1 \in 0 .. n
      BY <2>1
    <3>2. From(k) = From(k + 1)
      BY <2>1
    <3> HIDE DEF From
    <3> QED  BY <2>1, <3>1, <3>2
  <2>2. CASE k \notin Bad
    <3>1. k \in From(k)
      BY <2>2
    <3>2. Min(From(k)) \in Nat /\ k <= Min(From(k)) /\ Min(From(k)) <= k
      BY <1>1, <3>1
    <3>3. Min(From(k)) = k
      BY ONLY <3>2, k \in 0 .. n, n \in Nat
    <3> QED  BY <2>2, <3>3
  <2> QED  BY <2>1, <2>2
<1>3. arrive = Loop(n, Bad, done, arrive)
  BY <1>2 DEF Loop
<1>4. From(0) = (0 .. n) \ Bad
  OBVIOUS
<1> HIDE DEF From
<1>5. arrive[0] = done[Min((0 .. n) \ Bad)]
  BY <1>4
<1> HIDE DEF arrive
<1>6. ASSUME NEW f, f = Loop(n, Bad, done, f)
      PROVE  f[0] = arrive[0]
  <2>1. \A k \in 0 .. n : f[k] = IF k \in Bad THEN f[k + 1] ELSE done[k]
    BY <1>6 DEF Loop
  <2>2. \A k \in 0 .. n : arrive[k] = IF k \in Bad THEN arrive[k + 1] ELSE done[k]
    BY <1>2
  <2> DEFINE Differ == {d \in 0 .. n : f[n - d] # arrive[n - d]}
  <2>3. ASSUME Differ # {}
        PROVE  FALSE
    <3>1. Differ \in SUBSET Nat
      OBVIOUS
    <3>2. Min(Differ) \in Differ /\ \A j \in Differ : Min(Differ) <= j
      BY <2>3, <3>1, MinInSet
    <3> DEFINE d == Min(Differ)
    <3>3. d \in 0 .. n /\ f[n - d] # arrive[n - d]
      BY <3>2
    <3>4. n - d \in 0 .. n
      BY <3>3
    <3>5. n - d \in Bad /\ f[n - d + 1] # arrive[n - d + 1]
      BY <2>1, <2>2, <3>3, <3>4
    <3>6. d # 0
      BY <3>5
    <3>7. d - 1 \in 0 .. n /\ n - (d - 1) = n - d + 1
      BY <3>3, <3>6
    <3>8. d - 1 \in Differ
      BY <3>5, <3>7
    <3> QED  BY <3>2, <3>3, <3>8
  <2>4. n \in 0 .. n /\ n - n = 0
    BY ONLY n \in Nat
  <2>5. Differ = {}
    BY <2>3, Zenon
  <2> QED  BY <2>4, <2>5
<1> QED  BY <1>3, <1>5, <1>6

\* What the first loop arrives at: the longest suffix within both limits.
LEMMA FirstLoopArrives ==
  ASSUME NEW s \in Seq(Message), NEW limit \in Nat
  PROVE  \E k \in 0 .. Len(s) :
           /\ DropWhileTooLarge(s, limit) = DropFirst(s, k)
           /\ Len(s) - k <= limit /\ HistoryBytes(DropFirst(s, k)) <= MaxHistoryBytes
           /\ \A j \in 0 .. Len(s) :
                Len(s) - j <= limit /\ HistoryBytes(DropFirst(s, j)) <= MaxHistoryBytes => k <= j
<1> DEFINE n == Len(s)
           TooLarge(k) == n - k > limit \/ SumOfSizes(DropFirst(s, k)) > MaxHistoryBytes
           Bad == {k \in 0 .. n : TooLarge(k)}
           done == [k \in 0 .. n |-> DropFirst(s, k)]
           Step(f) == [k \in 0 .. n |-> IF TooLarge(k) THEN f[k + 1] ELSE DropFirst(s, k)]
           after == CHOOSE f : f = Step(f)
<1>1. n \in Nat
  BY LenProperties
<1>2. DropWhileTooLarge(s, limit) = after[0]
  BY DEF DropWhileTooLarge
<1>3. ASSUME NEW k \in 0 .. n
      PROVE  /\ SumOfSizes(DropFirst(s, k)) = HistoryBytes(DropFirst(s, k))
             /\ HistoryBytes(DropFirst(s, k)) \in Nat
  <2>1. DropFirst(s, k) \in Seq(Message)
    BY DropFirstIsSuffix
  <2> QED  BY <2>1, SumIsBytes, BytePositionsFinite
<1>4. ASSUME NEW f
      PROVE  Step(f) = Loop(n, Bad, done, f)
  <2> HIDE DEF TooLarge
  <2> QED  BY DEF Loop
<1>5. n \notin Bad
  <2>1. DropFirst(s, n) \in Seq(Message) /\ Len(DropFirst(s, n)) = 0
    BY <1>1, DropFirstIsSuffix
  <2>2. BytePositions(DropFirst(s, n)) = {}
    <3>1. 1 .. 0 = {}
      OBVIOUS
    <3> QED  BY <2>1, <3>1, BytePositionsAre, Zenon
  <2>3. HistoryBytes(DropFirst(s, n)) = 0
    BY <2>2, FS_EmptySet DEF HistoryBytes
  <2> QED  BY <1>1, <1>3, <2>3, LimitsAssumption
<1>6. Bad \in SUBSET (0 .. n)
  OBVIOUS
<1> HIDE DEF Step, Bad, done
<1>7. /\ \E f : f = Loop(n, Bad, done, f)
      /\ \A f : f = Loop(n, Bad, done, f) => f[0] = done[Min((0 .. n) \ Bad)]
  BY <1>1, <1>5, <1>6, LoopArrives
<1>8. after = Step(after)
  <2>1. \E f : f = Step(f)
    BY <1>4, <1>7
  <2> QED  BY <2>1
<1>9. after[0] = done[Min((0 .. n) \ Bad)]
  BY <1>4, <1>7, <1>8
<1>10. /\ Min((0 .. n) \ Bad) \in (0 .. n) \ Bad
       /\ \A j \in (0 .. n) \ Bad : Min((0 .. n) \ Bad) <= j
  <2>1. (0 .. n) \ Bad \in SUBSET Nat /\ n \in (0 .. n) \ Bad
    BY <1>1, <1>5
  <2> QED  BY <2>1, MinInSet
<1>11. ASSUME NEW k \in 0 .. n
       PROVE  k \notin Bad <=>
                n - k <= limit /\ HistoryBytes(DropFirst(s, k)) <= MaxHistoryBytes
  <2>1. n - k \in Int /\ MaxHistoryBytes \in Int
    BY <1>1, LimitsAssumption
  <2> QED  BY <1>3, <2>1 DEF Bad
<1> DEFINE k1 == Min((0 .. n) \ Bad)
<1>12. k1 \in 0 .. n /\ k1 \notin Bad
  BY <1>10
<1>13. DropWhileTooLarge(s, limit) = DropFirst(s, k1)
  BY <1>2, <1>9, <1>12 DEF done
<1> HIDE DEF k1
<1>14. \A j \in 0 .. n : j \notin Bad => k1 <= j
  BY <1>10 DEF k1
<1> QED  BY <1>11, <1>12, <1>13, <1>14

\* What the second loop arrives at: the longest suffix that begins with no answer.
LEMMA SecondLoopArrives ==
  ASSUME NEW s \in Seq(Message)
  PROVE  \E k \in 0 .. Len(s) :
           /\ DropLeadingAnswers(s) = DropFirst(s, k)
           /\ NoLeadingAnswer(DropFirst(s, k))
           /\ \A j \in 0 .. Len(s) : NoLeadingAnswer(DropFirst(s, j)) => k <= j
<1> DEFINE n == Len(s)
           Answer(k) == k < n /\ s[k + 1].role = "Assistant"
           Bad == {k \in 0 .. n : Answer(k)}
           done == [k \in 0 .. n |-> DropFirst(s, k)]
           Step(f) == [k \in 0 .. n |-> IF Answer(k) THEN f[k + 1] ELSE DropFirst(s, k)]
           after == CHOOSE f : f = Step(f)
<1>1. n \in Nat
  BY LenProperties
<1>2. DropLeadingAnswers(s) = after[0]
  BY DEF DropLeadingAnswers
<1>3. ASSUME NEW k \in 0 .. n
      PROVE  Answer(k) <=> ~NoLeadingAnswer(DropFirst(s, k))
  <2>1. /\ DropFirst(s, k) \in Seq(Message)
        /\ Len(DropFirst(s, k)) = n - k
        /\ \A i \in 1 .. n - k : DropFirst(s, k)[i] = s[k + i]
    BY DropFirstIsSuffix
  <2>2. CASE k = n
    <3>1. DropFirst(s, k) = <<>>
      BY <1>1, <2>1, <2>2, EmptySeq
    <3> QED  BY <1>1, <2>2, <3>1 DEF NoLeadingAnswer
  <2>3. CASE k # n
    <3>1. k < n /\ 1 \in 1 .. n - k /\ k + 1 \in 1 .. n
      BY <1>1, <2>3
    <3>2. DropFirst(s, k) # <<>>
      BY <2>1, <3>1, EmptySeq
    <3>3. DropFirst(s, k)[1] = s[k + 1]
      BY <2>1, <3>1
    <3>4. s[k + 1].role \in Role
      <4>1. s[k + 1] \in Message
        BY <3>1, ElementOfSeq
      <4> QED  BY <4>1 DEF Message
    <3> QED  BY <3>1, <3>2, <3>3, <3>4 DEF NoLeadingAnswer, Role
  <2> QED  BY <2>2, <2>3
<1>4. ASSUME NEW f
      PROVE  Step(f) = Loop(n, Bad, done, f)
  <2> HIDE DEF Answer
  <2> QED  BY DEF Loop
<1>5. n \notin Bad
  BY <1>1
<1>6. Bad \in SUBSET (0 .. n)
  OBVIOUS
<1>11. \A k \in 0 .. n : k \notin Bad <=> NoLeadingAnswer(DropFirst(s, k))
  BY <1>3
<1> HIDE DEF Step, Bad, done
<1>7. /\ \E f : f = Loop(n, Bad, done, f)
      /\ \A f : f = Loop(n, Bad, done, f) => f[0] = done[Min((0 .. n) \ Bad)]
  BY <1>1, <1>5, <1>6, LoopArrives
<1>8. after = Step(after)
  <2>1. \E f : f = Step(f)
    BY <1>4, <1>7
  <2> QED  BY <2>1
<1>9. after[0] = done[Min((0 .. n) \ Bad)]
  BY <1>4, <1>7, <1>8
<1>10. /\ Min((0 .. n) \ Bad) \in (0 .. n) \ Bad
       /\ \A j \in (0 .. n) \ Bad : Min((0 .. n) \ Bad) <= j
  <2>1. (0 .. n) \ Bad \in SUBSET Nat /\ n \in (0 .. n) \ Bad
    BY <1>1, <1>5
  <2> QED  BY <2>1, MinInSet
<1> DEFINE k2 == Min((0 .. n) \ Bad)
<1>12. k2 \in 0 .. n /\ k2 \notin Bad
  BY <1>10
<1>13. DropLeadingAnswers(s) = DropFirst(s, k2)
  BY <1>2, <1>9, <1>12 DEF done
<1> HIDE DEF k2
<1>14. \A j \in 0 .. n : j \notin Bad => k2 <= j
  BY <1>10 DEF k2
<1> QED  BY <1>11, <1>12, <1>13, <1>14

\* Dropping twice is dropping once.
LEMMA DropTwice ==
  ASSUME NEW s \in Seq(Message), NEW k \in 0 .. Len(s), NEW j \in 0 .. Len(s) - k
  PROVE  DropFirst(DropFirst(s, k), j) = DropFirst(s, k + j)
<1> DEFINE t == DropFirst(s, k)
           u == DropFirst(t, j)
           v == DropFirst(s, k + j)
<1>1. Len(s) \in Nat
  BY LenProperties
<1>2. /\ t \in Seq(Message) /\ Len(t) = Len(s) - k
      /\ \A i \in 1 .. Len(s) - k : t[i] = s[k + i]
  BY DropFirstIsSuffix
<1> HIDE DEF t
<1>3. /\ u \in Seq(Message) /\ Len(u) = Len(s) - k - j
      /\ \A i \in 1 .. Len(s) - k - j : u[i] = t[j + i]
  <2>1. j \in 0 .. Len(t) /\ Len(t) - j = Len(s) - k - j
    BY <1>1, <1>2
  <2> QED  BY <1>2, <2>1, DropFirstIsSuffix
<1>4. k + j \in 0 .. Len(s)
  BY <1>1
<1>5. /\ v \in Seq(Message) /\ Len(v) = Len(s) - (k + j)
      /\ \A i \in 1 .. Len(s) - (k + j) : v[i] = s[(k + j) + i]
  BY <1>4, DropFirstIsSuffix
<1> HIDE DEF u, v
<1>6. Len(u) = Len(v)
  BY <1>1, <1>3, <1>5
<1>7. ASSUME NEW i \in 1 .. Len(u)
      PROVE  u[i] = v[i]
  <2>1. /\ i \in 1 .. Len(s) - k - j /\ j + i \in 1 .. Len(s) - k
        /\ i \in 1 .. Len(s) - (k + j)
        /\ k + (j + i) = (k + j) + i
    BY <1>1, <1>3
  <2> QED  BY <1>2, <1>3, <1>5, <2>1
<1> QED  BY <1>3, <1>5, <1>6, <1>7, SeqEqual DEF t, u, v

\* For every history and every limit the two loops leave what Trim leaves.
LEMMA LoopsTrim ==
  ASSUME NEW s \in Seq(Message), NEW limit \in Nat
  PROVE  Trim(s, limit) = TrimLoops(s, limit)
<1> DEFINE Fits(k) == Len(s) - k <= limit /\ HistoryBytes(DropFirst(s, k)) <= MaxHistoryBytes
           Drops == {k \in 0 .. Len(s) : IsTrimmed(DropFirst(s, k), limit)}
<1>1. Len(s) \in Nat /\ MaxHistoryBytes \in Nat
  BY LenProperties, LimitsAssumption
<1>2. PICK k1 \in 0 .. Len(s) :
        /\ DropWhileTooLarge(s, limit) = DropFirst(s, k1)
        /\ Fits(k1)
        /\ \A j \in 0 .. Len(s) : Fits(j) => k1 <= j
  BY FirstLoopArrives
<1> DEFINE t == DropFirst(s, k1)
<1>3. t \in Seq(Message) /\ Len(t) = Len(s) - k1
  BY DropFirstIsSuffix
<1>4. PICK k2 \in 0 .. Len(t) :
        /\ DropLeadingAnswers(t) = DropFirst(t, k2)
        /\ NoLeadingAnswer(DropFirst(t, k2))
        /\ \A j \in 0 .. Len(t) : NoLeadingAnswer(DropFirst(t, j)) => k2 <= j
  <2> HIDE DEF t
  <2> QED  BY <1>3, SecondLoopArrives
<1>5. \A j \in 0 .. Len(s) - k1 : DropFirst(t, j) = DropFirst(s, k1 + j)
  BY DropTwice
<1>6. /\ k1 + k2 \in 0 .. Len(s)
      /\ DropFirst(t, k2) = DropFirst(s, k1 + k2)
  BY <1>1, <1>3, <1>4, <1>5
<1>7. TrimLoops(s, limit) = DropFirst(s, k1 + k2)
  BY <1>2, <1>4, <1>6 DEF TrimLoops
<1>8. k1 + k2 \in Drops
  <2>1. HistoryBytes(DropFirst(t, k2)) <= HistoryBytes(t)
    BY <1>3, SuffixIsSmaller
  <2>2. HistoryBytes(DropFirst(t, k2)) \in Nat /\ HistoryBytes(t) \in Nat
    <3>1. DropFirst(t, k2) \in Seq(Message)
      BY <1>3, DropFirstIsSuffix
    <3> QED  BY <1>3, <3>1, BytePositionsFinite
  <2>3. HistoryBytes(t) <= MaxHistoryBytes
    BY <1>2
  <2>4. HistoryBytes(DropFirst(s, k1 + k2)) <= MaxHistoryBytes
    BY <1>1, <1>6, <2>1, <2>2, <2>3
  <2>5. Len(DropFirst(s, k1 + k2)) = Len(s) - (k1 + k2)
    BY <1>6, DropFirstIsSuffix
  <2>6. Len(s) - (k1 + k2) <= limit
    BY <1>1, <1>2
  <2>7. NoLeadingAnswer(DropFirst(s, k1 + k2))
    BY <1>4, <1>6
  <2> QED  BY <1>6, <2>4, <2>5, <2>6, <2>7 DEF IsTrimmed
<1>9. ASSUME NEW j \in Drops
      PROVE  k1 + k2 <= j
  <2>1. j \in 0 .. Len(s) /\ IsTrimmed(DropFirst(s, j), limit)
    OBVIOUS
  <2>2. Len(DropFirst(s, j)) = Len(s) - j
    BY <2>1, DropFirstIsSuffix
  <2>3. k1 <= j
    BY <1>2, <2>1, <2>2 DEF IsTrimmed
  <2>4. j - k1 \in 0 .. Len(s) - k1 /\ k1 + (j - k1) = j
    BY <1>1, <2>1, <2>3
  <2>5. NoLeadingAnswer(DropFirst(t, j - k1))
    BY <1>5, <2>1, <2>4 DEF IsTrimmed
  <2>6. k2 <= j - k1
    BY <1>3, <1>4, <2>4, <2>5
  <2> QED  BY <1>1, <1>3, <2>1, <2>6
<1>10. Min(Drops) = k1 + k2
  <2>1. Drops \in SUBSET Nat /\ Drops # {}
    BY <1>1, <1>8
  <2>2. Min(Drops) \in Drops /\ \A j \in Drops : Min(Drops) <= j
    BY <2>1, MinInSet
  <2>3. Min(Drops) <= k1 + k2 /\ k1 + k2 <= Min(Drops) /\ Min(Drops) \in Nat
    BY <1>8, <1>9, <2>1, <2>2
  <2> HIDE DEF Drops
  <2> QED  BY ONLY <2>3, k1 \in 0 .. Len(s), k2 \in 0 .. Len(t)
<1> QED  BY <1>7, <1>10 DEF Trim

-----------------------------------------------------------------------------
(* The inductive invariant.  RetryIsUsable needs to know that a run that   *)
(* has not failed carries no error of an earlier one, and that the request *)
(* that could be retried is known while it runs.                           *)

ActiveRunIsFresh ==
  active # None => /\ retrySeed # None
                   /\ ~canRetry
                   /\ active.transcript.error = NoError

IInv ==
  /\ TypeOK
  /\ HistoryBounded
  /\ PendingIsActive
  /\ RetryIsUsable
  /\ IdleHistoryStartsWithUser
  /\ ActiveRunIsFresh

LEMMA InitEstablishesIInv == Init => IInv
<1> SUFFICES ASSUME Init PROVE IInv
  OBVIOUS
<1> USE DEF Init
<1>1. Len(<<>>) = 0 /\ DOMAIN <<>> = {} /\ <<>> \in Seq(Message)
  BY EmptySeq, LenProperties
<1>2. HistoryBytes(<<>>) = 0
  <2>1. BytePositions(<<>>) = {}
    BY <1>1 DEF BytePositions
  <2> QED  BY <2>1, FS_EmptySet DEF HistoryBytes
<1>3. TypeOK
  <2>1. nextRequestId \in RequestId
    BY LimitsAssumption DEF RequestId
  <2>2. messages \in Seq(Message)
    BY <1>1
  <2> QED  BY <2>1, <2>2, Zenon DEF TypeOK
<1>4. HistoryBounded
  BY <1>1, <1>2, LimitsAssumption DEF HistoryBounded
<1>5. PendingIsActive /\ RetryIsUsable /\ ActiveRunIsFresh
  BY <1>1 DEF PendingIsActive, RetryIsUsable, ActiveRunIsFresh
<1>6. IdleHistoryStartsWithUser
  BY DEF IdleHistoryStartsWithUser, NoLeadingAnswer
<1> QED  BY <1>3, <1>4, <1>5, <1>6 DEF IInv

\* Between requests every message is settled.
LEMMA IdleIsSettled ==
  ASSUME TypeOK, PendingIsActive, active = None
  PROVE  Settled(messages)
<1>1. DOMAIN messages = 1 .. Len(messages)
  BY LenProperties DEF TypeOK
<1> QED  BY <1>1 DEF PendingIsActive, Settled

\* begin and retry: whatever settled history they start from, if it leaves
\* room for the answer and its bytes exceed the limit by at most one prompt.
LEMMA BeginWithRequestKeepsIInv ==
  ASSUME IInv, NEW history \in Seq(Message),
         Settled(history),
         Len(history) < MaxHistoryMessages,
         HistoryBytes(history) <= MaxHistoryBytes + MaxPromptBytes,
         BeginWithRequest(history), retrySeed' \in Connectors
  PROVE  IInv'
<1> USE DEF BeginWithRequest
<1> DEFINE new == [transcript |-> NewTranscript(nextRequestId),
                   index |-> Len(history) + 1, stop |-> FALSE]
<1>1. /\ Len(history) \in Nat
      /\ PendingAnswer \in Message
      /\ messages' \in Seq(Message)
      /\ Len(messages') = Len(history) + 1
      /\ DOMAIN messages' = 1 .. Len(history) + 1
      /\ \A i \in 1 .. Len(history) : messages'[i] = history[i]
      /\ messages'[Len(history) + 1] = PendingAnswer
  <2>1. PendingAnswer \in Message
    BY DEF PendingAnswer, Message, Role
  <2> QED  BY <2>1, AppendProperties, LenProperties
<1>2. active' = new /\ new \in ActiveRequest /\ active' # None
  <2>1. nextRequestId \in RequestId
    BY DEF IInv, TypeOK
  <2>2. NewTranscript(nextRequestId) \in Transcript(RequestId)
    BY <2>1 DEF NewTranscript, Transcript, RunPhase
  <2>3. new \in ActiveRequest
    BY <1>1, <2>2 DEF ActiveRequest
  <2> QED  BY <2>3, NoneAssumption
<1>3. TypeOK'
  <2>1. nextRequestId' \in RequestId
    BY LimitsAssumption DEF IInv, TypeOK, RequestId, AllocateRequestId
  <2> QED  BY <1>1, <1>2, <2>1 DEF TypeOK, RunPhase
<1>4. SubSeq(messages', 1, Len(messages') - 1) = history
  <2>1. /\ SubSeq(messages', 1, Len(history)) \in Seq(Message)
        /\ Len(SubSeq(messages', 1, Len(history))) = Len(history)
        /\ \A i \in 1 .. Len(history) : SubSeq(messages', 1, Len(history))[i] = messages'[i]
    <3>1. \A i \in 1 .. Len(history) : messages'[i] \in Message
      BY <1>1, ElementOfSeq
    <3> DEFINE sub == SubSeq(messages', 1, Len(history))
    <3>2. /\ sub \in Seq(Message)
          /\ Len(sub) = IF 1 <= Len(history) THEN Len(history) - 1 + 1 ELSE 0
          /\ \A i \in 1 .. Len(history) - 1 + 1 : sub[i] = messages'[1 + i - 1]
      BY <1>1, <3>1, SubSeqProperties
    <3> HIDE DEF sub
    <3>3. Len(sub) = Len(history) /\ \A i \in 1 .. Len(history) : sub[i] = messages'[i]
      BY <1>1, <3>2
    <3> QED  BY <3>2, <3>3 DEF sub
  <2>2. SubSeq(messages', 1, Len(history)) = history
    BY <1>1, <2>1, SeqEqual
  <2> QED  BY <1>1, <2>2
<1>5. HistoryBounded'
  <2>1. Len(messages') <= MaxHistoryMessages
    BY <1>1, LimitsAssumption
  <2>2. HistoryBytes(SubSeq(messages', 1, Len(messages') - 1))
          <= MaxHistoryBytes + MaxPromptBytes
    BY <1>4
  <2>3. messages'[Len(messages')].size <= MaxResponseBytes
    BY <1>1, LimitsAssumption DEF PendingAnswer
  <2> QED  BY <1>2, <2>1, <2>2, <2>3 DEF HistoryBounded
<1>6. PendingIsActive'
  BY <1>1, <1>2 DEF PendingIsActive, PendingAnswer, Settled, NewTranscript, IsTerminal
<1>7. RetryIsUsable' /\ IdleHistoryStartsWithUser'
  BY <1>2 DEF RetryIsUsable, IdleHistoryStartsWithUser
<1>8. ActiveRunIsFresh'
  BY <1>2, NoneAssumption DEF ActiveRunIsFresh, NewTranscript
<1> QED  BY <1>3, <1>5, <1>6, <1>7, <1>8 DEF IInv

\* The end of a run, however it ended, with an error only if it failed.
LEMMA FinishKeepsIInv ==
  ASSUME IInv, active # None,
         NEW t \in Transcript(RequestId),
         IsRetryable(t) => t.phase = "Failed",
         Finish(t)
  PROVE  IInv'
<1> DEFINE i == active.index
           m == messages[i]
           answer == [m EXCEPT !.size = AnswerBytes(t),
                               !.pending = FALSE,
                               !.failed = (t.phase = "Failed")]
           ended == [messages EXCEPT ![i] = answer]
<1>1. /\ messages \in Seq(Message) /\ Len(messages) \in Nat
      /\ DOMAIN messages = 1 .. Len(messages)
      /\ i \in 1 .. Len(messages)
      /\ messages[i] \in Message
  <2>1. messages \in Seq(Message) /\ active \in ActiveRequest
    BY DEF IInv, TypeOK
  <2>2. Len(messages) \in Nat /\ DOMAIN messages = 1 .. Len(messages)
    BY <2>1, LenProperties
  <2>3. i \in Nat \ {0} /\ i = Len(messages)
    BY <2>1 DEF IInv, PendingIsActive, ActiveRequest
  <2>4. i \in 1 .. Len(messages)
    BY <2>2, <2>3
  <2>5. messages[i] \in Message
    BY <2>1, <2>4, ElementOfSeq
  <2> QED  BY <2>1, <2>2, <2>4, <2>5
<1>2. answer \in Message /\ answer.pending = FALSE
  <2>1. AnswerBytes(t) \in Nat
    BY LimitsAssumption DEF AnswerBytes, Transcript, ConnectorError, NoError
  <2> QED  BY <1>1, <2>1 DEF Message
<1>3. ended \in Seq(Message) /\ Len(ended) = Len(messages)
  BY <1>1, <1>2, ExceptSeq
<1>4. Settled(ended)
  <2>1. \A j \in 1 .. Len(messages) : ended[j] = IF j = i THEN answer ELSE messages[j]
    BY <1>1
  <2>2. \A j \in 1 .. Len(messages) : j # i => ~messages[j].pending
    BY <1>1 DEF IInv, PendingIsActive
  <2> QED  BY <1>2, <1>3, <2>1, <2>2 DEF Settled
<1>5. [messages EXCEPT ![active.index].size    = AnswerBytes(t),
                       ![active.index].pending = FALSE,
                       ![active.index].failed  = (t.phase = "Failed")] = ended
  BY <1>1
<1>6. /\ messages' = Trim(ended, MaxHistoryMessages)
      /\ active' = None
      /\ canRetry' = IsRetryable(t)
      /\ lastPhase' = t.phase
      /\ lastError' = t.error
      /\ nextRequestId' = nextRequestId /\ retrySeed' = retrySeed
  BY <1>5 DEF Finish
<1> HIDE DEF ended
<1>7. /\ messages' \in Seq(Message)
      /\ Len(messages') <= MaxHistoryMessages
      /\ HistoryBytes(messages') <= MaxHistoryBytes
      /\ NoLeadingAnswer(messages')
      /\ Settled(messages')
  BY <1>3, <1>4, <1>6, TrimFacts, TrimKeepsSettled, LimitsAssumption
<1>8. TypeOK'
  <2>1. canRetry' \in BOOLEAN
    BY <1>6 DEF IsRetryable, IsRetryableCode
  <2>2. /\ lastPhase' \in RunPhase \cup {"None"}
        /\ lastError' \in ConnectorError \cup {NoError}
    BY <1>6 DEF Transcript
  <2>3. nextRequestId' \in RequestId /\ retrySeed' \in Connectors \cup {None}
    BY <1>6 DEF IInv, TypeOK
  <2> QED  BY <1>6, <1>7, <2>1, <2>2, <2>3, Zenon DEF TypeOK
<1>9. HistoryBounded' /\ IdleHistoryStartsWithUser' /\ ActiveRunIsFresh'
  BY <1>6, <1>7 DEF HistoryBounded, IdleHistoryStartsWithUser, ActiveRunIsFresh
<1>10. PendingIsActive'
  <2>1. DOMAIN messages' = 1 .. Len(messages')
    BY <1>7, LenProperties
  <2> QED  BY <1>6, <1>7, <2>1 DEF PendingIsActive, Settled
<1>11. RetryIsUsable'
  <2>1. retrySeed # None
    BY DEF IInv, ActiveRunIsFresh
  <2> QED  BY <1>6, <2>1 DEF RetryIsUsable, IsRetryable
<1> QED  BY <1>8, <1>9, <1>10, <1>11 DEF IInv

\* A run that ends early, with the error the controller gives it.
LEMMA FinishFailedKeepsIInv ==
  ASSUME IInv, active # None, NEW err \in ConnectorError, FinishFailed(err)
  PROVE  IInv'
<1> DEFINE t == [active.transcript EXCEPT !.phase = "Failed", !.error = err]
<1>1. active.transcript \in Transcript(RequestId)
  BY DEF IInv, TypeOK, ActiveRequest
<1>2. t \in Transcript(RequestId) /\ t.phase = "Failed"
  BY <1>1 DEF Transcript, RunPhase
<1>3. Finish(t)
  BY DEF FinishFailed
<1> HIDE DEF t
<1> QED  BY <1>2, <1>3, FinishKeepsIInv

\* What a connector can send: only a delta has text, only a failure an error.
LEMMA EventTypes ==
  ASSUME NEW id \in RequestId, NEW e \in EventsOf(id)
  PROVE  /\ e.kind \in EventKind
         /\ e.size \in Nat
         /\ e.kind # "TextDelta" => e.size = 0
         /\ e.kind = "Failed" => e.error \in ConnectorError
<1> USE DEF Event, TextDelta, FailedEvent, EventKind
<1>1. CASE \E kind \in {"Started", "Completed", "Cancelled"} : e = Event(kind, id)
  BY <1>1
<1>2. CASE \E n \in DeltaSizes : e = TextDelta(id, n)
  BY <1>2, InputsAssumption
<1>3. CASE \E err \in Errors : e = FailedEvent(id, err)
  BY <1>3, InputsAssumption
<1> QED  BY <1>1, <1>2, <1>3 DEF EventsOf

\* The transcript after an event the reducer accepts.
LEMMA AfterEventFacts ==
  ASSUME IInv, active # None, NEW id \in RequestId, NEW e \in EventsOf(id)
  PROVE  LET t == AfterEvent(active.transcript, e)
         IN  /\ t \in Transcript(RequestId)
             /\ t.id = active.transcript.id
             /\ t.phase = IF IsTerminal(e.kind) THEN e.kind ELSE "Streaming"
             /\ t.size = active.transcript.size + e.size
             /\ e.kind # "Failed" => t.error = NoError
<1>1. active.transcript \in Transcript(RequestId) /\ active.transcript.error = NoError
  BY DEF IInv, TypeOK, ActiveRequest, ActiveRunIsFresh
<1> DEFINE r == active.transcript
<1> HIDE DEF r
<1>2. r \in Transcript(RequestId) /\ r.error = NoError
  BY <1>1 DEF r
<1>3. /\ e.kind \in EventKind /\ e.size \in Nat
      /\ e.kind = "Failed" => e.error \in ConnectorError
  BY EventTypes
<1>4. r.size \in Nat
  BY <1>2 DEF Transcript
<1>5. /\ AfterEvent(r, e) \in Transcript(RequestId)
      /\ AfterEvent(r, e).id = r.id
      /\ AfterEvent(r, e).phase = IF IsTerminal(e.kind) THEN e.kind ELSE "Streaming"
      /\ AfterEvent(r, e).size = r.size + e.size
      /\ e.kind # "Failed" => AfterEvent(r, e).error = NoError
  <2> DEFINE phase == IF IsTerminal(e.kind) THEN e.kind ELSE "Streaming"
             size == r.size + e.size
             error == IF e.kind = "Failed" THEN e.error ELSE r.error
  <2>1. phase \in RunPhase
    BY <1>3 DEF RunPhase, EventKind, IsTerminal
  <2>2. size \in Nat
    BY <1>3, <1>4
  <2>3. error \in ConnectorError \cup {NoError} /\ (e.kind # "Failed" => error = NoError)
    BY <1>2, <1>3
  <2>4. AfterEvent(r, e) = [r EXCEPT !.phase = phase, !.size = size, !.error = error]
    BY <1>2 DEF AfterEvent, Transcript
  <2> HIDE DEF phase, size, error
  <2>5. [r EXCEPT !.phase = phase, !.size = size, !.error = error] \in Transcript(RequestId)
    BY <1>2, <2>1, <2>2, <2>3 DEF Transcript
  <2>6. /\ AfterEvent(r, e).id = r.id /\ AfterEvent(r, e).phase = phase
        /\ AfterEvent(r, e).size = size /\ AfterEvent(r, e).error = error
    BY <1>2, <2>4 DEF Transcript
  <2> QED  BY <2>3, <2>4, <2>5, <2>6 DEF phase, size
<1> QED  BY <1>5 DEF r

\* Started or a delta that fits: only the last message and the active request
\* change.
LEMMA ApplyProgressFacts ==
  ASSUME IInv, NEW id \in RequestId, NEW e \in EventsOf(id), ApplyProgress(e)
  PROVE  LET t == AfterEvent(active.transcript, e)
         IN  /\ active # None /\ active' # None
             /\ active' = [active EXCEPT !.transcript = t]
             /\ active' \in ActiveRequest
             /\ active'.transcript = t
             /\ active'.index = active.index /\ active'.stop = active.stop
             /\ t.phase = "Streaming" /\ t.error = NoError
             /\ t.size \in Nat /\ t.size <= MaxResponseBytes
             /\ messages' \in Seq(Message)
             /\ Len(messages') = Len(messages)
             /\ \A j \in 1 .. Len(messages) :
                  j # active.index => messages'[j] = messages[j]
             /\ messages'[active.index].role = messages[active.index].role
             /\ messages'[active.index].pending = messages[active.index].pending
             /\ messages'[active.index].size = t.size
<1> DEFINE t == AfterEvent(active.transcript, e)
<1>1. active # None /\ active \in ActiveRequest
  BY DEF ApplyProgress, EventAccepted, IInv, TypeOK
<1>2. /\ t \in Transcript(RequestId)
      /\ t.phase = IF IsTerminal(e.kind) THEN e.kind ELSE "Streaming"
      /\ t.size = active.transcript.size + e.size
      /\ e.kind # "Failed" => t.error = NoError
  BY <1>1, AfterEventFacts
<1>3. /\ active' = [active EXCEPT !.transcript = t]
      /\ messages' = [messages EXCEPT ![active.index].size = t.size]
      /\ ~IsTerminal(e.kind) /\ ~ExceedsResponse(e)
  BY DEF ApplyProgress
<1> HIDE DEF t
<1>4. t.phase = "Streaming" /\ t.error = NoError
  BY <1>2, <1>3 DEF IsTerminal
<1>5. t.size \in Nat /\ t.size <= MaxResponseBytes
  <2>1. t.size \in Nat
    BY <1>2 DEF Transcript
  <2>2. CASE e.kind = "TextDelta"
    BY <1>2, <1>3, <2>1, <2>2, LimitsAssumption DEF ExceedsResponse, Transcript
  <2>3. CASE e.kind # "TextDelta"
    <3>1. e.size = 0
      BY <2>3, EventTypes
    <3>2. active.transcript.size <= MaxResponseBytes /\ active.transcript.size \in Nat
      BY <1>1 DEF IInv, PendingIsActive, HistoryBounded, ActiveRequest, Transcript
    <3> QED  BY <1>2, <3>1, <3>2
  <2> QED  BY <2>1, <2>2, <2>3
<1>6. /\ active' \in ActiveRequest /\ active'.transcript = t
      /\ active'.index = active.index /\ active'.stop = active.stop
  BY <1>1, <1>2, <1>3 DEF ActiveRequest
<1>7. /\ messages \in Seq(Message) /\ Len(messages) \in Nat
      /\ active.index \in 1 .. Len(messages)
      /\ messages[active.index] \in Message
  <2>1. messages \in Seq(Message) /\ active.index \in Nat \ {0}
    BY <1>1 DEF IInv, TypeOK, ActiveRequest
  <2>2. active.index = Len(messages)
    BY <1>1 DEF IInv, PendingIsActive
  <2> QED  BY <2>1, <2>2, LenProperties, ElementOfSeq
<1> DEFINE m == messages[active.index]
           answer == [m EXCEPT !.size = t.size]
<1>8. /\ answer \in Message /\ answer.size = t.size
      /\ answer.role = m.role /\ answer.pending = m.pending
  BY <1>5, <1>7 DEF Message
<1>9. messages' = [messages EXCEPT ![active.index] = answer]
  BY <1>3
<1> HIDE DEF answer
<1>10. /\ messages' \in Seq(Message) /\ Len(messages') = Len(messages)
       /\ \A j \in 1 .. Len(messages) :
            messages'[j] = IF j = active.index THEN answer ELSE messages[j]
  BY <1>7, <1>8, <1>9, ExceptSeq
<1> QED
  BY <1>1, <1>3, <1>4, <1>5, <1>6, <1>7, <1>8, <1>10, NoneAssumption DEF t

LEMMA ApplyProgressKeepsIInv ==
  ASSUME IInv, NEW id \in RequestId, NEW e \in EventsOf(id), ApplyProgress(e)
  PROVE  IInv'
<1> DEFINE i == active.index
<1>1. /\ active # None /\ active' # None /\ active' \in ActiveRequest
      /\ active'.index = i
      /\ active'.transcript.phase = "Streaming" /\ active'.transcript.error = NoError
      /\ messages' \in Seq(Message) /\ Len(messages') = Len(messages)
      /\ \A j \in 1 .. Len(messages) : j # i => messages'[j] = messages[j]
      /\ messages'[i].role = messages[i].role
      /\ messages'[i].pending = messages[i].pending
      /\ messages'[i].size = active'.transcript.size
      /\ messages'[i].size <= MaxResponseBytes
  BY ApplyProgressFacts
<1>2. UNCHANGED <<nextRequestId, retrySeed, canRetry, lastPhase, lastError>>
  BY DEF ApplyProgress
<1>3. /\ messages \in Seq(Message) /\ Len(messages) \in Nat /\ i = Len(messages)
      /\ DOMAIN messages = 1 .. Len(messages) /\ DOMAIN messages' = 1 .. Len(messages)
      /\ i \in 1 .. Len(messages)
  <2>1. messages \in Seq(Message) /\ i \in Nat \ {0} /\ i = Len(messages)
    BY <1>1 DEF IInv, TypeOK, PendingIsActive, ActiveRequest
  <2> QED  BY <1>1, <2>1, LenProperties
<1>4. TypeOK'
  BY <1>1, <1>2, Zenon DEF IInv, TypeOK
<1>5. HistoryBounded'
  <2> DEFINE n == Len(messages) - 1
  <2>1. SubSeq(messages', 1, n) = SubSeq(messages, 1, n)
    <3>1. ASSUME NEW j \in 1 .. n
          PROVE  messages'[j] = messages[j] /\ messages[j] \in Message
      <4>1. Len(messages) \in Nat /\ i = Len(messages)
        BY <1>3
      <4>2. j \in 1 .. Len(messages) /\ j # i
        BY <4>1
      <4> QED  BY <1>1, <1>3, <4>2, ElementOfSeq
    <3>2. n \in Nat
      BY <1>3
    <3> HIDE DEF n
    <3>3. /\ SubSeq(messages, 1, n) \in Seq(Message)
          /\ SubSeq(messages', 1, n) \in Seq(Message)
          /\ Len(SubSeq(messages, 1, n)) = Len(SubSeq(messages', 1, n))
          /\ Len(SubSeq(messages, 1, n)) = IF 1 <= n THEN n - 1 + 1 ELSE 0
          /\ \A j \in 1 .. n - 1 + 1 :
               /\ SubSeq(messages, 1, n)[j] = messages[1 + j - 1]
               /\ SubSeq(messages', 1, n)[j] = messages'[1 + j - 1]
      BY <3>1, <3>2, SubSeqProperties
    <3>4. Len(SubSeq(messages, 1, n)) = n
      BY <3>2, <3>3
    <3>5. \A j \in 1 .. n : SubSeq(messages, 1, n)[j] = SubSeq(messages', 1, n)[j]
      BY <3>1, <3>2, <3>3
    <3> QED  BY <3>3, <3>4, <3>5, SeqEqual
  <2>2. HistoryBytes(SubSeq(messages', 1, Len(messages') - 1))
          <= MaxHistoryBytes + MaxPromptBytes
    BY <1>1, <2>1 DEF IInv, HistoryBounded
  <2> QED  BY <1>1, <1>3, <2>2 DEF IInv, HistoryBounded
<1>6. PendingIsActive'
  <2>1. \A j \in 1 .. Len(messages) : messages'[j].pending <=> messages[j].pending
    BY <1>1
  <2>2. \A j \in 1 .. Len(messages) : messages[j].pending <=> j = i
    BY <1>1, <1>3 DEF IInv, PendingIsActive
  <2>3. messages[i].role = "Assistant"
    BY <1>1 DEF IInv, PendingIsActive
  <2> QED  BY <1>1, <1>3, <2>1, <2>2, <2>3 DEF PendingIsActive, IsTerminal
<1>7. RetryIsUsable' /\ IdleHistoryStartsWithUser' /\ ActiveRunIsFresh'
  BY <1>1, <1>2 DEF IInv, RetryIsUsable, IdleHistoryStartsWithUser, ActiveRunIsFresh
<1> QED  BY <1>4, <1>5, <1>6, <1>7 DEF IInv

LEMMA NextKeepsIInv == IInv /\ [Next]_controllerVars => IInv'
<1> SUFFICES ASSUME IInv, [Next]_controllerVars PROVE IInv'
  OBVIOUS
<1>1. CASE \E connector \in Connectors, n \in 0 .. MaxPromptBytes + 1 : Begin(connector, n)
  <2>1. PICK connector \in Connectors, n \in 0 .. MaxPromptBytes + 1 : Begin(connector, n)
    BY <1>1
  <2> DEFINE trimmed == Trim(messages, MaxHistoryMessages - 2)
             history == Append(trimmed, Prompt(n))
  <2>2. /\ n \in Nat /\ n <= MaxPromptBytes /\ active = None
        /\ BeginWithRequest(history) /\ retrySeed' \in Connectors
    BY <2>1, LimitsAssumption DEF Begin
  <2>3. messages \in Seq(Message) /\ Settled(messages)
    BY <2>2, IdleIsSettled DEF IInv, TypeOK
  <2>4. /\ trimmed \in Seq(Message) /\ Len(trimmed) <= MaxHistoryMessages - 2
        /\ HistoryBytes(trimmed) <= MaxHistoryBytes
        /\ Settled(trimmed)
    <3>1. MaxHistoryMessages - 2 \in Nat
      BY LimitsAssumption
    <3> QED  BY <2>3, <3>1, TrimFacts, TrimKeepsSettled
  <2>5. Prompt(n) \in Message /\ Prompt(n).size = n /\ ~Prompt(n).pending
    BY <2>2 DEF Prompt, Message, Role
  <2> HIDE DEF trimmed
  <2>6. /\ history \in Seq(Message) /\ Len(history) = Len(trimmed) + 1
        /\ Len(trimmed) \in Nat
        /\ \A i \in 1 .. Len(trimmed) : history[i] = trimmed[i]
        /\ history[Len(trimmed) + 1] = Prompt(n)
    BY <2>4, <2>5, AppendProperties, LenProperties
  <2>7. HistoryBytes(history) <= MaxHistoryBytes + MaxPromptBytes
    <3>1. HistoryBytes(history) <= HistoryBytes(trimmed) + n
      BY <2>4, <2>5, AppendBytes
    <3>2. HistoryBytes(history) \in Nat /\ HistoryBytes(trimmed) \in Nat
      BY <2>4, <2>6, BytePositionsFinite
    <3> QED  BY <2>2, <2>4, <3>1, <3>2, LimitsAssumption
  <2>8. Settled(history) /\ Len(history) < MaxHistoryMessages
    BY <2>4, <2>5, <2>6, LimitsAssumption DEF Settled
  <2> HIDE DEF history
  <2> QED  BY <2>2, <2>6, <2>7, <2>8, BeginWithRequestKeepsIInv
<1>2. CASE Retry
  <2> DEFINE history == Trim(messages, MaxHistoryMessages - 1)
  <2>1. messages \in Seq(Message) /\ Settled(messages) /\ retrySeed' \in Connectors
    BY <1>2, IdleIsSettled DEF IInv, TypeOK, Retry
  <2>2. MaxHistoryMessages - 1 \in Nat
    BY LimitsAssumption
  <2>3. /\ history \in Seq(Message) /\ Len(history) <= MaxHistoryMessages - 1
        /\ HistoryBytes(history) <= MaxHistoryBytes
        /\ Settled(history)
    BY <2>1, <2>2, TrimFacts, TrimKeepsSettled
  <2>4. /\ Len(history) < MaxHistoryMessages
        /\ HistoryBytes(history) <= MaxHistoryBytes + MaxPromptBytes
    BY <2>2, <2>3, LenProperties, BytePositionsFinite, LimitsAssumption
  <2>5. BeginWithRequest(history)
    BY <1>2 DEF Retry
  <2> HIDE DEF history
  <2> QED  BY <2>1, <2>3, <2>4, <2>5, BeginWithRequestKeepsIInv
<1>3. CASE ClearRetry
  <2> USE <1>3 DEF ClearRetry
  <2>1. TypeOK'
    BY DEF IInv, TypeOK
  <2>2. HistoryBounded' /\ PendingIsActive'
    BY DEF IInv, HistoryBounded, PendingIsActive
  <2>3. RetryIsUsable' /\ IdleHistoryStartsWithUser' /\ ActiveRunIsFresh'
    BY DEF IInv, RetryIsUsable, IdleHistoryStartsWithUser, ActiveRunIsFresh
  <2> QED  BY <2>1, <2>2, <2>3 DEF IInv
<1>4. CASE RequestStop
  <2>1. /\ active # None /\ active \in ActiveRequest
        /\ active' = [active EXCEPT !.stop = TRUE]
        /\ UNCHANGED <<nextRequestId, messages, retrySeed, canRetry, lastPhase, lastError>>
    BY <1>4 DEF RequestStop, IInv, TypeOK
  <2>2. /\ active' \in ActiveRequest /\ active' # None
        /\ active'.index = active.index /\ active'.transcript = active.transcript
    BY <2>1, NoneAssumption DEF ActiveRequest
  <2>3. TypeOK'
    BY <2>1, <2>2 DEF IInv, TypeOK
  <2>4. HistoryBounded' /\ PendingIsActive'
    BY <2>1, <2>2 DEF IInv, HistoryBounded, PendingIsActive
  <2>5. RetryIsUsable' /\ IdleHistoryStartsWithUser' /\ ActiveRunIsFresh'
    BY <2>1, <2>2 DEF IInv, RetryIsUsable, IdleHistoryStartsWithUser, ActiveRunIsFresh
  <2> QED  BY <2>3, <2>4, <2>5 DEF IInv
<1>5. CASE \E err \in Errors : FailToStart(err)
  BY <1>5, InputsAssumption, FinishFailedKeepsIInv DEF FailToStart
<1>6. CASE \E id \in RequestId : ChannelClosed(id)
  <2>1. ClosedError \in ConnectorError
    BY LimitsAssumption DEF ClosedError, ConnectorError, ConnectorErrorCode
  <2> QED  BY <1>6, <2>1, FinishFailedKeepsIInv DEF ChannelClosed
<1>7. CASE \E id \in RequestId : \E e \in EventsOf(id) : ApplyEvent(e)
  <2>1. PICK id \in RequestId : \E e \in EventsOf(id) : ApplyEvent(e)
    BY <1>7
  <2>2. PICK e \in EventsOf(id) : ApplyEvent(e)
    BY <2>1
  <2>3. CASE ApplyOversizeDelta(e)
    <3>1. OversizeError \in ConnectorError
      BY LimitsAssumption DEF OversizeError, ConnectorError, ConnectorErrorCode
    <3> QED  BY <2>3, <3>1, FinishFailedKeepsIInv DEF ApplyOversizeDelta, EventAccepted
  <2>4. CASE ApplyTerminal(e)
    <3> DEFINE t == AfterEvent(active.transcript, e)
    <3>1. active # None /\ IsTerminal(e.kind) /\ Finish(t)
      BY <2>4 DEF ApplyTerminal, EventAccepted
    <3>2. /\ t \in Transcript(RequestId) /\ t.phase = e.kind
          /\ e.kind # "Failed" => t.error = NoError
      BY <3>1, AfterEventFacts
    <3> HIDE DEF t
    <3>3. IsRetryable(t) => t.phase = "Failed"
      BY <3>2 DEF IsRetryable, IsRetryableCode, NoError
    <3> QED  BY <3>1, <3>2, <3>3, FinishKeepsIInv
  <2>5. CASE ApplyProgress(e)
    BY <2>5, ApplyProgressKeepsIInv
  <2> QED  BY <2>2, <2>3, <2>4, <2>5 DEF ApplyEvent
<1>8. CASE UNCHANGED controllerVars
  <2> USE <1>8 DEF controllerVars
  <2>1. TypeOK' /\ HistoryBounded' /\ PendingIsActive'
    BY DEF IInv, TypeOK, HistoryBounded, PendingIsActive
  <2>2. RetryIsUsable' /\ IdleHistoryStartsWithUser' /\ ActiveRunIsFresh'
    BY DEF IInv, RetryIsUsable, IdleHistoryStartsWithUser, ActiveRunIsFresh
  <2> QED  BY <2>1, <2>2 DEF IInv
<1> QED
  BY <1>1, <1>2, <1>3, <1>4, <1>5, <1>6, <1>7, <1>8 DEF Next

-----------------------------------------------------------------------------
(* Theorems.                                                               *)

\* The strengthened invariant holds in every reachable state.
THEOREM Invariance == Spec => []IInv
BY InitEstablishesIInv, NextKeepsIInv, PTL DEF Spec

\* Every field keeps its type, and request ids stay in the range of u64, for
\* every limit, connector set and event size.
THEOREM TypeCorrect == Spec => []TypeOK
<1>1. IInv => TypeOK
  BY DEF IInv
<1> QED  BY <1>1, Invariance, PTL

\* Trim is the two loops of trim_history: whatever the controller has in its
\* history, any questions and answers behind it, and any limit, the longest
\* faultless suffix is what the loops arrive at one message at a time.
THEOREM TrimAlwaysAgrees == Spec => []TrimAgreesWithLoops
<1>1. ASSUME TypeOK, NEW h \in Histories, NEW limit \in Limits
      PROVE  Trim(messages \o h, limit) = TrimLoops(messages \o h, limit)
  <2>1. messages \in Seq(Message)
    BY <1>1 DEF TypeOK
  <2>2. PICK n \in 0 .. MaxLength :
          h \in [1 .. n -> {[Prompt(size) EXCEPT !.role = role] :
                              role \in Role, size \in MessageSizes}]
    BY <1>1 DEF Histories
  <2>3. {[Prompt(size) EXCEPT !.role = role] : role \in Role, size \in MessageSizes}
          \subseteq Message
    <3> SUFFICES ASSUME NEW role \in Role, NEW size \in MessageSizes
                 PROVE  [Prompt(size) EXCEPT !.role = role] \in Message
      OBVIOUS
    <3>1. size \in Nat
      BY HistoriesAssumption
    <3>2. Prompt(size) \in Message
      BY <3>1 DEF Prompt, Message, Role
    <3> QED  BY <3>2 DEF Message
  <2>4. n \in Nat
    BY HistoriesAssumption
  <2>5. h \in Seq(Message)
    BY <2>2, <2>3, <2>4, SeqDef
  <2>6. messages \o h \in Seq(Message)
    BY <2>1, <2>5, ConcatProperties
  <2>7. limit \in Nat
    BY HistoriesAssumption
  <2> QED  BY <2>6, <2>7, LoopsTrim
<1>2. TypeOK => TrimAgreesWithLoops
  BY <1>1 DEF TrimAgreesWithLoops
<1> QED  BY <1>2, TypeCorrect, PTL

\* begin, retry, apply_event and finish_active together keep the history
\* within its message limit, and within its byte limit between requests.
THEOREM HistoryStaysBounded == Spec => []HistoryBounded
<1>1. IInv => HistoryBounded
  BY DEF IInv
<1> QED  BY <1>1, Invariance, PTL

\* The message index of the active request always names its pending answer.
THEOREM IndexNamesPendingAnswer == Spec => []PendingIsActive
<1>1. IInv => PendingIsActive
  BY DEF IInv
<1> QED  BY <1>1, Invariance, PTL

\* An offered retry can be used.
THEOREM RetryStaysUsable == Spec => []RetryIsUsable
<1>1. IInv => RetryIsUsable
  BY DEF IInv
<1> QED  BY <1>1, Invariance, PTL

\* Between requests the history begins with a question.
THEOREM HistoryStartsWithUser == Spec => []IdleHistoryStartsWithUser
<1>1. IInv => IdleHistoryStartsWithUser
  BY DEF IInv
<1> QED  BY <1>1, Invariance, PTL

\* What a step does to the messages and the stop flag of a request that is
\* active before and after it.
LEMMA StepWhileActive ==
  ASSUME IInv, [Next]_controllerVars, active # None, active' # None
  PROVE  /\ DOMAIN messages' = DOMAIN messages
         /\ \A i \in DOMAIN messages : ~messages[i].pending => messages'[i] = messages[i]
         /\ active.stop => active'.stop
<1>1. CASE RequestStop
  <2>1. active' = [active EXCEPT !.stop = TRUE] /\ messages' = messages
    BY <1>1 DEF RequestStop
  <2>2. active \in ActiveRequest
    BY DEF IInv, TypeOK
  <2> QED  BY <2>1, <2>2 DEF ActiveRequest
<1>2. CASE \E id \in RequestId : \E e \in EventsOf(id) : ApplyProgress(e)
  <2>1. PICK id \in RequestId : \E e \in EventsOf(id) : ApplyProgress(e)
    BY <1>2
  <2>2. PICK e \in EventsOf(id) : ApplyProgress(e)
    BY <2>1
  <2>3. /\ messages' \in Seq(Message) /\ Len(messages') = Len(messages)
        /\ \A j \in 1 .. Len(messages) : j # active.index => messages'[j] = messages[j]
        /\ active'.stop = active.stop
    BY <2>2, ApplyProgressFacts
  <2>4. messages \in Seq(Message)
    BY DEF IInv, TypeOK
  <2>5. DOMAIN messages = 1 .. Len(messages) /\ DOMAIN messages' = 1 .. Len(messages)
    BY <2>3, <2>4, LenProperties
  <2> QED  BY <2>3, <2>5 DEF IInv, PendingIsActive
<1>3. CASE UNCHANGED controllerVars
  BY <1>3 DEF controllerVars
<1>4. Next => \/ RequestStop
              \/ \E id \in RequestId : \E e \in EventsOf(id) : ApplyProgress(e)
  <2>1. \A connector, n : ~Begin(connector, n)
    BY DEF Begin
  <2>2. ~Retry /\ ~ClearRetry
    BY DEF Retry, ClearRetry
  <2>3. \A t : ~Finish(t)
    BY DEF Finish
  <2>4. \A err : ~FailToStart(err) /\ ~FinishFailed(err)
    BY <2>3, Zenon DEF FailToStart, FinishFailed
  <2>5. \A id : ~ChannelClosed(id)
    BY <2>4, Zenon DEF ChannelClosed
  <2>6. \A e : ~ApplyOversizeDelta(e) /\ ~ApplyTerminal(e)
    BY <2>3, <2>4, Zenon DEF ApplyOversizeDelta, ApplyTerminal
  <2> QED  BY <2>1, <2>2, <2>4, <2>5, <2>6, Zenon DEF Next, ApplyEvent
<1> QED  BY <1>1, <1>2, <1>3, <1>4

\* No step changes or moves a settled message while a request stays active.
THEOREM SettledMessagesStay == Spec => SettledMessagesAreFrozen
<1>1. IInv /\ [Next]_controllerVars =>
        [(active # None /\ active' # None) =>
           /\ DOMAIN messages' = DOMAIN messages
           /\ \A i \in DOMAIN messages :
                ~messages[i].pending => messages'[i] = messages[i]]_controllerVars
  BY StepWhileActive
<1> QED  BY <1>1, Invariance, PTL DEF Spec, SettledMessagesAreFrozen

-----------------------------------------------------------------------------
(* What the controller's steps do to the active request.                   *)

\* A view has its type whenever the controller's state has, before a step and
\* after it.
LEMMA ViewHasType == (TypeOK => View \in ViewType) /\ (TypeOK' => View' \in ViewType)
<1>1. ASSUME TypeOK PROVE View \in ViewType
  BY <1>1 DEF TypeOK, View, ViewType
<1>2. ASSUME TypeOK' PROVE View' \in ViewType
  BY <1>2 DEF TypeOK, View, ViewType
<1> QED  BY <1>1, <1>2

\* begin and retry make the next request the active one.
LEMMA BegunFacts ==
  ASSUME IInv,
         \/ \E connector \in Connectors, n \in 1 .. MaxPromptBytes : Begin(connector, n)
         \/ Retry
  PROVE  /\ IInv'
         /\ active = None /\ active' # None
         /\ active'.transcript.id = nextRequestId /\ nextRequestId \in RequestId
         /\ active'.stop = FALSE
<1>1. [Next]_controllerVars
  <2>1. 1 .. MaxPromptBytes \subseteq 0 .. MaxPromptBytes + 1
    BY LimitsAssumption
  <2> QED  BY <2>1, Zenon DEF Next
<1>2. IInv'
  BY <1>1, NextKeepsIInv
<1>3. PICK history \in Seq(Message) : BeginWithRequest(history)
  <2>1. messages \in Seq(Message) /\ MaxHistoryMessages - 1 \in Nat /\ MaxHistoryMessages - 2 \in Nat
    BY LimitsAssumption DEF IInv, TypeOK
  <2>2. CASE \E connector \in Connectors, n \in 1 .. MaxPromptBytes : Begin(connector, n)
    <3>1. PICK connector \in Connectors, n \in 1 .. MaxPromptBytes : Begin(connector, n)
      BY <2>2
    <3>2. Prompt(n) \in Message
      BY LimitsAssumption DEF Prompt, Message, Role
    <3>3. Trim(messages, MaxHistoryMessages - 2) \in Seq(Message)
      BY <2>1, TrimFacts
    <3> QED  BY <3>1, <3>2, <3>3, AppendProperties DEF Begin
  <2>3. CASE Retry
    <3>1. Trim(messages, MaxHistoryMessages - 1) \in Seq(Message)
      BY <2>1, TrimFacts
    <3> QED  BY <2>3, <3>1 DEF Retry
  <2> QED  BY <2>2, <2>3
<1>4. active = None /\ nextRequestId \in RequestId
  BY DEF Begin, Retry, IInv, TypeOK
<1> DEFINE i == Len(history) + 1
<1>5. active' = [transcript |-> NewTranscript(nextRequestId), index |-> i, stop |-> FALSE]
  BY <1>3 DEF BeginWithRequest
<1>6. i \in Nat \ {0}
  BY <1>3, LenProperties
<1> HIDE DEF i
<1>7. NewTranscript(nextRequestId) \in Transcript(RequestId)
  BY <1>4 DEF NewTranscript, Transcript, RunPhase
<1>8. active' \in ActiveRequest
  BY <1>5, <1>6, <1>7 DEF ActiveRequest
<1>9. active'.transcript.id = nextRequestId /\ active'.stop = FALSE
  BY <1>5 DEF NewTranscript
<1> QED  BY <1>2, <1>4, <1>8, <1>9, NoneAssumption

\* Whatever ends a run frees the conversation, and says how the run ended.
LEMMA FinishFacts ==
  ASSUME NEW t, Finish(t)
  PROVE  active' = None /\ lastPhase' = t.phase /\ retrySeed' = retrySeed
BY DEF Finish

LEMMA FinishFailedFacts ==
  ASSUME IInv, active # None, NEW err, FinishFailed(err)
  PROVE  active' = None /\ lastPhase' = "Failed" /\ retrySeed' = retrySeed
<1>1. active.transcript \in Transcript(RequestId)
  BY DEF IInv, TypeOK, ActiveRequest
<1>2. [active.transcript EXCEPT !.phase = "Failed", !.error = err].phase = "Failed"
  BY <1>1 DEF Transcript
<1> QED  BY <1>2, FinishFacts DEF FinishFailed

\* A terminal event of the active request ends it as the event says.
LEMMA TerminalFacts ==
  ASSUME IInv, NEW id \in RequestId, NEW e \in EventsOf(id), ApplyTerminal(e)
  PROVE  /\ IInv'
         /\ active # None /\ active.transcript.id = e.id
         /\ active' = None /\ retrySeed' = retrySeed
         /\ lastPhase' = e.kind /\ e.kind \in {"Completed", "Cancelled", "Failed"}
<1>1. [Next]_controllerVars
  BY DEF Next, ApplyEvent
<1>2. active # None /\ IsTerminal(e.kind) /\ Finish(AfterEvent(active.transcript, e))
  BY DEF ApplyTerminal, EventAccepted
<1>3. AfterEvent(active.transcript, e).phase = e.kind
  BY <1>2, AfterEventFacts
<1> QED
  BY <1>1, <1>2, <1>3, NextKeepsIInv, FinishFacts
     DEF ApplyTerminal, EventAccepted, Accepts, IsTerminal

\* A delta that would exceed the response limit fails the active request.
LEMMA OversizeFacts ==
  ASSUME IInv, NEW id \in RequestId, NEW e \in EventsOf(id), ApplyOversizeDelta(e)
  PROVE  /\ IInv'
         /\ active # None /\ active.transcript.id = e.id
         /\ active' = None /\ retrySeed' = retrySeed /\ lastPhase' = "Failed"
<1>1. [Next]_controllerVars
  BY DEF Next, ApplyEvent
<1> QED
  BY <1>1, NextKeepsIInv, FinishFailedFacts DEF ApplyOversizeDelta, EventAccepted, Accepts

\* Started, or a delta that fits, leaves the active request the active one.
LEMMA ProgressFacts ==
  ASSUME IInv, NEW id \in RequestId, NEW e \in EventsOf(id), ApplyProgress(e)
  PROVE  /\ IInv'
         /\ active # None /\ active.transcript.id = e.id /\ active' # None
         /\ active'.transcript.id = active.transcript.id
         /\ active'.stop = active.stop
         /\ retrySeed' = retrySeed
<1>1. active # None /\ active.transcript.id = e.id /\ retrySeed' = retrySeed
  BY DEF ApplyProgress, EventAccepted, Accepts
<1> QED
  BY <1>1, ApplyProgressFacts, ApplyProgressKeepsIInv, AfterEventFacts

\* The other steps that end a run.
LEMMA StartFailureFacts ==
  ASSUME IInv, NEW err \in Errors, FailToStart(err)
  PROVE  /\ IInv' /\ active # None
         /\ active' = None /\ retrySeed' = retrySeed /\ lastPhase' = "Failed"
<1>1. [Next]_controllerVars
  BY DEF Next
<1> QED  BY <1>1, NextKeepsIInv, FinishFailedFacts DEF FailToStart

LEMMA ClosedFacts ==
  ASSUME IInv, NEW id \in RequestId, ChannelClosed(id)
  PROVE  /\ IInv' /\ active # None /\ active.transcript.id = id
         /\ active' = None /\ retrySeed' = retrySeed /\ lastPhase' = "Failed"
<1>1. [Next]_controllerVars
  BY DEF Next
<1> QED  BY <1>1, NextKeepsIInv, FinishFailedFacts DEF ChannelClosed

\* A stop request marks the active request and nothing else.
LEMMA StopFacts ==
  ASSUME IInv, RequestStop
  PROVE  /\ IInv' /\ active # None /\ active' # None
         /\ ~active.stop /\ active'.stop
         /\ active'.transcript = active.transcript
         /\ retrySeed' = retrySeed
<1>1. IInv'
  BY NextKeepsIInv DEF Next
<1>2. active \in ActiveRequest /\ active' = [active EXCEPT !.stop = TRUE]
  BY DEF RequestStop, IInv, TypeOK
<1>3. active' \in ActiveRequest
  BY <1>2 DEF ActiveRequest
<1> QED  BY <1>1, <1>2, <1>3, NoneAssumption DEF RequestStop, ActiveRequest

LEMMA ClearRetryFacts ==
  ASSUME IInv, ClearRetry
  PROVE  IInv' /\ active = None /\ active' = None /\ retrySeed' = None
BY NextKeepsIInv DEF Next, ClearRetry

\* A step that leaves the controller alone.
LEMMA IdleControllerFacts ==
  ASSUME IInv, UNCHANGED controllerVars
  PROVE  IInv' /\ active' = active /\ retrySeed' = retrySeed
BY NextKeepsIInv DEF controllerVars

-----------------------------------------------------------------------------
(* Events and channels.                                                    *)

\* What a connector sends about request id says so.
LEMMA EventIsTyped ==
  ASSUME NEW id \in RequestId, NEW e \in EventsOf(id)
  PROVE  e \in AgentEvent(RequestId) /\ e.id = id
<1> USE DEF AgentEvent, EventKind, Event, TextDelta, FailedEvent
<1>1. CASE \E kind \in {"Started", "Completed", "Cancelled"} : e = Event(kind, id)
  BY <1>1
<1>2. CASE \E n \in DeltaSizes : e = TextDelta(id, n)
  BY <1>2, InputsAssumption
<1>3. CASE \E err \in Errors : e = FailedEvent(id, err)
  BY <1>3, InputsAssumption
<1> QED  BY <1>1, <1>2, <1>3 DEF EventsOf
-----------------------------------------------------------------------------
(* The inductive invariant.                                                *)

IsActive(r) == active # None /\ active.transcript.id = r

\* A worker sends events of its own request only, and says "Cancelled" only
\* once its token is cancelled.
ChannelsAreTrue ==
  \A r \in RequestId :
    /\ channel[r] \in Seq(EventsOf(r))
    /\ \A i \in 1 .. Len(channel[r]) : channel[r][i].kind = "Cancelled" => cancelled[r]

\* A request whose worker has not been started has neither a consumer nor a
\* cancelled token, and it is not the one whose token is kept.
UnstartedIsFresh ==
  \A r \in RequestId :
    /\ worker[r] = "none" => consumer[r] = "none"
    /\ consumer[r] = "none" => ~cancelled[r] /\ ~final[r] /\ slot # r

\* While the event loop starts a request, or reports that it could not, that
\* request is active and nobody consumes its events.
StartingIsActive ==
  /\ uiPc.at \in {"starting", "failing"} =>
       /\ uiPc.id \in RequestId /\ IsActive(uiPc.id)
       /\ consumer[uiPc.id] \in {"none", "done"}
       /\ ~active.stop
  /\ uiPc.at = "starting" => consumer[uiPc.id] = "none"
  /\ uiPc.at = "stopping" /\ active # None /\ uiPc.id = active.transcript.id => active.stop
  /\ uiPc.at = "idle" => uiPc.id = None
  /\ exited => uiPc.at = "idle"

\* A consumer that clears the slot, or has cleared it, has closed its request.
ClosedIsInactive ==
  \A r \in RequestId : consumer[r] = "clear" \/ final[r] => ~IsActive(r)

\* The token of the active request is in the slot from its start to its end.
SlotHoldsActive ==
  active # None /\ ~exited /\ uiPc.at \in {"idle", "stopping", "refresh"}
    => slot = active.transcript.id

\* A stop click is on its way to the token or has reached it; so is the end of
\* the program.
StopIsOnItsWay ==
  active # None =>
    /\ active.stop =>
         \/ cancelled[active.transcript.id]
         \/ uiPc.at = "stopping" /\ uiPc.id = active.transcript.id
    /\ exited => cancelled[active.transcript.id]

\* Nobody cancels a request unasked while its consumer still receives.
CancelledIsAsked ==
  active # None /\ cancelled[active.transcript.id] =>
    active.stop \/ exited \/ consumer[active.transcript.id] \in {"close", "done"}

SeedInCatalog == retrySeed = None \/ retrySeed \in catalog

\* The request without an outcome is the active one.
OpenIsActive == \A r \in RequestId : outcome[r] = "open" <=> IsActive(r)

RuntimeIInv ==
  /\ IInv
  /\ RuntimeTypes
  /\ ChannelsAreTrue
  /\ UnstartedIsFresh
  /\ StartingIsActive
  /\ ClosedIsInactive
  /\ ConsumerOwnsActive
  /\ SlotHoldsActive
  /\ StopIsOnItsWay
  /\ CancelledIsAsked
  /\ SeedInCatalog
  /\ OpenIsActive

\* The id of the active request is a request id.
LEMMA ActiveIdType == IInv /\ active # None => active.transcript.id \in RequestId
BY DEF IInv, TypeOK, ActiveRequest, Transcript

\* Sending an event keeps the channels true, if "Cancelled" is only said of a
\* cancelled request.
LEMMA SendFacts ==
  ASSUME RuntimeTypes, ChannelsAreTrue, NEW r \in RequestId, NEW e \in EventsOf(r),
         SendEvent(r, e), e.kind = "Cancelled" => cancelled[r], UNCHANGED cancelled
  PROVE  ChannelsAreTrue' /\ channel' \in [RequestId -> Seq(AgentEvent(RequestId))]
<1>1. channel \in [RequestId -> Seq(AgentEvent(RequestId))] /\ e \in AgentEvent(RequestId)
  BY EventIsTyped DEF RuntimeTypes
<1>2. channel' = [channel EXCEPT ![r] = Append(channel[r], e)]
  BY DEF SendEvent
<1>3. /\ Append(channel[r], e) \in Seq(EventsOf(r))
      /\ \A i \in 1 .. Len(Append(channel[r], e)) :
           Append(channel[r], e)[i].kind = "Cancelled" => cancelled[r]
  BY DEF ChannelsAreTrue
<1>4. channel' \in [RequestId -> Seq(AgentEvent(RequestId))]
  BY <1>1, <1>2
<1>5. ASSUME NEW s \in RequestId
      PROVE  /\ channel'[s] \in Seq(EventsOf(s))
             /\ \A i \in 1 .. Len(channel'[s]) :
                  channel'[s][i].kind = "Cancelled" => cancelled'[s]
  <2>1. CASE s = r
    BY <1>1, <1>2, <1>3, <2>1
  <2>2. CASE s # r
    BY <1>1, <1>2, <2>2 DEF ChannelsAreTrue
  <2> QED  BY <2>1, <2>2
<1> QED  BY <1>4, <1>5 DEF ChannelsAreTrue

\* Receiving an event keeps them true too, and what is received is true.
LEMMA TakeFacts ==
  ASSUME RuntimeTypes, ChannelsAreTrue, NEW r \in RequestId, Receives(r), TakeEvent(r),
         \A s \in RequestId : cancelled[s] => cancelled'[s]
  PROVE  /\ ChannelsAreTrue' /\ channel' \in [RequestId -> Seq(AgentEvent(RequestId))]
         /\ Head(channel[r]) \in EventsOf(r)
         /\ Head(channel[r]).id = r
         /\ Head(channel[r]).kind = "Cancelled" => cancelled[r]
<1> DEFINE q == channel[r]
<1>1. /\ channel \in [RequestId -> Seq(AgentEvent(RequestId))]
      /\ q \in Seq(EventsOf(r)) /\ q \in Seq(AgentEvent(RequestId)) /\ q # <<>>
      /\ \A i \in 1 .. Len(q) : q[i].kind = "Cancelled" => cancelled[r]
  BY DEF RuntimeTypes, ChannelsAreTrue, Receives
<1>2. channel' = [channel EXCEPT ![r] = Tail(q)]
  BY DEF TakeEvent
<1> HIDE DEF q
<1>3. /\ Head(q) \in EventsOf(r) /\ Head(q) = q[1] /\ 1 \in 1 .. Len(q)
      /\ Tail(q) \in Seq(EventsOf(r))
      /\ Len(Tail(q)) = Len(q) - 1 /\ Len(q) \in Nat
      /\ \A i \in 1 .. Len(Tail(q)) : Tail(q)[i] = q[i + 1] /\ i + 1 \in 1 .. Len(q)
  BY <1>1
<1>4. Tail(q) \in Seq(AgentEvent(RequestId))
  BY <1>1
<1>5. channel' \in [RequestId -> Seq(AgentEvent(RequestId))]
  BY <1>1, <1>2, <1>4
<1>6. ASSUME NEW s \in RequestId
      PROVE  /\ channel'[s] \in Seq(EventsOf(s))
             /\ \A i \in 1 .. Len(channel'[s]) :
                  channel'[s][i].kind = "Cancelled" => cancelled'[s]
  <2>1. CASE s = r
    BY <1>1, <1>2, <1>3, <2>1
  <2>2. CASE s # r
    BY <1>1, <1>2, <2>2 DEF ChannelsAreTrue
  <2> QED  BY <2>1, <2>2
<1>7. Head(q).id = r /\ (Head(q).kind = "Cancelled" => cancelled[r])
  BY <1>1, <1>3, EventIsTyped
<1> QED  BY <1>3, <1>5, <1>6, <1>7 DEF ChannelsAreTrue, q

-----------------------------------------------------------------------------
(* The steps of the event loop.                                            *)

\* A new question.
LEMMA SendKeepsIInv ==
  ASSUME RuntimeIInv, NEW n \in 1 .. MaxPromptBytes, Send(n)
  PROVE  RuntimeIInv'
<1> USE DEF RuntimeIInv, Send, RequestBegun, RequestBound, UiReady, UiIdle, At, runVars
<1>1. /\ IInv' /\ active = None /\ active' # None
      /\ active'.transcript.id = nextRequestId /\ nextRequestId \in RequestId
      /\ active'.stop = FALSE
      /\ retrySeed' = selected /\ selected \in catalog
  <2>1. selected \in Connectors /\ selected \in catalog /\ Begin(selected, n)
    BY DEF Send, RuntimeTypes
  <2> QED  BY <2>1, BegunFacts DEF Begin
<1>2. RuntimeTypes'
  BY <1>1, ViewHasType DEF IInv, RuntimeTypes
<1>3. ChannelsAreTrue'
  BY <1>1 DEF ChannelsAreTrue, RuntimeTypes
<1>4. UnstartedIsFresh' /\ StartingIsActive'
  BY <1>1, NoneAssumption
     DEF UnstartedIsFresh, StartingIsActive, IsActive, RuntimeTypes
<1>5. ClosedIsInactive' /\ ConsumerOwnsActive'
  BY <1>1 DEF ClosedIsInactive, ConsumerOwnsActive, UnstartedIsFresh, StartingIsActive,
              IsActive, RuntimeTypes
<1>6. SlotHoldsActive' /\ StopIsOnItsWay' /\ CancelledIsAsked'
  BY <1>1 DEF SlotHoldsActive, StopIsOnItsWay, CancelledIsAsked, StartingIsActive,
              ClosedIsInactive, UnstartedIsFresh, ConsumerOwnsActive, IsActive,
              RuntimeTypes
<1>7. SeedInCatalog' /\ OpenIsActive'
  BY <1>1 DEF SeedInCatalog, OpenIsActive, StartingIsActive, ConsumerOwnsActive,
              IsActive, RuntimeTypes
<1> QED  BY <1>1, <1>2, <1>3, <1>4, <1>5, <1>6, <1>7

\* The failed question again.
LEMMA RetryClickedKeepsIInv ==
  ASSUME RuntimeIInv, RetryClicked
  PROVE  RuntimeIInv'
<1> USE DEF RuntimeIInv, RetryClicked, RequestBegun, RequestBound, UiReady, UiIdle, At, runVars
<1>1. /\ IInv' /\ active = None /\ active' # None
      /\ active'.transcript.id = nextRequestId /\ nextRequestId \in RequestId
      /\ active'.stop = FALSE
      /\ retrySeed' = retrySeed
  BY BegunFacts DEF Retry
<1>2. RuntimeTypes'
  BY <1>1, ViewHasType DEF IInv, RuntimeTypes
<1>3. ChannelsAreTrue'
  BY <1>1 DEF ChannelsAreTrue, RuntimeTypes
<1>4. UnstartedIsFresh' /\ StartingIsActive'
  BY <1>1, NoneAssumption
     DEF UnstartedIsFresh, StartingIsActive, IsActive, RuntimeTypes
<1>5. ClosedIsInactive' /\ ConsumerOwnsActive'
  BY <1>1 DEF ClosedIsInactive, ConsumerOwnsActive, UnstartedIsFresh, StartingIsActive,
              IsActive, RuntimeTypes
<1>6. SlotHoldsActive' /\ StopIsOnItsWay' /\ CancelledIsAsked'
  BY <1>1 DEF SlotHoldsActive, StopIsOnItsWay, CancelledIsAsked, StartingIsActive,
              ClosedIsInactive, UnstartedIsFresh, ConsumerOwnsActive, IsActive,
              RuntimeTypes
<1>7. SeedInCatalog' /\ OpenIsActive'
  BY <1>1 DEF SeedInCatalog, OpenIsActive, StartingIsActive, ConsumerOwnsActive,
              IsActive, RuntimeTypes
<1> QED  BY <1>1, <1>2, <1>3, <1>4, <1>5, <1>6, <1>7

\* The worker and its consumer are started.
LEMMA StartRequestKeepsIInv ==
  ASSUME RuntimeIInv, StartRequest
  PROVE  RuntimeIInv'
<1> USE DEF RuntimeIInv, StartRequest, UiIdle, At
<1>1. /\ IInv' /\ active' = active /\ retrySeed' = retrySeed
      /\ active # None => active.transcript.id \in RequestId
  BY IdleControllerFacts, ActiveIdType
<1>2. RuntimeTypes'
  BY <1>1 DEF IInv, RuntimeTypes
<1>3. ChannelsAreTrue'
  BY <1>1 DEF ChannelsAreTrue, RuntimeTypes
<1>4. UnstartedIsFresh' /\ StartingIsActive'
  BY <1>1, NoneAssumption
     DEF UnstartedIsFresh, StartingIsActive, IsActive, RuntimeTypes
<1>5. ClosedIsInactive' /\ ConsumerOwnsActive'
  BY <1>1 DEF ClosedIsInactive, ConsumerOwnsActive, UnstartedIsFresh, StartingIsActive,
              IsActive, RuntimeTypes
<1>6. SlotHoldsActive' /\ StopIsOnItsWay' /\ CancelledIsAsked'
  BY <1>1 DEF SlotHoldsActive, StopIsOnItsWay, CancelledIsAsked, StartingIsActive,
              ClosedIsInactive, UnstartedIsFresh, ConsumerOwnsActive, IsActive,
              RuntimeTypes
<1>7. SeedInCatalog' /\ OpenIsActive'
  BY <1>1 DEF SeedInCatalog, OpenIsActive, StartingIsActive, ConsumerOwnsActive,
              IsActive, RuntimeTypes
<1> QED  BY <1>1, <1>2, <1>3, <1>4, <1>5, <1>6, <1>7

\* The worker is started and cancelled, for want of a consumer.
LEMMA ConsumerSpawnFailsKeepsIInv ==
  ASSUME RuntimeIInv, ConsumerSpawnFails
  PROVE  RuntimeIInv'
<1> USE DEF RuntimeIInv, ConsumerSpawnFails
<1>1. IInv' /\ active' = active /\ retrySeed' = retrySeed
  BY IdleControllerFacts
<1>2. RuntimeTypes'
  BY <1>1 DEF IInv, RuntimeTypes
<1>3. ChannelsAreTrue'
  BY <1>1 DEF ChannelsAreTrue, RuntimeTypes
<1>4. UnstartedIsFresh' /\ StartingIsActive'
  BY <1>1, NoneAssumption
     DEF UnstartedIsFresh, StartingIsActive, IsActive, RuntimeTypes
<1>5. ClosedIsInactive' /\ ConsumerOwnsActive'
  BY <1>1 DEF ClosedIsInactive, ConsumerOwnsActive, UnstartedIsFresh, StartingIsActive,
              IsActive, RuntimeTypes
<1>6. SlotHoldsActive' /\ StopIsOnItsWay' /\ CancelledIsAsked'
  BY <1>1 DEF SlotHoldsActive, StopIsOnItsWay, CancelledIsAsked, StartingIsActive,
              ClosedIsInactive, UnstartedIsFresh, ConsumerOwnsActive, IsActive,
              RuntimeTypes
<1>7. SeedInCatalog' /\ OpenIsActive'
  BY <1>1 DEF SeedInCatalog, OpenIsActive, StartingIsActive, ConsumerOwnsActive,
              IsActive, RuntimeTypes
<1> QED  BY <1>1, <1>2, <1>3, <1>4, <1>5, <1>6, <1>7

\* Neither is started.
LEMMA ConnectorStartFailsKeepsIInv ==
  ASSUME RuntimeIInv, ConnectorStartFails
  PROVE  RuntimeIInv'
<1> USE DEF RuntimeIInv, ConnectorStartFails, runVars
<1>1. IInv' /\ active' = active /\ retrySeed' = retrySeed
  BY IdleControllerFacts
<1>2. RuntimeTypes'
  BY <1>1 DEF IInv, RuntimeTypes
<1>3. ChannelsAreTrue'
  BY <1>1 DEF ChannelsAreTrue, RuntimeTypes
<1>4. UnstartedIsFresh' /\ StartingIsActive'
  BY <1>1, NoneAssumption
     DEF UnstartedIsFresh, StartingIsActive, IsActive, RuntimeTypes
<1>5. ClosedIsInactive' /\ ConsumerOwnsActive'
  BY <1>1 DEF ClosedIsInactive, ConsumerOwnsActive, UnstartedIsFresh, StartingIsActive,
              IsActive, RuntimeTypes
<1>6. SlotHoldsActive' /\ StopIsOnItsWay' /\ CancelledIsAsked'
  BY <1>1 DEF SlotHoldsActive, StopIsOnItsWay, CancelledIsAsked, StartingIsActive,
              ClosedIsInactive, UnstartedIsFresh, ConsumerOwnsActive, IsActive,
              RuntimeTypes
<1>7. SeedInCatalog' /\ OpenIsActive'
  BY <1>1 DEF SeedInCatalog, OpenIsActive, StartingIsActive, ConsumerOwnsActive,
              IsActive, RuntimeTypes
<1> QED  BY <1>1, <1>2, <1>3, <1>4, <1>5, <1>6, <1>7

\* The failure to start is recorded.
LEMMA FailConversationStartKeepsIInv ==
  ASSUME RuntimeIInv, FailConversationStart
  PROVE  RuntimeIInv'
<1> USE DEF RuntimeIInv, FailConversationStart, RecordOutcome, UiIdle, At, runVars
<1>1. /\ IInv' /\ active # None /\ active' = None /\ retrySeed' = retrySeed
      /\ lastPhase' = "Failed" /\ active.transcript.id \in RequestId
  BY StartFailureFacts, ActiveIdType
<1>2. RuntimeTypes'
  BY <1>1, ViewHasType DEF IInv, RuntimeTypes
<1>3. ChannelsAreTrue'
  BY <1>1 DEF ChannelsAreTrue, RuntimeTypes
<1>4. UnstartedIsFresh' /\ StartingIsActive'
  BY <1>1, NoneAssumption
     DEF UnstartedIsFresh, StartingIsActive, IsActive, RuntimeTypes
<1>5. ClosedIsInactive' /\ ConsumerOwnsActive'
  BY <1>1 DEF ClosedIsInactive, ConsumerOwnsActive, UnstartedIsFresh, StartingIsActive,
              IsActive, RuntimeTypes
<1>6. SlotHoldsActive' /\ StopIsOnItsWay' /\ CancelledIsAsked'
  BY <1>1 DEF SlotHoldsActive, StopIsOnItsWay, CancelledIsAsked, StartingIsActive,
              ClosedIsInactive, UnstartedIsFresh, ConsumerOwnsActive, IsActive,
              RuntimeTypes
<1>7. SeedInCatalog' /\ OpenIsActive'
  BY <1>1 DEF SeedInCatalog, OpenIsActive, StartingIsActive, ConsumerOwnsActive,
              IsActive, RuntimeTypes
<1> QED  BY <1>1, <1>2, <1>3, <1>4, <1>5, <1>6, <1>7

\* A stop click.
LEMMA StopClickedKeepsIInv ==
  ASSUME RuntimeIInv, StopClicked
  PROVE  RuntimeIInv'
<1> USE DEF RuntimeIInv, StopClicked, UiReady, UiIdle, At, runVars
<1>1. /\ IInv' /\ retrySeed' = retrySeed
      /\ active # None => active.transcript.id \in RequestId
      /\ \/ /\ active # None /\ active' # None /\ ~active.stop /\ active'.stop
            /\ active'.transcript = active.transcript
            /\ uiPc' = At("stopping", active.transcript.id)
         \/ /\ active' = active /\ (active # None => active.stop)
            /\ uiPc' = At("refresh", None)
  BY StopFacts, IdleControllerFacts, ActiveIdType
<1>2. RuntimeTypes'
  BY <1>1 DEF IInv, RuntimeTypes
<1>3. ChannelsAreTrue'
  BY <1>1 DEF ChannelsAreTrue, RuntimeTypes
<1>4. UnstartedIsFresh' /\ StartingIsActive'
  BY <1>1, NoneAssumption
     DEF UnstartedIsFresh, StartingIsActive, IsActive, RuntimeTypes
<1>5. ClosedIsInactive' /\ ConsumerOwnsActive'
  BY <1>1 DEF ClosedIsInactive, ConsumerOwnsActive, UnstartedIsFresh, StartingIsActive,
              IsActive, RuntimeTypes
<1>6. SlotHoldsActive' /\ StopIsOnItsWay' /\ CancelledIsAsked'
  BY <1>1 DEF SlotHoldsActive, StopIsOnItsWay, CancelledIsAsked, StartingIsActive,
              ClosedIsInactive, UnstartedIsFresh, ConsumerOwnsActive, IsActive,
              RuntimeTypes
<1>7. SeedInCatalog' /\ OpenIsActive'
  BY <1>1 DEF SeedInCatalog, OpenIsActive, StartingIsActive, ConsumerOwnsActive,
              IsActive, RuntimeTypes
<1> QED  BY <1>1, <1>2, <1>3, <1>4, <1>5, <1>6, <1>7

\* The stop click reaches the token.
LEMMA CancelTokenKeepsIInv ==
  ASSUME RuntimeIInv, CancelToken
  PROVE  RuntimeIInv'
<1> USE DEF RuntimeIInv, CancelToken, At
<1>1. /\ IInv' /\ active' = active /\ retrySeed' = retrySeed
      /\ active # None => active.transcript.id \in RequestId
  BY IdleControllerFacts, ActiveIdType
<1>2. RuntimeTypes'
  BY <1>1 DEF IInv, RuntimeTypes
<1>3. ChannelsAreTrue'
  BY <1>1 DEF ChannelsAreTrue, RuntimeTypes
<1>4. UnstartedIsFresh' /\ StartingIsActive'
  BY <1>1, NoneAssumption
     DEF UnstartedIsFresh, StartingIsActive, IsActive, RuntimeTypes
<1>5. ClosedIsInactive' /\ ConsumerOwnsActive'
  BY <1>1 DEF ClosedIsInactive, ConsumerOwnsActive, UnstartedIsFresh, StartingIsActive,
              IsActive, RuntimeTypes
<1>6. SlotHoldsActive' /\ StopIsOnItsWay' /\ CancelledIsAsked'
  BY <1>1 DEF SlotHoldsActive, StopIsOnItsWay, CancelledIsAsked, StartingIsActive,
              ClosedIsInactive, UnstartedIsFresh, ConsumerOwnsActive, IsActive,
              RuntimeTypes
<1>7. SeedInCatalog' /\ OpenIsActive'
  BY <1>1 DEF SeedInCatalog, OpenIsActive, StartingIsActive, ConsumerOwnsActive,
              IsActive, RuntimeTypes
<1> QED  BY <1>1, <1>2, <1>3, <1>4, <1>5, <1>6, <1>7

\* The stop click ends.
LEMMA RefreshViewKeepsIInv ==
  ASSUME RuntimeIInv, RefreshView
  PROVE  RuntimeIInv'
<1> USE DEF RuntimeIInv, RefreshView, UiIdle, At, runVars
<1>1. IInv' /\ active' = active /\ retrySeed' = retrySeed
  BY IdleControllerFacts
<1>2. RuntimeTypes'
  BY <1>1, ViewHasType DEF IInv, RuntimeTypes
<1>3. ChannelsAreTrue'
  BY <1>1 DEF ChannelsAreTrue, RuntimeTypes
<1>4. UnstartedIsFresh' /\ StartingIsActive'
  BY <1>1, NoneAssumption
     DEF UnstartedIsFresh, StartingIsActive, IsActive, RuntimeTypes
<1>5. ClosedIsInactive' /\ ConsumerOwnsActive'
  BY <1>1 DEF ClosedIsInactive, ConsumerOwnsActive, UnstartedIsFresh, StartingIsActive,
              IsActive, RuntimeTypes
<1>6. SlotHoldsActive' /\ StopIsOnItsWay' /\ CancelledIsAsked'
  BY <1>1 DEF SlotHoldsActive, StopIsOnItsWay, CancelledIsAsked, StartingIsActive,
              ClosedIsInactive, UnstartedIsFresh, ConsumerOwnsActive, IsActive,
              RuntimeTypes
<1>7. SeedInCatalog' /\ OpenIsActive'
  BY <1>1 DEF SeedInCatalog, OpenIsActive, StartingIsActive, ConsumerOwnsActive,
              IsActive, RuntimeTypes
<1> QED  BY <1>1, <1>2, <1>3, <1>4, <1>5, <1>6, <1>7

\* Another profile is selected.
LEMMA SelectProfileKeepsIInv ==
  ASSUME RuntimeIInv, NEW profile \in Connectors, SelectProfile(profile)
  PROVE  RuntimeIInv'
<1> USE DEF RuntimeIInv, SelectProfile, UiReady, UiIdle, At, runVars
<1>1. IInv' /\ active = None /\ active' = None /\ retrySeed' = None
  BY ClearRetryFacts
<1>2. RuntimeTypes'
  BY <1>1, ViewHasType DEF IInv, RuntimeTypes
<1>3. ChannelsAreTrue'
  BY <1>1 DEF ChannelsAreTrue, RuntimeTypes
<1>4. UnstartedIsFresh' /\ StartingIsActive'
  BY <1>1, NoneAssumption
     DEF UnstartedIsFresh, StartingIsActive, IsActive, RuntimeTypes
<1>5. ClosedIsInactive' /\ ConsumerOwnsActive'
  BY <1>1 DEF ClosedIsInactive, ConsumerOwnsActive, UnstartedIsFresh, StartingIsActive,
              IsActive, RuntimeTypes
<1>6. SlotHoldsActive' /\ StopIsOnItsWay' /\ CancelledIsAsked'
  BY <1>1 DEF SlotHoldsActive, StopIsOnItsWay, CancelledIsAsked, StartingIsActive,
              ClosedIsInactive, UnstartedIsFresh, ConsumerOwnsActive, IsActive,
              RuntimeTypes
<1>7. SeedInCatalog' /\ OpenIsActive'
  BY <1>1 DEF SeedInCatalog, OpenIsActive, StartingIsActive, ConsumerOwnsActive,
              IsActive, RuntimeTypes
<1> QED  BY <1>1, <1>2, <1>3, <1>4, <1>5, <1>6, <1>7

\* The connectors are rebuilt.
LEMMA ReloadProfilesKeepsIInv ==
  ASSUME RuntimeIInv, NEW available \in Catalogs, NEW profile \in Selection(available),
         ReloadProfiles(available, profile)
  PROVE  RuntimeIInv'
<1> USE DEF RuntimeIInv, ReloadProfiles, UiReady, UiIdle, At, runVars
<1>1. /\ IInv' /\ active = None /\ active' = None /\ retrySeed' = None
      /\ profile \in Connectors \cup {None} /\ available \subseteq Connectors
  BY ClearRetryFacts, RuntimeAssumption DEF Selection
<1>2. RuntimeTypes'
  BY <1>1, ViewHasType DEF IInv, RuntimeTypes
<1>3. ChannelsAreTrue'
  BY <1>1 DEF ChannelsAreTrue, RuntimeTypes
<1>4. UnstartedIsFresh' /\ StartingIsActive'
  BY <1>1, NoneAssumption
     DEF UnstartedIsFresh, StartingIsActive, IsActive, RuntimeTypes
<1>5. ClosedIsInactive' /\ ConsumerOwnsActive'
  BY <1>1 DEF ClosedIsInactive, ConsumerOwnsActive, UnstartedIsFresh, StartingIsActive,
              IsActive, RuntimeTypes
<1>6. SlotHoldsActive' /\ StopIsOnItsWay' /\ CancelledIsAsked'
  BY <1>1 DEF SlotHoldsActive, StopIsOnItsWay, CancelledIsAsked, StartingIsActive,
              ClosedIsInactive, UnstartedIsFresh, ConsumerOwnsActive, IsActive,
              RuntimeTypes
<1>7. SeedInCatalog' /\ OpenIsActive'
  BY <1>1 DEF SeedInCatalog, OpenIsActive, StartingIsActive, ConsumerOwnsActive,
              IsActive, RuntimeTypes
<1> QED  BY <1>1, <1>2, <1>3, <1>4, <1>5, <1>6, <1>7

\* A posted view is shown.
LEMMA ApplyPostedViewKeepsIInv ==
  ASSUME RuntimeIInv, ApplyPostedView
  PROVE  RuntimeIInv'
<1> USE DEF RuntimeIInv, ApplyPostedView, UiReady, UiIdle, At, runVars
<1>1. IInv' /\ active' = active /\ retrySeed' = retrySeed
  BY IdleControllerFacts
<1>2. RuntimeTypes'
  BY <1>1 DEF IInv, RuntimeTypes
<1>3. ChannelsAreTrue'
  BY <1>1 DEF ChannelsAreTrue, RuntimeTypes
<1>4. UnstartedIsFresh' /\ StartingIsActive'
  BY <1>1, NoneAssumption
     DEF UnstartedIsFresh, StartingIsActive, IsActive, RuntimeTypes
<1>5. ClosedIsInactive' /\ ConsumerOwnsActive'
  BY <1>1 DEF ClosedIsInactive, ConsumerOwnsActive, UnstartedIsFresh, StartingIsActive,
              IsActive, RuntimeTypes
<1>6. SlotHoldsActive' /\ StopIsOnItsWay' /\ CancelledIsAsked'
  BY <1>1 DEF SlotHoldsActive, StopIsOnItsWay, CancelledIsAsked, StartingIsActive,
              ClosedIsInactive, UnstartedIsFresh, ConsumerOwnsActive, IsActive,
              RuntimeTypes
<1>7. SeedInCatalog' /\ OpenIsActive'
  BY <1>1 DEF SeedInCatalog, OpenIsActive, StartingIsActive, ConsumerOwnsActive,
              IsActive, RuntimeTypes
<1> QED  BY <1>1, <1>2, <1>3, <1>4, <1>5, <1>6, <1>7

\* The event loop returns.
LEMMA ExitKeepsIInv ==
  ASSUME RuntimeIInv, Exit
  PROVE  RuntimeIInv'
<1> USE DEF RuntimeIInv, Exit, UiReady, UiIdle, At
<1>1. /\ IInv' /\ active' = active /\ retrySeed' = retrySeed
      /\ active # None => active.transcript.id \in RequestId
  BY IdleControllerFacts, ActiveIdType
<1>2. RuntimeTypes'
  BY <1>1 DEF IInv, RuntimeTypes
<1>3. ChannelsAreTrue'
  BY <1>1 DEF ChannelsAreTrue, RuntimeTypes
<1>4. UnstartedIsFresh' /\ StartingIsActive'
  BY <1>1, NoneAssumption
     DEF UnstartedIsFresh, StartingIsActive, IsActive, RuntimeTypes
<1>5. ClosedIsInactive' /\ ConsumerOwnsActive'
  BY <1>1 DEF ClosedIsInactive, ConsumerOwnsActive, UnstartedIsFresh, StartingIsActive,
              IsActive, RuntimeTypes
<1>6. SlotHoldsActive' /\ StopIsOnItsWay' /\ CancelledIsAsked'
  BY <1>1, NoneAssumption
     DEF SlotHoldsActive, StopIsOnItsWay, CancelledIsAsked, StartingIsActive,
              ClosedIsInactive, UnstartedIsFresh, ConsumerOwnsActive, IsActive,
              RuntimeTypes
<1>7. SeedInCatalog' /\ OpenIsActive'
  BY <1>1 DEF SeedInCatalog, OpenIsActive, StartingIsActive, ConsumerOwnsActive,
              IsActive, RuntimeTypes
<1> QED  BY <1>1, <1>2, <1>3, <1>4, <1>5, <1>6, <1>7

-----------------------------------------------------------------------------
(* The steps of a worker and of a consumer.                                *)

\* What the steps of a worker have in common.
LEMMA WorkerStepFacts ==
  ASSUME RuntimeTypes, ChannelsAreTrue, NEW r \in RequestId, WorkerStep(r)
  PROVE  /\ UNCHANGED <<controllerVars, uiVars, slot, uiQueue, cancelled, consumer,
                        final, outcome>>
         /\ worker[r] # "none"
         /\ \E w \in {"streaming", "done"} : worker' = [worker EXCEPT ![r] = w]
         /\ sent' \in [RequestId -> Nat]
         /\ ChannelsAreTrue' /\ channel' \in [RequestId -> Seq(AgentEvent(RequestId))]
<1> USE DEF WorkerStep, WorkerStarts, WorkerFailsBeforeStart, WorkerSendsDelta, WorkerEnds,
            WorkerSeesCancel, WorkerDies
<1>1. UNCHANGED <<controllerVars, uiVars, slot, uiQueue, cancelled, consumer, final, outcome>>
  BY DEF WorkerUnchanged
<1>2. worker[r] # "none" /\ \E w \in {"streaming", "done"} : worker' = [worker EXCEPT ![r] = w]
  BY DEF RuntimeTypes
<1>3. sent' \in [RequestId -> Nat]
  <2>1. sent \in [RequestId -> Nat] /\ sent[r] + 1 \in Nat
    BY DEF RuntimeTypes
  <2>2. sent' = sent \/ sent' = [sent EXCEPT ![r] = sent[r] + 1]
    OBVIOUS
  <2> QED  BY <2>1, <2>2
<1>4. ChannelsAreTrue' /\ channel' \in [RequestId -> Seq(AgentEvent(RequestId))]
  <2>1. CASE WorkerDies(r)
    BY <1>1, <2>1 DEF ChannelsAreTrue, RuntimeTypes
  <2>2. CASE \E e \in EventsOf(r) : SendEvent(r, e) /\ (e.kind = "Cancelled" => cancelled[r])
    BY <1>1, <2>2, SendFacts
  <2>3. \/ WorkerDies(r)
        \/ \E e \in EventsOf(r) : SendEvent(r, e) /\ (e.kind = "Cancelled" => cancelled[r])
    <3>1. /\ Event("Started", r) \in EventsOf(r) /\ Event("Completed", r) \in EventsOf(r)
          /\ Event("Cancelled", r) \in EventsOf(r)
          /\ \A n \in DeltaSizes : TextDelta(r, n) \in EventsOf(r)
          /\ \A err \in Errors : FailedEvent(r, err) \in EventsOf(r)
      BY DEF EventsOf
    <3>2. /\ \A kind : Event(kind, r).kind = kind
          /\ \A n : TextDelta(r, n).kind = "TextDelta"
          /\ \A err : FailedEvent(r, err).kind = "Failed"
      BY DEF Event, TextDelta, FailedEvent
    <3> QED  BY <3>1, <3>2
  <2> QED  BY <2>1, <2>2, <2>3
<1> QED  BY <1>1, <1>2, <1>3, <1>4

\* A worker sends an event or returns.
LEMMA WorkerStepKeepsIInv ==
  ASSUME RuntimeIInv, NEW r \in RequestId, WorkerStep(r)
  PROVE  RuntimeIInv'
<1> USE DEF RuntimeIInv, uiVars
<1>1. /\ IInv' /\ active' = active /\ retrySeed' = retrySeed
      /\ UNCHANGED <<uiVars, slot, uiQueue, cancelled, consumer, final, outcome>>
      /\ worker[r] # "none"
      /\ \E w \in {"streaming", "done"} : worker' = [worker EXCEPT ![r] = w]
      /\ sent' \in [RequestId -> Nat]
      /\ ChannelsAreTrue' /\ channel' \in [RequestId -> Seq(AgentEvent(RequestId))]
  BY WorkerStepFacts, IdleControllerFacts
<1>2. RuntimeTypes'
  BY <1>1 DEF IInv, RuntimeTypes
<1>3. ChannelsAreTrue'
  BY <1>1
<1>4. UnstartedIsFresh' /\ StartingIsActive'
  BY <1>1, NoneAssumption
     DEF UnstartedIsFresh, StartingIsActive, IsActive, RuntimeTypes
<1>5. ClosedIsInactive' /\ ConsumerOwnsActive'
  BY <1>1 DEF ClosedIsInactive, ConsumerOwnsActive, UnstartedIsFresh, StartingIsActive,
              IsActive, RuntimeTypes
<1>6. SlotHoldsActive' /\ StopIsOnItsWay' /\ CancelledIsAsked'
  BY <1>1 DEF SlotHoldsActive, StopIsOnItsWay, CancelledIsAsked, StartingIsActive,
              ClosedIsInactive, UnstartedIsFresh, ConsumerOwnsActive, IsActive,
              RuntimeTypes
<1>7. SeedInCatalog' /\ OpenIsActive'
  BY <1>1 DEF SeedInCatalog, OpenIsActive, StartingIsActive, ConsumerOwnsActive,
              IsActive, RuntimeTypes
<1> QED  BY <1>1, <1>2, <1>3, <1>4, <1>5, <1>6, <1>7

\* Progress is shown or throttled.
LEMMA ConsumeProgressKeepsIInv ==
  ASSUME RuntimeIInv, NEW r \in RequestId, ConsumeProgress(r)
  PROVE  RuntimeIInv'
<1> USE DEF RuntimeIInv, ConsumeProgress, Receives, MoveTo, uiVars
<1>1. /\ IInv' /\ active # None /\ active.transcript.id = r /\ active' # None
      /\ active'.transcript.id = active.transcript.id /\ active'.stop = active.stop
      /\ retrySeed' = retrySeed
      /\ \E place \in {"view", "recv"} : MoveTo(r, place)
      /\ ChannelsAreTrue' /\ channel' \in [RequestId -> Seq(AgentEvent(RequestId))]
  BY TakeFacts, ProgressFacts
<1>2. RuntimeTypes'
  BY <1>1 DEF IInv, RuntimeTypes
<1>3. ChannelsAreTrue'
  BY <1>1
<1>4. UnstartedIsFresh' /\ StartingIsActive'
  BY <1>1, NoneAssumption
     DEF UnstartedIsFresh, StartingIsActive, IsActive, RuntimeTypes
<1>5. ClosedIsInactive' /\ ConsumerOwnsActive'
  BY <1>1 DEF ClosedIsInactive, ConsumerOwnsActive, UnstartedIsFresh, StartingIsActive,
              IsActive, RuntimeTypes
<1>6. SlotHoldsActive' /\ StopIsOnItsWay' /\ CancelledIsAsked'
  BY <1>1 DEF SlotHoldsActive, StopIsOnItsWay, CancelledIsAsked, StartingIsActive,
              ClosedIsInactive, UnstartedIsFresh, ConsumerOwnsActive, IsActive,
              RuntimeTypes
<1>7. SeedInCatalog' /\ OpenIsActive'
  BY <1>1 DEF SeedInCatalog, OpenIsActive, StartingIsActive, ConsumerOwnsActive,
              IsActive, RuntimeTypes
<1> QED  BY <1>1, <1>2, <1>3, <1>4, <1>5, <1>6, <1>7

\* A terminal event closes the request.
LEMMA ConsumeTerminalKeepsIInv ==
  ASSUME RuntimeIInv, NEW r \in RequestId, ConsumeTerminal(r)
  PROVE  RuntimeIInv'
<1> USE DEF RuntimeIInv, ConsumeTerminal, Receives, RecordOutcome, MoveTo, uiVars
<1>1. /\ IInv' /\ active # None /\ active.transcript.id = r /\ active' = None
      /\ retrySeed' = retrySeed /\ lastPhase' \in {"Completed", "Cancelled", "Failed"}
      /\ ChannelsAreTrue' /\ channel' \in [RequestId -> Seq(AgentEvent(RequestId))]
  BY TakeFacts, TerminalFacts
<1>2. RuntimeTypes'
  BY <1>1 DEF IInv, RuntimeTypes
<1>3. ChannelsAreTrue'
  BY <1>1
<1>4. UnstartedIsFresh' /\ StartingIsActive'
  BY <1>1, NoneAssumption
     DEF UnstartedIsFresh, StartingIsActive, IsActive, RuntimeTypes
<1>5. ClosedIsInactive' /\ ConsumerOwnsActive'
  BY <1>1 DEF ClosedIsInactive, ConsumerOwnsActive, UnstartedIsFresh, StartingIsActive,
              IsActive, RuntimeTypes
<1>6. SlotHoldsActive' /\ StopIsOnItsWay' /\ CancelledIsAsked'
  BY <1>1 DEF SlotHoldsActive, StopIsOnItsWay, CancelledIsAsked, StartingIsActive,
              ClosedIsInactive, UnstartedIsFresh, ConsumerOwnsActive, IsActive,
              RuntimeTypes
<1>7. SeedInCatalog' /\ OpenIsActive'
  BY <1>1 DEF SeedInCatalog, OpenIsActive, StartingIsActive, ConsumerOwnsActive,
              IsActive, RuntimeTypes
<1> QED  BY <1>1, <1>2, <1>3, <1>4, <1>5, <1>6, <1>7

\* So does an answer that grows too long.
LEMMA ConsumeOversizeKeepsIInv ==
  ASSUME RuntimeIInv, NEW r \in RequestId, ConsumeOversize(r)
  PROVE  RuntimeIInv'
<1> USE DEF RuntimeIInv, ConsumeOversize, Receives, RecordOutcome, MoveTo, uiVars
<1>1. /\ IInv' /\ active # None /\ active.transcript.id = r /\ active' = None
      /\ retrySeed' = retrySeed /\ lastPhase' = "Failed"
      /\ ChannelsAreTrue' /\ channel' \in [RequestId -> Seq(AgentEvent(RequestId))]
  BY TakeFacts, OversizeFacts DEF RuntimeTypes
<1>2. RuntimeTypes'
  BY <1>1 DEF IInv, RuntimeTypes
<1>3. ChannelsAreTrue'
  BY <1>1
<1>4. UnstartedIsFresh' /\ StartingIsActive'
  BY <1>1, NoneAssumption
     DEF UnstartedIsFresh, StartingIsActive, IsActive, RuntimeTypes
<1>5. ClosedIsInactive' /\ ConsumerOwnsActive'
  BY <1>1 DEF ClosedIsInactive, ConsumerOwnsActive, UnstartedIsFresh, StartingIsActive,
              IsActive, RuntimeTypes
<1>6. SlotHoldsActive' /\ StopIsOnItsWay' /\ CancelledIsAsked'
  BY <1>1 DEF SlotHoldsActive, StopIsOnItsWay, CancelledIsAsked, StartingIsActive,
              ClosedIsInactive, UnstartedIsFresh, ConsumerOwnsActive, IsActive,
              RuntimeTypes
<1>7. SeedInCatalog' /\ OpenIsActive'
  BY <1>1 DEF SeedInCatalog, OpenIsActive, StartingIsActive, ConsumerOwnsActive,
              IsActive, RuntimeTypes
<1> QED  BY <1>1, <1>2, <1>3, <1>4, <1>5, <1>6, <1>7

\* A rejected event cancels the run.
LEMMA ConsumeRejectedKeepsIInv ==
  ASSUME RuntimeIInv, NEW r \in RequestId, ConsumeRejected(r)
  PROVE  RuntimeIInv'
<1> USE DEF RuntimeIInv, ConsumeRejected, Receives, MoveTo, uiVars
<1>1. /\ IInv' /\ active' = active /\ retrySeed' = retrySeed
      /\ ChannelsAreTrue' /\ channel' \in [RequestId -> Seq(AgentEvent(RequestId))]
  BY TakeFacts, IdleControllerFacts DEF RuntimeTypes
<1>2. RuntimeTypes'
  BY <1>1 DEF IInv, RuntimeTypes
<1>3. ChannelsAreTrue'
  BY <1>1
<1>4. UnstartedIsFresh' /\ StartingIsActive'
  BY <1>1, NoneAssumption
     DEF UnstartedIsFresh, StartingIsActive, IsActive, RuntimeTypes
<1>5. ClosedIsInactive' /\ ConsumerOwnsActive'
  BY <1>1 DEF ClosedIsInactive, ConsumerOwnsActive, UnstartedIsFresh, StartingIsActive,
              IsActive, RuntimeTypes
<1>6. SlotHoldsActive' /\ StopIsOnItsWay' /\ CancelledIsAsked'
  BY <1>1 DEF SlotHoldsActive, StopIsOnItsWay, CancelledIsAsked, StartingIsActive,
              ClosedIsInactive, UnstartedIsFresh, ConsumerOwnsActive, IsActive,
              RuntimeTypes
<1>7. SeedInCatalog' /\ OpenIsActive'
  BY <1>1 DEF SeedInCatalog, OpenIsActive, StartingIsActive, ConsumerOwnsActive,
              IsActive, RuntimeTypes
<1> QED  BY <1>1, <1>2, <1>3, <1>4, <1>5, <1>6, <1>7

\* The channel is found closed.
LEMMA DisconnectedKeepsIInv ==
  ASSUME RuntimeIInv, NEW r \in RequestId, Disconnected(r)
  PROVE  RuntimeIInv'
<1> USE DEF RuntimeIInv, Disconnected, MoveTo, uiVars
<1>1. IInv' /\ active' = active /\ retrySeed' = retrySeed
  BY IdleControllerFacts
<1>2. RuntimeTypes'
  BY <1>1 DEF IInv, RuntimeTypes
<1>3. ChannelsAreTrue'
  BY <1>1 DEF ChannelsAreTrue, RuntimeTypes
<1>4. UnstartedIsFresh' /\ StartingIsActive'
  BY <1>1, NoneAssumption
     DEF UnstartedIsFresh, StartingIsActive, IsActive, RuntimeTypes
<1>5. ClosedIsInactive' /\ ConsumerOwnsActive'
  BY <1>1 DEF ClosedIsInactive, ConsumerOwnsActive, UnstartedIsFresh, StartingIsActive,
              IsActive, RuntimeTypes
<1>6. SlotHoldsActive' /\ StopIsOnItsWay' /\ CancelledIsAsked'
  BY <1>1 DEF SlotHoldsActive, StopIsOnItsWay, CancelledIsAsked, StartingIsActive,
              ClosedIsInactive, UnstartedIsFresh, ConsumerOwnsActive, IsActive,
              RuntimeTypes
<1>7. SeedInCatalog' /\ OpenIsActive'
  BY <1>1 DEF SeedInCatalog, OpenIsActive, StartingIsActive, ConsumerOwnsActive,
              IsActive, RuntimeTypes
<1> QED  BY <1>1, <1>2, <1>3, <1>4, <1>5, <1>6, <1>7

\* A run whose channel closed fails.
LEMMA FinishClosedKeepsIInv ==
  ASSUME RuntimeIInv, NEW r \in RequestId, FinishClosed(r)
  PROVE  RuntimeIInv'
<1> USE DEF RuntimeIInv, FinishClosed, RecordOutcome, MoveTo, uiVars
<1>1. /\ IInv' /\ active # None /\ active.transcript.id = r /\ active' = None
      /\ retrySeed' = retrySeed /\ ChannelClosed(r) /\ RecordOutcome /\ lastPhase' = "Failed"
  <2>1. active # None /\ active.transcript.id = r
    BY DEF ConsumerOwnsActive
  <2> QED  BY <2>1, ClosedFacts
<1>2. RuntimeTypes'
  BY <1>1 DEF IInv, RuntimeTypes
<1>3. ChannelsAreTrue'
  BY <1>1 DEF ChannelsAreTrue, RuntimeTypes
<1>4. UnstartedIsFresh' /\ StartingIsActive'
  BY <1>1, NoneAssumption
     DEF UnstartedIsFresh, StartingIsActive, IsActive, RuntimeTypes
<1>5. ClosedIsInactive' /\ ConsumerOwnsActive'
  BY <1>1 DEF ClosedIsInactive, ConsumerOwnsActive, UnstartedIsFresh, StartingIsActive,
              IsActive, RuntimeTypes
<1>6. SlotHoldsActive' /\ StopIsOnItsWay' /\ CancelledIsAsked'
  BY <1>1 DEF SlotHoldsActive, StopIsOnItsWay, CancelledIsAsked, StartingIsActive,
              ClosedIsInactive, UnstartedIsFresh, ConsumerOwnsActive, IsActive,
              RuntimeTypes
<1>7. SeedInCatalog' /\ OpenIsActive'
  BY <1>1 DEF SeedInCatalog, OpenIsActive, StartingIsActive, ConsumerOwnsActive,
              IsActive, RuntimeTypes
<1> QED  BY <1>1, <1>2, <1>3, <1>4, <1>5, <1>6, <1>7

\* The slot is cleared.
LEMMA ClearActiveCancellationKeepsIInv ==
  ASSUME RuntimeIInv, NEW r \in RequestId, ClearActiveCancellation(r)
  PROVE  RuntimeIInv'
<1> USE DEF RuntimeIInv, ClearActiveCancellation, MoveTo, uiVars
<1>1. IInv' /\ active' = active /\ retrySeed' = retrySeed
  BY IdleControllerFacts
<1>2. RuntimeTypes'
  BY <1>1 DEF IInv, RuntimeTypes
<1>3. ChannelsAreTrue'
  BY <1>1 DEF ChannelsAreTrue, RuntimeTypes
<1>4. UnstartedIsFresh' /\ StartingIsActive'
  BY <1>1, NoneAssumption
     DEF UnstartedIsFresh, StartingIsActive, IsActive, RuntimeTypes
<1>5. ClosedIsInactive' /\ ConsumerOwnsActive'
  BY <1>1 DEF ClosedIsInactive, ConsumerOwnsActive, UnstartedIsFresh, StartingIsActive,
              IsActive, RuntimeTypes
<1>6. SlotHoldsActive' /\ StopIsOnItsWay' /\ CancelledIsAsked'
  BY <1>1 DEF SlotHoldsActive, StopIsOnItsWay, CancelledIsAsked, StartingIsActive,
              ClosedIsInactive, UnstartedIsFresh, ConsumerOwnsActive, IsActive,
              RuntimeTypes
<1>7. SeedInCatalog' /\ OpenIsActive'
  BY <1>1 DEF SeedInCatalog, OpenIsActive, StartingIsActive, ConsumerOwnsActive,
              IsActive, RuntimeTypes
<1> QED  BY <1>1, <1>2, <1>3, <1>4, <1>5, <1>6, <1>7

\* The view is posted, and after the last one the thread returns.
LEMMA PostViewKeepsIInv ==
  ASSUME RuntimeIInv, NEW r \in RequestId, PostView(r)
  PROVE  RuntimeIInv'
<1> USE DEF RuntimeIInv, PostView, MoveTo, uiVars
<1>1. IInv' /\ active' = active /\ retrySeed' = retrySeed
  BY IdleControllerFacts
<1>2. RuntimeTypes'
  <2>1. uiQueue' \in Seq(ViewType)
    <3>1. View \in ViewType /\ uiQueue \in Seq(ViewType)
      BY ViewHasType DEF IInv, RuntimeTypes
    <3>2. uiQueue' = uiQueue \/ uiQueue' = Append(uiQueue, View)
      BY DEF Post
    <3> QED  BY <3>1, <3>2
  <2>2. cancelled' \in [RequestId -> BOOLEAN]
    BY DEF RuntimeTypes
  <2> QED  BY <1>1, <2>1, <2>2 DEF IInv, RuntimeTypes
<1>3. ChannelsAreTrue'
  BY <1>1 DEF ChannelsAreTrue, RuntimeTypes
<1>4. UnstartedIsFresh' /\ StartingIsActive'
  BY <1>1, NoneAssumption
     DEF UnstartedIsFresh, StartingIsActive, IsActive, RuntimeTypes
<1>5. ClosedIsInactive' /\ ConsumerOwnsActive'
  BY <1>1 DEF ClosedIsInactive, ConsumerOwnsActive, UnstartedIsFresh, StartingIsActive,
              IsActive, RuntimeTypes
<1>6. SlotHoldsActive' /\ StopIsOnItsWay' /\ CancelledIsAsked'
  BY <1>1 DEF SlotHoldsActive, StopIsOnItsWay, CancelledIsAsked, StartingIsActive,
              ClosedIsInactive, UnstartedIsFresh, ConsumerOwnsActive, IsActive,
              RuntimeTypes
<1>7. SeedInCatalog' /\ OpenIsActive'
  BY <1>1 DEF SeedInCatalog, OpenIsActive, StartingIsActive, ConsumerOwnsActive,
              IsActive, RuntimeTypes
<1> QED  BY <1>1, <1>2, <1>3, <1>4, <1>5, <1>6, <1>7

-----------------------------------------------------------------------------
(* The invariant.                                                          *)

LEMMA InitEstablishesRuntimeIInv == RuntimeInit => RuntimeIInv
<1> SUFFICES ASSUME RuntimeInit PROVE RuntimeIInv
  OBVIOUS
<1> USE DEF RuntimeInit
<1>1. IInv /\ active = None /\ retrySeed = None
  BY InitEstablishesIInv DEF Init
<1>2. RuntimeTypes
  <2>1. catalog \subseteq Connectors /\ selected \in Connectors \cup {None}
    BY RuntimeAssumption DEF Selection
  <2>2. ui \in ViewType
    BY <1>1, ViewHasType DEF IInv
  <2>3. /\ slot = None /\ exited = FALSE /\ uiQueue \in Seq(ViewType)
        /\ uiPc \in [at : {"idle"}, id : {None}]
    BY DEF UiIdle, At
  <2>4. /\ worker \in [RequestId -> {"none"}] /\ consumer \in [RequestId -> {"none"}]
        /\ channel \in [RequestId -> Seq(AgentEvent(RequestId))]
        /\ sent \in [RequestId -> Nat]
        /\ cancelled \in [RequestId -> BOOLEAN] /\ final \in [RequestId -> BOOLEAN]
        /\ outcome \in [RequestId -> {"unused"}]
    OBVIOUS
  <2> QED  BY <1>1, <2>1, <2>2, <2>3, <2>4 DEF IInv, RuntimeTypes
<1>3. ChannelsAreTrue /\ UnstartedIsFresh
  BY NoneAssumption DEF ChannelsAreTrue, UnstartedIsFresh
<1>4. StartingIsActive /\ ClosedIsInactive /\ ConsumerOwnsActive
  BY <1>1 DEF StartingIsActive, ClosedIsInactive, ConsumerOwnsActive, UiIdle, At, IsActive
<1>5. SlotHoldsActive /\ StopIsOnItsWay /\ CancelledIsAsked
  BY <1>1 DEF SlotHoldsActive, StopIsOnItsWay, CancelledIsAsked
<1>6. SeedInCatalog /\ OpenIsActive
  BY <1>1 DEF SeedInCatalog, OpenIsActive, IsActive
<1> QED  BY <1>1, <1>2, <1>3, <1>4, <1>5, <1>6 DEF RuntimeIInv

LEMMA RuntimeNextKeepsIInv == RuntimeIInv /\ [RuntimeNext]_vars => RuntimeIInv'
<1> SUFFICES ASSUME RuntimeIInv, [RuntimeNext]_vars PROVE RuntimeIInv'
  OBVIOUS
<1>1. CASE UiCallback
  BY <1>1, SendKeepsIInv, RetryClickedKeepsIInv, StopClickedKeepsIInv, ExitKeepsIInv,
     SelectProfileKeepsIInv, ReloadProfilesKeepsIInv
     DEF UiCallback
<1>2. CASE UiStep
  BY <1>2, StartRequestKeepsIInv, ConsumerSpawnFailsKeepsIInv, ConnectorStartFailsKeepsIInv,
     FailConversationStartKeepsIInv, CancelTokenKeepsIInv, RefreshViewKeepsIInv
     DEF UiStep
<1>3. CASE ApplyPostedView
  BY <1>3, ApplyPostedViewKeepsIInv
<1>4. CASE \E r \in RequestId : WorkerStep(r)
  BY <1>4, WorkerStepKeepsIInv
<1>5. CASE \E r \in RequestId : ConsumerStep(r)
  BY <1>5, ConsumeProgressKeepsIInv, ConsumeTerminalKeepsIInv, ConsumeOversizeKeepsIInv,
     ConsumeRejectedKeepsIInv, DisconnectedKeepsIInv, FinishClosedKeepsIInv,
     ClearActiveCancellationKeepsIInv, PostViewKeepsIInv
     DEF ConsumerStep
<1>6. CASE UNCHANGED vars
  <2> USE <1>6 DEF vars, uiVars, runVars, RuntimeIInv
  <2>1. IInv' /\ active' = active /\ retrySeed' = retrySeed
    BY IdleControllerFacts
  <2>2. RuntimeTypes' /\ ChannelsAreTrue' /\ UnstartedIsFresh' /\ StartingIsActive'
    BY <2>1 DEF IInv, RuntimeTypes, ChannelsAreTrue, UnstartedIsFresh, StartingIsActive,
                IsActive
  <2>3. ClosedIsInactive' /\ ConsumerOwnsActive' /\ SlotHoldsActive' /\ StopIsOnItsWay'
    BY <2>1 DEF ClosedIsInactive, ConsumerOwnsActive, SlotHoldsActive, StopIsOnItsWay,
                IsActive
  <2>4. CancelledIsAsked' /\ SeedInCatalog' /\ OpenIsActive'
    BY <2>1 DEF CancelledIsAsked, SeedInCatalog, OpenIsActive, IsActive
  <2> QED  BY <2>1, <2>2, <2>3, <2>4
<1> QED
  BY <1>1, <1>2, <1>3, <1>4, <1>5, <1>6 DEF RuntimeNext

\* The inductive invariant holds in every reachable state of the runtime.
THEOREM RuntimeInvariance == RuntimeSafety => []RuntimeIInv
BY InitEstablishesRuntimeIInv, RuntimeNextKeepsIInv, PTL DEF RuntimeSafety

\* Every variable of the runtime keeps its type, and with it the controller's,
\* and no run's channel carries another run's events, for every number of
\* requests, connectors and posted views.
THEOREM RuntimeTypeCorrect == RuntimeSafety => []RuntimeTypeOK
<1>1. RuntimeIInv => RuntimeTypeOK
  <2> SUFFICES ASSUME RuntimeIInv PROVE RuntimeTypeOK
    OBVIOUS
  <2>1. ASSUME NEW r \in RequestId PROVE channel[r] \in Seq(AgentEvent({r}))
    <3>1. PICK q : q = channel[r] /\ q \in Seq(EventsOf(r))
      BY DEF RuntimeIInv, ChannelsAreTrue
    <3>2. \A e \in EventsOf(r) : e \in AgentEvent({r})
      BY EventIsTyped DEF AgentEvent
    <3>3. /\ Len(q) \in Nat /\ q \in [1 .. Len(q) -> EventsOf(r)]
      BY <3>1, LenProperties
    <3>4. q \in [1 .. Len(q) -> AgentEvent({r})]
      BY <3>2, <3>3, Zenon
    <3>5. q \in Seq(AgentEvent({r}))
      BY <3>3, <3>4, SeqDef, Zenon
    <3> QED  BY <3>1, <3>5
  <2> QED  BY <2>1 DEF RuntimeIInv, RuntimeTypeOK
<1> QED  BY <1>1, RuntimeInvariance, PTL

\* A stop click and the end of the program reach the worker of the active
\* request, whatever the consumer of an earlier one does to the slot.
THEOREM TokensAlwaysReachWorkers == RuntimeSafety => []TokensReachWorkers
<1>1. RuntimeIInv => TokensReachWorkers
  <2> SUFFICES ASSUME RuntimeIInv PROVE TokensReachWorkers
    OBVIOUS
  <2>1. ActiveHasToken
    BY DEF RuntimeIInv, SlotHoldsActive, ActiveHasToken, UiReady, UiIdle, At
  <2>2. StopReachesToken /\ ExitCancelsActive
    BY DEF RuntimeIInv, StopIsOnItsWay, StopReachesToken, ExitCancelsActive, UiIdle, At
  <2> QED  BY <2>1, <2>2 DEF TokensReachWorkers
<1> QED  BY <1>1, RuntimeInvariance, PTL

\* A consumer that may still apply events applies them to its own request.
THEOREM ConsumersOwnActive == RuntimeSafety => []ConsumerOwnsActive
<1>1. RuntimeIInv => ConsumerOwnsActive
  BY DEF RuntimeIInv
<1> QED  BY <1>1, RuntimeInvariance, PTL

\* An offered retry goes to a connector that exists.
THEOREM RetryStaysInCatalog == RuntimeSafety => []RetryGoesToCatalog
<1>1. RuntimeIInv => RetryGoesToCatalog
  BY DEF RuntimeIInv, IInv, RetryIsUsable, SeedInCatalog, RetryGoesToCatalog
<1> QED  BY <1>1, RuntimeInvariance, PTL

-----------------------------------------------------------------------------
(* The window catches up with the conversation.                            *)

\* The view the window shows once the posted ones have been applied.
LastShown == IF uiQueue = <<>> THEN ui ELSE uiQueue[Len(uiQueue)]

Shows(v) ==
  /\ v.busy = View.busy /\ v.stopping = View.stopping /\ v.upTo = View.upTo
  /\ canRetry => v.canRetry

\* Every request so far has been closed by its consumer, which has returned.
RunsAreOver ==
  \A r \in RequestId : outcome[r] # "unused" => consumer[r] = "done" /\ final[r]

\* A consumer belongs to a request that was begun.
ConsumerIsUsed == \A r \in RequestId : consumer[r] # "none" => outcome[r] # "unused"

WindowIInv ==
  /\ ConsumerIsUsed
  /\ ~exited /\ RunsAreOver => Shows(LastShown)

\* As long as a request is active its consumer is not through with it.
LEMMA OverIsIdle ==
  ASSUME RuntimeIInv, RunsAreOver
  PROVE  active = None
<1> SUFFICES ASSUME active # None PROVE FALSE
  OBVIOUS
<1>1. active.transcript.id \in RequestId
  BY ActiveIdType DEF RuntimeIInv
<1>2. outcome[active.transcript.id] = "open"
  BY <1>1 DEF RuntimeIInv, OpenIsActive, IsActive
<1> QED  BY <1>1, <1>2 DEF RunsAreOver, RuntimeIInv, ClosedIsInactive, IsActive

\* Nothing that concerns the window changes.
LEMMA QuietWindow ==
  ASSUME WindowIInv, UNCHANGED <<controllerVars, ui, uiQueue, exited, consumer, final, outcome>>
  PROVE  WindowIInv'
<1>1. View' = View /\ canRetry' = canRetry
  BY DEF controllerVars, View
<1> QED  BY <1>1 DEF WindowIInv, ConsumerIsUsed, RunsAreOver, Shows, LastShown

LEMMA CallbackKeepsWindow ==
  ASSUME RuntimeIInv, WindowIInv, UiCallback
  PROVE  WindowIInv'
<1> USE DEF WindowIInv
<1>1. ASSUME RequestBegun, nextRequestId \in RequestId
      PROVE  WindowIInv'
  <2>1. /\ consumer[nextRequestId] = "none" /\ outcome'[nextRequestId] = "open"
        /\ UNCHANGED <<consumer, final>>
    BY <1>1 DEF RequestBegun, RequestBound, RuntimeIInv, RuntimeTypes, UnstartedIsFresh, runVars
  <2>2. ~RunsAreOver'
    BY <1>1, <2>1 DEF RunsAreOver
  <2>3. ConsumerIsUsed'
    BY <1>1, <2>1 DEF ConsumerIsUsed, RequestBegun, RuntimeIInv, RuntimeTypes
  <2> QED  BY <2>2, <2>3
<1>2. nextRequestId \in RequestId
  BY DEF RuntimeIInv, IInv, TypeOK
<1>3. CASE (\E n \in 1 .. MaxPromptBytes : Send(n)) \/ RetryClicked
  BY <1>1, <1>2, <1>3 DEF Send, RetryClicked
<1>4. CASE StopClicked
  <2>1. UNCHANGED <<ui, uiQueue, exited, consumer, final, outcome>>
    BY <1>4 DEF StopClicked, runVars
  <2>2. CASE RequestStop
    <3>1. ~RunsAreOver
      BY <2>2, OverIsIdle DEF RequestStop
    <3> QED  BY <2>1, <3>1 DEF ConsumerIsUsed, RunsAreOver
  <2>3. CASE UNCHANGED controllerVars
    BY <2>1, <2>3, QuietWindow
  <2> QED  BY <1>4, <2>2, <2>3 DEF StopClicked
<1>5. CASE Exit
  BY <1>5 DEF Exit, ConsumerIsUsed
<1>6. CASE \/ \E profile \in Connectors : SelectProfile(profile)
           \/ \E available \in Catalogs :
                \E profile \in Selection(available) : ReloadProfiles(available, profile)
  <2>1. ClearRetry /\ ui' = View' /\ UNCHANGED <<uiQueue, exited, consumer, final, outcome>>
    BY <1>6 DEF SelectProfile, ReloadProfiles, runVars
  <2>2. /\ View'.busy = View.busy /\ View'.stopping = View.stopping /\ View'.upTo = View.upTo
        /\ canRetry' = FALSE
    BY <2>1 DEF ClearRetry, View
  <2>3. CASE uiQueue = <<>>
    BY <2>1, <2>2, <2>3 DEF ConsumerIsUsed, RunsAreOver, Shows, LastShown
  <2>4. CASE uiQueue # <<>>
    BY <2>1, <2>2, <2>4 DEF ConsumerIsUsed, RunsAreOver, Shows, LastShown
  <2> QED  BY <2>3, <2>4
<1> QED  BY <1>3, <1>4, <1>5, <1>6 DEF UiCallback

LEMMA UiStepKeepsWindow ==
  ASSUME RuntimeIInv, WindowIInv, UiStep
  PROVE  WindowIInv'
<1> USE DEF WindowIInv
<1> DEFINE id == uiPc.id
<1>1. ASSUME uiPc.at \in {"starting", "failing"}
      PROVE  /\ id \in RequestId /\ outcome[id] = "open" /\ ~final[id]
             /\ active # None /\ active.transcript.id = id
             /\ uiPc.at = "starting" => consumer[id] = "none"
  BY <1>1 DEF RuntimeIInv, StartingIsActive, OpenIsActive, ClosedIsInactive, IsActive,
              RuntimeTypes
<1> HIDE DEF id
<1>2. CASE StartRequest
  <2>1. /\ consumer' = [consumer EXCEPT ![id] = "recv"] /\ UNCHANGED <<final, outcome>>
        /\ uiPc.at = "starting"
    BY <1>2 DEF StartRequest, id
  <2> QED  BY <1>1, <2>1 DEF ConsumerIsUsed, RunsAreOver, RuntimeIInv, RuntimeTypes
<1>3. CASE ConsumerSpawnFails
  <2>1. /\ consumer' = [consumer EXCEPT ![id] = "done"] /\ UNCHANGED <<final, outcome>>
        /\ uiPc.at = "starting"
    BY <1>3 DEF ConsumerSpawnFails, id
  <2> QED  BY <1>1, <2>1 DEF ConsumerIsUsed, RunsAreOver, RuntimeIInv, RuntimeTypes
<1>4. CASE FailConversationStart
  <2>1. UNCHANGED <<consumer, final>> /\ RecordOutcome /\ uiPc.at = "failing"
    BY <1>4 DEF FailConversationStart, runVars
  <2>2. PICK err \in Errors : FailToStart(err)
    BY <1>4 DEF FailConversationStart
  <2>3. lastPhase' = "Failed"
    BY <2>2, StartFailureFacts DEF RuntimeIInv
  <2>4. outcome' = [outcome EXCEPT ![id] = "Failed"]
    BY <1>1, <2>1, <2>3 DEF RecordOutcome
  <2> QED  BY <1>1, <2>1, <2>4 DEF ConsumerIsUsed, RunsAreOver, RuntimeIInv, RuntimeTypes
<1>5. CASE RefreshView
  <2>1. /\ ui' = View /\ View' = View /\ canRetry' = canRetry
        /\ UNCHANGED <<uiQueue, exited, consumer, final, outcome>>
    BY <1>5 DEF RefreshView, runVars, controllerVars, View
  <2> QED  BY <2>1 DEF ConsumerIsUsed, RunsAreOver, Shows, LastShown, View
<1>6. CASE ConnectorStartFails \/ CancelToken
  BY <1>6, QuietWindow DEF ConnectorStartFails, CancelToken, runVars
<1> QED  BY <1>2, <1>3, <1>4, <1>5, <1>6 DEF UiStep

\* The posted views keep their order, so the last one stays the last.
LEMMA PostedViewKeepsWindow ==
  ASSUME RuntimeIInv, WindowIInv, ApplyPostedView
  PROVE  WindowIInv'
<1>1. /\ uiQueue \in Seq(ViewType) /\ uiQueue # <<>>
      /\ ui' = Head(uiQueue) /\ uiQueue' = Tail(uiQueue)
      /\ UNCHANGED <<controllerVars, exited, consumer, final, outcome>>
  BY DEF ApplyPostedView, RuntimeIInv, RuntimeTypes, runVars
<1>2. LastShown' = LastShown
  BY <1>1 DEF LastShown
<1>3. View' = View /\ canRetry' = canRetry
  BY <1>1 DEF controllerVars, View
<1> QED  BY <1>1, <1>2, <1>3 DEF WindowIInv, ConsumerIsUsed, RunsAreOver, Shows

LEMMA ConsumerKeepsWindow ==
  ASSUME RuntimeIInv, WindowIInv, NEW r \in RequestId, ConsumerStep(r)
  PROVE  WindowIInv'
<1> USE DEF WindowIInv
<1>1. outcome[r] # "unused"
  BY DEF ConsumerStep, ConsumeProgress, ConsumeTerminal, ConsumeOversize, ConsumeRejected,
         Receives, Disconnected, FinishClosed, ClearActiveCancellation, PostView, ConsumerIsUsed
<1>2. ASSUME NEW place \in {"recv", "close", "clear", "view"}, MoveTo(r, place),
             \/ UNCHANGED outcome
             \/ RecordOutcome /\ active # None /\ active.transcript.id = r /\ lastPhase' # "unused"
      PROVE  WindowIInv'
  <2>1. consumer' = [consumer EXCEPT ![r] = place] /\ consumer'[r] # "done"
    BY <1>2 DEF MoveTo, RuntimeIInv, RuntimeTypes
  <2>2. \A q \in RequestId : outcome[q] # "unused" => outcome'[q] # "unused"
    BY <1>2 DEF RecordOutcome, RuntimeIInv, RuntimeTypes
  <2>3. ConsumerIsUsed'
    BY <1>1, <2>1, <2>2 DEF ConsumerIsUsed, RuntimeIInv, RuntimeTypes
  <2> QED  BY <1>1, <2>1, <2>2, <2>3 DEF RunsAreOver
<1>3. ASSUME Receives(r), TakeEvent(r), \A q \in RequestId : cancelled[q] => cancelled'[q]
      PROVE  Head(channel[r]) \in EventsOf(r) /\ Head(channel[r]).id = r
  BY <1>3, TakeFacts DEF RuntimeIInv
<1>4. CASE ConsumeProgress(r)
  BY <1>2, <1>4 DEF ConsumeProgress
<1>5. CASE ConsumeTerminal(r)
  <2>1. /\ Receives(r) /\ TakeEvent(r) /\ UNCHANGED cancelled /\ RecordOutcome
        /\ ApplyTerminal(Head(channel[r])) /\ MoveTo(r, "clear")
    BY <1>5 DEF ConsumeTerminal
  <2>2. active # None /\ active.transcript.id = r /\ lastPhase' # "unused"
    BY <1>3, <2>1, TerminalFacts DEF RuntimeIInv
  <2> QED  BY <1>2, <2>1, <2>2
<1>6. CASE ConsumeOversize(r)
  <2>1. /\ Receives(r) /\ TakeEvent(r) /\ RecordOutcome /\ MoveTo(r, "clear")
        /\ \A q \in RequestId : cancelled[q] => cancelled'[q]
        /\ ApplyOversizeDelta(Head(channel[r]))
    BY <1>6 DEF ConsumeOversize, RuntimeIInv, RuntimeTypes
  <2>2. active # None /\ active.transcript.id = r /\ lastPhase' # "unused"
    BY <1>3, <2>1, OversizeFacts DEF RuntimeIInv
  <2> QED  BY <1>2, <2>1, <2>2
<1>7. CASE FinishClosed(r)
  <2>1. CASE ChannelClosed(r) /\ RecordOutcome
    <3>1. active # None /\ active.transcript.id = r /\ lastPhase' # "unused"
      BY <2>1, ClosedFacts DEF RuntimeIInv
    <3> QED  BY <1>2, <1>7, <2>1, <3>1 DEF FinishClosed
  <2>2. CASE UNCHANGED outcome
    BY <1>2, <1>7, <2>2 DEF FinishClosed
  <2> QED  BY <1>7, <2>1, <2>2 DEF FinishClosed
<1>8. CASE ConsumeRejected(r) \/ Disconnected(r) \/ ClearActiveCancellation(r)
  BY <1>2, <1>8 DEF ConsumeRejected, Disconnected, ClearActiveCancellation
<1>9. CASE PostView(r) /\ ~final[r]
  <2>1. MoveTo(r, "recv") /\ UNCHANGED outcome
    BY <1>9 DEF PostView
  <2> QED  BY <1>2, <2>1
<1>10. CASE PostView(r) /\ final[r]
  <2>1. /\ consumer' = [consumer EXCEPT ![r] = "done"] /\ Post
        /\ UNCHANGED <<controllerVars, ui, exited, outcome>>
    BY <1>10 DEF PostView, MoveTo, uiVars
  <2>2. ConsumerIsUsed'
    BY <1>1, <2>1 DEF ConsumerIsUsed, RuntimeIInv, RuntimeTypes
  <2>3. ASSUME ~exited PROVE Shows(LastShown)'
    <3>1. View \in ViewType /\ uiQueue \in Seq(ViewType) /\ uiQueue' = Append(uiQueue, View)
      BY <2>1, <2>3, ViewHasType DEF Post, RuntimeIInv, RuntimeTypes, IInv
    <3>2. LastShown' = View
      BY <3>1 DEF LastShown
    <3>3. View' = View /\ canRetry' = canRetry /\ View.canRetry = canRetry
      BY <2>1 DEF controllerVars, View
    <3> QED  BY <3>2, <3>3 DEF Shows
  <2> QED  BY <2>1, <2>2, <2>3
<1> QED  BY <1>4, <1>5, <1>6, <1>7, <1>8, <1>9, <1>10 DEF ConsumerStep

\* Once every request is closed and every posted view applied, the window shows
\* what the conversation is, in whatever order the views overtook each other.
THEOREM WindowAlwaysCatchesUp == RuntimeSafety => []WindowCatchesUp
<1>1. RuntimeInit => WindowIInv
  BY DEF RuntimeInit, Init, WindowIInv, ConsumerIsUsed, Shows, LastShown, View
<1>2. RuntimeIInv /\ WindowIInv /\ [RuntimeNext]_vars => WindowIInv'
  <2> SUFFICES ASSUME RuntimeIInv, WindowIInv, [RuntimeNext]_vars PROVE WindowIInv'
    OBVIOUS
  <2>1. CASE \E r \in RequestId : WorkerStep(r)
    BY <2>1, WorkerStepFacts, QuietWindow DEF RuntimeIInv, uiVars
  <2>2. CASE UNCHANGED vars
    BY <2>2, QuietWindow DEF vars, uiVars, runVars
  <2> QED
    BY <2>1, <2>2, CallbackKeepsWindow, UiStepKeepsWindow, PostedViewKeepsWindow,
       ConsumerKeepsWindow
       DEF RuntimeNext
<1>3. RuntimeIInv /\ WindowIInv => WindowCatchesUp
  <2> SUFFICES ASSUME RuntimeIInv, WindowIInv, UiReady, uiQueue = <<>>, RunsAreOver
               PROVE  ui = [View EXCEPT !.canRetry = ui.canRetry] /\ (canRetry => ui.canRetry)
    BY DEF WindowCatchesUp, RunsAreOver
  <2>1. Shows(ui)
    BY DEF WindowIInv, UiReady, LastShown
  <2>2. ui \in ViewType /\ View \in ViewType
    BY ViewHasType DEF RuntimeIInv, RuntimeTypes, IInv
  <2> QED  BY <2>1, <2>2 DEF Shows, ViewType
<1> QED  BY <1>1, <1>2, <1>3, RuntimeInvariance, PTL DEF RuntimeSafety

-----------------------------------------------------------------------------
(* The runtime implements the controller: whatever the threads do, each of *)
(* their steps makes one call of the controller or none.                   *)

LEMMA RuntimeStepIsControllerStep ==
  ASSUME RuntimeIInv, [RuntimeNext]_vars
  PROVE  [Next]_controllerVars
<1> USE DEF RuntimeIInv
<1>1. CASE UiCallback
  <2>1. CASE \E n \in 1 .. MaxPromptBytes : Send(n)
    <3>1. PICK n \in 1 .. MaxPromptBytes : Send(n)
      BY <2>1
    <3>2. selected \in Connectors /\ Begin(selected, n) /\ n \in 0 .. MaxPromptBytes + 1
      BY <3>1, LimitsAssumption DEF Send, RuntimeTypes
    <3> QED  BY <3>2, Zenon DEF Next
  <2>2. CASE RetryClicked \/ StopClicked \/ Exit
    BY <2>2 DEF RetryClicked, StopClicked, Exit, Next
  <2>3. CASE \/ \E profile \in Connectors : SelectProfile(profile)
             \/ \E available \in Catalogs :
                  \E profile \in Selection(available) : ReloadProfiles(available, profile)
    BY <2>3 DEF SelectProfile, ReloadProfiles, Next
  <2> QED  BY <1>1, <2>1, <2>2, <2>3 DEF UiCallback
<1>2. CASE UiStep
  BY <1>2 DEF UiStep, StartRequest, ConsumerSpawnFails, ConnectorStartFails,
              FailConversationStart, CancelToken, RefreshView, Next
<1>3. CASE ApplyPostedView
  BY <1>3 DEF ApplyPostedView
<1>4. CASE \E r \in RequestId : WorkerStep(r)
  BY <1>4, WorkerStepFacts
<1>5. CASE \E r \in RequestId : ConsumerStep(r)
  <2>1. PICK r \in RequestId : ConsumerStep(r)
    BY <1>5
  <2>2. CASE \/ ConsumeProgress(r) \/ ConsumeTerminal(r) \/ ConsumeOversize(r)
    <3>1. \A s \in RequestId : cancelled[s] => cancelled'[s]
      BY <2>2 DEF ConsumeProgress, ConsumeTerminal, ConsumeOversize, RuntimeTypes
    <3>2. Head(channel[r]) \in EventsOf(r)
      BY <2>2, <3>1, TakeFacts DEF ConsumeProgress, ConsumeTerminal, ConsumeOversize
    <3>3. ApplyEvent(Head(channel[r]))
      BY <2>2 DEF ConsumeProgress, ConsumeTerminal, ConsumeOversize, ApplyEvent
    <3> QED  BY <3>2, <3>3, Zenon DEF Next
  <2>3. CASE FinishClosed(r)
    BY <2>3 DEF FinishClosed, Next
  <2>4. CASE ConsumeRejected(r) \/ Disconnected(r) \/ ClearActiveCancellation(r) \/ PostView(r)
    BY <2>4 DEF ConsumeRejected, Disconnected, ClearActiveCancellation, PostView
  <2> QED  BY <2>1, <2>2, <2>3, <2>4 DEF ConsumerStep
<1>6. CASE UNCHANGED vars
  BY <1>6 DEF vars
<1> QED
  BY <1>1, <1>2, <1>3, <1>4, <1>5, <1>6 DEF RuntimeNext

\* Every behaviour of the runtime is one of the controller, so all that is
\* proved of the controller holds among the threads.
THEOREM RuntimeImplementsController == RuntimeSafety => Spec
<1>1. RuntimeInit => Init
  BY DEF RuntimeInit
<1>2. RuntimeIInv /\ [RuntimeNext]_vars => [Next]_controllerVars
  BY RuntimeStepIsControllerStep
<1> QED  BY <1>1, <1>2, RuntimeInvariance, PTL DEF RuntimeSafety, Spec

-----------------------------------------------------------------------------
(* The runtime implements the life cycle of requests.                      *)

\* The request the user asked to stop, as the life cycle sees it.
StoppingId == IF active # None /\ active.stop THEN active.transcript.id ELSE None

\* A step that neither opens, stops nor closes a request, nor halts.
LEMMA StutterOfLifecycle ==
  ASSUME UNCHANGED <<outcome, exited, StoppingId>>
  PROVE  [Lifecycle!Next]_(Lifecycle!lifecycleVars)
BY DEF Lifecycle!lifecycleVars, StoppingId

\* A request gets its outcome: "Cancelled" only if somebody asked for it.
LEMMA CloseOfLifecycle ==
  ASSUME RuntimeIInv, NEW end \in {"Completed", "Cancelled", "Failed"},
         active # None, active' = None, UNCHANGED exited,
         outcome' = [outcome EXCEPT ![active.transcript.id] = end],
         end = "Cancelled" => active.stop \/ exited
  PROVE  Lifecycle!Next
<1> DEFINE r == active.transcript.id
<1>1. r \in RequestId
  BY ActiveIdType DEF RuntimeIInv
<1>2. outcome[r] = "open"
  BY <1>1 DEF RuntimeIInv, OpenIsActive, IsActive
<1>3. Lifecycle!Close(r, end)
  BY <1>2 DEF Lifecycle!Close
<1> QED  BY <1>1, <1>3, Zenon DEF Lifecycle!Next, Lifecycle!Terminal

\* A step that changes neither the active request's id nor whether it is asked
\* to stop.
LEMMA QuietStep ==
  ASSUME RuntimeIInv, UNCHANGED <<outcome, exited>>,
         \/ active' = active
         \/ active = None /\ active' = None
         \/ /\ active # None /\ active' # None
            /\ active'.transcript.id = active.transcript.id /\ active'.stop = active.stop
  PROVE  [Lifecycle!Next]_(Lifecycle!lifecycleVars)
<1>1. StoppingId' = StoppingId
  BY DEF StoppingId
<1> QED  BY <1>1, StutterOfLifecycle

\* begin or retry opens a request: no other is open, and nobody has asked to
\* stop it.
LEMMA BegunOpens ==
  ASSUME RuntimeIInv, UiReady, RequestBegun,
         active = None, active' # None, active'.stop = FALSE, nextRequestId \in RequestId
  PROVE  Lifecycle!Next
<1>1. \A s \in RequestId : outcome[s] # "open"
  BY DEF RuntimeIInv, OpenIsActive, IsActive
<1>2. Lifecycle!Open(nextRequestId)
  BY <1>1 DEF Lifecycle!Open, RequestBegun, RequestBound, UiReady
<1> QED  BY <1>2 DEF Lifecycle!Next

LEMMA CallbackIsLifecycleStep ==
  ASSUME RuntimeIInv, UiCallback
  PROVE  [Lifecycle!Next]_(Lifecycle!lifecycleVars)
<1> USE DEF RuntimeIInv
<1>1. ASSUME NEW n \in 1 .. MaxPromptBytes, Send(n)
      PROVE  Lifecycle!Next
  <2>1. Begin(selected, n) /\ selected \in Connectors
    BY <1>1 DEF Send, RuntimeTypes
  <2> QED  BY <1>1, <2>1, BegunFacts, BegunOpens DEF Send
<1>2. ASSUME RetryClicked
      PROVE  Lifecycle!Next
  BY <1>2, BegunFacts, BegunOpens DEF RetryClicked
<1>3. ASSUME StopClicked
      PROVE  [Lifecycle!Next]_(Lifecycle!lifecycleVars)
  <2>1. UNCHANGED <<outcome, exited>> /\ ~exited
    BY <1>3 DEF StopClicked, UiReady
  <2>2. CASE RequestStop
    <3> DEFINE r == active.transcript.id
    <3>1. /\ active # None /\ active' # None /\ ~active.stop /\ active'.stop
          /\ active'.transcript = active.transcript /\ r \in RequestId
      BY <2>2, StopFacts, ActiveIdType
    <3>2. outcome[r] = "open"
      BY <3>1 DEF OpenIsActive, IsActive
    <3>3. Lifecycle!AskStop(r)
      BY <2>1, <3>1, <3>2 DEF Lifecycle!AskStop
    <3> QED  BY <3>1, <3>3, Zenon DEF Lifecycle!Next
  <2>3. CASE UNCHANGED controllerVars
    BY <2>1, <2>3, QuietStep DEF controllerVars
  <2> QED  BY <1>3, <2>2, <2>3 DEF StopClicked
<1>4. ASSUME Exit
      PROVE  Lifecycle!Next
  <2>1. UNCHANGED <<outcome, active>> /\ ~exited /\ exited' = TRUE
    BY <1>4 DEF Exit, UiReady, controllerVars
  <2>2. Lifecycle!Halt
    BY <2>1 DEF Lifecycle!Halt
  <2> QED  BY <2>2 DEF Lifecycle!Next
<1>5. ASSUME \/ \E profile \in Connectors : SelectProfile(profile)
             \/ \E available \in Catalogs :
                  \E profile \in Selection(available) : ReloadProfiles(available, profile)
      PROVE  [Lifecycle!Next]_(Lifecycle!lifecycleVars)
  <2>1. ClearRetry /\ UNCHANGED <<outcome, exited>>
    BY <1>5 DEF SelectProfile, ReloadProfiles
  <2> QED  BY <2>1, ClearRetryFacts, QuietStep
<1> QED  BY <1>1, <1>2, <1>3, <1>4, <1>5 DEF UiCallback

LEMMA UiStepIsLifecycleStep ==
  ASSUME RuntimeIInv, UiStep
  PROVE  [Lifecycle!Next]_(Lifecycle!lifecycleVars)
<1>1. CASE FailConversationStart
  <2>1. PICK err \in Errors : FailToStart(err)
    BY <1>1 DEF FailConversationStart
  <2>2. active # None /\ active' = None /\ lastPhase' = "Failed"
    BY <2>1, StartFailureFacts DEF RuntimeIInv
  <2>3. UNCHANGED exited /\ outcome' = [outcome EXCEPT ![active.transcript.id] = "Failed"]
    BY <1>1, <2>2 DEF FailConversationStart, RecordOutcome
  <2> QED  BY <2>2, <2>3, CloseOfLifecycle
<1>2. CASE ~FailConversationStart
  <2>1. UNCHANGED <<active, outcome, exited>>
    BY <1>2 DEF UiStep, StartRequest, ConsumerSpawnFails, ConnectorStartFails, CancelToken,
                RefreshView, controllerVars
  <2> QED  BY <2>1, QuietStep
<1> QED  BY <1>1, <1>2

LEMMA ConsumerStepIsLifecycleStep ==
  ASSUME RuntimeIInv, NEW r \in RequestId, ConsumerStep(r)
  PROVE  [Lifecycle!Next]_(Lifecycle!lifecycleVars)
<1> DEFINE e == Head(channel[r])
<1>1. ASSUME Receives(r), TakeEvent(r), \A s \in RequestId : cancelled[s] => cancelled'[s]
      PROVE  /\ e \in EventsOf(r) /\ e.id = r
             /\ e.kind = "Cancelled" => cancelled[r]
  BY <1>1, TakeFacts DEF RuntimeIInv
<1> HIDE DEF e
<1>2. CASE ConsumeProgress(r)
  <2>1. /\ Receives(r) /\ TakeEvent(r) /\ ApplyProgress(e)
        /\ UNCHANGED <<outcome, exited, cancelled>>
    BY <1>2 DEF ConsumeProgress, uiVars, e
  <2> QED  BY <1>1, <2>1, ProgressFacts, QuietStep DEF RuntimeIInv
<1>3. CASE ConsumeTerminal(r)
  <2>1. /\ Receives(r) /\ TakeEvent(r) /\ ApplyTerminal(e) /\ RecordOutcome
        /\ UNCHANGED <<exited, cancelled>>
    BY <1>3 DEF ConsumeTerminal, uiVars, e
  <2>2. e \in EventsOf(r) /\ (e.kind = "Cancelled" => cancelled[r])
    BY <1>1, <2>1
  <2>3. /\ active # None /\ active' = None /\ lastPhase' = e.kind
        /\ e.kind \in {"Completed", "Cancelled", "Failed"}
        /\ active.transcript.id = r
    BY <1>1, <2>1, <2>2, TerminalFacts DEF RuntimeIInv
  <2>4. e.kind = "Cancelled" => active.stop \/ exited
    BY <2>1, <2>2, <2>3 DEF RuntimeIInv, CancelledIsAsked, Receives
  <2> QED  BY <2>1, <2>3, <2>4, CloseOfLifecycle DEF RecordOutcome
<1>4. CASE ConsumeOversize(r)
  <2>1. /\ Receives(r) /\ TakeEvent(r) /\ ApplyOversizeDelta(e) /\ RecordOutcome
        /\ UNCHANGED exited /\ \A s \in RequestId : cancelled[s] => cancelled'[s]
    BY <1>4 DEF ConsumeOversize, uiVars, e, RuntimeIInv, RuntimeTypes
  <2>2. active # None /\ active' = None /\ lastPhase' = "Failed"
    BY <1>1, <2>1, OversizeFacts DEF RuntimeIInv
  <2> QED  BY <2>1, <2>2, CloseOfLifecycle DEF RecordOutcome
<1>5. CASE FinishClosed(r)
  <2>1. active # None /\ active.transcript.id = r
    BY <1>5 DEF FinishClosed, RuntimeIInv, ConsumerOwnsActive
  <2>2. ChannelClosed(r) /\ RecordOutcome /\ UNCHANGED exited
    BY <1>5, <2>1 DEF FinishClosed, uiVars
  <2>3. active' = None /\ lastPhase' = "Failed"
    BY <2>2, ClosedFacts DEF RuntimeIInv
  <2> QED  BY <2>1, <2>2, <2>3, CloseOfLifecycle DEF RecordOutcome
<1>6. CASE ConsumeRejected(r) \/ Disconnected(r) \/ ClearActiveCancellation(r) \/ PostView(r)
  <2>1. UNCHANGED <<active, outcome, exited>>
    BY <1>6 DEF ConsumeRejected, Disconnected, ClearActiveCancellation, PostView, uiVars,
                controllerVars
  <2> QED  BY <2>1, QuietStep
<1> QED  BY <1>2, <1>3, <1>4, <1>5, <1>6 DEF ConsumerStep

LEMMA RuntimeStepIsLifecycleStep ==
  RuntimeIInv /\ [RuntimeNext]_vars => [Lifecycle!Next]_(Lifecycle!lifecycleVars)
<1> SUFFICES ASSUME RuntimeIInv, [RuntimeNext]_vars
             PROVE  [Lifecycle!Next]_(Lifecycle!lifecycleVars)
  OBVIOUS
<1>1. CASE UiCallback
  BY <1>1, CallbackIsLifecycleStep
<1>2. CASE UiStep
  BY <1>2, UiStepIsLifecycleStep
<1>3. CASE ApplyPostedView \/ (\E r \in RequestId : WorkerStep(r)) \/ UNCHANGED vars
  <2>1. UNCHANGED <<active, outcome, exited>>
    BY <1>3, WorkerStepFacts
       DEF ApplyPostedView, vars, uiVars, controllerVars, RuntimeIInv
  <2> QED  BY <2>1, QuietStep
<1>4. CASE \E r \in RequestId : ConsumerStep(r)
  BY <1>4, ConsumerStepIsLifecycleStep
<1> QED  BY <1>1, <1>2, <1>3, <1>4 DEF RuntimeNext

\* One request at a time is open, each gets one outcome, and none is cancelled
\* that nobody asked to stop: the runtime implements the safety part of the
\* life cycle, for every number of requests, workers and posted views.
THEOREM RuntimeImplementsLifecycle == RuntimeSafety => ImplementsLifecycleSafety
<1>1. RuntimeInit => Lifecycle!Init
  BY DEF RuntimeInit, Init, Lifecycle!Init
<1> QED
  BY <1>1, RuntimeStepIsLifecycleStep, RuntimeInvariance, PTL
     DEF RuntimeSafety, ImplementsLifecycleSafety, Lifecycle!Safety

==============================================================================
