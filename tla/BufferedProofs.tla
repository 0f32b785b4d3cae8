--------------------------- MODULE BufferedProofs ---------------------------
(***************************************************************************)
(* Proofs about the buffered path: the accumulator of BufferedWorker, for  *)
(* any finite set of callers, any keys, counts, capacity and channel       *)
(* length; then, in the second half, how Batch merges one batch and splits *)
(* its results, for any signatures, values and shapes.                     *)
(***************************************************************************)
EXTENDS BufferedWorker, Batch, SumTheorems

-----------------------------------------------------------------------------
(* Sequences of callers.                                                   *)

Items == [Callers -> [key : Keys, count : 1..MaxCount]]

LEMMA CountIsSum ==
    ASSUME item \in Items, NEW s \in Seq(Callers)
    PROVE  /\ DOMAIN s = 1..Len(s) /\ Len(s) \in Nat /\ IsFiniteSet(DOMAIN s)
           /\ \A i \in DOMAIN s : [j \in DOMAIN s |-> item[s[j]].count][i] \in Nat
           /\ Count(s) = SumFunctionOnSet([i \in DOMAIN s |-> item[s[i]].count], DOMAIN s)
<1>1. DOMAIN s = 1..Len(s) /\ Len(s) \in Nat
  BY LenProperties
<1>2. IsFiniteSet(DOMAIN s)
  BY <1>1, FS_Interval
<1>3. \A i \in DOMAIN s : s[i] \in Callers
  BY <1>1, ElementOfSeq
<1>4. \A i \in DOMAIN s : item[s[i]].count \in Nat
  BY <1>3, SizeAssumption DEF Items
<1> QED
  BY <1>1, <1>2, <1>4 DEF Count, SumFunction

\* The count of a queue is a natural number, and nothing for an empty one.
LEMMA CountType ==
    ASSUME item \in Items, NEW s \in Seq(Callers)
    PROVE  Count(s) \in Nat /\ (s = <<>> => Count(s) = 0)
<1> DEFINE f == [i \in DOMAIN s |-> item[s[i]].count]
<1>1. /\ DOMAIN s = 1..Len(s) /\ IsFiniteSet(DOMAIN s)
      /\ \A i \in DOMAIN s : f[i] \in Nat
      /\ Count(s) = SumFunctionOnSet(f, DOMAIN s)
  BY CountIsSum
<1>2. SumFunctionOnSet(f, DOMAIN s) \in Nat
  <2> HIDE DEF f
  <2> QED
    BY <1>1, SumType
<1>3. ASSUME s = <<>> PROVE Count(s) = 0
  <2>1. DOMAIN s = {}
    BY <1>3
  <2> HIDE DEF f
  <2> QED
    BY <1>1, <2>1, SumEmpty
<1> QED
  BY <1>1, <1>2, <1>3

\* Filing an item adds its count.
LEMMA CountAppend ==
    ASSUME item \in Items, NEW s \in Seq(Callers), NEW c \in Callers
    PROVE  Count(Append(s, c)) = Count(s) + item[c].count
<1> DEFINE t == Append(s, c)
           n == Len(s)
           f == [i \in DOMAIN s |-> item[s[i]].count]
           g == [i \in DOMAIN t |-> item[t[i]].count]
<1>1. /\ t \in Seq(Callers) /\ Len(t) = n + 1
      /\ \A i \in 1..n : t[i] = s[i]
      /\ t[n + 1] = c
  BY AppendProperties
<1>2. /\ DOMAIN s = 1..n /\ n \in Nat /\ IsFiniteSet(DOMAIN s)
      /\ \A i \in DOMAIN s : f[i] \in Nat
      /\ Count(s) = SumFunctionOnSet(f, DOMAIN s)
  BY CountIsSum
<1>3. /\ DOMAIN t = 1..(n + 1) /\ IsFiniteSet(DOMAIN t)
      /\ \A i \in DOMAIN t : g[i] \in Nat
      /\ Count(t) = SumFunctionOnSet(g, DOMAIN t)
  BY <1>1, CountIsSum
<1>4. n + 1 \in DOMAIN t /\ DOMAIN t \ {n + 1} = DOMAIN s
  BY <1>2, <1>3
<1>5. g[n + 1] = item[c].count
  BY <1>1, <1>4
<1>6. \A i \in DOMAIN s : f[i] \in Int /\ f[i] = g[i]
  BY <1>1, <1>2, <1>3
<1> HIDE DEF f, g, t, n
<1>7. SumFunctionOnSet(g, DOMAIN t) = g[n + 1] + SumFunctionOnSet(g, DOMAIN t \ {n + 1})
  <2> DEFINE D == DOMAIN t
             k == n + 1
  <2>1. IsFiniteSet(D) /\ (\A i \in D : g[i] \in Int) /\ k \in D
    BY <1>3, <1>4
  <2> HIDE DEF D, k
  <2>2. SumFunctionOnSet(g, D) = g[k] + SumFunctionOnSet(g, D \ {k})
    BY <2>1, SumRemove
  <2> QED
    BY <2>2 DEF D, k
<1>8. SumFunctionOnSet(f, DOMAIN s) = SumFunctionOnSet(g, DOMAIN s)
  BY <1>2, <1>6, SumAgree
<1>9. Count(s) \in Nat /\ item[c].count \in Nat
  BY CountType, SizeAssumption DEF Items
<1>10. Count(t) = Count(s) + item[c].count
  <2>1. Count(t) = g[n + 1] + SumFunctionOnSet(g, DOMAIN s)
    BY <1>3, <1>4, <1>7
  <2>2. SumFunctionOnSet(g, DOMAIN s) = Count(s)
    BY <1>2, <1>8
  <2>3. Count(t) = item[c].count + Count(s)
    BY <1>5, <2>1, <2>2
  <2> QED
    BY <1>9, <2>3
<1> QED
  BY <1>10 DEF t

\* Cutting a queue in two splits its count.
LEMMA CountSplit ==
    ASSUME item \in Items, NEW q \in Seq(Callers), NEW n \in 0..Len(q)
    PROVE  Count(q) = Count(SubSeq(q, 1, n)) + Count(SubSeq(q, n + 1, Len(q)))
<1> DEFINE L == Len(q)
           Q == {m \in Nat : n + m <= L =>
                    Count(SubSeq(q, 1, n + m))
                        = Count(SubSeq(q, 1, n)) + Count(SubSeq(q, n + 1, n + m))}
<1>1. L \in Nat /\ \A i \in 1..L : q[i] \in Callers
  BY LenProperties, ElementOfSeq
<1>2. ASSUME NEW i \in 1..(L + 1), NEW j \in 0..L PROVE SubSeq(q, i, j) \in Seq(Callers)
  BY <1>1, SubSeqProperties
<1>3. 0 \in Q
  <2>1. SubSeq(q, n + 1, n + 0) = <<>>
    BY <1>1, SubSeqEmpty
  <2>2. Count(SubSeq(q, 1, n)) \in Nat /\ Count(<<>>) = 0
    <3>1. 1 \in 1..(L + 1) /\ n \in 0..L
      BY <1>1
    <3>2. SubSeq(q, 1, n) \in Seq(Callers) /\ <<>> \in Seq(Callers)
      BY <1>2, <3>1, EmptySeq
    <3> QED
      BY <3>2, CountType
  <2>3. n + 0 = n
    BY <1>1
  <2>4. Count(SubSeq(q, 1, n + 0))
          = Count(SubSeq(q, 1, n)) + Count(SubSeq(q, n + 1, n + 0))
    <3>1. SubSeq(q, 1, n + 0) = SubSeq(q, 1, n)
      BY <2>3
    <3>2. Count(SubSeq(q, n + 1, n + 0)) = 0
      BY <2>1, <2>2
    <3>3. Count(SubSeq(q, 1, n)) = Count(SubSeq(q, 1, n)) + 0
      BY <2>2
    <3> QED
      BY <3>1, <3>2, <3>3
  <2> QED
    BY <2>4
<1>4. ASSUME NEW m \in Nat, m \in Q PROVE m + 1 \in Q
  <2> SUFFICES ASSUME n + (m + 1) <= L
               PROVE  Count(SubSeq(q, 1, n + (m + 1)))
                        = Count(SubSeq(q, 1, n)) + Count(SubSeq(q, n + 1, n + (m + 1)))
    BY <1>4
  <2> DEFINE k == n + m
             c == q[k + 1]
  <2>1. k \in 0..L /\ k + 1 \in 1..L /\ n + (m + 1) = k + 1 /\ c \in Callers /\ n + 1 \in 1..(k + 1)
    BY <1>1
  <2>2. /\ SubSeq(q, 1, k) \in Seq(Callers) /\ SubSeq(q, n + 1, k) \in Seq(Callers)
        /\ SubSeq(q, 1, n) \in Seq(Callers)
    BY <1>1, <1>2, <2>1
  <2>3. /\ SubSeq(q, 1, k + 1) = Append(SubSeq(q, 1, k), c)
        /\ SubSeq(q, n + 1, k + 1) = Append(SubSeq(q, n + 1, k), c)
    <3>1. 1 \in 1..L /\ k + 1 \in 1..L /\ n + 1 \in 1..L /\ k + 1 \in (n + 1)..L /\ (k + 1) - 1 = k
      BY <1>1, <2>1
    <3>2. /\ SubSeq(q, 1, k + 1) = SubSeq(q, 1, k) \o <<c>>
          /\ SubSeq(q, n + 1, k + 1) = SubSeq(q, n + 1, k) \o <<c>>
      <4> HIDE DEF k
      <4> QED
        BY <3>1, SubSeqRecursiveSecond
    <3> QED
      BY <2>1, <2>2, <3>2, AppendIsConcat
  <2>4. Count(SubSeq(q, 1, k)) = Count(SubSeq(q, 1, n)) + Count(SubSeq(q, n + 1, k))
    BY <1>1, <1>4
  <2>5. /\ Count(SubSeq(q, 1, k + 1)) = Count(SubSeq(q, 1, k)) + item[c].count
        /\ Count(SubSeq(q, n + 1, k + 1)) = Count(SubSeq(q, n + 1, k)) + item[c].count
    BY <2>1, <2>2, <2>3, CountAppend
  <2>6. /\ Count(SubSeq(q, 1, n)) \in Nat /\ Count(SubSeq(q, n + 1, k)) \in Nat
        /\ item[c].count \in Nat
    <3>1. Count(SubSeq(q, 1, n)) \in Nat /\ Count(SubSeq(q, n + 1, k)) \in Nat
      BY <2>2, CountType
    <3>2. item[c].count \in Nat
      BY <2>1, SizeAssumption DEF Items
    <3> QED
      BY <3>1, <3>2
  <2> HIDE DEF k, c
  <2> QED
    BY <2>1, <2>4, <2>5, <2>6
<1>5. Nat \subseteq Q
  <2> HIDE DEF Q
  <2> QED
    BY <1>3, <1>4, NatInd
<1>6. L - n \in Nat /\ n + (L - n) = L
  BY <1>1
<1>7. Count(SubSeq(q, 1, L)) = Count(SubSeq(q, 1, n)) + Count(SubSeq(q, n + 1, L))
  <2>1. L - n \in Q
    BY <1>5, <1>6
  <2>2. n + (L - n) <= L
    BY <1>1, <1>6
  <2>3. Count(SubSeq(q, 1, n + (L - n)))
          = Count(SubSeq(q, 1, n)) + Count(SubSeq(q, n + 1, n + (L - n)))
    BY <2>1, <2>2
  <2> QED
    BY <1>6, <2>3
<1> QED
  BY <1>7, SubSeqFull

\* take_batch always finds where to cut: its prefix is not empty, and beyond a
\* single item it stays within the capacity.
LEMMA BatchLenCuts ==
    ASSUME item \in Items, NEW q \in Seq(Callers), q # <<>>
    PROVE  /\ BatchLen(q) \in 1..Len(q)
           /\ \A i \in 2..BatchLen(q) : Count(SubSeq(q, 1, i)) <= Capacity
<1> DEFINE L == Len(q)
           N(i) == Count(SubSeq(q, 1, i))
           Goes(n) == /\ \A i \in 1..(n - 1) : N(i) < Capacity
                      /\ \A i \in 2..n : N(i) <= Capacity
           Stops(n) == n = L \/ N(n) >= Capacity \/ N(n + 1) > Capacity
           Q == {m \in Nat : m + 1 \in 1..L /\ Goes(m + 1)}
<1>1. L \in Nat /\ L >= 1 /\ Capacity \in Int
  BY EmptySeq, LenProperties, SizeAssumption
<1>2. ASSUME NEW i \in 1..L PROVE N(i) \in Int
  <2>1. \A j \in 1..i : q[j] \in Callers
    BY <1>1, ElementOfSeq
  <2>2. SubSeq(q, 1, i) \in Seq(Callers)
    BY <2>1, SubSeqProperties
  <2>3. Count(SubSeq(q, 1, i)) \in Nat
    BY <2>2, CountType
  <2> QED
    BY <2>3
<1> HIDE DEF N, L
<1>3. 0 \in Q
  BY <1>1
<1>4. \E n \in 1..L : Goes(n) /\ Stops(n)
  <2> SUFFICES ASSUME \A n \in 1..L : Goes(n) => ~Stops(n) PROVE FALSE
    OBVIOUS
  <2>1. ASSUME NEW m \in Nat, m \in Q PROVE m + 1 \in Q
    <3> DEFINE n == m + 1
    <3>1. n \in 1..L /\ Goes(n) /\ ~Stops(n)
      BY <2>1
    <3>2. n + 1 \in 1..L
      BY <1>1, <3>1
    <3>3. N(n) < Capacity /\ N(n + 1) <= Capacity
      BY <1>1, <1>2, <3>1, <3>2
    <3>4. \A i \in 1..((n + 1) - 1) : N(i) < Capacity
      <4>1. \A i \in 1..((n + 1) - 1) : i \in 1..(n - 1) \/ i = n
        BY <3>1
      <4> QED
        BY <3>1, <3>3, <4>1
    <3>5. \A i \in 2..(n + 1) : N(i) <= Capacity
      <4>1. \A i \in 2..(n + 1) : i \in 2..n \/ i = n + 1
        BY <3>1
      <4> QED
        BY <3>1, <3>3, <4>1
    <3> QED
      BY <3>2, <3>4, <3>5
  <2>2. Nat \subseteq Q
    <3> HIDE DEF Q
    <3> QED
      BY <1>3, <2>1, NatInd
  <2>3. L + 1 \in 1..L
    BY <1>1, <2>2
  <2> QED
    BY <1>1, <2>3
<1>5. BatchLen(q) = CHOOSE n \in 1..L : Goes(n) /\ Stops(n)
  BY DEF BatchLen, N, L
<1>6. BatchLen(q) \in 1..L /\ Goes(BatchLen(q))
  <2> HIDE DEF Goes, Stops
  <2> QED
    BY <1>4, <1>5
<1> QED
  BY <1>6 DEF N, L

\* What a sequence holds once an item is appended.
LEMMA AppendHolds ==
    ASSUME NEW s \in Seq(Callers), NEW c \in Callers
    PROVE  /\ \A d : Contains(Append(s, c), d) <=> Contains(s, d) \/ d = c
           /\ IsInjective(s) /\ ~Contains(s, c) => IsInjective(Append(s, c))
<1> DEFINE t == Append(s, c)
<1>1. /\ t \in Seq(Callers) /\ Len(t) = Len(s) + 1
      /\ \A i \in 1..Len(s) : t[i] = s[i]
      /\ t[Len(s) + 1] = c
  BY AppendProperties
<1>2. Len(s) \in Nat /\ DOMAIN s = 1..Len(s) /\ DOMAIN t = 1..(Len(s) + 1)
  BY <1>1, LenProperties
<1> HIDE DEF t
<1>3. \A i \in 1..(Len(s) + 1) : i \in 1..Len(s) \/ i = Len(s) + 1
  BY <1>2
<1>4. Len(s) + 1 \in 1..(Len(s) + 1) /\ 1..Len(s) \subseteq 1..(Len(s) + 1)
  BY <1>2
<1>5. \A d : Contains(t, d) <=> Contains(s, d) \/ d = c
  BY <1>1, <1>3, <1>4 DEF Contains
<1>6. IsInjective(s) /\ ~Contains(s, c) => IsInjective(t)
  BY <1>1, <1>2, <1>3 DEF Contains, IsInjective
<1> QED
  BY <1>5, <1>6 DEF t

\* What a part of a queue without duplicates holds.
LEMMA PartHolds ==
    ASSUME NEW q \in Seq(Callers), NEW n \in 0..Len(q)
    PROVE  /\ SubSeq(q, 1, n) \in Seq(Callers) /\ Len(SubSeq(q, 1, n)) = n
           /\ SubSeq(q, n + 1, Len(q)) \in Seq(Callers)
           /\ \A d : Contains(q, d) <=>
                 Contains(SubSeq(q, 1, n), d) \/ Contains(SubSeq(q, n + 1, Len(q)), d)
           /\ IsInjective(q) =>
                 /\ IsInjective(SubSeq(q, 1, n))
                 /\ IsInjective(SubSeq(q, n + 1, Len(q)))
                 /\ \A d : ~(Contains(SubSeq(q, 1, n), d)
                              /\ Contains(SubSeq(q, n + 1, Len(q)), d))
<1> DEFINE L == Len(q)
           b == SubSeq(q, 1, n)
           r == SubSeq(q, n + 1, L)
<1>1. L \in Nat /\ DOMAIN q = 1..L /\ \A i \in 1..L : q[i] \in Callers
  BY LenProperties, ElementOfSeq
<1>2. b \in Seq(Callers) /\ Len(b) = n /\ \A i \in 1..n : b[i] = q[i]
  <2>1. 1 \in Int /\ n \in Int /\ \A i \in 1..n : q[i] \in Callers
    BY <1>1
  <2>2. /\ b \in Seq(Callers) /\ Len(b) = IF 1 <= n THEN n - 1 + 1 ELSE 0
        /\ \A i \in 1..(n - 1 + 1) : b[i] = q[1 + i - 1]
    BY <2>1, SubSeqProperties
  <2>3. n - 1 + 1 = n /\ \A i \in 1..n : 1 + i - 1 = i
    BY <1>1
  <2>4. Len(b) = n
    BY <1>1, <2>2, <2>3
  <2> HIDE DEF b
  <2> QED
    BY <2>2, <2>3, <2>4
<1>3. r \in Seq(Callers) /\ Len(r) = L - n /\ \A i \in 1..(L - n) : r[i] = q[n + i]
  <2>1. n + 1 \in Int /\ L \in Int /\ \A i \in (n + 1)..L : q[i] \in Callers
    BY <1>1
  <2>2. /\ r \in Seq(Callers) /\ Len(r) = IF n + 1 <= L THEN L - (n + 1) + 1 ELSE 0
        /\ \A i \in 1..(L - (n + 1) + 1) : r[i] = q[n + 1 + i - 1]
    BY <2>1, SubSeqProperties
  <2>3. L - (n + 1) + 1 = L - n /\ \A i \in 1..(L - n) : n + 1 + i - 1 = n + i
    BY <1>1
  <2>4. Len(r) = L - n
    <3> HIDE DEF r
    <3>1. CASE n + 1 <= L
      BY <2>2, <2>3, <3>1
    <3>2. CASE ~(n + 1 <= L)
      <4> HIDE DEF L
      <4>1. L - n = 0
        <5>1. n \in Int /\ n <= L /\ L \in Int
          BY <1>1 DEF L
        <5> QED
          BY <3>2, <5>1
      <4> QED
        BY <2>2, <3>2, <4>1
    <3> QED
      BY <3>1, <3>2
  <2> HIDE DEF r
  <2> QED
    BY <2>2, <2>3, <2>4
<1>4. DOMAIN b = 1..n /\ DOMAIN r = 1..(L - n)
  BY <1>2, <1>3, LenProperties
<1> HIDE DEF b, r, L
<1>5. \A i \in 1..L : i \in 1..n \/ (i - n \in 1..(L - n) /\ n + (i - n) = i)
  BY <1>1 DEF L
<1>6. 1..n \subseteq 1..L /\ \A i \in 1..(L - n) : n + i \in 1..L
  BY <1>1 DEF L
<1>7. \A d : Contains(q, d) <=> Contains(b, d) \/ Contains(r, d)
  <2> TAKE d
  <2>1. Contains(q, d) => Contains(b, d) \/ Contains(r, d)
    <3> SUFFICES ASSUME NEW i \in 1..L, q[i] = d PROVE Contains(b, d) \/ Contains(r, d)
      BY DEF Contains, L
    <3>1. CASE i \in 1..n
      BY <1>2, <3>1 DEF Contains
    <3>2. CASE i - n \in 1..(L - n) /\ n + (i - n) = i
      <4>1. r[i - n] = d
        BY <1>3, <3>2
      <4> QED
        BY <1>3, <3>2, <4>1 DEF Contains
    <3> QED
      BY <1>5, <3>1, <3>2
  <2>2. Contains(b, d) \/ Contains(r, d) => Contains(q, d)
    BY <1>2, <1>3, <1>6 DEF Contains, L
  <2> QED
    BY <2>1, <2>2
<1>8. ASSUME IsInjective(q)
      PROVE  /\ IsInjective(b) /\ IsInjective(r)
             /\ \A d : ~(Contains(b, d) /\ Contains(r, d))
  <2>1. \A i, j \in 1..L : q[i] = q[j] => i = j
    BY <1>1, <1>8 DEF IsInjective
  <2>2. IsInjective(b)
    BY <1>2, <1>4, <1>6, <2>1 DEF IsInjective
  <2>3. ASSUME NEW i \in 1..(L - n), NEW j \in 1..(L - n), r[i] = r[j] PROVE i = j
    <3>1. n + i = n + j
      BY <1>3, <1>6, <2>1, <2>3
    <3> QED
      BY <3>1
  <2>4. IsInjective(r)
    BY <1>4, <2>3 DEF IsInjective
  <2>5. ASSUME NEW i \in 1..n, NEW j \in 1..(L - n), b[i] = r[j] PROVE FALSE
    <3>1. i = n + j
      BY <1>2, <1>3, <1>6, <2>1, <2>5
    <3> QED
      BY <3>1
  <2>6. \A d : ~(Contains(b, d) /\ Contains(r, d))
    BY <1>2, <1>3, <2>5 DEF Contains
  <2> QED
    BY <2>2, <2>4, <2>6
<1> QED
  BY <1>2, <1>3, <1>7, <1>8 DEF b, r, L

\* Taking the head leaves the tail.
LEMMA HeadHolds ==
    ASSUME NEW s \in Seq(Callers), s # <<>>
    PROVE  /\ Head(s) \in Callers /\ Tail(s) \in Seq(Callers)
           /\ Len(s) \in Nat /\ Len(s) >= 1 /\ Len(Tail(s)) = Len(s) - 1
           /\ \A d : Contains(s, d) <=> d = Head(s) \/ Contains(Tail(s), d)
           /\ IsInjective(s) => IsInjective(Tail(s)) /\ ~Contains(Tail(s), Head(s))
<1> DEFINE L == Len(s)
           t == Tail(s)
<1>1. L \in Nat /\ L >= 1 /\ DOMAIN s = 1..L
  BY EmptySeq, LenProperties
<1>2. /\ Head(s) \in Callers /\ t \in Seq(Callers) /\ Len(t) = L - 1
      /\ \A i \in 1..(L - 1) : t[i] = s[i + 1]
      /\ DOMAIN t = 1..(L - 1)
  BY HeadTailProperties, LenProperties
<1>3. Head(s) = s[1]
  BY DEF Head
<1> HIDE DEF t, L
<1>4. \A i \in 1..L : i = 1 \/ (i - 1 \in 1..(L - 1) /\ (i - 1) + 1 = i)
  BY <1>1
<1>5. 1 \in 1..L /\ \A i \in 1..(L - 1) : i + 1 \in 1..L /\ i + 1 # 1
  BY <1>1
<1>6. \A d : Contains(s, d) <=> d = Head(s) \/ Contains(t, d)
  <2> TAKE d
  <2>1. Contains(s, d) => d = Head(s) \/ Contains(t, d)
    <3> SUFFICES ASSUME NEW i \in 1..L, s[i] = d, i # 1 PROVE Contains(t, d)
      BY <1>3 DEF Contains, L
    <3>1. i - 1 \in 1..(L - 1) /\ (i - 1) + 1 = i
      BY <1>4
    <3>2. t[i - 1] = d
      BY <1>2, <3>1
    <3> QED
      BY <1>2, <3>1, <3>2 DEF Contains
  <2>2. d = Head(s) \/ Contains(t, d) => Contains(s, d)
    BY <1>2, <1>3, <1>5 DEF Contains, L
  <2> QED
    BY <2>1, <2>2
<1>7. ASSUME IsInjective(s) PROVE IsInjective(t) /\ ~Contains(t, Head(s))
  <2>1. \A i, j \in 1..L : s[i] = s[j] => i = j
    BY <1>1, <1>7 DEF IsInjective
  <2>2. ASSUME NEW i \in 1..(L - 1), NEW j \in 1..(L - 1), t[i] = t[j] PROVE i = j
    <3>1. i + 1 = j + 1
      BY <1>2, <1>5, <2>1, <2>2
    <3> QED
      BY <3>1
  <2>3. IsInjective(t)
    BY <1>2, <2>2 DEF IsInjective
  <2>4. ~Contains(t, Head(s))
    BY <1>2, <1>3, <1>5, <2>1 DEF Contains
  <2> QED
    BY <2>3, <2>4
<1> QED
  BY <1>1, <1>2, <1>6, <1>7 DEF t, L

\* In a sequence without duplicates an item occurs once or not at all.
LEMMA OccursOnce ==
    ASSUME NEW s \in Seq(Callers), IsInjective(s), NEW c
    PROVE  Occurrences(c, s) = IF Contains(s, c) THEN 1 ELSE 0
<1> DEFINE at == {i \in DOMAIN s : s[i] = c}
<1>1. DOMAIN s = 1..Len(s)
  BY LenProperties
<1>2. CASE Contains(s, c)
  <2>1. PICK i \in DOMAIN s : s[i] = c
    BY <1>1, <1>2 DEF Contains
  <2>2. at = {i}
    BY <2>1 DEF IsInjective
  <2>3. Cardinality(at) = 1
    BY <2>2, FS_Singleton
  <2> QED
    BY <1>2, <2>3 DEF Occurrences
<1>3. CASE ~Contains(s, c)
  <2>1. at = {}
    BY <1>1, <1>3 DEF Contains
  <2>2. Cardinality(at) = 0
    BY <2>1, FS_EmptySet
  <2> QED
    BY <1>3, <2>2 DEF Occurrences
<1> QED
  BY <1>2, <1>3

-----------------------------------------------------------------------------
(* The inductive invariant: where the item of each caller is.              *)

\* The channel, the queues and the batch hold no item twice.
Distinct ==
    /\ IsInjective(chan)
    /\ IsInjective(batch)
    /\ \A k \in Keys : IsInjective(queues[k])

\* An item is in one of them only, and in the queue of its own key.
Apart ==
    \A c \in Callers :
        /\ Contains(chan, c) =>
              ~Contains(batch, c) /\ \A k \in Keys : ~Contains(queues[k], c)
        /\ \A k \in Keys : Contains(queues[k], c) => item[c].key = k /\ ~Contains(batch, c)

\* An item that was not sent is in none, that of a waiting caller is in one.
Placed ==
    \A c \in Callers :
        /\ callers[c] \in {"idle", "sending", "blocked"} =>
              /\ ~Contains(chan, c) /\ ~Contains(batch, c)
              /\ \A k \in Keys : ~Contains(queues[k], c)
        /\ callers[c] = "waiting" =>
              Contains(chan, c) \/ Contains(batch, c) \/ Contains(queues[item[c].key], c)

\* The task exits only once nobody holds its queue open; there is a batch only
\* while it is invoked.
Lived ==
    /\ pc = "exited" => ~SenderAlive
    /\ pc # "invoke" => batch = <<>>

WorkerInv ==
    /\ TypeOK /\ Distinct /\ Apart /\ Placed /\ Lived
    /\ TotalsExact /\ DepthCovers /\ NeverDropped

Pending == {c \in Callers : callers[c] \in {"sending", "blocked"}}

LEMMA EmptyHoldsNone == IsInjective(<<>>) /\ \A d : ~Contains(<<>>, d)
<1>1. Len(<<>>) = 0 /\ DOMAIN <<>> = {}
  OBVIOUS
<1> QED
  BY <1>1 DEF IsInjective, Contains

LEMMA PendingFinite ==
    ASSUME NEW P \in SUBSET Callers
    PROVE  IsFiniteSet(P) /\ Cardinality(P) \in Nat
  BY CallersAssumption, FS_Subset, FS_CardinalityType

\* What the books of a state with the same queues and items say.
LEMMA SameTotals ==
    ASSUME TotalsExact, UNCHANGED <<item, queues, totals>> PROVE TotalsExact'
  BY DEF TotalsExact, Count

LEMMA WorkerInit == ASSUME Init PROVE WorkerInv
<1> USE EmptyHoldsNone DEF Init
<1>1. TypeOK
  <2>1. <<>> \in Seq(Callers) /\ Len(<<>>) = 0
    BY EmptySeq
  <2>2. stamps \in Seq(Callers) /\ batch \in Seq(Callers) /\ elapsed \in 0..Len(stamps)
    BY <2>1
  <2>3. chan \in Seq(Callers) /\ Len(chan) <= ChanCap
    BY <2>1, SizeAssumption
  <2>4. queues \in [Keys -> Seq(Callers)] /\ totals \in [Keys -> Nat]
    BY <2>1
  <2>5. callers \in [Callers -> CallerPC]
    BY DEF CallerPC
  <2> QED
    BY <2>2, <2>3, <2>4, <2>5 DEF TypeOK
<1>2. Distinct /\ Apart /\ Placed
  BY DEF Distinct, Apart, Placed
<1>3. Lived /\ NeverDropped
  BY DEF Lived, NeverDropped
<1>4. TotalsExact
  <2>1. item \in Items /\ <<>> \in Seq(Callers)
    BY EmptySeq DEF Items
  <2>2. Count(<<>>) = 0
    BY <2>1, CountType
  <2> QED
    BY <2>2 DEF TotalsExact
<1>5. DepthCovers
  <2>1. Pending = {}
    BY DEF Pending
  <2>2. Cardinality(Pending) = 0
    BY <2>1, FS_EmptySet
  <2>3. depth = 0 /\ Len(chan) = 0
    OBVIOUS
  <2>4. depth >= Len(chan) + Cardinality(Pending)
    BY <2>2, <2>3
  <2> QED
    BY <2>4 DEF DepthCovers, Pending
<1> QED
  BY <1>1, <1>2, <1>3, <1>4, <1>5 DEF WorkerInv

\* Steps that touch neither the items nor the books: only a caller's place,
\* the entry, the clock or the worker's program counter.
LEMMA QuietStep ==
    ASSUME WorkerInv,
           UNCHANGED <<item, chan, queues, totals, batch, depth>>,
           stamps' \in Seq(Callers), elapsed' \in 0..Len(stamps'),
           open' \in BOOLEAN, open' => open,
           callers' \in [Callers -> CallerPC],
           pc' \in {"drain", "take", "wait", "invoke", "exited"},
           pc' = "invoke" <=> pc = "invoke", pc' = "exited" <=> pc = "exited",
           \A c \in Callers :
              \/ callers'[c] = callers[c]
              \/ callers[c] = "sending" /\ callers'[c] = "blocked"
              \/ callers[c] \in {"blocked", "waiting"} /\ callers'[c] = "gone"
    PROVE  WorkerInv'
<1> USE DEF WorkerInv
<1>1. TypeOK'
  BY DEF TypeOK
<1>2. Distinct' /\ Apart'
  BY DEF Distinct, Apart
<1>3. Placed'
  BY DEF Placed
<1>4. Lived'
  BY DEF Lived, SenderAlive
<1>5. TotalsExact'
  BY SameTotals
<1>6. DepthCovers'
  <2>1. Pending' \subseteq Pending /\ Pending \subseteq Callers
    BY DEF Pending
  <2>2. IsFiniteSet(Pending) /\ IsFiniteSet(Pending')
    BY <2>1, PendingFinite
  <2>3. Cardinality(Pending') <= Cardinality(Pending)
    BY <2>1, <2>2, FS_Subset
  <2>4. Cardinality(Pending) \in Nat /\ Cardinality(Pending') \in Nat
    BY <2>2, FS_CardinalityType
  <2>5. Len(chan) \in Nat /\ depth \in Nat
    BY LenProperties DEF TypeOK
  <2>6. depth >= Len(chan) + Cardinality(Pending)
    BY DEF DepthCovers, Pending
  <2>7. depth' >= Len(chan') + Cardinality(Pending')
    BY <2>3, <2>4, <2>5, <2>6
  <2> QED
    BY <2>7 DEF DepthCovers, Pending
<1>7. NeverDropped'
  BY DEF NeverDropped
<1> QED
  BY <1>1, <1>2, <1>3, <1>4, <1>5, <1>6, <1>7

LEMMA EnqueueStep == ASSUME WorkerInv, NEW c \in Callers, Enqueue(c) PROVE WorkerInv'
<1> USE DEF WorkerInv, Enqueue
<1>0. callers[c] = "idle" /\ callers' = [callers EXCEPT ![c] = "sending"]
  OBVIOUS
<1>1. TypeOK'
  <2>1. stamps' \in Seq(Callers) /\ Len(stamps') = Len(stamps) + 1 /\ Len(stamps) \in Nat
    BY AppendProperties, LenProperties DEF TypeOK
  <2>2. elapsed' \in 0..Len(stamps')
    BY <2>1 DEF TypeOK
  <2>3. callers' \in [Callers -> CallerPC]
    BY DEF TypeOK, CallerPC
  <2>4. depth' \in Nat
    BY DEF TypeOK
  <2> QED
    BY <2>1, <2>2, <2>3, <2>4 DEF TypeOK
<1>2. Distinct' /\ Apart'
  BY DEF Distinct, Apart
<1>3. Placed'
  BY <1>0 DEF Placed, TypeOK
<1>4. Lived'
  <2>1. pc # "exited"
    BY DEF Lived, SenderAlive
  <2> QED
    BY <2>1 DEF Lived
<1>5. TotalsExact'
  BY SameTotals
<1>6. DepthCovers'
  <2>1. Pending' = Pending \cup {c} /\ c \notin Pending /\ Pending \subseteq Callers
    BY <1>0 DEF Pending, TypeOK
  <2>2. IsFiniteSet(Pending) /\ Cardinality(Pending) \in Nat
    BY <2>1, PendingFinite
  <2>3. Cardinality(Pending') = Cardinality(Pending) + 1
    BY <2>1, <2>2, FS_AddElement
  <2>4. Len(chan) \in Nat /\ depth \in Nat /\ depth' = depth + 1 /\ chan' = chan
    BY LenProperties DEF TypeOK
  <2>5. depth >= Len(chan) + Cardinality(Pending)
    BY DEF DepthCovers, Pending
  <2>6. depth' >= Len(chan') + Cardinality(Pending')
    BY <2>2, <2>3, <2>4, <2>5
  <2> QED
    BY <2>6 DEF DepthCovers, Pending
<1>7. NeverDropped'
  BY <1>0 DEF NeverDropped, TypeOK
<1> QED
  BY <1>1, <1>2, <1>3, <1>4, <1>5, <1>6, <1>7

LEMMA BlockStep == ASSUME WorkerInv, NEW c \in Callers, Block(c) PROVE WorkerInv'
<1>1. /\ callers' \in [Callers -> CallerPC]
      /\ \A d \in Callers :
            \/ callers'[d] = callers[d]
            \/ callers[d] = "sending" /\ callers'[d] = "blocked"
  BY DEF Block, WorkerInv, TypeOK, CallerPC
<1> QED
  BY <1>1, QuietStep DEF Block, WorkerInv, TypeOK

LEMMA DisconnectStep == ASSUME WorkerInv, NEW c \in Callers, Disconnect(c) PROVE WorkerInv'
<1>1. /\ callers' \in [Callers -> CallerPC]
      /\ \A d \in Callers :
            \/ callers'[d] = callers[d]
            \/ callers[d] \in {"blocked", "waiting"} /\ callers'[d] = "gone"
  BY DEF Disconnect, WorkerInv, TypeOK, CallerPC
<1> QED
  BY <1>1, QuietStep DEF Disconnect, WorkerInv, TypeOK

LEMMA EnvironmentStep == ASSUME WorkerInv, RemoveEntry \/ TimePasses PROVE WorkerInv'
<1>1. CASE RemoveEntry
  BY <1>1, QuietStep DEF RemoveEntry, WorkerInv, TypeOK
<1>2. CASE TimePasses
  <2>1. Len(stamps) \in Nat /\ elapsed \in Nat
    BY LenProperties DEF WorkerInv, TypeOK
  <2>2. elapsed' \in 0..Len(stamps')
    BY <1>2, <2>1 DEF TimePasses
  <2> QED
    BY <1>2, <2>2, QuietStep DEF TimePasses, WorkerInv, TypeOK
<1> QED
  BY <1>1, <1>2

LEMMA PollStep ==
    ASSUME WorkerInv, DrainDone \/ NothingFlushable \/ WaitExpires PROVE WorkerInv'
<1>1. CASE DrainDone
  BY <1>1, QuietStep DEF DrainDone, WorkerInv, TypeOK
<1>2. CASE NothingFlushable
  BY <1>2, QuietStep DEF NothingFlushable, WorkerInv, TypeOK
<1>3. CASE WaitExpires
  BY <1>3, QuietStep DEF WaitExpires, WorkerInv, TypeOK
<1> QED
  BY <1>1, <1>2, <1>3

LEMMA SendStep == ASSUME WorkerInv, NEW c \in Callers, Send(c) PROVE WorkerInv'
<1> USE DEF WorkerInv, Send
<1>0. pc # "exited"
  BY DEF Lived, SenderAlive
<1>1. /\ Len(chan) < ChanCap
      /\ callers' = [callers EXCEPT ![c] = "waiting"]
      /\ chan' = Append(chan, c)
      /\ UNCHANGED <<item, stamps, elapsed, open, queues, totals, batch, pc, depth>>
      /\ callers[c] \in {"sending", "blocked"}
  BY <1>0
<1>2. /\ chan' \in Seq(Callers) /\ Len(chan') = Len(chan) + 1 /\ Len(chan) \in Nat
      /\ \A d : Contains(chan', d) <=> Contains(chan, d) \/ d = c
      /\ IsInjective(chan) /\ ~Contains(chan, c) => IsInjective(chan')
  <2>1. chan \in Seq(Callers)
    BY DEF TypeOK
  <2> QED
    BY <1>1, <2>1, AppendProperties, AppendHolds, LenProperties
<1>3. /\ ~Contains(chan, c) /\ ~Contains(batch, c)
      /\ \A k \in Keys : ~Contains(queues[k], c)
  BY <1>1 DEF Placed
<1>4. TypeOK'
  <2>1. callers' \in [Callers -> CallerPC]
    BY <1>1 DEF TypeOK, CallerPC
  <2>2. Len(chan') <= ChanCap
    BY <1>1, <1>2, SizeAssumption
  <2> QED
    BY <1>1, <1>2, <2>1, <2>2 DEF TypeOK
<1>5. Distinct'
  BY <1>1, <1>2, <1>3 DEF Distinct
<1>6. Apart'
  BY <1>1, <1>2, <1>3 DEF Apart
<1>7. Placed'
  BY <1>1, <1>2 DEF Placed, TypeOK
<1>8. Lived'
  BY <1>0, <1>1 DEF Lived
<1>9. TotalsExact'
  BY <1>1, SameTotals
<1>10. DepthCovers'
  <2>1. Pending' = Pending \ {c} /\ c \in Pending /\ Pending \subseteq Callers
    BY <1>1 DEF Pending, TypeOK
  <2>2. IsFiniteSet(Pending) /\ Cardinality(Pending) \in Nat
    BY <2>1, PendingFinite
  <2>3. Cardinality(Pending') = Cardinality(Pending) - 1
    BY <2>1, <2>2, FS_RemoveElement
  <2>4. depth \in Nat /\ depth >= Len(chan) + Cardinality(Pending)
    BY DEF DepthCovers, Pending, TypeOK
  <2>5. depth' >= Len(chan') + Cardinality(Pending')
    BY <1>1, <1>2, <2>2, <2>3, <2>4
  <2> QED
    BY <2>5 DEF DepthCovers, Pending
<1>11. NeverDropped'
  BY <1>1 DEF NeverDropped, TypeOK
<1> QED
  BY <1>4, <1>5, <1>6, <1>7, <1>8, <1>9, <1>10, <1>11

\* Filing moves the head of the channel to the end of the queue of its key.
LEMMA FileStep ==
    ASSUME WorkerInv, chan # <<>>, file_item, pc \in {"drain", "wait"}, pc' = "drain",
           UNCHANGED <<callers, item, stamps, elapsed, open, batch>>
    PROVE  WorkerInv'
<1> DEFINE c == Head(chan)
           k == item[c].key
<1> USE DEF WorkerInv
<1>1. /\ c \in Callers /\ chan' = Tail(chan)
      /\ chan' \in Seq(Callers) /\ Len(chan) \in Nat /\ Len(chan) >= 1
      /\ Len(chan') = Len(chan) - 1
      /\ \A d : Contains(chan, d) <=> d = c \/ Contains(chan', d)
      /\ IsInjective(chan') /\ ~Contains(chan', c)
  <2>1. chan \in Seq(Callers) /\ IsInjective(chan)
    BY DEF TypeOK, Distinct
  <2> QED
    BY <2>1, HeadHolds DEF file_item
<1>2. item \in Items /\ k \in Keys /\ item[c].count \in Nat
  BY <1>1, SizeAssumption DEF TypeOK, Items
<1> HIDE DEF c
<1>3. /\ queues' = [queues EXCEPT ![k] = Append(queues[k], c)]
      /\ totals' = [totals EXCEPT ![k] = totals[k] + item[c].count]
      /\ depth' = depth - 1
      /\ UNCHANGED <<callers, item, stamps, elapsed, open, batch>>
  BY DEF file_item, c
<1> HIDE DEF k
<1>4. /\ queues \in [Keys -> Seq(Callers)] /\ totals \in [Keys -> Nat]
      /\ queues[k] \in Seq(Callers)
  BY <1>2 DEF TypeOK
<1>5. /\ Append(queues[k], c) \in Seq(Callers)
      /\ \A d : Contains(Append(queues[k], c), d) <=> Contains(queues[k], d) \/ d = c
      /\ IsInjective(queues[k]) /\ ~Contains(queues[k], c) =>
            IsInjective(Append(queues[k], c))
  BY <1>1, <1>4, AppendProperties, AppendHolds
<1>6. /\ Contains(chan, c) /\ ~Contains(batch, c)
      /\ \A j \in Keys : ~Contains(queues[j], c)
  BY <1>1 DEF Apart
<1>7. \A j \in Keys : \A d : Contains(queues'[j], d) <=> Contains(queues[j], d) \/ (j = k /\ d = c)
  BY <1>2, <1>3, <1>4, <1>5
<1>8. TypeOK'
  <2>1. queues' \in [Keys -> Seq(Callers)]
    BY <1>3, <1>4, <1>5
  <2>2. totals' \in [Keys -> Nat]
    BY <1>2, <1>3, <1>4
  <2>3. Len(chan') <= ChanCap
    BY <1>1, SizeAssumption DEF TypeOK
  <2>4. depth' \in Nat
    <3>1. Cardinality(Pending) \in Nat
      BY PendingFinite DEF Pending
    <3>2. depth \in Nat /\ depth >= Len(chan) + Cardinality(Pending)
      BY DEF TypeOK, DepthCovers, Pending
    <3> QED
      BY <1>1, <1>3, <3>1, <3>2
  <2> QED
    BY <1>1, <1>3, <2>1, <2>2, <2>3, <2>4 DEF TypeOK
<1>9. Distinct'
  <2>1. ASSUME NEW j \in Keys PROVE IsInjective(queues'[j])
    <3>1. CASE j = k
      BY <1>2, <1>3, <1>4, <1>5, <1>6, <3>1 DEF Distinct
    <3>2. CASE j # k
      BY <1>3, <1>4, <3>2 DEF Distinct
    <3> QED
      BY <3>1, <3>2
  <2> QED
    BY <1>1, <1>3, <2>1 DEF Distinct
<1>10. Apart'
  <2>1. ASSUME NEW d \in Callers, Contains(chan', d)
        PROVE  ~Contains(batch', d) /\ \A j \in Keys : ~Contains(queues'[j], d)
    <3>1. d # c /\ Contains(chan, d)
      BY <1>1, <2>1
    <3> QED
      BY <1>3, <1>7, <3>1 DEF Apart
  <2>2. ASSUME NEW d \in Callers, NEW j \in Keys, Contains(queues'[j], d)
        PROVE  item'[d].key = j /\ ~Contains(batch', d)
    <3>1. CASE j = k /\ d = c
      BY <1>3, <1>6, <3>1 DEF k
    <3>2. CASE Contains(queues[j], d)
      BY <1>3, <3>2 DEF Apart
    <3> QED
      BY <1>7, <2>2, <3>1, <3>2
  <2> QED
    BY <2>1, <2>2 DEF Apart
<1>11. Placed'
  <2>1. ASSUME NEW d \in Callers, callers'[d] \in {"idle", "sending", "blocked"}
        PROVE  /\ ~Contains(chan', d) /\ ~Contains(batch', d)
               /\ \A j \in Keys : ~Contains(queues'[j], d)
    <3>1. /\ ~Contains(chan, d) /\ ~Contains(batch, d)
          /\ \A j \in Keys : ~Contains(queues[j], d)
      BY <1>3, <2>1 DEF Placed
    <3>2. d # c
      BY <1>6, <3>1
    <3> QED
      BY <1>1, <1>3, <1>7, <3>1, <3>2
  <2>2. ASSUME NEW d \in Callers, callers'[d] = "waiting"
        PROVE  Contains(chan', d) \/ Contains(batch', d) \/ Contains(queues'[item'[d].key], d)
    <3>1. Contains(chan, d) \/ Contains(batch, d) \/ Contains(queues[item[d].key], d)
      BY <1>3, <2>2 DEF Placed
    <3>2. item[d].key \in Keys
      BY DEF TypeOK
    <3>3. CASE d = c
      BY <1>2, <1>3, <1>7, <3>3 DEF k
    <3>4. CASE d # c
      BY <1>1, <1>3, <1>7, <3>1, <3>2, <3>4
    <3> QED
      BY <3>3, <3>4
  <2> QED
    BY <2>1, <2>2 DEF Placed
<1>12. Lived'
  BY <1>3 DEF Lived
<1>13. TotalsExact'
  <2>1. ASSUME NEW j \in Keys PROVE totals'[j] = Count(queues'[j])
    <3>1. totals[j] = Count(queues[j])
      BY DEF TotalsExact
    <3>2. CASE j = k
      <4>1. Count(Append(queues[k], c)) = Count(queues[k]) + item[c].count
        BY <1>1, <1>2, <1>4, CountAppend
      <4>2. queues'[k] = Append(queues[k], c) /\ totals'[k] = totals[k] + item[c].count
        BY <1>2, <1>3, <1>4
      <4> QED
        BY <3>1, <3>2, <4>1, <4>2
    <3>3. CASE j # k
      BY <1>3, <1>4, <3>1, <3>3
    <3> QED
      BY <3>2, <3>3
  <2> QED
    BY <1>3, <2>1 DEF TotalsExact, Count
<1>14. DepthCovers'
  <2>1. Cardinality(Pending) \in Nat
    BY PendingFinite DEF Pending
  <2>2. depth \in Nat /\ depth >= Len(chan) + Cardinality(Pending)
    BY DEF TypeOK, DepthCovers, Pending
  <2>3. Pending' = Pending
    BY <1>3 DEF Pending
  <2>4. depth' >= Len(chan') + Cardinality(Pending')
    BY <1>1, <1>3, <2>1, <2>2, <2>3
  <2> QED
    BY <2>4 DEF DepthCovers, Pending
<1>15. NeverDropped'
  BY <1>3 DEF NeverDropped
<1> QED
  BY <1>8, <1>9, <1>10, <1>11, <1>12, <1>13, <1>14, <1>15

\* A batch is the front of one queue, and the rest of the queue stays.
LEMMA TakeStep == ASSUME WorkerInv, TakeFlushable PROVE WorkerInv'
<1> USE DEF WorkerInv
<1>0. /\ pc = "take" /\ pc' = "invoke" /\ batch = <<>>
      /\ UNCHANGED <<callers, item, stamps, elapsed, chan, open, depth>>
  BY DEF TakeFlushable, Lived
<1>1. PICK k \in Keys : queues[k] # <<>> /\ take_batch(k)
  BY DEF TakeFlushable, OpenKeys
<1> DEFINE q == queues[k]
           n == BatchLen(q)
           b == SubSeq(q, 1, n)
           r == SubSeq(q, n + 1, Len(q))
<1>2. /\ batch' = b
      /\ queues' = [queues EXCEPT ![k] = r]
      /\ totals' = [totals EXCEPT ![k] = totals[k] - Count(b)]
  BY <1>1 DEF take_batch
<1>3. /\ queues \in [Keys -> Seq(Callers)] /\ totals \in [Keys -> Nat]
      /\ q \in Seq(Callers) /\ IsInjective(q)
  BY DEF TypeOK, Distinct
<1>4. item \in Items
  BY DEF TypeOK, Items
<1> HIDE DEF q
<1>5. n \in 0..Len(q)
  <2>1. n \in 1..Len(q) /\ Len(q) \in Nat
    BY <1>1, <1>3, <1>4, BatchLenCuts, LenProperties DEF q
  <2> HIDE DEF n
  <2> QED
    BY <2>1
<1> HIDE DEF n
<1>6. /\ b \in Seq(Callers) /\ r \in Seq(Callers)
      /\ IsInjective(b) /\ IsInjective(r)
      /\ \A d : Contains(q, d) <=> Contains(b, d) \/ Contains(r, d)
      /\ \A d : ~(Contains(b, d) /\ Contains(r, d))
  BY <1>3, <1>5, PartHolds
<1>7. Count(q) = Count(b) + Count(r) /\ Count(b) \in Nat /\ Count(r) \in Nat
  <2>1. Count(q) = Count(b) + Count(r)
    BY <1>3, <1>4, <1>5, CountSplit
  <2>2. Count(b) \in Nat /\ Count(r) \in Nat
    BY <1>4, <1>6, CountType
  <2> QED
    BY <2>1, <2>2
<1> HIDE DEF b, r
<1>8. totals[k] - Count(b) = Count(r)
  <2>1. totals[k] = Count(q)
    BY DEF TotalsExact, q
  <2> QED
    BY <1>7, <2>1
<1>9. \A j \in Keys : queues'[j] = IF j = k THEN r ELSE queues[j]
  BY <1>2, <1>3
<1>10. TypeOK'
  <2>1. totals' \in [Keys -> Nat]
    BY <1>2, <1>3, <1>7, <1>8
  <2>2. queues' \in [Keys -> Seq(Callers)]
    BY <1>2, <1>3, <1>6
  <2> QED
    BY <1>0, <1>2, <1>6, <2>1, <2>2 DEF TypeOK
<1>11. Distinct'
  BY <1>0, <1>2, <1>6, <1>9 DEF Distinct
<1>12. \A d : Contains(queues[k], d) <=> Contains(batch', d) \/ Contains(queues'[k], d)
  BY <1>2, <1>6, <1>9 DEF q
<1>13. \A d : ~(Contains(batch', d) /\ Contains(queues'[k], d))
  BY <1>2, <1>6, <1>9
<1>14. \A j \in Keys \ {k} : queues'[j] = queues[j]
  BY <1>9
<1>15. Apart'
  <2>1. ASSUME NEW d \in Callers, Contains(chan', d)
        PROVE  ~Contains(batch', d) /\ \A j \in Keys : ~Contains(queues'[j], d)
    <3>1. \A j \in Keys : ~Contains(queues[j], d)
      BY <1>0, <2>1 DEF Apart
    <3> QED
      BY <1>12, <1>14, <3>1
  <2>2. ASSUME NEW d \in Callers, NEW j \in Keys, Contains(queues'[j], d)
        PROVE  item'[d].key = j /\ ~Contains(batch', d)
    <3>1. Contains(queues[j], d)
      BY <1>12, <1>14, <2>2
    <3>2. item[d].key = j
      BY <3>1 DEF Apart
    <3>3. CASE j = k
      BY <1>0, <1>13, <2>2, <3>2, <3>3
    <3>4. CASE j # k
      <4>1. ~Contains(queues[k], d)
        BY <3>2, <3>4 DEF Apart
      <4> QED
        BY <1>0, <1>12, <3>2, <4>1
    <3> QED
      BY <3>3, <3>4
  <2> QED
    BY <2>1, <2>2 DEF Apart
<1>16. Placed'
  <2>1. ASSUME NEW d \in Callers, callers'[d] \in {"idle", "sending", "blocked"}
        PROVE  /\ ~Contains(chan', d) /\ ~Contains(batch', d)
               /\ \A j \in Keys : ~Contains(queues'[j], d)
    <3>1. ~Contains(chan, d) /\ \A j \in Keys : ~Contains(queues[j], d)
      BY <1>0, <2>1 DEF Placed
    <3> QED
      BY <1>0, <1>12, <1>14, <3>1
  <2>2. ASSUME NEW d \in Callers, callers'[d] = "waiting"
        PROVE  Contains(chan', d) \/ Contains(batch', d) \/ Contains(queues'[item'[d].key], d)
    <3>1. Contains(chan, d) \/ Contains(queues[item[d].key], d)
      BY <1>0, <2>2, EmptyHoldsNone DEF Placed
    <3>2. item[d].key \in Keys
      BY DEF TypeOK
    <3> QED
      BY <1>0, <1>12, <1>14, <3>1, <3>2
  <2> QED
    BY <2>1, <2>2 DEF Placed
<1>17. Lived'
  BY <1>0 DEF Lived
<1>18. TotalsExact'
  <2>1. ASSUME NEW j \in Keys PROVE totals'[j] = Count(queues'[j])
    <3>1. CASE j = k
      BY <1>2, <1>3, <1>8, <1>9, <3>1
    <3>2. CASE j # k
      BY <1>2, <1>3, <1>9, <3>2 DEF TotalsExact
    <3> QED
      BY <3>1, <3>2
  <2> QED
    BY <1>0, <2>1 DEF TotalsExact, Count
<1>19. DepthCovers' /\ NeverDropped'
  BY <1>0 DEF DepthCovers, NeverDropped
<1> QED
  BY <1>10, <1>11, <1>15, <1>16, <1>17, <1>18, <1>19

\* The callers of a batch that are still there are answered together.
LEMMA FlushStep == ASSUME WorkerInv, Flush PROVE WorkerInv'
<1> USE DEF WorkerInv
<1>1. PICK res \in {"answered", "failed"} :
         callers' = [c \in Callers |->
                        IF callers[c] = "waiting" /\ Contains(batch, c) THEN res ELSE callers[c]]
  BY DEF Flush
<1>2. /\ batch' = <<>> /\ pc' = "drain"
      /\ UNCHANGED <<item, stamps, elapsed, chan, open, queues, totals, depth>>
  BY DEF Flush
<1>3. /\ \A c \in Callers : callers'[c] = callers[c]
                             \/ (callers[c] = "waiting" /\ callers'[c] = res)
      /\ \A c \in Callers : callers'[c] = "waiting" =>
                               callers[c] = "waiting" /\ ~Contains(batch, c)
  BY <1>1
<1>4. TypeOK'
  <2>1. callers' \in [Callers -> CallerPC]
    BY <1>1 DEF TypeOK, CallerPC
  <2> QED
    BY <1>2, <2>1, EmptySeq DEF TypeOK
<1>5. Distinct' /\ Apart'
  BY <1>2, EmptyHoldsNone DEF Distinct, Apart
<1>6. Placed'
  BY <1>2, <1>3, EmptyHoldsNone DEF Placed
<1>7. Lived'
  BY <1>2 DEF Lived
<1>8. TotalsExact'
  BY <1>2, SameTotals
<1>9. DepthCovers'
  <2>1. {c \in Callers : callers'[c] \in {"sending", "blocked"}}
          = {c \in Callers : callers[c] \in {"sending", "blocked"}}
    BY <1>3
  <2> QED
    BY <1>2, <2>1 DEF DepthCovers
<1>10. NeverDropped'
  BY <1>3 DEF NeverDropped
<1> QED
  BY <1>4, <1>5, <1>6, <1>7, <1>8, <1>9, <1>10

\* When the task exits nobody waits any more, so it drops nobody.
LEMMA CloseStep == ASSUME WorkerInv, WaitClosed PROVE WorkerInv'
<1> USE DEF WorkerInv
<1>1. \A c \in Callers : callers[c] \notin {"sending", "blocked", "waiting"}
  BY DEF WaitClosed, SenderAlive
<1>2. /\ pc = "wait" /\ pc' = "exited" /\ ~SenderAlive
      /\ queues' = [k \in Keys |-> <<>>]
      /\ totals' = [k \in Keys |-> 0]
      /\ UNCHANGED <<item, stamps, elapsed, chan, open, batch, depth>>
  BY DEF WaitClosed
<1>3. callers' = callers
  <2>1. callers' = [c \in Callers |-> callers[c]]
    BY <1>1 DEF WaitClosed
  <2> QED
    BY <2>1 DEF TypeOK
<1>4. TypeOK'
  BY <1>2, <1>3, EmptySeq DEF TypeOK
<1>5. Distinct' /\ Apart'
  BY <1>2, EmptyHoldsNone DEF Distinct, Apart
<1>6. Placed'
  BY <1>1, <1>2, <1>3, EmptyHoldsNone DEF Placed
<1>7. Lived'
  BY <1>2, <1>3 DEF Lived, SenderAlive
<1>8. TotalsExact'
  <2>1. item \in Items /\ <<>> \in Seq(Callers)
    BY EmptySeq DEF TypeOK, Items
  <2>2. Count(<<>>) = 0
    BY <2>1, CountType
  <2>3. \A k \in Keys : totals'[k] = Count(queues'[k])
    BY <1>2, <2>2
  <2> QED
    BY <1>2, <2>3 DEF TotalsExact, Count
<1>9. DepthCovers' /\ NeverDropped'
  BY <1>2, <1>3 DEF DepthCovers, NeverDropped
<1> QED
  BY <1>4, <1>5, <1>6, <1>7, <1>8, <1>9

LEMMA WorkerStep == ASSUME WorkerInv, [Next]_vars PROVE WorkerInv'
<1>1. ASSUME NEW c \in Callers, Enqueue(c) \/ Block(c) \/ Send(c) \/ Disconnect(c)
      PROVE  WorkerInv'
  BY <1>1, EnqueueStep, BlockStep, SendStep, DisconnectStep
<1>2. ASSUME RemoveEntry \/ TimePasses PROVE WorkerInv'
  BY <1>2, EnvironmentStep
<1>3. CASE Drain
  BY <1>3, FileStep DEF Drain
<1>4. CASE WaitReceives
  BY <1>4, FileStep DEF WaitReceives
<1>5. CASE DrainDone \/ NothingFlushable \/ WaitExpires
  BY <1>5, PollStep
<1>6. CASE TakeFlushable
  BY <1>6, TakeStep
<1>7. CASE WaitClosed
  BY <1>7, CloseStep
<1>8. CASE Flush
  BY <1>8, FlushStep
<1>9. CASE UNCHANGED vars
  BY <1>9, QuietStep DEF vars, WorkerInv, TypeOK
<1> QED
  BY <1>1, <1>2, <1>3, <1>4, <1>5, <1>6, <1>7, <1>8, <1>9 DEF Next, Worker

THEOREM WorkerInvariance == Spec => []WorkerInv
<1>1. Init => WorkerInv
  BY WorkerInit
<1>2. WorkerInv /\ [Next]_vars => WorkerInv'
  BY WorkerStep
<1> QED
  BY <1>1, <1>2, PTL DEF Spec

-----------------------------------------------------------------------------
(* What a caller can rely on.                                              *)

LEMMA OneOfThree ==
    ASSUME WorkerInv PROVE Conserved
<1> SUFFICES ASSUME NEW c \in Callers, callers[c] = "waiting"
             PROVE  Occurrences(c, chan) + Occurrences(c, queues[item[c].key])
                        + Occurrences(c, batch) = 1
  BY DEF Conserved
<1> DEFINE k == item[c].key
<1>1. /\ k \in Keys /\ chan \in Seq(Callers) /\ batch \in Seq(Callers)
      /\ queues[k] \in Seq(Callers)
  BY DEF WorkerInv, TypeOK
<1>2. IsInjective(chan) /\ IsInjective(batch) /\ IsInjective(queues[k])
  BY <1>1 DEF WorkerInv, Distinct
<1>3. Contains(chan, c) \/ Contains(batch, c) \/ Contains(queues[k], c)
  BY DEF WorkerInv, Placed
<1>4. /\ Contains(chan, c) => ~Contains(batch, c) /\ ~Contains(queues[k], c)
      /\ Contains(queues[k], c) => ~Contains(batch, c)
  BY <1>1 DEF WorkerInv, Apart
<1>5. /\ Occurrences(c, chan) = IF Contains(chan, c) THEN 1 ELSE 0
      /\ Occurrences(c, batch) = IF Contains(batch, c) THEN 1 ELSE 0
      /\ Occurrences(c, queues[k]) = IF Contains(queues[k], c) THEN 1 ELSE 0
  BY <1>1, <1>2, OccursOnce
<1> QED
  BY <1>3, <1>4, <1>5

\* The books are right in every reachable state: each waiting caller's item is
\* in exactly one place, total_items is the sum of the queued counts and
\* queue_depth never underflows (file_item, take_batch, Dispatcher::create).
THEOREM BooksAreExact == Spec => []Accounted
<1>1. WorkerInv => Accounted
  BY OneOfThree DEF WorkerInv, Accounted
<1> QED
  BY <1>1, WorkerInvariance, PTL

\* No caller is told that its task was dropped or its queue closed: the task
\* exits only once every sender is gone (run and Dispatcher::remove).
THEOREM CallersAreServed == Spec => []NeverDropped
<1>1. WorkerInv => NeverDropped
  BY DEF WorkerInv
<1> QED
  BY <1>1, WorkerInvariance, PTL

LEMMA BatchFits ==
    ASSUME WorkerInv, NEW k \in Keys, queues[k] # <<>>, take_batch(k), item' = item
    PROVE  BatchSound'
<1> DEFINE q == queues[k]
           n == BatchLen(q)
           b == SubSeq(q, 1, n)
<1>1. q \in Seq(Callers) /\ item \in Items
  BY DEF WorkerInv, TypeOK, Items
<1>2. batch' = b
  BY DEF take_batch
<1>3. /\ n \in 1..Len(q) /\ Len(q) \in Nat
      /\ \A i \in 2..n : Count(SubSeq(q, 1, i)) <= Capacity
  BY <1>1, BatchLenCuts, LenProperties
<1>4. \A d \in Callers : Contains(q, d) => item[d].key = k
  BY DEF WorkerInv, Apart
<1> HIDE DEF q, n
<1>5. /\ b \in Seq(Callers) /\ Len(b) = n
      /\ \A d : Contains(b, d) => Contains(q, d)
  <2>1. n \in 0..Len(q)
    BY <1>3
  <2> QED
    BY <1>1, <2>1, PartHolds
<1>6. Len(batch') <= 1 \/ Count(batch') <= Capacity
  <2>1. CASE n = 1
    BY <1>2, <1>5, <2>1
  <2>2. CASE n # 1
    <3>1. n \in 2..n
      BY <1>3, <2>2
    <3> QED
      BY <1>2, <1>3, <3>1
  <2> QED
    BY <2>1, <2>2
<1> HIDE DEF b
<1>7. \A i \in DOMAIN b : item[b[i]].key = k
  <2> TAKE i \in DOMAIN b
  <2>1. DOMAIN b = 1..Len(b)
    BY <1>5, LenProperties
  <2>2. b[i] \in Callers /\ Contains(b, b[i])
    BY <1>5, <2>1, ElementOfSeq DEF Contains
  <2> QED
    BY <1>4, <1>5, <2>2
<1>8. \A i, j \in DOMAIN batch' : item[batch'[i]].key = item[batch'[j]].key
  BY <1>2, <1>7
<1> QED
  BY <1>6, <1>8 DEF BatchSound, Count

\* A batch holds one key and fits the capacity unless it is one request alone
\* (take_batch).
THEOREM BatchesFit == Spec => []BatchSound
<1>1. Init => BatchSound
  BY DEF Init, BatchSound
<1>2. WorkerInv /\ BatchSound /\ [Next]_vars => BatchSound'
  <2> SUFFICES ASSUME WorkerInv, BatchSound, [Next]_vars PROVE BatchSound'
    OBVIOUS
  <2>1. CASE UNCHANGED <<item, batch>>
    BY <2>1 DEF BatchSound, Count
  <2>2. CASE TakeFlushable
    <3>1. PICK k \in Keys : queues[k] # <<>> /\ take_batch(k)
      BY <2>2 DEF TakeFlushable, OpenKeys
    <3> QED
      BY <2>2, <3>1, BatchFits DEF TakeFlushable
  <2>3. CASE Flush
    <3>1. batch' = <<>>
      BY <2>3 DEF Flush
    <3> QED
      BY <3>1 DEF BatchSound
  <2>4. [Next]_vars => TakeFlushable \/ Flush \/ UNCHANGED <<item, batch>>
    BY DEF Next, Worker, vars, Enqueue, Block, Send, Disconnect, RemoveEntry, TimePasses,
           Drain, DrainDone, NothingFlushable, WaitReceives, WaitExpires, WaitClosed
  <2> QED
    BY <2>1, <2>2, <2>3, <2>4
<1> QED
  BY <1>1, <1>2, WorkerInvariance, PTL DEF Spec

-----------------------------------------------------------------------------
(*                     One batch: merging and splitting                    *)
-----------------------------------------------------------------------------
(* Extrema and division.                                                   *)

\* The greatest of a set of integers.
LEMMA MaxIs ==
    ASSUME NEW S \in SUBSET Int, NEW x \in S, \A y \in S : y <= x
    PROVE  MaxOf(S) = x
<1>1. MaxOf(S) \in S /\ \A y \in S : y <= MaxOf(S)
  BY DEF MaxOf
<1>2. /\ MaxOf(S) \in Int /\ x \in Int
      /\ x <= MaxOf(S) /\ MaxOf(S) <= x
  BY <1>1
<1> QED
  BY <1>2

\* The least of a set of natural numbers.
LEMMA MinIs ==
    ASSUME NEW S \in SUBSET Nat, S # {}
    PROVE  MinOf(S) \in S /\ \A y \in S : MinOf(S) <= y
<1> DEFINE Q == {n \in Nat : (\E k \in S : k <= n) => \E x \in S : \A y \in S : x <= y}
<1>1. 0 \in Q
  <2> SUFFICES ASSUME NEW k \in S, k <= 0 PROVE \E x \in S : \A y \in S : x <= y
    OBVIOUS
  <2>1. \A y \in S : k <= y
    OBVIOUS
  <2> QED
    BY <2>1
<1>2. ASSUME NEW n \in Nat, n \in Q PROVE n + 1 \in Q
  <2> SUFFICES ASSUME NEW k \in S, k <= n + 1 PROVE \E x \in S : \A y \in S : x <= y
    OBVIOUS
  <2>1. CASE \E j \in S : j <= n
    BY <1>2, <2>1
  <2>2. CASE ~(\E j \in S : j <= n)
    <3>1. \A y \in S : k <= y
      BY <2>2
    <3> QED
      BY <3>1
  <2> QED
    BY <2>1, <2>2
<1>3. Nat \subseteq Q
  <2> HIDE DEF Q
  <2> QED
    BY <1>1, <1>2, NatInd
<1>4. PICK k \in S : TRUE
  OBVIOUS
<1>5. k \in Q /\ k <= k
  BY <1>3
<1>6. \E x \in S : \A y \in S : x <= y
  BY <1>5
<1> QED
  BY <1>6 DEF MinOf

\* A quotient and a remainder are the only ones.
LEMMA DivUnique ==
    ASSUME NEW P \in Nat, P # 0, NEW q \in Nat, NEW r \in 0..(P - 1)
    PROVE  (q * P + r) \div P = q /\ (q * P + r) % P = r
  OBVIOUS

\* Dividing what follows a whole number of rows.
LEMMA DivOffset ==
    ASSUME NEW P \in Nat, P # 0, NEW a \in Nat, NEW e \in Nat
    PROVE  /\ (a * P + e) \div P = a + (e \div P)
           /\ (a * P + e) % P = e % P
           /\ e \div P \in Nat
<1> DEFINE q == e \div P
           r == e % P
<1>1. q \in Nat /\ r \in 0..(P - 1) /\ e = q * P + r
  OBVIOUS
<1>2. a * P + e = (a + q) * P + r /\ a + q \in Nat
  BY <1>1
<1> HIDE DEF q, r
<1>3. ((a + q) * P + r) \div P = a + q /\ ((a + q) * P + r) % P = r
  BY <1>1, <1>2, DivUnique
<1> QED
  BY <1>1, <1>2, <1>3 DEF q, r

\* A row within c rows of P elements.
LEMMA DivBound ==
    ASSUME NEW P \in Nat, P # 0, NEW c \in Nat, NEW e \in Nat, e < c * P
    PROVE  (e \div P) + 1 \in 1..c
<1> DEFINE q == e \div P
           r == e % P
<1>1. q \in Nat /\ r \in 0..(P - 1) /\ e = q * P + r
  OBVIOUS
<1> HIDE DEF q, r
<1>2. q < c
  <2> SUFFICES ASSUME ~(q < c) PROVE FALSE
    OBVIOUS
  <2>1. PICK d \in Nat : q = c + d
    <3>1. q - c \in Nat /\ q = c + (q - c)
      BY <1>1
    <3> QED
      BY <3>1
  <2>2. q * P = c * P + d * P /\ d * P \in Nat /\ c * P \in Nat
    BY <2>1
  <2> QED
    BY <1>1, <2>2
<1> QED
  BY <1>1, <1>2 DEF q

\* The product of a shape without a zero dimension.
Products(g, f, S) ==
    g = [s \in SUBSET S |-> IF s = {} THEN 1 ELSE f[Next1(s)] * g[s \ {Next1(s)}]]

ProductOf(f, S) == CHOOSE g : Products(g, f, S)

LEMMA ProductsType ==
    ASSUME NEW S, IsFiniteSet(S), NEW V, V = Nat \ {0}, NEW f, \A k \in S : f[k] \in V
    PROVE  ProductOf(f, S)[S] \in V
<1>1. \A x, y \in V : x * y \in V
  OBVIOUS
<1>2. PICK step : \A x \in S : \A v \in V : step[<<x, v>>] = f[x] * v
  <2> DEFINE st == [p \in S \X V |-> f[p[1]] * p[2]]
  <2>1. ASSUME NEW x \in S, NEW v \in V PROVE st[<<x, v>>] = f[x] * v
    <3>1. <<x, v>> \in S \X V /\ <<x, v>>[1] = x /\ <<x, v>>[2] = v
      OBVIOUS
    <3> QED
      BY <3>1
  <2> QED
    BY <2>1
<1>3. (\A x \in S : \A v \in V : step[<<x, v>>] \in V) /\ 1 \in V
  BY <1>1, <1>2
<1>4. PICK g : FoldsBy(g, 1, step, V, S)
  BY <1>3, FoldExists
<1>5. Products(g, f, S)
  <2>1. ASSUME NEW T \in SUBSET S
        PROVE  g[T] = IF T = {} THEN 1 ELSE f[Next1(T)] * g[T \ {Next1(T)}]
    <3>1. CASE T = {}
      BY <1>4, <3>1 DEF FoldsBy
    <3>2. CASE T # {}
      <4>1. Next1(T) \in S /\ T \ {Next1(T)} \in SUBSET S
        BY <3>2 DEF Next1
      <4>2. g[T \ {Next1(T)}] \in V
        BY <1>4, <4>1 DEF FoldsBy
      <4>3. g[T] = step[<<Next1(T), g[T \ {Next1(T)}]>>]
        BY <1>4, <3>2 DEF FoldsBy
      <4> QED
        BY <1>2, <3>2, <4>1, <4>2, <4>3
    <3> QED
      BY <3>1, <3>2
  <2>2. g = [T \in SUBSET S |-> g[T]]
    BY <1>4 DEF FoldsBy
  <2> QED
    BY <2>1, <2>2 DEF Products
<1>6. PICK h : h = ProductOf(f, S) /\ Products(h, f, S)
  BY <1>5 DEF ProductOf
<1> DEFINE Q == {T \in SUBSET S : h[T] \in V}
<1>7. ASSUME NEW T \in SUBSET S, \A x \in T : T \ {x} \in Q PROVE T \in Q
  <2>1. CASE T = {}
    BY <1>3, <1>6, <2>1 DEF Products
  <2>2. CASE T # {}
    <3>1. h[T] = f[Next1(T)] * h[T \ {Next1(T)}]
      BY <1>6, <2>2 DEF Products
    <3>2. Next1(T) \in T
      BY <2>2 DEF Next1
    <3>3. h[T \ {Next1(T)}] \in V /\ f[Next1(T)] \in V
      BY <1>7, <3>2
    <3> QED
      BY <1>1, <3>1, <3>3
  <2> QED
    BY <2>1, <2>2
<1>8. SUBSET S \subseteq Q
  <2> HIDE DEF Q
  <2> QED
    BY <1>7, FiniteInd
<1> QED
  BY <1>6, <1>8

LEMMA ProductType ==
    ASSUME NEW shape \in Seq(Nat), \A k \in DOMAIN shape : shape[k] # 0
    PROVE  Product(shape) \in Nat \ {0}
<1>1. IsFiniteSet(DOMAIN shape) /\ \A k \in DOMAIN shape : shape[k] \in Nat \ {0}
  <2>1. /\ DOMAIN shape = 1..Len(shape) /\ Len(shape) \in Nat
        /\ IsFiniteSet(1..Len(shape))
    BY LenProperties, FS_Interval
  <2> QED
    BY <2>1, ElementOfSeq
<1>2. ProductOf(shape, DOMAIN shape)[DOMAIN shape] \in Nat \ {0}
  BY <1>1, ProductsType
<1>3. Product(shape) = ProductOf(shape, DOMAIN shape)[DOMAIN shape]
  BY DEF Product, FoldSeq, FoldFunction, FoldFunctionOnSet, MapThenFoldSet, ProductOf,
         Products, Next1
<1> QED
  BY <1>2, <1>3

-----------------------------------------------------------------------------
(* The inductive invariant.                                                *)

CountsOf(rs) == [i \in DOMAIN rs |-> rs[i].count]

InputsOf(rs) == [i \in DOMAIN rs |-> rs[i].inputs]

BatchTyped ==
    /\ sig \in Signatures
    /\ trailing \in Trailing
    /\ requests \in Seq(ToSet(requests))

Requested ==
    \A i \in DOMAIN requests :
        /\ requests[i].inputs \in Inputs
        /\ WellFormed(requests[i].inputs)
        /\ requests[i].count = item_count(requests[i].inputs, Plan.params)

Fitting ==
    Len(requests) > 1 =>
        Plan.plan = "Buffered" /\ Total(CountsOf(requests)) <= Plan.capacity

Results == Predict(call, Plan.params)

AllInRange == \A j \in DOMAIN Results : InRange(Results[j], CountsOf(requests))

Settled ==
    phase # "open" =>
        /\ requests # <<>>
        /\ call = merge_inputs(InputsOf(requests), Plan.params)
        /\ Len(requests) = 1 => phase = "answered" /\ answers = <<Results>>
        /\ Len(requests) # 1 /\ AllInRange =>
              phase = "answered" /\ answers = split_results(Results, CountsOf(requests))

BatchInv == BatchTyped /\ Requested /\ Fitting /\ Settled

-----------------------------------------------------------------------------
(* The plan and the shape of a request.                                    *)

LEMMA PlanShape ==
    ASSUME sig \in Signatures
    PROVE  /\ Plan.params \in {{}, batched(sig)}
           /\ Plan.plan = "Buffered" =>
                 /\ Plan.params = batched(sig) /\ Plan.params # {}
                 /\ \A n \in Plan.params :
                       sig[n].capacity # NoCapacity =>
                           Plan.capacity \in Nat /\ Plan.capacity <= sig[n].capacity
<1>1. \A n \in batched(sig) : sig[n].capacity = NoCapacity \/ sig[n].capacity \in Nat
  BY SignaturesAssumption DEF batched
<1>2. capacities(sig) \in SUBSET Nat
  BY <1>1 DEF capacities
<1>3. ASSUME NEW n \in batched(sig), sig[n].capacity # NoCapacity
      PROVE  /\ capacities(sig) # {}
             /\ MinOf(capacities(sig)) \in Nat /\ MinOf(capacities(sig)) <= sig[n].capacity
  <2>1. sig[n].capacity \in capacities(sig)
    BY <1>3 DEF capacities
  <2> QED
    BY <1>2, <2>1, MinIs
<1> QED
  BY <1>3 DEF Plan, from_signature

Elements == UNION {ToSet(v.items) : v \in Values}

LEMMA RequestShape ==
    ASSUME sig \in Signatures, NEW f \in Inputs, WellFormed(f)
    PROVE  /\ item_count(f, Plan.params) \in Nat \ {0}
           /\ Plan.plan = "Buffered" =>
                 /\ Plan.params \subseteq DOMAIN f
                 /\ Rows(f, Plan.params) = item_count(f, Plan.params)
                 /\ \A n \in Plan.params :
                       /\ f[n].kind = "list" /\ f[n].items \in Seq(Elements)
                       /\ Len(f[n].items) = item_count(f, Plan.params)
<1> DEFINE B == batched(sig)
           P == Plan.params
<1>1. P \in {{}, B} /\ (Plan.plan = "Buffered" => P = B /\ P # {})
  BY PlanShape
<1>2. CASE P = {}
  <2>1. item_count(f, P) = MaxOf({1})
    BY <1>2 DEF item_count
  <2>2. MaxOf({1}) = 1
    BY MaxIs
  <2> QED
    BY <1>1, <1>2, <2>1, <2>2
<1>3. CASE P # {}
  <2>1. PICK b \in B : P = B
    BY <1>1, <1>3
  <2> DEFINE L == Len(f[b].items)
  <2>2. B \subseteq DOMAIN f
    BY DEF WellFormed
  <2>3. ASSUME NEW n \in B
        PROVE  /\ f[n].kind = "list" /\ f[n].items # <<>> /\ Len(f[n].items) = L
               /\ f[n].items \in Seq(Elements)
    <3>1. f[n].kind = "list" /\ f[n].items # <<>> /\ Len(f[n].items) = L
      BY DEF WellFormed
    <3>2. f[n] \in Values
      BY <2>2 DEF Inputs
    <3>3. f[n].items \in Seq(ToSet(f[n].items)) /\ ToSet(f[n].items) \subseteq Elements
      BY <3>1, <3>2, ValuesAssumption DEF Elements
    <3> QED
      BY <3>1, <3>3
  <2>4. L \in Nat \ {0}
    BY <2>3, EmptySeq, LenProperties
  <2>5. /\ {IF f[n].kind = "list" THEN Len(f[n].items) ELSE 1 : n \in P \cap DOMAIN f} = {L}
        /\ {Len(f[n].items) : n \in P \cap DOMAIN f} = {L}
    BY <2>1, <2>2, <2>3
  <2> HIDE DEF L
  <2>6. MaxOf({1} \cup {L}) = L /\ MaxOf({0} \cup {L}) = L
    <3>1. /\ {1} \cup {L} \in SUBSET Int /\ {0} \cup {L} \in SUBSET Int
          /\ \A y \in {1} \cup {L} : y <= L
          /\ \A y \in {0} \cup {L} : y <= L
      BY <2>4
    <3> QED
      BY <3>1, MaxIs
  <2>7. item_count(f, P) = L /\ Rows(f, P) = L
    BY <2>5, <2>6 DEF item_count, Rows
  <2> QED
    BY <2>1, <2>2, <2>3, <2>4, <2>7
<1> QED
  BY <1>2, <1>3

-----------------------------------------------------------------------------
(* Merging.                                                                *)

LEMMA CountsShape ==
    ASSUME BatchTyped, Requested
    PROVE  /\ DOMAIN requests = 1..Len(requests) /\ Len(requests) \in Nat
           /\ CountsOf(requests) \in Seq(Nat)
           /\ Len(CountsOf(requests)) = Len(requests)
           /\ DOMAIN CountsOf(requests) = DOMAIN requests
           /\ \A i \in DOMAIN requests : CountsOf(requests)[i] = requests[i].count
<1>1. DOMAIN requests = 1..Len(requests) /\ Len(requests) \in Nat
  BY LenProperties DEF BatchTyped
<1>2. \A i \in DOMAIN requests : requests[i].count \in Nat
  BY RequestShape DEF BatchTyped, Requested
<1>3. CountsOf(requests) \in [1..Len(requests) -> Nat]
  BY <1>1, <1>2 DEF CountsOf
<1> QED
  BY <1>1, <1>3 DEF CountsOf

\* What the invocation of a batch is given: for every batch parameter the
\* lists of the requests one after the other, for the others the first
\* request's values.
LEMMA MergedShape ==
    ASSUME BatchTyped, Requested, Len(requests) > 1, Plan.plan = "Buffered",
           NEW m, m = merge_inputs(InputsOf(requests), Plan.params)
    PROVE  /\ DOMAIN m = (DOMAIN requests[1].inputs \ Plan.params) \cup Plan.params
           /\ \A n \in DOMAIN requests[1].inputs \ Plan.params : m[n] = requests[1].inputs[n]
           /\ \A n \in Plan.params :
                 /\ Len(m[n].items) = Total(CountsOf(requests))
                 /\ \A i \in DOMAIN requests : \A j \in 1..requests[i].count :
                       /\ Offset(CountsOf(requests), i) + j \in 1..Total(CountsOf(requests))
                       /\ m[n].items[Offset(CountsOf(requests), i) + j]
                             = requests[i].inputs[n].items[j]
<1> DEFINE P == Plan.params
           C == CountsOf(requests)
           ins == InputsOf(requests)
           L == Len(requests)
           ListOf(f, n) == IF n \in DOMAIN f /\ f[n].kind = "list" THEN f[n].items ELSE <<>>
           joined(n) == FlattenSeq([i \in DOMAIN ins |-> ListOf(ins[i], n)])
<1>1. /\ DOMAIN requests = 1..L /\ L \in Nat /\ C \in Seq(Nat) /\ Len(C) = L
      /\ DOMAIN C = DOMAIN requests
      /\ \A i \in DOMAIN requests : C[i] = requests[i].count
  BY CountsShape
<1>2. /\ DOMAIN ins = 1..L /\ Len(ins) = L
      /\ \A i \in 1..L : ins[i] = requests[i].inputs
  <2>1. DOMAIN ins = 1..L /\ \A i \in 1..L : ins[i] = requests[i].inputs
    BY <1>1 DEF InputsOf
  <2>2. ins \in Seq({requests[i].inputs : i \in 1..L})
    BY <1>1 DEF InputsOf
  <2> HIDE DEF ins
  <2> QED
    BY <1>1, <2>1, <2>2, LenProperties
<1>3. m = [n \in (DOMAIN ins[1] \ P) \cup P |->
              IF n \notin P THEN ins[1][n] ELSE [kind |-> "list", items |-> joined(n)]]
  <2>1. Len(ins) # 1
    BY <1>2
  <2> HIDE DEF ins, P
  <2> QED
    BY <2>1 DEF merge_inputs, ins, P
<1>4. 1 \in 1..L /\ ins[1] = requests[1].inputs
  BY <1>1, <1>2
<1>5. ASSUME NEW n \in P
      PROVE  /\ m[n].items = joined(n)
             /\ Len(joined(n)) = Total(C)
             /\ Joined(joined(n), [i \in 1..L |-> requests[i].inputs[n].items], C, L)
  <2> DEFINE ss == [i \in 1..L |-> requests[i].inputs[n].items]
  <2>1. \A i \in 1..L : /\ n \in DOMAIN ins[i] /\ ins[i][n].kind = "list"
                        /\ ins[i][n].items \in Seq(Elements)
                        /\ Len(ins[i][n].items) = C[i]
    <3> SUFFICES ASSUME NEW i \in 1..L
                 PROVE  /\ n \in DOMAIN ins[i] /\ ins[i][n].kind = "list"
                        /\ ins[i][n].items \in Seq(Elements)
                        /\ Len(ins[i][n].items) = C[i]
      OBVIOUS
    <3>1. /\ requests[i].inputs \in Inputs /\ WellFormed(requests[i].inputs)
          /\ requests[i].count = item_count(requests[i].inputs, P)
      BY <1>1 DEF Requested
    <3>2. /\ n \in DOMAIN requests[i].inputs /\ requests[i].inputs[n].kind = "list"
          /\ requests[i].inputs[n].items \in Seq(Elements)
          /\ Len(requests[i].inputs[n].items) = requests[i].count
      BY <3>1, RequestShape DEF BatchTyped
    <3> HIDE DEF ins, C
    <3> QED
      BY <1>1, <1>2, <3>2
  <2>2. [i \in DOMAIN ins |-> ListOf(ins[i], n)] = ss
    <3> HIDE DEF ins, L
    <3> QED
      BY <1>2, <2>1
  <2>3. ss \in Seq(Seq(Elements)) /\ Len(ss) = L /\ DOMAIN ss = 1..L
    <3>1. ss \in [1..L -> Seq(Elements)] /\ L \in Nat
      BY <1>1, <1>2, <2>1
    <3> HIDE DEF ss, L
    <3>2. ss \in Seq(Seq(Elements)) /\ DOMAIN ss = 1..L
      BY <3>1
    <3>3. Len(ss) = L
      BY <3>1, <3>2, LenProperties
    <3> QED
      BY <3>2, <3>3
  <2>4. \A i \in 1..L : Len(ss[i]) = C[i]
    BY <1>2, <2>1
  <2>5. C = [i \in DOMAIN ss |-> Len(ss[i])]
    <3> HIDE DEF ss, L
    <3>1. C \in [1..L -> Nat]
      BY <1>1
    <3> QED
      BY <2>3, <2>4, <3>1
  <2>6. Len(FlattenSeq(ss)) = SumFunction(C) /\ Joined(FlattenSeq(ss), ss, C, L)
    <3> HIDE DEF ss, C
    <3>1. Len(ss) # 0
      BY <2>3
    <3> QED
      BY <2>3, <2>5, <3>1, FlattenHolds
  <2>7. m[n].items = joined(n)
    <3> HIDE DEF ins, P, joined
    <3> QED
      BY <1>3
  <2> QED
    BY <2>2, <2>6, <2>7 DEF Total
<1>6. \A i \in 1..L : Offset(C, i) = Before(C, i)
  BY DEF Offset, Before, Total
<1>7. ASSUME NEW n \in P, NEW i \in 1..L, NEW j \in 1..requests[i].count
      PROVE  /\ Offset(C, i) + j \in 1..Total(C)
             /\ m[n].items[Offset(C, i) + j] = requests[i].inputs[n].items[j]
  <2>1. j \in 1..C[i]
    BY <1>1
  <2>2. /\ Before(C, i) + j \in 1..Len(joined(n))
        /\ joined(n)[Before(C, i) + j] = [k \in 1..L |-> requests[k].inputs[n].items][i][j]
    <3> HIDE DEF joined, C, L, P
    <3> QED
      BY <1>5, <2>1 DEF Joined
  <2> HIDE DEF joined, C
  <2> QED
    BY <1>5, <1>6, <2>2
<1>8. DOMAIN m = (DOMAIN requests[1].inputs \ P) \cup P
  <2> HIDE DEF ins, P, joined
  <2> QED
    BY <1>3, <1>4
<1>9. \A n \in DOMAIN requests[1].inputs \ P : m[n] = requests[1].inputs[n]
  <2> HIDE DEF ins, P, joined
  <2> QED
    BY <1>3, <1>4
<1> HIDE DEF joined, C, L
<1> QED
  BY <1>1, <1>5, <1>7, <1>8, <1>9 DEF C, L

-----------------------------------------------------------------------------
(* Forming a batch.                                                        *)

LEMMA BatchStarts == BatchInit => BatchInv
<1> SUFFICES ASSUME BatchInit PROVE BatchInv
  OBVIOUS
<1>1. requests = <<>> /\ phase = "open"
  BY DEF BatchInit
<1>2. DOMAIN requests = {} /\ Len(requests) = 0 /\ requests \in Seq(ToSet(requests))
  BY <1>1, EmptySeq
<1> QED
  BY <1>1, <1>2 DEF BatchInit, BatchInv, BatchTyped, Requested, Fitting, Settled

\* A request that joins the batch fits what is left of the capacity.
LEMMA ArriveHolds ==
    ASSUME BatchInv, NEW inputs \in Inputs, WellFormed(inputs), Arrive(inputs)
    PROVE  BatchInv'
<1> DEFINE params == Plan.params
           r == [inputs |-> inputs, key |-> compute_batch_key(inputs, params, opaques),
                 count |-> item_count(inputs, params)]
           L == Len(requests)
           C == CountsOf(requests)
<1>1. /\ phase = "open" /\ requests' = Append(requests, r)
      /\ UNCHANGED <<sig, trailing, phase, call, answers>>
      /\ requests # <<>> => Plan.plan = "Buffered" /\ Total(C) + r.count <= Plan.capacity
  BY DEF Arrive, CountsOf
<1>2. Plan' = Plan /\ Inputs' = Inputs /\ (\A f : WellFormed(f)' = WellFormed(f))
  BY <1>1 DEF Plan, Inputs, WellFormed
<1>3. /\ DOMAIN requests = 1..L /\ L \in Nat /\ C \in Seq(Nat) /\ Len(C) = L
      /\ \A i \in 1..L : C[i] = requests[i].count
  BY CountsShape DEF BatchInv
<1>4. r.count \in Nat /\ r.inputs = inputs /\ r.count = item_count(inputs, params)
  <2>1. item_count(inputs, params) \in Nat
    BY RequestShape DEF BatchInv, BatchTyped
  <2> QED
    BY <2>1
<1> HIDE DEF r, L, C
<1>5. /\ Append(requests, r) \in Seq(ToSet(requests) \cup {r})
      /\ Len(Append(requests, r)) = L + 1
      /\ \A i \in 1..L : Append(requests, r)[i] = requests[i]
      /\ Append(requests, r)[L + 1] = r
  <2>1. requests \in Seq(ToSet(requests) \cup {r}) /\ r \in ToSet(requests) \cup {r}
    BY DEF BatchInv, BatchTyped
  <2> QED
    BY <2>1, AppendProperties DEF L
<1>6. /\ requests' \in Seq(ToSet(requests')) /\ Len(requests') = L + 1
      /\ DOMAIN requests' = 1..(L + 1)
      /\ \A i \in 1..L : requests'[i] = requests[i]
      /\ requests'[L + 1] = r
  <2>1. /\ requests' \in Seq(ToSet(requests) \cup {r}) /\ Len(requests') = L + 1
        /\ DOMAIN requests' = 1..(L + 1)
    BY <1>1, <1>5, LenProperties
  <2>2. \A i \in 1..(L + 1) : requests'[i] \in ToSet(requests')
    BY <2>1 DEF ToSet
  <2>3. requests' \in [1..(L + 1) -> ToSet(requests')]
    BY <2>1, <2>2
  <2>4. requests' \in Seq(ToSet(requests'))
    BY <1>3, <2>3
  <2> QED
    BY <1>1, <1>5, <2>1, <2>4
<1>7. BatchTyped'
  BY <1>1, <1>6 DEF BatchInv, BatchTyped
<1>8. Requested'
  <2> SUFFICES ASSUME NEW i \in 1..(L + 1)
               PROVE  /\ requests'[i].inputs \in Inputs
                      /\ WellFormed(requests'[i].inputs)
                      /\ requests'[i].count = item_count(requests'[i].inputs, params)
    BY <1>2, <1>6 DEF Requested
  <2>1. CASE i = L + 1
    BY <1>4, <1>6, <2>1
  <2>2. CASE i # L + 1
    <3>1. i \in 1..L
      BY <1>3, <2>2
    <3> QED
      BY <1>3, <1>6, <3>1 DEF BatchInv, Requested
  <2> QED
    BY <2>1, <2>2
<1>9. Fitting'
  <2> SUFFICES ASSUME L + 1 > 1
               PROVE  Plan.plan = "Buffered" /\ Total(CountsOf(requests')) <= Plan.capacity
    BY <1>2, <1>6 DEF Fitting
  <2>1. requests # <<>>
    BY <1>3, EmptySeq DEF L
  <2>2. CountsOf(requests') = Append(C, r.count)
    <3>1. /\ Append(C, r.count) \in Seq(Nat) /\ Len(Append(C, r.count)) = L + 1
          /\ \A i \in 1..L : Append(C, r.count)[i] = C[i]
          /\ Append(C, r.count)[L + 1] = r.count
      BY <1>3, <1>4, AppendProperties
    <3>2. Append(C, r.count) \in [1..(L + 1) -> Nat]
      BY <3>1, LenProperties
    <3>3. \A i \in 1..(L + 1) : Append(C, r.count)[i] = requests'[i].count
      <4> SUFFICES ASSUME NEW i \in 1..(L + 1)
                   PROVE  Append(C, r.count)[i] = requests'[i].count
        OBVIOUS
      <4>1. i \in 1..L \/ i = L + 1
        BY <1>3
      <4> QED
        BY <1>3, <1>6, <3>1, <4>1
    <3> QED
      BY <1>6, <3>2, <3>3 DEF CountsOf
  <2>3. Total(CountsOf(requests')) = Total(C) + r.count
    BY <1>3, <1>4, <2>2, SeqSumAppend DEF Total
  <2> QED
    BY <1>1, <2>1, <2>3
<1>10. Settled'
  BY <1>1 DEF Settled
<1> QED
  BY <1>7, <1>8, <1>9, <1>10 DEF BatchInv

LEMMA ProcessHolds == ASSUME BatchInv, process_batch PROVE BatchInv'
<1> DEFINE C == CountsOf(requests)
           merged == merge_inputs(InputsOf(requests), Plan.params)
           results == Predict(merged, Plan.params)
           fits == Len(requests) = 1 \/ \A j \in DOMAIN results : InRange(results[j], C)
<1>1. /\ requests # <<>>
      /\ call' = merged
      /\ phase' = IF fits THEN "answered" ELSE "panicked"
      /\ answers' = CASE ~fits -> <<>>
                      [] Len(requests) = 1 -> <<results>>
                      [] OTHER -> split_results(results, C)
      /\ UNCHANGED <<sig, trailing, requests>>
  BY DEF process_batch, CountsOf, InputsOf
<1>2. /\ Plan' = Plan /\ Inputs' = Inputs /\ (\A f : WellFormed(f)' = WellFormed(f))
      /\ Results' = results
  BY <1>1 DEF Plan, Inputs, WellFormed, Results, Predict
<1>3. BatchTyped' /\ Requested' /\ Fitting'
  BY <1>1, <1>2 DEF BatchInv, BatchTyped, Requested, Fitting, Total, CountsOf
<1>4. Settled'
  <2>1. AllInRange' <=> \A j \in DOMAIN results : InRange(results[j], C)
    BY <1>1, <1>2 DEF AllInRange, CountsOf
  <2> HIDE DEF results, merged, C
  <2>2. Len(requests) = 1 => phase' = "answered" /\ answers' = <<results>>
    BY <1>1
  <2>3. Len(requests) # 1 /\ AllInRange' =>
            phase' = "answered" /\ answers' = split_results(results, C)
    BY <1>1, <2>1
  <2> QED
    BY <1>1, <1>2, <2>2, <2>3 DEF Settled, merged, C, CountsOf, InputsOf
<1> QED
  BY <1>3, <1>4 DEF BatchInv

\* At all times the requests of a batch are well formed and fit its capacity,
\* and what a batch is called with and answers is what its requests make.
THEOREM BatchInvariance == BatchSpec => []BatchInv
<1>1. BatchInv /\ [BatchNext]_batchVars => BatchInv'
  <2> SUFFICES ASSUME BatchInv, [BatchNext]_batchVars PROVE BatchInv'
    OBVIOUS
  <2>1. CASE UNCHANGED batchVars
    <3>1. /\ UNCHANGED <<sig, trailing, requests, phase, call, answers>>
          /\ Plan' = Plan /\ Inputs' = Inputs /\ (\A f : WellFormed(f)' = WellFormed(f))
          /\ (\A f : InRange(f, CountsOf(requests))' = InRange(f, CountsOf(requests)))
      BY <2>1 DEF batchVars, Plan, Inputs, WellFormed, CountsOf
    <3>2. Results' = Results /\ (AllInRange' <=> AllInRange)
      BY <3>1 DEF Results, Predict, AllInRange
    <3>3. BatchTyped' /\ Requested' /\ Fitting'
      BY <3>1 DEF BatchInv, BatchTyped, Requested, Fitting, CountsOf
    <3>4. Settled'
      BY <3>1, <3>2 DEF BatchInv, Settled, CountsOf, InputsOf
    <3> QED
      BY <3>3, <3>4 DEF BatchInv
  <2>2. CASE BatchNext
    BY <2>2, ArriveHolds, ProcessHolds DEF BatchNext
  <2> QED
    BY <2>1, <2>2
<1> QED
  BY <1>1, BatchStarts, PTL DEF BatchSpec

\* No list of a merged invocation is longer than its parameter's capacity
\* (batch.rs, from_signature: the tightest capacity bounds them all).
THEOREM ListsFit == BatchSpec => []FitsEveryParam
<1>1. BatchInv => FitsEveryParam
  <2> SUFFICES ASSUME BatchInv, phase # "open", Len(requests) > 1,
                      NEW n \in Plan.params, sig[n].capacity # NoCapacity
               PROVE  Len(call[n].items) <= sig[n].capacity
    BY DEF FitsEveryParam
  <2>1. Plan.plan = "Buffered" /\ Total(CountsOf(requests)) <= Plan.capacity
    BY DEF BatchInv, Fitting
  <2>2. /\ Plan.capacity \in Nat /\ Plan.capacity <= sig[n].capacity
        /\ sig[n].capacity \in Nat
    <3>1. n \in batched(sig)
      BY <2>1, PlanShape DEF BatchInv, BatchTyped
    <3> QED
      BY <2>1, <3>1, PlanShape, SignaturesAssumption DEF BatchInv, BatchTyped, batched
  <2>3. Len(call[n].items) = Total(CountsOf(requests))
    BY <2>1, MergedShape DEF BatchInv, Settled
  <2>4. Total(CountsOf(requests)) \in Nat
    BY CountsShape, SeqSumType DEF BatchInv, Total
  <2> QED
    BY <2>1, <2>2, <2>3, <2>4
<1> QED
  BY <1>1, BatchInvariance, PTL

-----------------------------------------------------------------------------
(* Splitting.                                                              *)

\* A batch of several requests that agree on what they do not batch.
Merged(m) ==
    /\ BatchInv /\ BroadcastsAgree
    /\ Len(requests) > 1 /\ Plan.plan = "Buffered"
    /\ m = merge_inputs(InputsOf(requests), Plan.params)

LEMMA OffsetsShape ==
    ASSUME BatchInv, NEW i \in DOMAIN requests
    PROVE  /\ requests[i].count \in Nat
           /\ Offset(CountsOf(requests), i) \in Nat
           /\ Total(CountsOf(requests)) \in Nat
           /\ Offset(CountsOf(requests), i) + requests[i].count <= Total(CountsOf(requests))
<1> DEFINE C == CountsOf(requests)
<1>1. /\ C \in Seq(Nat) /\ DOMAIN requests = 1..Len(C) /\ C[i] = requests[i].count
      /\ Len(C) \in Nat
  BY CountsShape DEF BatchInv
<1> HIDE DEF C
<1>2. i \in 1..Len(C) /\ i + 1 \in 1..(Len(C) + 1)
  BY <1>1
<1>3. /\ Before(C, i) \in Nat /\ C[i] \in Nat
      /\ Before(C, i + 1) = Before(C, i) + C[i]
      /\ Before(C, i + 1) <= SumFunction(C) /\ SumFunction(C) \in Nat
  BY <1>1, <1>2, SeqSumNext, SeqSumBounds, SeqSumType
<1>4. Offset(C, i) = Before(C, i) /\ Total(C) = SumFunction(C)
  BY DEF Offset, Before, Total
<1> QED
  BY <1>1, <1>3, <1>4 DEF C

\* What is not batched is the same for the batch and for each of its requests.
LEMMA OthersAgree ==
    ASSUME NEW m, Merged(m), NEW i \in DOMAIN requests
    PROVE  [n \in DOMAIN m \ Plan.params |-> m[n]]
              = [n \in DOMAIN requests[i].inputs \ Plan.params |-> requests[i].inputs[n]]
<1> DEFINE P == Plan.params
           f == requests[1].inputs
           g == requests[i].inputs
<1>1. 1 \in DOMAIN requests
  BY CountsShape DEF Merged, BatchInv
<1>2. DOMAIN f \ P = DOMAIN g \ P /\ \A n \in DOMAIN f \ P : f[n] = g[n]
  BY <1>1 DEF Merged, BroadcastsAgree
<1>3. DOMAIN m = (DOMAIN f \ P) \cup P /\ \A n \in DOMAIN f \ P : m[n] = f[n]
  BY MergedShape DEF Merged, BatchInv
<1> HIDE DEF P, f, g
<1>4. DOMAIN m \ P = DOMAIN g \ P /\ \A n \in DOMAIN g \ P : m[n] = g[n]
  BY <1>2, <1>3
<1>5. [n \in DOMAIN m \ P |-> m[n]] = [n \in DOMAIN g \ P |-> g[n]]
  BY <1>4
<1> QED
  BY <1>5 DEF P, g

\* The predictor sees each request's items in their own rows, and no others.
LEMMA RowsAgree ==
    ASSUME NEW m, Merged(m)
    PROVE  /\ Rows(m, Plan.params) = Total(CountsOf(requests))
           /\ \A i \in DOMAIN requests : \A j \in 1..requests[i].count :
                 Row(m, Plan.params, Offset(CountsOf(requests), i) + j)
                    = Row(requests[i].inputs, Plan.params, j)
<1> DEFINE P == Plan.params
           C == CountsOf(requests)
           N == Total(C)
<1>1. /\ P \subseteq DOMAIN m
      /\ \A n \in P :
            /\ Len(m[n].items) = N
            /\ \A i \in DOMAIN requests : \A j \in 1..requests[i].count :
                  /\ Offset(C, i) + j \in 1..N
                  /\ m[n].items[Offset(C, i) + j] = requests[i].inputs[n].items[j]
  BY MergedShape DEF Merged, BatchInv
<1>2. N \in Nat /\ \A i \in DOMAIN requests : Offset(C, i) \in Nat /\ requests[i].count \in Nat
  <2>1. 1 \in DOMAIN requests
    BY CountsShape DEF Merged, BatchInv
  <2> QED
    BY <2>1, OffsetsShape DEF Merged
<1>3. P # {}
  BY PlanShape DEF Merged, BatchInv, BatchTyped
<1>4. \A i \in DOMAIN requests :
         /\ P \subseteq DOMAIN requests[i].inputs
         /\ \A n \in P : Len(requests[i].inputs[n].items) = requests[i].count
  <2> SUFFICES ASSUME NEW i \in DOMAIN requests
               PROVE  /\ P \subseteq DOMAIN requests[i].inputs
                      /\ \A n \in P : Len(requests[i].inputs[n].items) = requests[i].count
    OBVIOUS
  <2>1. /\ requests[i].inputs \in Inputs /\ WellFormed(requests[i].inputs)
        /\ requests[i].count = item_count(requests[i].inputs, P)
    BY DEF Merged, BatchInv, Requested
  <2> QED
    BY <2>1, RequestShape DEF Merged, BatchInv, BatchTyped
<1> HIDE DEF P, N
<1>5. Rows(m, P) = N
  <2>1. {Len(m[n].items) : n \in P \cap DOMAIN m} = {N}
    BY <1>1, <1>3
  <2>2. {0} \cup {N} \in SUBSET Int /\ \A y \in {0} \cup {N} : y <= N
    BY <1>2
  <2>3. MaxOf({0} \cup {N}) = N
    BY <2>2, MaxIs
  <2> QED
    BY <2>1, <2>3 DEF Rows
<1>6. ASSUME NEW i \in DOMAIN requests, NEW j \in 1..requests[i].count
      PROVE  Row(m, P, Offset(C, i) + j) = Row(requests[i].inputs, P, j)
  <2> DEFINE k == Offset(C, i) + j
             g == requests[i].inputs
  <2>1. \A n \in P : /\ n \in DOMAIN m /\ k <= Len(m[n].items)
                     /\ n \in DOMAIN g /\ j <= Len(g[n].items)
                     /\ m[n].items[k] = g[n].items[j]
    <3> SUFFICES ASSUME NEW n \in P
                 PROVE  /\ n \in DOMAIN m /\ k <= Len(m[n].items)
                        /\ n \in DOMAIN g /\ j <= Len(g[n].items)
                        /\ m[n].items[k] = g[n].items[j]
      OBVIOUS
    <3>1. k \in 1..N /\ m[n].items[k] = g[n].items[j] /\ Len(m[n].items) = N
      BY <1>1
    <3>2. j <= requests[i].count /\ Len(g[n].items) = requests[i].count
      BY <1>2, <1>4
    <3> HIDE DEF k, g
    <3> QED
      BY <1>1, <1>2, <1>4, <3>1, <3>2 DEF g
  <2>2. [n \in DOMAIN m \ P |-> m[n]] = [n \in DOMAIN g \ P |-> g[n]]
    BY OthersAgree DEF P
  <2> HIDE DEF k, g
  <2>3. [n \in P |-> IF n \in DOMAIN m /\ k <= Len(m[n].items) THEN m[n].items[k] ELSE "absent"]
           = [n \in P |-> IF n \in DOMAIN g /\ j <= Len(g[n].items) THEN g[n].items[j] ELSE "absent"]
    BY <2>1
  <2>4. Row(m, P, k) = Row(g, P, j)
    BY <2>2, <2>3 DEF Row
  <2> QED
    BY <2>4 DEF k, g
<1> QED
  BY <1>5, <1>6 DEF P, N

LEMMA SubSeqIs ==
    ASSUME NEW S, NEW s \in Seq(S), NEW lo \in Nat, NEW c \in Nat, lo + c <= Len(s)
    PROVE  SubSeq(s, lo + 1, lo + c) = [j \in 1..c |-> s[lo + j]]
<1> DEFINE t == SubSeq(s, lo + 1, lo + c)
<1>1. Len(s) \in Nat /\ lo + 1 \in 1..(Len(s) + 1) /\ lo + c \in ((lo + 1) - 1)..Len(s)
  BY LenProperties
<1>2. /\ t \in Seq(S) /\ Len(t) = (lo + c) - (lo + 1) + 1
      /\ \A j \in 1..((lo + c) - (lo + 1) + 1) : t[j] = s[(lo + 1) + j - 1]
  BY <1>1, SubSeqProperties
<1>3. (lo + c) - (lo + 1) + 1 = c /\ \A j \in 1..c : (lo + 1) + j - 1 = lo + j
  OBVIOUS
<1> HIDE DEF t
<1>4. t \in [1..c -> S]
  BY <1>2, <1>3, LenProperties
<1>5. \A j \in 1..c : t[j] = s[lo + j]
  BY <1>2, <1>3
<1>6. t = [j \in 1..c |-> s[lo + j]]
  BY <1>4, <1>5
<1> QED
  BY <1>6 DEF t

\* The three results of the predictor, for n rows of the inputs f.
RowList(f, n) == [kind |-> "list", items |-> [r \in 1..n |-> Row(f, Plan.params, r)]]

Element(f, e) ==
    <<Row(f, Plan.params, ((e - 1) \div Product(trailing)) + 1), (e - 1) % Product(trailing)>>

RowTensor(f, n) ==
    [kind |-> "tensor", shape |-> <<n>> \o trailing,
     items |-> [e \in 1..(n * Product(trailing)) |-> Element(f, e)]]

Others(f) == [kind |-> "other", items |-> [n \in DOMAIN f \ Plan.params |-> f[n]]]

LEMMA PredictIs ==
    ASSUME NEW f, NEW n, n = Rows(f, Plan.params)
    PROVE  Predict(f, Plan.params) = <<RowList(f, n), RowTensor(f, n), Others(f)>>
  BY DEF Predict, RowList, RowTensor, Element, Others

\* A list of rows: each caller gets its own.
LEMMA ListSlices ==
    ASSUME NEW m, Merged(m), NEW i \in DOMAIN requests, NEW N, N = Rows(m, Plan.params)
    PROVE  Slice(RowList(m, N), CountsOf(requests), i)
              = RowList(requests[i].inputs, requests[i].count)
<1> DEFINE P == Plan.params
           C == CountsOf(requests)
           s == [r \in 1..N |-> Row(m, P, r)]
           v == RowList(m, N)
           lo == Offset(C, i)
           c == requests[i].count
<1>1. /\ N = Total(C) /\ N \in Nat /\ lo \in Nat /\ c \in Nat /\ lo + c <= N
      /\ C[i] = c
      /\ \A j \in 1..c : Row(m, P, lo + j) = Row(requests[i].inputs, P, j)
  <2>1. C[i] = c
    BY CountsShape DEF Merged, BatchInv
  <2>2. N = Total(C) /\ \A j \in 1..c : Row(m, P, lo + j) = Row(requests[i].inputs, P, j)
    BY RowsAgree
  <2>3. Total(C) \in Nat /\ lo \in Nat /\ c \in Nat /\ lo + c <= Total(C)
    BY OffsetsShape DEF Merged
  <2> QED
    BY <2>1, <2>2, <2>3
<1>2. s \in Seq({Row(m, P, r) : r \in 1..N}) /\ Len(s) = N
  <2>1. s \in [1..N -> {Row(m, P, r) : r \in 1..N}]
    OBVIOUS
  <2> HIDE DEF s
  <2>2. s \in Seq({Row(m, P, r) : r \in 1..N}) /\ DOMAIN s = 1..N
    BY <1>1, <2>1
  <2> QED
    BY <1>1, <2>2, LenProperties
<1>3. v.kind = "list" /\ v.items = s
  BY DEF RowList
<1>4. SplitsList(v, C) /\ ~SplitsTensor(v, C)
  <2> HIDE DEF v, s
  <2> QED
    BY <1>1, <1>2, <1>3 DEF SplitsList, SplitsTensor
<1>5. Slice(v, C, i) = [kind |-> "list", items |-> SubSeq(s, lo + 1, lo + c)]
  <2> HIDE DEF v, s, C, c, lo
  <2> QED
    BY <1>1, <1>3, <1>4 DEF Slice, lo
<1>6. SubSeq(s, lo + 1, lo + c) = [j \in 1..c |-> s[lo + j]]
  <2> HIDE DEF s, lo, c
  <2> QED
    BY <1>1, <1>2, SubSeqIs
<1>7. \A j \in 1..c : s[lo + j] = Row(requests[i].inputs, P, j)
  <2>1. \A j \in 1..c : lo + j \in 1..N
    <3> HIDE DEF lo, c
    <3> QED
      BY <1>1
  <2> HIDE DEF lo, c
  <2> QED
    BY <1>1, <2>1
<1>8. [j \in 1..c |-> s[lo + j]] = [r \in 1..c |-> Row(requests[i].inputs, P, r)]
  <2> HIDE DEF s, lo, c, P
  <2> QED
    BY <1>7
<1> QED
  BY <1>5, <1>6, <1>8 DEF RowList

LEMMA SliceTensor ==
    ASSUME NEW v, NEW counts, NEW i, SplitsTensor(v, counts)
    PROVE  Slice(v, counts, i)
              = [kind |-> "tensor", shape |-> <<counts[i]>> \o Tail(v.shape),
                 items |-> SubSeq(v.items, Offset(counts, i) * Inner(v) + 1,
                                  (Offset(counts, i) + counts[i]) * Inner(v))]
  BY DEF Slice, SplitsTensor, SplitsList

\* A tensor of rows of size elements: it is long enough to be split, and each
\* caller gets its own rows, element by element.
LEMMA TensorSlices ==
    ASSUME NEW m, Merged(m), NEW i \in DOMAIN requests, NEW N, N = Rows(m, Plan.params),
           Product(trailing) \in Nat \ {0}
    PROVE  /\ InRange(RowTensor(m, N), CountsOf(requests))
           /\ Slice(RowTensor(m, N), CountsOf(requests), i)
                = RowTensor(requests[i].inputs, requests[i].count)
<1> DEFINE P == Plan.params
           C == CountsOf(requests)
           size == Product(trailing)
           s == [e \in 1..(N * size) |-> Element(m, e)]
           v == RowTensor(m, N)
           lo == Offset(C, i)
           c == requests[i].count
           g == requests[i].inputs
<1>1. /\ N = Total(C) /\ N \in Nat /\ lo \in Nat /\ c \in Nat /\ lo + c <= N
      /\ C[i] = c
      /\ \A j \in 1..c : Row(m, P, lo + j) = Row(g, P, j)
  <2>1. C[i] = c
    BY CountsShape DEF Merged, BatchInv
  <2>2. N = Total(C) /\ \A j \in 1..c : Row(m, P, lo + j) = Row(requests[i].inputs, P, j)
    BY RowsAgree
  <2>3. Total(C) \in Nat /\ lo \in Nat /\ c \in Nat /\ lo + c <= Total(C)
    BY OffsetsShape DEF Merged
  <2> QED
    BY <2>1, <2>2, <2>3
<1>2. v.kind = "tensor" /\ v.items = s /\ v.shape = <<N>> \o trailing
  BY DEF RowTensor
<1>0. size \in Nat /\ size # 0
  OBVIOUS
<1> HIDE DEF C, lo, c, g, P, v, size
<1>3. v.shape # <<>> /\ Head(v.shape) = N /\ Tail(v.shape) = trailing
  <2> DEFINE q == <<N>> \o trailing
             L == Len(trailing)
  <2>1. trailing \in Seq(Nat) /\ <<N>> \in Seq(Nat) /\ Len(<<N>>) = 1 /\ <<N>>[1] = N
    BY <1>1, TrailingAssumption DEF Merged, BatchInv, BatchTyped
  <2>2. L \in Nat /\ DOMAIN trailing = 1..L /\ trailing \in [1..L -> Nat]
    BY <2>1, LenProperties
  <2>3. /\ q \in Seq(Nat) /\ Len(q) = 1 + L
        /\ \A k \in 1..(1 + L) : q[k] = IF k <= 1 THEN <<N>>[k] ELSE trailing[k - 1]
    BY <2>1, ConcatProperties
  <2> HIDE DEF q, L
  <2>4. q[1] = N /\ \A k \in 1..L : q[k + 1] = trailing[k]
    <3>1. 1 \in 1..(1 + L) /\ \A k \in 1..L : k + 1 \in 1..(1 + L) /\ ~(k + 1 <= 1) /\ (k + 1) - 1 = k
      BY <2>2
    <3> QED
      BY <2>1, <2>3, <3>1
  <2>5. q # <<>>
    BY <2>2, <2>3, EmptySeq
  <2>6. /\ Head(q) = q[1] /\ Tail(q) \in Seq(Nat) /\ Len(Tail(q)) = L
        /\ \A k \in 1..L : Tail(q)[k] = q[k + 1]
    <3>1. Len(q) - 1 = L
      BY <2>2, <2>3
    <3> QED
      BY <2>3, <2>5, <3>1, HeadTailProperties
  <2>7. Tail(q) = trailing
    <3> DEFINE t == Tail(q)
    <3>1. t \in [1..L -> Nat]
      BY <2>6, LenProperties
    <3>2. \A k \in 1..L : t[k] = trailing[k]
      BY <2>4, <2>6
    <3> HIDE DEF t
    <3>3. t = trailing
      BY <2>2, <3>1, <3>2
    <3> QED
      BY <3>3 DEF t
  <2> QED
    BY <1>2, <2>4, <2>5, <2>6, <2>7 DEF q
<1>4. N * size \in Nat /\ lo * size \in Nat /\ c * size \in Nat
      /\ (lo + c) * size = lo * size + c * size
      /\ lo * size + c * size <= N * size
  <2>1. PICK d \in Nat : N = (lo + c) + d
    <3>1. N - (lo + c) \in Nat /\ N = (lo + c) + (N - (lo + c))
      BY <1>1
    <3> QED
      BY <3>1
  <2>2. N * size = lo * size + c * size + d * size /\ d * size \in Nat
        /\ lo * size \in Nat /\ c * size \in Nat
        /\ (lo + c) * size = lo * size + c * size
    BY <1>0, <1>1, <2>1
  <2> QED
    BY <2>2
<1>5. s \in Seq({Element(m, e) : e \in 1..(N * size)}) /\ Len(s) = N * size
  <2>1. s \in [1..(N * size) -> {Element(m, e) : e \in 1..(N * size)}]
    OBVIOUS
  <2> DEFINE M == N * size
             E == {Element(m, e) : e \in 1..(N * size)}
  <2>2. M \in Nat /\ s \in [1..M -> E]
    BY <1>4, <2>1
  <2> HIDE DEF s, M, E
  <2>3. s \in Seq(E) /\ DOMAIN s = 1..M
    BY <2>2
  <2>4. Len(s) = M
    BY <2>2, <2>3, LenProperties
  <2> QED
    BY <2>3, <2>4 DEF M, E
<1> HIDE DEF s
<1>6. Inner(v) = size
  <2>1. MaxOf({1, size}) = size
    <3>1. {1, size} \in SUBSET Int /\ \A y \in {1, size} : y <= size
      BY <1>0
    <3> QED
      BY <3>1, MaxIs
  <2> QED
    BY <1>3, <2>1 DEF Inner, size
<1>7. SplitsTensor(v, C)
  BY <1>1, <1>2, <1>3 DEF SplitsTensor
<1>8. InRange(v, C)
  BY <1>1, <1>2, <1>5, <1>6 DEF InRange
<1>9. Slice(v, C, i) = [kind |-> "tensor", shape |-> <<c>> \o trailing,
                        items |-> SubSeq(s, lo * size + 1, lo * size + c * size)]
  <2>1. Slice(v, C, i) = [kind |-> "tensor", shape |-> <<C[i]>> \o Tail(v.shape),
                          items |-> SubSeq(v.items, lo * Inner(v) + 1,
                                           (lo + C[i]) * Inner(v))]
    BY <1>7, SliceTensor DEF lo
  <2> QED
    BY <1>1, <1>2, <1>3, <1>4, <1>6, <2>1
<1>10. SubSeq(s, lo * size + 1, lo * size + c * size)
          = [e \in 1..(c * size) |-> s[lo * size + e]]
  <2> DEFINE a == lo * size
             b == c * size
  <2>1. a \in Nat /\ b \in Nat /\ a + b <= Len(s)
    BY <1>4, <1>5
  <2> HIDE DEF a, b
  <2>2. SubSeq(s, a + 1, a + b) = [e \in 1..b |-> s[a + e]]
    BY <1>5, <2>1, SubSeqIs
  <2> QED
    BY <2>2 DEF a, b
<1>11. ASSUME NEW e \in 1..(c * size) PROVE s[lo * size + e] = Element(g, e)
  <2> DEFINE k == lo * size + e
             d == (e - 1) \div size
  <2>1. e - 1 \in Nat /\ e - 1 < c * size /\ k \in 1..(N * size)
        /\ k - 1 = lo * size + (e - 1)
    BY <1>4
  <2>2. /\ (k - 1) \div size = lo + d /\ (k - 1) % size = (e - 1) % size
        /\ d \in Nat /\ d + 1 \in 1..c
    <3> HIDE DEF k
    <3>1. /\ (lo * size + (e - 1)) \div size = lo + d
          /\ (lo * size + (e - 1)) % size = (e - 1) % size
          /\ d \in Nat
      <4> DEFINE f == e - 1
      <4>1. f \in Nat
        BY <2>1
      <4> HIDE DEF f
      <4>2. /\ (lo * size + f) \div size = lo + (f \div size)
            /\ (lo * size + f) % size = f % size
            /\ f \div size \in Nat
        BY <1>0, <1>1, <4>1, DivOffset
      <4> QED
        BY <4>2 DEF f
    <3>2. d + 1 \in 1..c
      BY <1>0, <1>1, <2>1, DivBound
    <3> HIDE DEF d
    <3> QED
      BY <2>1, <3>1, <3>2
  <2>3. Row(m, P, lo + (d + 1)) = Row(g, P, d + 1)
    <3> HIDE DEF d
    <3> QED
      BY <1>1, <2>2
  <2>4. (lo + d) + 1 = lo + (d + 1)
    <3> HIDE DEF d
    <3> QED
      BY <1>1, <2>2
  <2>5. s[k] = Element(m, k)
    <3> HIDE DEF k
    <3> QED
      BY <2>1 DEF s
  <2> QED
    BY <2>2, <2>3, <2>4, <2>5 DEF Element, size, P
<1>12. [e \in 1..(c * size) |-> s[lo * size + e]] = [e \in 1..(c * size) |-> Element(g, e)]
  BY <1>11
<1>13. Slice(v, C, i) = [kind |-> "tensor", shape |-> <<c>> \o trailing,
                         items |-> [e \in 1..(c * size) |-> Element(g, e)]]
  BY <1>9, <1>10, <1>12
<1> QED
  BY <1>8, <1>13 DEF RowTensor, size, v, C, c, g

-----------------------------------------------------------------------------
(* Batching is invisible.                                                  *)

LEMMA SplitHolds ==
    ASSUME NEW m, Merged(m), Product(trailing) \in Nat \ {0}, NEW results,
           results = Predict(m, Plan.params), NEW i \in DOMAIN requests
    PROVE  /\ DOMAIN results = 1..3
           /\ \A j \in 1..3 : InRange(results[j], CountsOf(requests))
           /\ \A j \in 1..3 : Slice(results[j], CountsOf(requests), i)
                                 = Predict(requests[i].inputs, Plan.params)[j]
<1> DEFINE P == Plan.params
           C == CountsOf(requests)
           g == requests[i].inputs
           c == requests[i].count
           N == Rows(m, P)
<1>1. Rows(g, P) = c
  <2>1. /\ g \in Inputs /\ WellFormed(g) /\ requests[i].count = item_count(g, P)
    BY DEF Merged, BatchInv, Requested
  <2> QED
    BY <2>1, RequestShape DEF Merged, BatchInv, BatchTyped
<1>2. /\ results = <<RowList(m, N), RowTensor(m, N), Others(m)>>
      /\ Predict(g, P) = <<RowList(g, c), RowTensor(g, c), Others(g)>>
  BY <1>1, PredictIs
<1>3. Slice(RowList(m, N), C, i) = RowList(g, c) /\ InRange(RowList(m, N), C)
  <2>1. RowList(m, N).kind = "list"
    BY DEF RowList
  <2>2. Slice(RowList(m, N), C, i) = RowList(g, c)
    BY ListSlices
  <2> QED
    BY <2>1, <2>2 DEF InRange, SplitsTensor
<1>4. Slice(RowTensor(m, N), C, i) = RowTensor(g, c) /\ InRange(RowTensor(m, N), C)
  BY TensorSlices
<1>5. Slice(Others(m), C, i) = Others(g) /\ InRange(Others(m), C)
  <2>1. Others(m) = Others(g) /\ Others(m).kind = "other"
    BY OthersAgree DEF Others
  <2> QED
    BY <2>1 DEF InRange, SplitsTensor, SplitsList, Slice
<1> HIDE DEF P, C, g, c, N
<1>6. /\ DOMAIN results = 1..3
      /\ \A j \in 1..3 : InRange(results[j], C)
      /\ \A j \in 1..3 : Slice(results[j], C, i) = Predict(g, P)[j]
  <2>1. DOMAIN results = 1..3 /\ \A j \in 1..3 : j = 1 \/ j = 2 \/ j = 3
    BY <1>2
  <2>2. /\ results[1] = RowList(m, N) /\ results[2] = RowTensor(m, N)
        /\ results[3] = Others(m)
    BY <1>2
  <2>3. /\ Predict(g, P)[1] = RowList(g, c) /\ Predict(g, P)[2] = RowTensor(g, c)
        /\ Predict(g, P)[3] = Others(g)
    BY <1>2
  <2> QED
    BY <1>3, <1>4, <1>5, <2>1, <2>2, <2>3
<1> QED
  BY <1>6 DEF C, g, P

\* Every item's part of the output tensor has elements.
NoEmptyDimension == \A k \in DOMAIN trailing : trailing[k] # 0

\* Whatever a request is merged with, its caller gets what the request would
\* have returned alone, and splitting stays within the data, as long as the
\* requests agree on what is not batched and no dimension of a row is empty
\* (merge.rs, merge_inputs and split_results).
THEOREM BatchingIsInvisible ==
    BatchSpec => [](BroadcastsAgree /\ NoEmptyDimension => Transparent)
<1>1. ASSUME BatchInv, BroadcastsAgree, Product(trailing) \in Nat \ {0}, phase # "open"
      PROVE  /\ phase = "answered"
             /\ \A i \in DOMAIN requests :
                   answers[i] = Predict(requests[i].inputs, Plan.params)
  <2> DEFINE C == CountsOf(requests)
  <2>1. /\ requests # <<>> /\ DOMAIN requests = 1..Len(requests) /\ Len(requests) \in Nat
        /\ DOMAIN C = DOMAIN requests
        /\ call = merge_inputs(InputsOf(requests), Plan.params)
    BY <1>1, CountsShape DEF BatchInv, Settled
  <2>2. CASE Len(requests) = 1
    <3>1. phase = "answered" /\ answers = <<Results>>
      BY <1>1, <2>2 DEF BatchInv, Settled
    <3>2. InputsOf(requests) = <<requests[1].inputs>> /\ Len(InputsOf(requests)) = 1
          /\ InputsOf(requests)[1] = requests[1].inputs
      <4>1. InputsOf(requests) = <<requests[1].inputs>>
        BY <2>1, <2>2 DEF InputsOf
      <4> QED
        BY <4>1
    <3>3. call = requests[1].inputs
      BY <2>1, <3>2 DEF merge_inputs
    <3>4. \A i \in DOMAIN requests : i = 1
      BY <2>1, <2>2
    <3> QED
      BY <3>1, <3>3, <3>4 DEF Results
  <2>3. CASE Len(requests) # 1
    <3>1. Len(requests) > 1
      BY <2>1, <2>3, EmptySeq
    <3>2. Merged(call)
      BY <1>1, <2>1, <3>1 DEF Merged, BatchInv, Fitting
    <3>3. /\ DOMAIN Results = 1..3
          /\ \A j \in 1..3 : InRange(Results[j], C)
          /\ \A i \in DOMAIN requests : \A j \in 1..3 :
                Slice(Results[j], C, i) = Predict(requests[i].inputs, Plan.params)[j]
      <4>1. 1 \in DOMAIN requests
        BY <2>1, <3>1
      <4> QED
        BY <1>1, <3>2, <4>1, SplitHolds DEF Results
    <3>4. phase = "answered" /\ answers = split_results(Results, C)
      BY <1>1, <2>3, <3>3 DEF BatchInv, Settled, AllInRange
    <3>5. ASSUME NEW i \in DOMAIN requests
          PROVE  answers[i] = Predict(requests[i].inputs, Plan.params)
      <4> DEFINE alone == Predict(requests[i].inputs, Plan.params)
      <4>1. answers[i] = [j \in 1..3 |-> Slice(Results[j], C, i)]
        BY <2>1, <3>3, <3>4 DEF split_results
      <4>2. \A j \in 1..3 : Slice(Results[j], C, i) = alone[j]
        BY <3>3
      <4>3. alone = [j \in 1..3 |-> alone[j]]
        BY DEF Predict
      <4> HIDE DEF alone, C
      <4>4. answers[i] = alone
        BY <4>1, <4>2, <4>3
      <4> QED
        BY <4>4 DEF alone
    <3> QED
      BY <3>4, <3>5
  <2> QED
    BY <2>2, <2>3
<1>2. BatchInv => (BroadcastsAgree /\ NoEmptyDimension => Transparent)
  <2>1. ASSUME BatchInv, NoEmptyDimension PROVE Product(trailing) \in Nat \ {0}
    <3>1. trailing \in Seq(Nat)
      BY <2>1, TrailingAssumption DEF BatchInv, BatchTyped
    <3> QED
      BY <2>1, <3>1, ProductType DEF NoEmptyDimension
  <2> QED
    BY <1>1, <2>1 DEF Transparent
<1> QED
  BY <1>2, BatchInvariance, PTL

-----------------------------------------------------------------------------
(* Batch keys.                                                             *)

\* No name, kind or content has the text that separates the parts of a key.
SeparatorFree ==
    /\ "&" \notin NameSet
    /\ \A v \in Broadcasts : v.kind # "&" /\ "&" \notin ToSet(v.items)

Tokens ==
    NameSet \cup {"=", ":", "&", "1", "__", "__opaque_"}
            \cup UNION {ToSet(v.items) \cup {v.kind} : v \in Broadcasts}

\* The names of a key are exactly those of the parameters it is about.
LEMMA NamesShape ==
    ASSUME NEW f, NEW P, NEW names, names = broadcast_names(f, P)
    PROVE  /\ names \in Seq(NameSet)
           /\ \A i \in 1..Len(names) : names[i] \in DOMAIN f \ P
           /\ \A n \in NameSet : n \in DOMAIN f \ P => \E i \in 1..Len(names) : names[i] = n
<1> DEFINE Here(n) == n \in DOMAIN f \ P
           ss == [i \in DOMAIN Names |-> IF Here(Names[i]) THEN <<Names[i]>> ELSE <<>>]
           lens == [i \in DOMAIN ss |-> Len(ss[i])]
           L == Len(Names)
<1>1. L \in Nat /\ DOMAIN Names = 1..L /\ \A i \in 1..L : Names[i] \in NameSet
  BY NamesAssumption, LenProperties, ElementOfSeq DEF NameSet
<1>2. /\ DOMAIN ss = 1..L
      /\ \A i \in 1..L : ss[i] = IF Here(Names[i]) THEN <<Names[i]>> ELSE <<>>
      /\ \A i \in 1..L : lens[i] = IF Here(Names[i]) THEN 1 ELSE 0
  BY <1>1
<1>3. ss \in Seq(Seq(NameSet)) /\ Len(ss) = L
  <2>1. ss \in [1..L -> Seq(NameSet)]
    BY <1>1, <1>2
  <2> HIDE DEF ss
  <2> QED
    BY <1>1, <2>1, LenProperties
<1>4. names = FlattenSeq(ss) /\ lens = [i \in DOMAIN ss |-> Len(ss[i])]
  BY DEF broadcast_names
<1> HIDE DEF ss, lens
<1>5. CASE L = 0
  <2>1. ss = <<>>
    BY <1>3, <1>5, EmptySeq
  <2>2. FlattenSeq(ss) = <<>>
    BY <1>3, <1>5, <2>1 DEF FlattenSeq
  <2>3. NameSet = {}
    BY <1>1, <1>5 DEF NameSet, ToSet
  <2> QED
    BY <1>4, <2>2, <2>3, EmptySeq
<1>6. CASE L # 0
  <2>1. /\ lens \in Seq(Nat) /\ Len(lens) = L /\ names \in Seq(NameSet)
        /\ Len(names) = SumFunction(lens) /\ Joined(names, ss, lens, L)
    BY <1>3, <1>4, <1>6, FlattenHolds
  <2>2. ASSUME NEW p \in 1..Len(names) PROVE Here(names[p])
    <3>1. Before(lens, L + 1) = Len(names) /\ L \in 0..Len(lens)
      BY <1>1, <2>1, SeqSumBounds
    <3>2. p \in 1..Before(lens, L + 1)
      BY <3>1
    <3>3. PICK k \in 1..L : \E j \in 1..lens[k] : p = Before(lens, k) + j
      <4> HIDE DEF L
      <4> QED
        BY <2>1, <3>1, <3>2, JoinedCovers
    <3> PICK j \in 1..lens[k] : p = Before(lens, k) + j
      BY <3>3
    <3>4. names[p] = ss[k][j]
      BY <2>1, <3>3 DEF Joined
    <3>5. Here(Names[k]) /\ j = 1
      BY <1>2, <3>3
    <3> QED
      BY <1>2, <3>4, <3>5
  <2>3. ASSUME NEW n \in NameSet, Here(n) PROVE \E i \in 1..Len(names) : names[i] = n
    <3>1. PICK k \in 1..L : Names[k] = n
      BY <1>1 DEF NameSet, ToSet
    <3>2. lens[k] = 1 /\ ss[k] = <<n>>
      BY <1>2, <2>3, <3>1
    <3>3. Before(lens, k) + 1 \in 1..Len(names) /\ names[Before(lens, k) + 1] = ss[k][1]
      BY <2>1, <3>2 DEF Joined
    <3> QED
      BY <3>2, <3>3
  <2> QED
    BY <2>1, <2>2, <2>3
<1> QED
  BY <1>5, <1>6

Ones(n) == [i \in 1..n |-> "1"]

LEMMA FingerprintShape ==
    ASSUME NEW v \in Broadcasts, NEW n \in Nat
    PROVE  /\ value_fingerprint(v, n) \in Seq(Tokens)
           /\ Ones(n) \in Seq(Tokens) /\ Len(Ones(n)) = n
           /\ <<"__opaque_">> \in Seq(Tokens) /\ <<"__">> \in Seq(Tokens)
           /\ v.items \in Seq(Tokens) /\ <<v.kind, ":">> \in Seq(Tokens)
           /\ SeparatorFree =>
                 \A j \in 1..Len(value_fingerprint(v, n)) : value_fingerprint(v, n)[j] # "&"
<1>1. v.items \in Seq(ToSet(v.items)) /\ ToSet(v.items) \subseteq Tokens /\ v.kind \in Tokens
  BY BroadcastsAssumption DEF Tokens
<1>2. /\ <<"__opaque_">> \in Seq(Tokens) /\ <<"__">> \in Seq(Tokens)
      /\ <<v.kind, ":">> \in Seq(Tokens) /\ v.items \in Seq(Tokens)
  BY <1>1, SeqMonotonic DEF Tokens
<1>3. Ones(n) \in Seq(Tokens) /\ Len(Ones(n)) = n
  <2>1. Ones(n) \in [1..n -> Tokens]
    BY DEF Ones, Tokens
  <2> QED
    BY <2>1, LenProperties
<1>4. CASE v.kind = "opaque"
  <2> DEFINE h == <<"__opaque_">> \o Ones(n)
  <2>1. value_fingerprint(v, n) = h \o <<"__">>
    BY <1>4 DEF value_fingerprint, Ones
  <2>2. /\ h \in Seq(Tokens) /\ Len(h) = 1 + n
        /\ \A i \in 1..(1 + n) : h[i] = IF i <= 1 THEN <<"__opaque_">>[i] ELSE Ones(n)[i - 1]
    BY <1>2, <1>3, ConcatProperties
  <2>3. \A i \in 1..(1 + n) : h[i] # "&"
    <3> SUFFICES ASSUME NEW i \in 1..(1 + n) PROVE h[i] # "&"
      OBVIOUS
    <3> HIDE DEF h
    <3>1. CASE i <= 1
      BY <2>2, <3>1
    <3>2. CASE ~(i <= 1)
      <4>1. i - 1 \in 1..n
        BY <3>2
      <4>2. Ones(n)[i - 1] = "1"
        BY <4>1 DEF Ones
      <4> QED
        BY <2>2, <3>2, <4>2
    <3> QED
      BY <3>1, <3>2
  <2> HIDE DEF h
  <2>4. /\ h \o <<"__">> \in Seq(Tokens) /\ Len(h \o <<"__">>) = 1 + n + 1
        /\ \A i \in 1..(1 + n + 1) :
              (h \o <<"__">>)[i] = IF i <= 1 + n THEN h[i] ELSE <<"__">>[i - (1 + n)]
    BY <1>2, <2>2, ConcatProperties
  <2>5. \A i \in 1..(1 + n + 1) : (h \o <<"__">>)[i] # "&"
    <3> SUFFICES ASSUME NEW i \in 1..(1 + n + 1) PROVE (h \o <<"__">>)[i] # "&"
      OBVIOUS
    <3>1. CASE i <= 1 + n
      BY <2>3, <2>4, <3>1
    <3>2. CASE ~(i <= 1 + n)
      <4>1. i - (1 + n) = 1
        BY <3>2
      <4>2. (h \o <<"__">>)[i] = <<"__">>[1]
        BY <2>4, <3>2, <4>1
      <4> QED
        BY <4>2
    <3> QED
      BY <3>1, <3>2
  <2> QED
    BY <1>2, <1>3, <2>1, <2>4, <2>5
<1>5. CASE v.kind # "opaque"
  <2> DEFINE k == <<v.kind, ":">>
             M == Len(v.items)
  <2>1. value_fingerprint(v, n) = k \o v.items
    BY <1>5 DEF value_fingerprint
  <2>2. Len(k) = 2 /\ k[1] = v.kind /\ k[2] = ":" /\ M \in Nat
    BY <1>1, LenProperties
  <2>3. k \in Seq(Tokens)
    BY <1>2
  <2> HIDE DEF k, M
  <2>4. /\ k \o v.items \in Seq(Tokens) /\ Len(k \o v.items) = 2 + M
        /\ \A i \in 1..(2 + M) : (k \o v.items)[i] = IF i <= 2 THEN k[i] ELSE v.items[i - 2]
    <3>1. /\ k \o v.items \in Seq(Tokens) /\ Len(k \o v.items) = Len(k) + Len(v.items)
          /\ \A i \in 1..(Len(k) + Len(v.items)) :
                (k \o v.items)[i] = IF i <= Len(k) THEN k[i] ELSE v.items[i - Len(k)]
      BY <1>2, <2>3, ConcatProperties
    <3> QED
      BY <2>2, <3>1 DEF M
  <2>5. ASSUME SeparatorFree, NEW i \in 1..(2 + M) PROVE (k \o v.items)[i] # "&"
    <3>1. CASE i <= 2
      <4>1. i = 1 \/ i = 2
        BY <2>2, <3>1
      <4> QED
        BY <2>2, <2>4, <2>5, <3>1, <4>1 DEF SeparatorFree
    <3>2. CASE ~(i <= 2)
      <4>1. i - 2 \in 1..M
        BY <2>2, <3>2
      <4>2. v.items[i - 2] \in ToSet(v.items)
        BY <1>1, <4>1, ElementOfSeq DEF M
      <4> QED
        BY <2>4, <2>5, <3>2, <4>2 DEF SeparatorFree
    <3> QED
      BY <3>1, <3>2
  <2> QED
    BY <1>2, <1>3, <2>1, <2>4, <2>5
<1> QED
  BY <1>4, <1>5

\* A fingerprint tells plain values apart, and one opaque value from the next.
LEMMA FingerprintTells ==
    ASSUME NEW v \in Broadcasts, NEW w \in Broadcasts, NEW m \in Nat, NEW n \in Nat,
           value_fingerprint(v, m) = value_fingerprint(w, n)
    PROVE  IF v.kind = "opaque" THEN m = n ELSE v = w
<1>1. /\ v.items \in Seq(Tokens) /\ <<v.kind, ":">> \in Seq(Tokens)
      /\ w.items \in Seq(Tokens) /\ <<w.kind, ":">> \in Seq(Tokens)
      /\ <<"__opaque_">> \in Seq(Tokens) /\ <<"__">> \in Seq(Tokens)
  BY FingerprintShape
<1>2. \A k \in Nat : Ones(k) \in Seq(Tokens) /\ Len(Ones(k)) = k
  BY FingerprintShape
<1> DEFINE head(k) == <<"__opaque_">> \o Ones(k)
           opaque(k) == head(k) \o <<"__">>
<1>3. ASSUME NEW k \in Nat
      PROVE  Len(opaque(k)) = k + 2 /\ opaque(k)[2] \in {"1", "__"}
  <2>1. /\ head(k) \in Seq(Tokens) /\ Len(head(k)) = 1 + k
        /\ \A i \in 1..(1 + k) :
              head(k)[i] = IF i <= 1 THEN <<"__opaque_">>[i] ELSE Ones(k)[i - 1]
    BY <1>1, <1>2, ConcatProperties
  <2>2. k # 0 => head(k)[2] = "1"
    <3> SUFFICES ASSUME k # 0 PROVE head(k)[2] = "1"
      OBVIOUS
    <3>1. 2 \in 1..(1 + k) /\ 1 \in 1..k /\ ~(2 <= 1) /\ 2 - 1 = 1
      OBVIOUS
    <3>2. Ones(k)[1] = "1"
      BY <3>1 DEF Ones
    <3> HIDE DEF head
    <3> QED
      BY <2>1, <3>1, <3>2
  <2> DEFINE h == head(k)
  <2> HIDE DEF h
  <2>3. /\ Len(h \o <<"__">>) = (1 + k) + 1
        /\ \A i \in 1..((1 + k) + 1) :
              (h \o <<"__">>)[i] = IF i <= 1 + k THEN h[i] ELSE <<"__">>[i - (1 + k)]
    BY <1>1, <2>1, ConcatProperties DEF h
  <2>4. (h \o <<"__">>)[2] \in {"1", "__"}
    <3>1. CASE k = 0
      <4>1. 2 \in 1..((1 + k) + 1) /\ ~(2 <= 1 + k) /\ 2 - (1 + k) = 1
        BY <3>1
      <4>2. (h \o <<"__">>)[2] = <<"__">>[1]
        BY <2>3, <4>1
      <4> QED
        BY <4>2
    <3>2. CASE k # 0
      <4>1. 2 \in 1..((1 + k) + 1) /\ 2 <= 1 + k
        BY <3>2
      <4> QED
        BY <2>2, <2>3, <3>2, <4>1 DEF h
    <3> QED
      BY <3>1, <3>2
  <2> QED
    BY <2>3, <2>4 DEF h
<1>4. ASSUME NEW u \in Broadcasts
      PROVE  (<<u.kind, ":">> \o u.items)[2] = ":" /\ (<<u.kind, ":">> \o u.items)[1] = u.kind
  <2> DEFINE k == <<u.kind, ":">>
  <2>1. Len(k) = 2 /\ k[1] = u.kind /\ k[2] = ":"
    OBVIOUS
  <2>2. k \in Seq(Tokens) /\ u.items \in Seq(Tokens) /\ Len(u.items) \in Nat
    BY FingerprintShape, LenProperties
  <2> HIDE DEF k
  <2>3. \A i \in 1..(2 + Len(u.items)) :
           (k \o u.items)[i] = IF i <= 2 THEN k[i] ELSE u.items[i - 2]
    <3>1. \A i \in 1..(Len(k) + Len(u.items)) :
             (k \o u.items)[i] = IF i <= Len(k) THEN k[i] ELSE u.items[i - Len(k)]
      BY <2>2, ConcatProperties
    <3> QED
      BY <2>1, <3>1
  <2>4. 1 \in 1..(2 + Len(u.items)) /\ 2 \in 1..(2 + Len(u.items))
    BY <2>2
  <2> QED
    BY <2>1, <2>3, <2>4 DEF k
<1>5. /\ v.kind = "opaque" => value_fingerprint(v, m) = opaque(m)
      /\ w.kind = "opaque" => value_fingerprint(w, n) = opaque(n)
      /\ v.kind # "opaque" => value_fingerprint(v, m) = <<v.kind, ":">> \o v.items
      /\ w.kind # "opaque" => value_fingerprint(w, n) = <<w.kind, ":">> \o w.items
  BY DEF value_fingerprint, Ones
<1> HIDE DEF opaque
<1>6. CASE v.kind = "opaque"
  <2>1. w.kind = "opaque"
    BY <1>3, <1>4, <1>5, <1>6
  <2>2. m + 2 = n + 2
    BY <1>3, <1>5, <1>6, <2>1
  <2> QED
    BY <1>6, <2>2
<1>7. CASE v.kind # "opaque"
  <2>1. w.kind # "opaque"
    BY <1>3, <1>4, <1>5, <1>7
  <2>2. <<v.kind, ":">> \o v.items = <<w.kind, ":">> \o w.items
    BY <1>5, <1>7, <2>1
  <2>3. v.kind = w.kind
    BY <1>4, <2>2
  <2>4. v.items = w.items
    BY <1>1, <2>2, <2>3, ConcatSimplifications
  <2>5. v = [kind |-> v.kind, items |-> v.items] /\ w = [kind |-> w.kind, items |-> w.items]
    BY BroadcastsAssumption
  <2> QED
    BY <1>7, <2>3, <2>4, <2>5
<1> QED
  BY <1>6, <1>7

LEMMA OpaqueType ==
    ASSUME NEW f, NEW P, NEW k \in Nat
    PROVE  /\ OpaqueAmong(f, P, k) \in Nat
           /\ IsFiniteSet({i \in 1..k : f[broadcast_names(f, P)[i]].kind = "opaque"})
<1>1. IsFiniteSet(1..k)
  BY FS_Interval
<1>2. IsFiniteSet({i \in 1..k : f[broadcast_names(f, P)[i]].kind = "opaque"})
  BY <1>1, FS_Subset
<1> QED
  BY <1>2, FS_CardinalityType DEF OpaqueAmong

\* Every opaque value's identity is below the next request's.
LEMMA OpaqueCounted ==
    ASSUME NEW f, NEW P, NEW i \in 1..Len(broadcast_names(f, P)),
           f[broadcast_names(f, P)[i]].kind = "opaque"
    PROVE  /\ OpaqueAmong(f, P, i - 1) < OpaqueCount(f, P)
           /\ OpaqueAmong(f, P, i - 1) \in Nat /\ OpaqueCount(f, P) \in Nat
<1> DEFINE names == broadcast_names(f, P)
           N == Len(names)
           S == {k \in 1..N : f[names[k]].kind = "opaque"}
           T == {k \in 1..(i - 1) : f[names[k]].kind = "opaque"}
<1>1. N \in Nat /\ i - 1 \in Nat /\ i - 1 < N
  BY NamesShape, LenProperties
<1>2. IsFiniteSet(S) /\ OpaqueAmong(f, P, i - 1) \in Nat /\ OpaqueCount(f, P) \in Nat
  BY <1>1, OpaqueType DEF OpaqueCount
<1>3. OpaqueAmong(f, P, i - 1) = Cardinality(T) /\ OpaqueCount(f, P) = Cardinality(S)
  BY DEF OpaqueAmong, OpaqueCount
<1>4. T \in SUBSET S
  BY <1>1
<1>5. i \in S /\ i \notin T
  BY <1>1
<1> HIDE DEF S, T
<1>6. Cardinality(T) <= Cardinality(S) /\ Cardinality(S) # Cardinality(T)
  BY <1>2, <1>4, <1>5, FS_Subset
<1> QED
  BY <1>2, <1>3, <1>6

\* What request inputs f are keyed with if c identities were given out before.
Identity(f, P, c, i) == c + OpaqueAmong(f, P, i - 1)

Separated(parts) ==
    [i \in DOMAIN parts |-> IF i = 1 THEN parts[i] ELSE <<"&">> \o parts[i]]

\* The parts and names of the key of f.
Shaped(f, P, c, names, parts) ==
    /\ Separated(parts) \in Seq(Seq(Tokens)) /\ Delimited(Separated(parts), "&")
    /\ DOMAIN parts = 1..Len(names) /\ Len(Separated(parts)) = Len(names)
    /\ \A i \in 1..Len(names) :
          /\ parts[i] \in Seq(Tokens) /\ f[names[i]] \in Broadcasts
          /\ Identity(f, P, c, i) \in Nat
          /\ parts[i] = <<names[i], "=">>
                           \o value_fingerprint(f[names[i]], Identity(f, P, c, i))
          /\ <<names[i], "=">> \in Seq(Tokens)
          /\ value_fingerprint(f[names[i]], Identity(f, P, c, i)) \in Seq(Tokens)

LEMMA PartsShape ==
    ASSUME SeparatorFree, NEW f \in Inputs, NEW P, P = batched(sig), NEW c \in Nat,
           NEW names, names = broadcast_names(f, P),
           NEW parts, parts = key_parts(f, P, c)
    PROVE  Shaped(f, P, c, names, parts)
<1> DEFINE N == Len(names)
           print(i) == value_fingerprint(f[names[i]], Identity(f, P, c, i))
           joint == Separated(parts)
<1>1. /\ names \in Seq(NameSet) /\ N \in Nat /\ DOMAIN names = 1..N
      /\ \A i \in 1..N : names[i] \in DOMAIN f \ P /\ names[i] \in NameSet
  BY NamesShape, LenProperties, ElementOfSeq
<1>2. ASSUME NEW i \in 1..N
      PROVE  /\ f[names[i]] \in Broadcasts
             /\ Identity(f, P, c, i) \in Nat
             /\ print(i) \in Seq(Tokens) /\ <<names[i], "=">> \in Seq(Tokens)
             /\ \A j \in 1..Len(print(i)) : print(i)[j] # "&"
  <2>1. f[names[i]] \in Broadcasts
    BY <1>1 DEF Inputs
  <2>2. Identity(f, P, c, i) \in Nat
    <3>1. i - 1 \in Nat
      BY <1>1
    <3>2. OpaqueAmong(f, P, i - 1) \in Nat
      BY <3>1, OpaqueType
    <3> QED
      BY <3>2 DEF Identity
  <2>3. names[i] \in Tokens /\ "=" \in Tokens
    BY <1>1 DEF Tokens
  <2>4. <<names[i], "=">> \in Seq(Tokens)
    BY <2>3
  <2> DEFINE v == f[names[i]]
             m == Identity(f, P, c, i)
  <2>5. v \in Broadcasts /\ m \in Nat /\ print(i) = value_fingerprint(v, m)
    BY <2>1, <2>2
  <2> HIDE DEF v, m, print
  <2>6. print(i) \in Seq(Tokens) /\ \A j \in 1..Len(print(i)) : print(i)[j] # "&"
    BY <2>5, FingerprintShape
  <2> QED
    BY <2>1, <2>2, <2>4, <2>6
<1>3. parts = [i \in 1..N |-> <<names[i], "=">> \o print(i)]
  BY <1>1 DEF key_parts, Identity
<1>4. DOMAIN parts = 1..N /\ \A i \in 1..N : parts[i] = <<names[i], "=">> \o print(i)
  BY <1>3
<1> HIDE DEF print, N
<1>5. ASSUME NEW i \in 1..N
      PROVE  /\ parts[i] \in Seq(Tokens) /\ Len(parts[i]) \in Nat /\ Len(parts[i]) >= 1
             /\ \A j \in 1..Len(parts[i]) : parts[i][j] # "&"
  <2> DEFINE h == <<names[i], "=">>
             M == Len(print(i))
  <2>1. h \in Seq(Tokens) /\ Len(h) = 2 /\ h[1] = names[i] /\ h[2] = "="
    BY <1>2
  <2>2. print(i) \in Seq(Tokens) /\ M \in Nat
    BY <1>2, LenProperties
  <2> HIDE DEF h
  <2>3. /\ h \o print(i) \in Seq(Tokens) /\ Len(h \o print(i)) = Len(h) + Len(print(i))
        /\ \A j \in 1..(Len(h) + Len(print(i))) :
              (h \o print(i))[j] = IF j <= Len(h) THEN h[j] ELSE print(i)[j - Len(h)]
    BY <2>1, <2>2, ConcatProperties
  <2> HIDE DEF M
  <2>4. /\ Len(h \o print(i)) = 2 + M
        /\ \A j \in 1..(2 + M) :
              (h \o print(i))[j] = IF j <= 2 THEN h[j] ELSE print(i)[j - 2]
    BY <2>1, <2>3 DEF M
  <2>5. ASSUME NEW j \in 1..(2 + M) PROVE (h \o print(i))[j] # "&"
    <3>1. CASE j <= 2
      <4>1. j = 1 \/ j = 2
        BY <2>2, <3>1
      <4>2. names[i] # "&"
        BY <1>1 DEF SeparatorFree, N
      <4> QED
        BY <2>1, <2>4, <4>1, <4>2
    <3>2. CASE ~(j <= 2)
      <4>1. j - 2 \in 1..M
        BY <2>2, <3>2
      <4>2. print(i)[j - 2] # "&"
        BY <1>2, <4>1 DEF M
      <4> QED
        BY <2>4, <3>2, <4>2
    <3> QED
      BY <3>1, <3>2
  <2>6. parts[i] = h \o print(i)
    BY <1>4 DEF h
  <2> QED
    BY <2>2, <2>3, <2>4, <2>5, <2>6
<1>6. ASSUME NEW i \in 1..N
      PROVE  /\ joint[i] \in Seq(Tokens) /\ Len(joint[i]) >= 1
             /\ joint[i][1] = "&" <=> i # 1
             /\ \A j \in 2..Len(joint[i]) : joint[i][j] # "&"
  <2>1. joint[i] = IF i = 1 THEN parts[i] ELSE <<"&">> \o parts[i]
    BY <1>4 DEF Separated
  <2> HIDE DEF joint
  <2>2. CASE i = 1
    <3>1. 1 \in 1..Len(parts[i]) /\ \A j \in 2..Len(parts[i]) : j \in 1..Len(parts[i])
      BY <1>5
    <3> QED
      BY <1>5, <2>1, <2>2, <3>1
  <2>3. CASE i # 1
    <3> DEFINE p == parts[i]
               s == <<"&">>
    <3>1. p \in Seq(Tokens) /\ Len(p) \in Nat /\ s \in Seq(Tokens) /\ Len(s) = 1 /\ s[1] = "&"
      BY <1>5 DEF Tokens
    <3> HIDE DEF p, s
    <3>2. /\ s \o p \in Seq(Tokens) /\ Len(s \o p) = Len(s) + Len(p)
          /\ \A j \in 1..(Len(s) + Len(p)) :
                (s \o p)[j] = IF j <= Len(s) THEN s[j] ELSE p[j - Len(s)]
      BY <3>1, ConcatProperties
    <3>3. (s \o p)[1] = "&" /\ Len(s \o p) >= 1
      BY <3>1, <3>2
    <3>4. ASSUME NEW j \in 2..Len(s \o p) PROVE (s \o p)[j] # "&"
      <4>1. j - 1 \in 1..Len(p) /\ ~(j <= Len(s)) /\ j \in 1..(Len(s) + Len(p))
        BY <3>1, <3>2
      <4>2. (s \o p)[j] = p[j - 1]
        BY <3>1, <3>2, <4>1
      <4> QED
        BY <1>5, <4>1, <4>2 DEF p
    <3>5. joint[i] = s \o p
      BY <2>1, <2>3 DEF p, s
    <3> QED
      BY <2>3, <3>2, <3>3, <3>4, <3>5
  <2> QED
    BY <2>2, <2>3
<1>7. joint \in Seq(Seq(Tokens)) /\ Len(joint) = N
  <2>1. DOMAIN joint = 1..N
    BY <1>4 DEF Separated
  <2>2. joint = [i \in 1..N |-> joint[i]]
    BY <1>4 DEF Separated
  <2> HIDE DEF joint
  <2>3. joint \in [1..N -> Seq(Tokens)]
    BY <1>6, <2>2
  <2>4. N \in Nat
    BY <1>1 DEF N
  <2> QED
    BY <2>3, <2>4, LenProperties
<1>8. Delimited(joint, "&")
  <2> HIDE DEF joint
  <2> QED
    BY <1>6, <1>7 DEF Delimited
<1> QED
  BY <1>1, <1>2, <1>4, <1>5, <1>7, <1>8 DEF Shaped, N, print

LEMMA CancelLeft ==
    ASSUME NEW S, NEW s \in Seq(S), NEW t \in Seq(S), NEW u \in Seq(S), s \o t = s \o u
    PROVE  t = u
BY ConcatSimplifications

\* Requests with one key have the same names and fingerprints in it.
LEMMA KeysTell ==
    ASSUME SeparatorFree, NEW f \in Inputs, NEW g \in Inputs, NEW P, P = batched(sig),
           NEW c \in Nat, NEW d \in Nat,
           compute_batch_key(f, P, c) = compute_batch_key(g, P, d),
           NEW n \in DOMAIN f \ P
    PROVE  /\ n \in DOMAIN g \ P
           /\ f[n] \in Broadcasts /\ g[n] \in Broadcasts
           /\ \E i \in 1..Len(broadcast_names(f, P)) :
                 /\ i \in 1..Len(broadcast_names(g, P))
                 /\ broadcast_names(f, P)[i] = n /\ broadcast_names(g, P)[i] = n
                 /\ Identity(f, P, c, i) \in Nat /\ Identity(g, P, d, i) \in Nat
                 /\ value_fingerprint(f[n], Identity(f, P, c, i))
                       = value_fingerprint(g[n], Identity(g, P, d, i))
<1> DEFINE nf == broadcast_names(f, P)
           ng == broadcast_names(g, P)
           pf == key_parts(f, P, c)
           pg == key_parts(g, P, d)
           jf == Separated(pf)
           jg == Separated(pg)
<1>1. /\ jf \in Seq(Seq(Tokens)) /\ Delimited(jf, "&") /\ Len(jf) = Len(nf)
      /\ DOMAIN pf = 1..Len(nf)
      /\ \A i \in 1..Len(nf) :
            /\ pf[i] \in Seq(Tokens) /\ f[nf[i]] \in Broadcasts /\ Identity(f, P, c, i) \in Nat
            /\ pf[i] = <<nf[i], "=">> \o value_fingerprint(f[nf[i]], Identity(f, P, c, i))
            /\ <<nf[i], "=">> \in Seq(Tokens)
            /\ value_fingerprint(f[nf[i]], Identity(f, P, c, i)) \in Seq(Tokens)
  <2>1. Shaped(f, P, c, nf, pf)
    BY PartsShape
  <2> HIDE DEF nf, pf
  <2> QED
    BY <2>1 DEF Shaped
<1>2. /\ jg \in Seq(Seq(Tokens)) /\ Delimited(jg, "&") /\ Len(jg) = Len(ng)
      /\ DOMAIN pg = 1..Len(ng)
      /\ \A i \in 1..Len(ng) :
            /\ pg[i] \in Seq(Tokens) /\ g[ng[i]] \in Broadcasts /\ Identity(g, P, d, i) \in Nat
            /\ pg[i] = <<ng[i], "=">> \o value_fingerprint(g[ng[i]], Identity(g, P, d, i))
            /\ <<ng[i], "=">> \in Seq(Tokens)
            /\ value_fingerprint(g[ng[i]], Identity(g, P, d, i)) \in Seq(Tokens)
  <2>1. Shaped(g, P, d, ng, pg)
    BY PartsShape
  <2> HIDE DEF ng, pg
  <2> QED
    BY <2>1 DEF Shaped
<1>3. FlattenSeq(jf) = FlattenSeq(jg)
  BY DEF compute_batch_key, Separated
<1>4. PICK i \in 1..Len(nf) : nf[i] = n
  <2>1. DOMAIN f \subseteq NameSet
    BY DEF Inputs
  <2> QED
    BY <2>1, NamesShape
<1>5. /\ Len(nf) \in Nat /\ Len(ng) \in Nat
      /\ \A k \in 1..Len(ng) : ng[k] \in DOMAIN g \ P
  BY NamesShape, LenProperties
<1>6. \A k \in 1..Len(nf) : jf[k] = IF k = 1 THEN pf[k] ELSE <<"&">> \o pf[k]
  BY <1>1 DEF Separated
<1>7. \A k \in 1..Len(ng) : jg[k] = IF k = 1 THEN pg[k] ELSE <<"&">> \o pg[k]
  BY <1>2 DEF Separated
<1> HIDE DEF jf, jg, pf, pg, nf, ng
<1>8. Len(jf) # 0
  BY <1>1, <1>4, <1>5
<1>9. Len(jg) # 0
  <2>1. SUFFICES ASSUME Len(jg) = 0 PROVE FALSE
    OBVIOUS
  <2>2. jg = <<>>
    BY <1>2, <2>1, EmptySeq
  <2>3. FlattenSeq(jg) = <<>>
    BY <2>1, <2>2 DEF FlattenSeq
  <2> DEFINE lens == [k \in DOMAIN jf |-> Len(jf[k])]
  <2>a. lens = [k \in DOMAIN jf |-> Len(jf[k])]
    OBVIOUS
  <2> HIDE DEF lens
  <2>4. Joined(FlattenSeq(jf), jf, lens, Len(jf))
    BY <1>1, <1>8, <2>a, FlattenHolds
  <2>5. 1 \in 1..Len(jf) /\ Len(jf[1]) \in Nat /\ Len(jf[1]) >= 1 /\ lens[1] = Len(jf[1])
    <3>1. Len(jf) \in Nat /\ DOMAIN jf = 1..Len(jf)
      BY <1>1, LenProperties
    <3>2. 1 \in 1..Len(jf)
      BY <1>8, <3>1
    <3>3. jf[1] \in Seq(Tokens)
      BY <1>1, <3>2, ElementOfSeq
    <3> QED
      BY <1>1, <2>a, <3>1, <3>2, <3>3, LenProperties DEF Delimited
  <2>6. Before(lens, 1) + 1 \in 1..Len(FlattenSeq(jf))
    <3>1. 1 \in 1..lens[1]
      BY <2>5
    <3> QED
      BY <2>4, <2>5, <3>1 DEF Joined
  <2>7. Len(FlattenSeq(jf)) = 0
    BY <1>3, <2>3, EmptySeq
  <2> QED
    BY <2>6, <2>7
<1>10. i \in 1..Len(ng) /\ jf[i] = jg[i]
  BY <1>1, <1>2, <1>3, <1>4, <1>8, <1>9, PartsReadBack
<1>11. pf[i] = pg[i]
  <2>1. CASE i = 1
    BY <1>6, <1>7, <1>10, <2>1
  <2>2. CASE i # 1
    <3>1. <<"&">> \o pf[i] = <<"&">> \o pg[i]
      BY <1>6, <1>7, <1>10, <2>2
    <3>2. pf[i] \in Seq(Tokens) /\ pg[i] \in Seq(Tokens)
      BY <1>1, <1>2, <1>10
    <3>3. <<"&">> \in Seq(Tokens)
      BY DEF Tokens
    <3> QED
      BY <3>1, <3>2, <3>3, CancelLeft
  <2> QED
    BY <2>1, <2>2
<1> DEFINE x == value_fingerprint(f[nf[i]], Identity(f, P, c, i))
           y == value_fingerprint(g[ng[i]], Identity(g, P, d, i))
           a == <<nf[i], "=">>
           b == <<ng[i], "=">>
<1>12. a \in Seq(Tokens) /\ b \in Seq(Tokens) /\ x \in Seq(Tokens) /\ y \in Seq(Tokens)
       /\ a \o x = b \o y
  BY <1>1, <1>2, <1>10, <1>11
<1>13. nf[i] = ng[i]
  <2>1. Len(a) = 2 /\ a[1] = nf[i] /\ Len(b) = 2 /\ b[1] = ng[i]
    OBVIOUS
  <2>2. Len(x) \in Nat /\ Len(y) \in Nat
    BY <1>12, LenProperties
  <2> HIDE DEF a, b, x, y
  <2>3. (a \o x)[1] = a[1]
    <3>1. 1 \in 1..(Len(a) + Len(x)) /\ 1 <= Len(a)
      BY <2>1, <2>2
    <3> QED
      BY <1>12, <3>1, ConcatProperties
  <2>4. (b \o y)[1] = b[1]
    <3>1. 1 \in 1..(Len(b) + Len(y)) /\ 1 <= Len(b)
      BY <2>1, <2>2
    <3> QED
      BY <1>12, <3>1, ConcatProperties
  <2> QED
    BY <1>12, <2>1, <2>3, <2>4
<1>14. x = y
  <2>1. a = b
    BY <1>13
  <2> HIDE DEF a, b, x, y
  <2> QED
    BY <1>12, <2>1, CancelLeft
<1>15. ng[i] = n /\ n \in DOMAIN g \ P /\ f[n] \in Broadcasts /\ g[n] \in Broadcasts
  BY <1>1, <1>2, <1>4, <1>5, <1>10, <1>13
<1>16. /\ Identity(f, P, c, i) \in Nat /\ Identity(g, P, d, i) \in Nat
       /\ value_fingerprint(f[n], Identity(f, P, c, i))
             = value_fingerprint(g[n], Identity(g, P, d, i))
  BY <1>1, <1>2, <1>4, <1>10, <1>14, <1>15
<1> QED
  BY <1>4, <1>10, <1>15, <1>16 DEF nf, ng

\* A request whose opaque values all have lower identities than the other's
\* has the other's key only if they agree on everything outside P.
LEMMA KeysSettle ==
    ASSUME SeparatorFree, NEW f \in Inputs, NEW g \in Inputs, NEW P, P = batched(sig),
           NEW c \in Nat, NEW d \in Nat, c + OpaqueCount(f, P) <= d,
           compute_batch_key(f, P, c) = compute_batch_key(g, P, d)
    PROVE  /\ DOMAIN f \ P = DOMAIN g \ P
           /\ \A n \in DOMAIN f \ P : f[n] = g[n]
<1>1. ASSUME NEW n \in DOMAIN f \ P PROVE n \in DOMAIN g \ P /\ f[n] = g[n]
  <2>1. /\ n \in DOMAIN g \ P /\ f[n] \in Broadcasts /\ g[n] \in Broadcasts
        /\ \E i \in 1..Len(broadcast_names(f, P)) :
              /\ i \in 1..Len(broadcast_names(g, P))
              /\ broadcast_names(f, P)[i] = n /\ broadcast_names(g, P)[i] = n
              /\ Identity(f, P, c, i) \in Nat /\ Identity(g, P, d, i) \in Nat
              /\ value_fingerprint(f[n], Identity(f, P, c, i))
                    = value_fingerprint(g[n], Identity(g, P, d, i))
    BY KeysTell
  <2>2. PICK i \in 1..Len(broadcast_names(f, P)) :
              /\ i \in 1..Len(broadcast_names(g, P))
              /\ broadcast_names(f, P)[i] = n /\ broadcast_names(g, P)[i] = n
              /\ Identity(f, P, c, i) \in Nat /\ Identity(g, P, d, i) \in Nat
              /\ value_fingerprint(f[n], Identity(f, P, c, i))
                    = value_fingerprint(g[n], Identity(g, P, d, i))
    BY <2>1
  <2>3. IF f[n].kind = "opaque" THEN Identity(f, P, c, i) = Identity(g, P, d, i)
        ELSE f[n] = g[n]
    BY <2>1, <2>2, FingerprintTells
  <2>4. f[n].kind # "opaque"
    <3> SUFFICES ASSUME f[n].kind = "opaque" PROVE FALSE
      OBVIOUS
    <3>1. /\ OpaqueAmong(f, P, i - 1) < OpaqueCount(f, P)
          /\ OpaqueAmong(f, P, i - 1) \in Nat /\ OpaqueCount(f, P) \in Nat
      BY <2>2, OpaqueCounted
    <3>2. i - 1 \in Nat
      OBVIOUS
    <3>3. OpaqueAmong(g, P, i - 1) \in Nat
      BY <3>2, OpaqueType
    <3> QED
      BY <2>3, <3>1, <3>3 DEF Identity
  <2> QED
    BY <2>1, <2>3, <2>4
<1>2. ASSUME NEW n \in DOMAIN g \ P PROVE n \in DOMAIN f \ P
  BY KeysTell
<1> QED
  BY <1>1, <1>2

-----------------------------------------------------------------------------
(* What a batch's requests share.                                          *)

\* The identities given out before request i were c[i]: each request was
\* keyed with higher ones than those before it, and all have one key.
Numbered(c) ==
    \A i \in DOMAIN requests :
        /\ requests[i].key = compute_batch_key(requests[i].inputs, Plan.params, c[i])
        /\ c[i] + OpaqueCount(requests[i].inputs, Plan.params) <= opaques
        /\ requests[i].key = requests[1].key
        /\ \A j \in DOMAIN requests :
              i < j => c[i] + OpaqueCount(requests[i].inputs, Plan.params) <= c[j]

Keyed ==
    /\ opaques \in Nat
    /\ \E c \in [DOMAIN requests -> 0..opaques] : Numbered(c)

KeyInv == BatchInv /\ Keyed

LEMMA KeyStarts == BatchInit => KeyInv
<1> SUFFICES ASSUME BatchInit PROVE Keyed
  BY BatchStarts DEF KeyInv
<1>1. requests = <<>> /\ opaques = 0
  BY DEF BatchInit
<1>2. DOMAIN requests = {}
  BY <1>1, EmptySeq
<1>3. [i \in DOMAIN requests |-> 0] \in [DOMAIN requests -> 0..opaques]
  BY <1>1
<1>4. Numbered([i \in DOMAIN requests |-> 0])
  BY <1>2 DEF Numbered
<1> QED
  BY <1>1, <1>3, <1>4 DEF Keyed

LEMMA OpaqueCountType ==
    ASSUME NEW f, NEW P
    PROVE  OpaqueCount(f, P) \in Nat
<1>1. Len(broadcast_names(f, P)) \in Nat
  <2>1. broadcast_names(f, P) \in Seq(NameSet)
    BY NamesShape
  <2> QED
    BY <2>1, LenProperties
<1> QED
  BY <1>1, OpaqueType DEF OpaqueCount

LEMMA ArriveKeyed ==
    ASSUME KeyInv, NEW inputs \in Inputs, Arrive(inputs)
    PROVE  Keyed'
<1> DEFINE params == Plan.params
           r == [inputs |-> inputs, key |-> compute_batch_key(inputs, params, opaques),
                 count |-> item_count(inputs, params)]
           L == Len(requests)
           n == OpaqueCount(inputs, params)
<1>1. /\ requests' = Append(requests, r) /\ opaques' = opaques + n
      /\ UNCHANGED sig
      /\ requests # <<>> => r.key = requests[1].key
  BY DEF Arrive
<1>2. Plan' = Plan
  BY <1>1 DEF Plan
<1>3. opaques \in Nat /\ n \in Nat /\ requests \in Seq(ToSet(requests))
  BY OpaqueCountType DEF KeyInv, Keyed, BatchInv, BatchTyped
<1>4. PICK c \in [DOMAIN requests -> 0..opaques] : Numbered(c)
  BY DEF KeyInv, Keyed
<1>5. /\ r.key = compute_batch_key(inputs, params, opaques) /\ r.inputs = inputs
  OBVIOUS
<1> HIDE DEF r, n
<1>6. /\ L \in Nat /\ DOMAIN requests = 1..L /\ DOMAIN requests' = 1..(L + 1)
      /\ \A i \in 1..L : requests'[i] = requests[i]
      /\ requests'[L + 1] = r
  <2>1. requests \in Seq(ToSet(requests) \cup {r}) /\ r \in ToSet(requests) \cup {r}
    BY <1>3
  <2>2. /\ Append(requests, r) \in Seq(ToSet(requests) \cup {r})
        /\ Len(Append(requests, r)) = L + 1
        /\ \A i \in 1..L : Append(requests, r)[i] = requests[i]
        /\ Append(requests, r)[L + 1] = r
    BY <2>1, AppendProperties
  <2> QED
    BY <1>1, <2>1, <2>2, LenProperties
<1>7. requests # <<>> <=> L # 0
  BY <1>3, EmptySeq
<1> HIDE DEF L
<1> DEFINE d == [i \in 1..(L + 1) |-> IF i = L + 1 THEN opaques ELSE c[i]]
<1>8. /\ \A i \in 1..L : d[i] = c[i] /\ c[i] \in 0..opaques
      /\ d[L + 1] = opaques
  BY <1>6
<1>9. d \in [DOMAIN requests' -> 0..(opaques')]
  <2>1. ASSUME NEW i \in 1..(L + 1) PROVE d[i] \in 0..(opaques')
    <3> HIDE DEF d
    <3>1. CASE i = L + 1
      BY <1>1, <1>3, <1>8, <3>1
    <3>2. CASE i # L + 1
      <4>1. i \in 1..L
        BY <1>6, <3>2
      <4> QED
        BY <1>1, <1>3, <1>8, <4>1
    <3> QED
      BY <3>1, <3>2
  <2> QED
    BY <1>6, <2>1
<1> HIDE DEF d
<1>10. /\ \A i \in 1..L :
             /\ requests[i].key = compute_batch_key(requests[i].inputs, params, c[i])
             /\ c[i] + OpaqueCount(requests[i].inputs, params) <= opaques
             /\ requests[i].key = requests[1].key
             /\ OpaqueCount(requests[i].inputs, params) \in Nat
             /\ \A j \in 1..L :
                   i < j => c[i] + OpaqueCount(requests[i].inputs, params) <= c[j]
  BY <1>4, <1>6, OpaqueCountType DEF Numbered
<1> HIDE DEF params
<1>11. requests'[1].key = r.key
  <2>1. CASE L = 0
    BY <1>6, <2>1
  <2>2. CASE L # 0
    <3>1. 1 \in 1..L
      BY <1>6, <2>2
    <3> QED
      BY <1>1, <1>6, <1>7, <2>2, <3>1
  <2> QED
    BY <2>1, <2>2
<1>12. ASSUME NEW i \in 1..(L + 1)
       PROVE  /\ requests'[i].key = compute_batch_key(requests'[i].inputs, params, d[i])
              /\ d[i] + OpaqueCount(requests'[i].inputs, params) <= opaques'
              /\ requests'[i].key = requests'[1].key
              /\ \A j \in 1..(L + 1) :
                    i < j => d[i] + OpaqueCount(requests'[i].inputs, params) <= d[j]
  <2>1. CASE i = L + 1
    <3>1. \A j \in 1..(L + 1) : ~(i < j)
      BY <1>6, <2>1
    <3> QED
      BY <1>1, <1>3, <1>5, <1>6, <1>8, <1>11, <2>1, <3>1 DEF n, params
  <2>2. CASE i # L + 1
    <3>1. i \in 1..L
      BY <1>6, <2>2
    <3>2. requests'[i] = requests[i] /\ d[i] = c[i] /\ c[i] \in Nat
      BY <1>3, <1>6, <1>8, <3>1
    <3>3. requests[i].key = r.key
      <4>1. requests # <<>>
        BY <1>7, <3>1
      <4> QED
        BY <1>1, <1>10, <3>1, <4>1
    <3>4. d[i] + OpaqueCount(requests'[i].inputs, params) <= opaques'
      BY <1>1, <1>3, <1>10, <3>1, <3>2
    <3>5. ASSUME NEW j \in 1..(L + 1), i < j
          PROVE  d[i] + OpaqueCount(requests'[i].inputs, params) <= d[j]
      <4>1. j \in 1..L \/ j = L + 1
        BY <1>6
      <4> QED
        BY <1>8, <1>10, <3>1, <3>2, <3>5, <4>1
    <3> QED
      BY <1>10, <1>11, <3>1, <3>2, <3>3, <3>4, <3>5
  <2> QED
    BY <2>1, <2>2
<1>13. opaques' \in Nat
  BY <1>1, <1>3
<1>14. \A i \in DOMAIN requests' :
          /\ requests'[i].key = compute_batch_key(requests'[i].inputs, Plan'.params, d[i])
          /\ d[i] + OpaqueCount(requests'[i].inputs, Plan'.params) <= opaques'
          /\ requests'[i].key = requests'[1].key
          /\ \A j \in DOMAIN requests' :
                i < j => d[i] + OpaqueCount(requests'[i].inputs, Plan'.params) <= d[j]
  BY <1>2, <1>6, <1>12 DEF params
<1> QED
  BY <1>9, <1>13, <1>14 DEF Keyed, Numbered

LEMMA QuietlyKeyed ==
    ASSUME Keyed, UNCHANGED <<sig, requests, opaques>>
    PROVE  Keyed'
<1>1. Plan' = Plan
  BY DEF Plan
<1> QED
  BY <1>1 DEF Keyed, Numbered

THEOREM KeyInvariance == BatchSpec => []KeyInv
<1>1. KeyInv /\ [BatchNext]_batchVars => Keyed'
  <2> SUFFICES ASSUME KeyInv, [BatchNext]_batchVars PROVE Keyed'
    OBVIOUS
  <2>1. CASE UNCHANGED batchVars
    BY <2>1, QuietlyKeyed DEF batchVars, KeyInv
  <2>2. ASSUME NEW inputs \in Inputs, Arrive(inputs) PROVE Keyed'
    BY <2>2, ArriveKeyed
  <2>3. CASE process_batch
    BY <2>3, QuietlyKeyed DEF process_batch, KeyInv
  <2> QED
    BY <2>1, <2>2, <2>3 DEF BatchNext
<1>2. BatchInv /\ Keyed <=> KeyInv
  BY DEF KeyInv
<1> QED
  BY <1>1, <1>2, KeyStarts, BatchInvariance, PTL DEF BatchSpec

LEMMA KeyedAgree ==
    ASSUME SeparatorFree, KeyInv
    PROVE  BroadcastsAgree
<1> DEFINE P == Plan.params
<1>1. PICK c \in [DOMAIN requests -> 0..opaques] : Numbered(c)
  BY DEF KeyInv, Keyed
<1>2. /\ opaques \in Nat /\ DOMAIN requests = 1..Len(requests) /\ Len(requests) \in Nat
  BY LenProperties DEF KeyInv, Keyed, BatchInv, BatchTyped
<1>3. ASSUME NEW i \in DOMAIN requests, NEW j \in DOMAIN requests, i < j
      PROVE  /\ DOMAIN requests[i].inputs \ P = DOMAIN requests[j].inputs \ P
             /\ \A n \in DOMAIN requests[i].inputs \ P :
                   requests[i].inputs[n] = requests[j].inputs[n]
  <2>1. P = batched(sig)
    <3>1. Len(requests) > 1
      BY <1>2, <1>3
    <3> QED
      BY <3>1, PlanShape DEF KeyInv, BatchInv, BatchTyped, Fitting
  <2> DEFINE f == requests[i].inputs
             g == requests[j].inputs
  <2>2. f \in Inputs /\ g \in Inputs
    BY DEF KeyInv, BatchInv, Requested
  <2>3. c[i] \in Nat /\ c[j] \in Nat
    BY <1>1, <1>2
  <2>4. /\ requests[i].key = compute_batch_key(f, P, c[i])
        /\ requests[j].key = compute_batch_key(g, P, c[j])
        /\ requests[i].key = requests[j].key
        /\ c[i] + OpaqueCount(f, P) <= c[j]
    BY <1>1, <1>3 DEF Numbered
  <2>5. compute_batch_key(f, P, c[i]) = compute_batch_key(g, P, c[j])
    BY <2>4
  <2> HIDE DEF f, g, P
  <2>6. DOMAIN f \ P = DOMAIN g \ P /\ \A n \in DOMAIN f \ P : f[n] = g[n]
    BY <2>1, <2>2, <2>3, <2>4, <2>5, KeysSettle
  <2> QED
    BY <2>6 DEF f, g
<1> SUFFICES ASSUME NEW i \in DOMAIN requests, NEW j \in DOMAIN requests
             PROVE  /\ DOMAIN requests[i].inputs \ P = DOMAIN requests[j].inputs \ P
                    /\ \A n \in DOMAIN requests[i].inputs \ P :
                          requests[i].inputs[n] = requests[j].inputs[n]
  BY DEF BroadcastsAgree
<1> HIDE DEF P
<1>4. i < j \/ j < i \/ i = j
  BY <1>2
<1>5. CASE j < i
  BY <1>3, <1>5
<1> QED
  BY <1>3, <1>4, <1>5

\* Merging is sound for every parameter: requests of one batch agree on every
\* parameter that is not batched, opaque ones included, although the key they
\* are gathered by is only text, and no merged list is longer than its
\* parameter's capacity (batch.rs, compute_batch_key and from_signature).
THEOREM KeysKeepApart == ASSUME SeparatorFree PROVE BatchSpec => []Mergeable
<1>1. KeyInv => BroadcastsAgree
  BY KeyedAgree
<1>2. BroadcastsAgree /\ FitsEveryParam <=> Mergeable
  BY DEF Mergeable
<1> QED
  BY <1>1, <1>2, KeyInvariance, ListsFit, PTL

\* Batching is invisible: whatever a request is merged with, its caller gets
\* what the request would have returned alone (merge.rs, split_results).
THEOREM BatchesAreInvisible ==
    ASSUME SeparatorFree
    PROVE  BatchSpec => [](NoEmptyDimension => Transparent)
<1>1. KeyInv => BroadcastsAgree
  BY KeyedAgree
<1> QED
  BY <1>1, KeyInvariance, BatchingIsInvisible, PTL
=============================================================================
