---------------------------- MODULE SumTheorems -----------------------------
(***************************************************************************)
(* Facts about the folds the models use: sums, with which they add up item *)
(* counts, and concatenations, with which they merge lists; and the two    *)
(* induction principles those facts need.                                  *)
(*                                                                         *)
(* The community modules define a sum as a fold that chooses the elements  *)
(* one by one.  SumRemove is the fact that matters: the order does not.    *)
(***************************************************************************)
EXTENDS SequencesExt, FiniteSetTheorems, SequenceTheorems, TLAPS

-----------------------------------------------------------------------------
(* Induction, stated with a set for the predicate.                         *)

LEMMA NatInd ==
    ASSUME NEW Q, 0 \in Q, \A n \in Nat : n \in Q => n + 1 \in Q
    PROVE  Nat \subseteq Q
<1> DEFINE T == Nat \ Q
<1>1. SUFFICES ASSUME T # {} PROVE FALSE
  OBVIOUS
<1>2. PICK m \in T : \A k \in T : ~(<<k, m>> \in OpToRel(<, Nat))
  <2>1. T \subseteq Nat
    OBVIOUS
  <2> HIDE DEF T
  <2> QED
    BY <1>1, <2>1, NatLessThanWellFounded, WFMin
<1>3. m # 0
  OBVIOUS
<1>4. m - 1 \in Nat /\ m - 1 < m
  BY <1>3
<1>5. <<m - 1, m>> \in OpToRel(<, Nat)
  BY <1>4 DEF OpToRel
<1>6. m - 1 \in Q
  BY <1>2, <1>4, <1>5
<1> QED
  BY <1>4, <1>6

LEMMA FiniteInd ==
    ASSUME NEW S, IsFiniteSet(S), NEW Q,
           ASSUME NEW T \in SUBSET S, \A x \in T : T \ {x} \in Q PROVE T \in Q
    PROVE  SUBSET S \subseteq Q
<1> DEFINE R == (SUBSET S) \ Q
<1>1. SUFFICES ASSUME R # {} PROVE FALSE
  OBVIOUS
<1>2. IsWellFoundedOn(StrictSubsetOrdering(S), SUBSET S)
  BY FS_StrictSubsetOrderingWellFounded, FS_FiniteSubsetsOfFinite
<1>3. PICK T \in R : \A U \in R : ~(<<U, T>> \in StrictSubsetOrdering(S))
  <2>1. R \subseteq SUBSET S
    OBVIOUS
  <2> HIDE DEF R
  <2> QED
    BY <1>1, <1>2, <2>1, WFMin
<1>4. ASSUME NEW x \in T PROVE T \ {x} \in Q
  <2>1. <<T \ {x}, T>> \in StrictSubsetOrdering(S)
    BY DEF StrictSubsetOrdering
  <2> QED
    BY <1>3, <2>1
<1> QED
  BY <1>4

-----------------------------------------------------------------------------
(* A fold whose steps stay in a set of values has its recursive function.  *)

Next1(s) == CHOOSE x \in s : TRUE

\* g folds step over every subset of S, from base and within V.
FoldsBy(g, base, step, V, S) ==
    /\ g \in [SUBSET S -> V]
    /\ \A T \in SUBSET S :
          g[T] = IF T = {} THEN base ELSE step[<<Next1(T), g[T \ {Next1(T)}]>>]

LEMMA FoldExists ==
    ASSUME NEW S, IsFiniteSet(S), NEW V, NEW base \in V, NEW step,
           \A x \in S : \A v \in V : step[<<x, v>>] \in V
    PROVE  \E g : FoldsBy(g, base, step, V, S)
<1> DEFINE Rest(T) == T \ {Next1(T)}
           Unfolded(g, T) == IF T = {} THEN base ELSE step[<<Next1(T), g[Rest(T)]>>]
           UpTo(g, n) == \A T \in SUBSET S : Cardinality(T) <= n => g[T] = Unfolded(g, T)
           Q == {n \in Nat : \E g \in [SUBSET S -> V] : UpTo(g, n)}
<1>1. ASSUME NEW T \in SUBSET S, T # {}
      PROVE  /\ Next1(T) \in S /\ Rest(T) \in SUBSET S
             /\ Cardinality(T) \in Nat /\ Cardinality(Rest(T)) \in Nat
             /\ Cardinality(T) = Cardinality(Rest(T)) + 1
  <2>1. Next1(T) \in T
    BY <1>1 DEF Next1
  <2>2. IsFiniteSet(T)
    BY FS_Subset
  <2>3. /\ IsFiniteSet(Rest(T))
        /\ Cardinality(Rest(T)) = Cardinality(T) - 1
    BY <2>1, <2>2, FS_RemoveElement
  <2>4. Cardinality(T) \in Nat /\ Cardinality(Rest(T)) \in Nat
    BY <2>2, <2>3, FS_CardinalityType
  <2> QED
    BY <2>1, <2>3, <2>4
<1>2. ASSUME NEW g \in [SUBSET S -> V], NEW T \in SUBSET S PROVE Unfolded(g, T) \in V
  <2>1. CASE T = {}
    BY <2>1
  <2>2. CASE T # {}
    <3>1. Next1(T) \in S /\ Rest(T) \in SUBSET S
      BY <1>1, <2>2
    <3>2. Next1(T) \in S /\ g[Rest(T)] \in V
      <4> HIDE DEF Rest
      <4> QED
        BY <3>1
    <3> QED
      BY <2>2, <3>2
  <2> QED
    BY <2>1, <2>2
<1>3. 0 \in Q
  <2> DEFINE g == [T \in SUBSET S |-> base]
  <2>1. g \in [SUBSET S -> V]
    OBVIOUS
  <2>2. ASSUME NEW T \in SUBSET S, Cardinality(T) <= 0 PROVE g[T] = Unfolded(g, T)
    <3>1. CASE T = {}
      BY <3>1
    <3>2. CASE T # {}
      <4>1. /\ Cardinality(T) \in Nat /\ Cardinality(Rest(T)) \in Nat
            /\ Cardinality(T) = Cardinality(Rest(T)) + 1
        BY <1>1, <3>2
      <4>2. ~(Cardinality(T) <= 0)
        BY <4>1
      <4> QED
        BY <2>2, <4>2
    <3> QED
      BY <3>1, <3>2
  <2> QED
    BY <2>1, <2>2
<1>4. ASSUME NEW n \in Nat, n \in Q PROVE n + 1 \in Q
  <2>1. PICK g \in [SUBSET S -> V] : UpTo(g, n)
    BY <1>4
  <2> DEFINE h == [T \in SUBSET S |-> Unfolded(g, T)]
  <2>2. h \in [SUBSET S -> V]
    <3> HIDE DEF Unfolded
    <3> QED
      BY <1>2
  <2>3. ASSUME NEW T \in SUBSET S, Cardinality(T) <= n + 1 PROVE h[T] = Unfolded(h, T)
    <3>1. CASE T = {}
      BY <3>1
    <3>2. CASE T # {}
      <4>1. Rest(T) \in SUBSET S /\ Cardinality(Rest(T)) <= n
        BY <1>1, <2>3, <3>2
      <4>2. g[Rest(T)] = Unfolded(g, Rest(T)) /\ h[Rest(T)] = Unfolded(g, Rest(T))
        <5> HIDE DEF Unfolded, Rest
        <5> QED
          BY <2>1, <4>1
      <4>3. h[T] = step[<<Next1(T), g[Rest(T)]>>]
        BY <3>2
      <4>4. Unfolded(h, T) = step[<<Next1(T), h[Rest(T)]>>]
        BY <3>2
      <4> HIDE DEF h, Unfolded, Rest
      <4> QED
        BY <4>2, <4>3, <4>4
    <3> QED
      BY <3>1, <3>2
  <2> HIDE DEF h, Unfolded
  <2> QED
    BY <2>2, <2>3
<1>5. Nat \subseteq Q
  <2> HIDE DEF Q
  <2> QED
    BY <1>3, <1>4, NatInd
<1>6. Cardinality(S) \in Nat /\ \A T \in SUBSET S : Cardinality(T) <= Cardinality(S)
  BY FS_CardinalityType, FS_Subset
<1>7. PICK g \in [SUBSET S -> V] : UpTo(g, Cardinality(S))
  BY <1>5, <1>6
<1>8. \A T \in SUBSET S : g[T] = Unfolded(g, T)
  <2> HIDE DEF Unfolded
  <2> QED
    BY <1>6, <1>7
<1>9. FoldsBy(g, base, step, V, S)
  BY <1>8 DEF FoldsBy
<1> QED
  BY <1>9

-----------------------------------------------------------------------------
(* The recursive function under the fold.                                  *)

Sums(g, f, S) ==
    g = [s \in SUBSET S |-> IF s = {} THEN 0 ELSE f[Next1(s)] + g[s \ {Next1(s)}]]

SumsOf(f, S) == CHOOSE g : Sums(g, f, S)

LEMMA SumUnfolds == ASSUME NEW f, NEW S PROVE SumFunctionOnSet(f, S) = SumsOf(f, S)[S]
  BY DEF SumFunctionOnSet, FoldFunctionOnSet, MapThenFoldSet, SumsOf, Sums, Next1

LEMMA SumsAgree ==
    ASSUME NEW f, NEW S, IsFiniteSet(S), NEW U, NEW g, NEW h,
           Sums(g, f, S), Sums(h, f, U), S \subseteq U
    PROVE  \A T \in SUBSET S : g[T] = h[T]
<1> DEFINE Q == {T \in SUBSET S : g[T] = h[T]}
<1>1. ASSUME NEW T \in SUBSET S, \A x \in T : T \ {x} \in Q PROVE T \in Q
  <2>1. T \in SUBSET U
    OBVIOUS
  <2>2. CASE T = {}
    <3>1. g[T] = 0 /\ h[T] = 0
      BY <2>1, <2>2 DEF Sums
    <3> QED
      BY <3>1
  <2>3. CASE T # {}
    <3>1. Next1(T) \in T
      BY <2>3 DEF Next1
    <3>2. g[T \ {Next1(T)}] = h[T \ {Next1(T)}]
      BY <1>1, <3>1
    <3>3. g[T] = f[Next1(T)] + g[T \ {Next1(T)}]
      BY <2>3 DEF Sums
    <3>4. h[T] = f[Next1(T)] + h[T \ {Next1(T)}]
      BY <2>1, <2>3 DEF Sums
    <3> QED
      BY <3>2, <3>3, <3>4
  <2> QED
    BY <2>2, <2>3
<1>2. SUBSET S \subseteq Q
  <2> HIDE DEF Q
  <2> QED
    BY <1>1, FiniteInd
<1> QED
  BY <1>2

LEMMA SumsRestrict ==
    ASSUME NEW f, NEW S, NEW U, NEW h, Sums(h, f, U), S \subseteq U
    PROVE  Sums([T \in SUBSET S |-> h[T]], f, S)
<1> DEFINE g == [T \in SUBSET S |-> h[T]]
<1>1. ASSUME NEW T \in SUBSET S
      PROVE  g[T] = IF T = {} THEN 0 ELSE f[Next1(T)] + g[T \ {Next1(T)}]
  <2>1. T \in SUBSET U /\ T \ {Next1(T)} \in SUBSET S
    OBVIOUS
  <2>2. h[T] = IF T = {} THEN 0 ELSE f[Next1(T)] + h[T \ {Next1(T)}]
    BY <2>1 DEF Sums
  <2> QED
    BY <2>1, <2>2
<1>2. g = [T \in SUBSET S |-> IF T = {} THEN 0 ELSE f[Next1(T)] + g[T \ {Next1(T)}]]
  BY <1>1
<1> QED
  BY <1>2 DEF Sums

LEMMA SumsExist ==
    ASSUME NEW f, NEW S, IsFiniteSet(S)
    PROVE  Sums(SumsOf(f, S), f, S)
<1> DEFINE Q == {T \in SUBSET S : \E g : Sums(g, f, T)}
<1>1. ASSUME NEW T \in SUBSET S, \A x \in T : T \ {x} \in Q PROVE T \in Q
  <2> DEFINE below(s) == s \ {Next1(s)}
             h == [s \in SUBSET T |->
                      IF s = {} THEN 0 ELSE f[Next1(s)] + SumsOf(f, below(s))[below(s)]]
  <2>1. ASSUME NEW u \in SUBSET T, u # T PROVE Sums(SumsOf(f, u), f, u)
    <3>1. PICK x \in T : u \subseteq T \ {x}
      BY <2>1
    <3>2. PICK g : Sums(g, f, T \ {x})
      BY <1>1, <3>1
    <3>3. \E k : Sums(k, f, u)
      BY <3>1, <3>2, SumsRestrict
    <3> QED
      BY <3>3 DEF SumsOf
  <2>2. ASSUME NEW u \in SUBSET T, u # T, u # {}
        PROVE  SumsOf(f, u)[u] = f[Next1(u)] + SumsOf(f, below(u))[below(u)]
    <3>1. Sums(SumsOf(f, u), f, u)
      BY <2>1, <2>2
    <3>2. Next1(u) \in u
      BY <2>2 DEF Next1
    <3>3. below(u) \subseteq u /\ below(u) # T
      BY <3>2
    <3>4. Sums(SumsOf(f, below(u)), f, below(u))
      BY <2>1, <3>3
    <3>5. IsFiniteSet(below(u))
      BY FS_Subset
    <3>6. SumsOf(f, below(u))[below(u)] = SumsOf(f, u)[below(u)]
      <4> HIDE DEF below
      <4> QED
        BY <3>1, <3>3, <3>4, <3>5, SumsAgree
    <3>7. SumsOf(f, u)[u] = f[Next1(u)] + SumsOf(f, u)[below(u)]
      BY <2>2, <3>1 DEF Sums
    <3> QED
      BY <3>6, <3>7
  <2>3. ASSUME NEW s \in SUBSET T
        PROVE  h[s] = IF s = {} THEN 0 ELSE f[Next1(s)] + h[below(s)]
    <3>1. CASE s = {}
      BY <3>1
    <3>2. CASE s # {}
      <4>1. Next1(s) \in s
        BY <3>2 DEF Next1
      <4>2. below(s) \in SUBSET T /\ below(s) # T
        BY <4>1
      <4>3. h[below(s)] = SumsOf(f, below(s))[below(s)]
        <5>1. CASE below(s) = {}
          <6>1. Sums(SumsOf(f, {}), f, {})
            BY <2>1, <4>2, <5>1
          <6>2. SumsOf(f, {})[{}] = 0
            BY <6>1 DEF Sums
          <6>3. h[{}] = 0
            OBVIOUS
          <6> QED
            BY <5>1, <6>2, <6>3
        <5>2. CASE below(s) # {}
          <6>1. \A v \in SUBSET T : v # {} => h[v] = f[Next1(v)] + SumsOf(f, below(v))[below(v)]
            OBVIOUS
          <6>2. h[below(s)] = f[Next1(below(s))] + SumsOf(f, below(below(s)))[below(below(s))]
            BY <4>2, <5>2, <6>1
          <6> QED
            BY <2>2, <4>2, <5>2, <6>2
        <5> QED
          BY <5>1, <5>2
      <4> QED
        BY <3>2, <4>3
    <3> QED
      BY <3>1, <3>2
  <2>4. h = [s \in SUBSET T |-> IF s = {} THEN 0 ELSE f[Next1(s)] + h[below(s)]]
    BY <2>3
  <2>5. Sums(h, f, T)
    BY <2>4 DEF Sums
  <2> QED
    BY <2>5
<1>2. SUBSET S \subseteq Q
  <2> HIDE DEF Q
  <2> QED
    BY <1>1, FiniteInd
<1>3. \E g : Sums(g, f, S)
  BY <1>2
<1> QED
  BY <1>3 DEF SumsOf

-----------------------------------------------------------------------------
(* Sums over finite sets.                                                  *)

\* The sum over no element is 0.
LEMMA SumEmpty == ASSUME NEW f PROVE SumFunctionOnSet(f, {}) = 0
<1>1. IsFiniteSet({})
  BY FS_EmptySet
<1>2. Sums(SumsOf(f, {}), f, {})
  BY <1>1, SumsExist
<1>3. SumsOf(f, {})[{}] = 0
  BY <1>2 DEF Sums
<1> QED
  BY <1>3, SumUnfolds

LEMMA SumNext ==
    ASSUME NEW f, NEW S, IsFiniteSet(S), S # {}
    PROVE  /\ Next1(S) \in S
           /\ SumFunctionOnSet(f, S)
                 = f[Next1(S)] + SumFunctionOnSet(f, S \ {Next1(S)})
<1> DEFINE U == S \ {Next1(S)}
<1>1. Next1(S) \in S
  BY DEF Next1
<1>2. IsFiniteSet(U) /\ U \subseteq S
  BY FS_Subset
<1>3. Sums(SumsOf(f, S), f, S) /\ Sums(SumsOf(f, U), f, U)
  BY <1>2, SumsExist
<1>4. SumsOf(f, S)[S] = f[Next1(S)] + SumsOf(f, S)[U]
  BY <1>3 DEF Sums
<1>5. SumsOf(f, U)[U] = SumsOf(f, S)[U]
  <2> HIDE DEF U
  <2> QED
    BY <1>2, <1>3, SumsAgree
<1> QED
  BY <1>1, <1>4, <1>5, SumUnfolds

\* A sum of integers is an integer; of naturals, a natural number.
LEMMA SumType ==
    ASSUME NEW Typ, Typ \in {Int, Nat}, NEW f, NEW S, IsFiniteSet(S),
           \A x \in S : f[x] \in Typ
    PROVE  SumFunctionOnSet(f, S) \in Typ
<1> DEFINE Q == {T \in SUBSET S : SumFunctionOnSet(f, T) \in Typ}
<1>1. ASSUME NEW T \in SUBSET S, \A x \in T : T \ {x} \in Q PROVE T \in Q
  <2>1. CASE T = {}
    BY <2>1, SumEmpty
  <2>2. CASE T # {}
    <3>1. IsFiniteSet(T)
      BY FS_Subset
    <3>2. Next1(T) \in T
      BY <2>2, <3>1, SumNext
    <3>3. SumFunctionOnSet(f, T) = f[Next1(T)] + SumFunctionOnSet(f, T \ {Next1(T)})
      BY <2>2, <3>1, SumNext
    <3>4. SumFunctionOnSet(f, T \ {Next1(T)}) \in Typ /\ f[Next1(T)] \in Typ
      BY <1>1, <3>2
    <3> QED
      BY <3>3, <3>4
  <2> QED
    BY <2>1, <2>2
<1>2. SUBSET S \subseteq Q
  <2> HIDE DEF Q
  <2> QED
    BY <1>1, FiniteInd
<1> QED
  BY <1>2

\* Any element may be taken out first.
LEMMA SumRemove ==
    ASSUME NEW f, NEW S, IsFiniteSet(S), \A x \in S : f[x] \in Int, NEW y \in S
    PROVE  SumFunctionOnSet(f, S) = f[y] + SumFunctionOnSet(f, S \ {y})
<1> DEFINE Q == {T \in SUBSET S : \A x \in T :
                    SumFunctionOnSet(f, T) = f[x] + SumFunctionOnSet(f, T \ {x})}
<1>1. ASSUME NEW T \in SUBSET S, \A x \in T : T \ {x} \in Q PROVE T \in Q
  <2> SUFFICES ASSUME NEW x \in T
               PROVE  SumFunctionOnSet(f, T) = f[x] + SumFunctionOnSet(f, T \ {x})
    OBVIOUS
  <2> DEFINE n == Next1(T)
  <2>1. IsFiniteSet(T)
    BY FS_Subset
  <2>2. n \in T /\ SumFunctionOnSet(f, T) = f[n] + SumFunctionOnSet(f, T \ {n})
    BY <2>1, SumNext
  <2>3. CASE x = n
    BY <2>2, <2>3
  <2>4. CASE x # n
    <3> HIDE DEF n
    <3> DEFINE U == T \ {n, x}
    <3>1. SumFunctionOnSet(f, T \ {n}) = f[x] + SumFunctionOnSet(f, (T \ {n}) \ {x})
      BY <1>1, <2>2, <2>4
    <3>2. SumFunctionOnSet(f, T \ {x}) = f[n] + SumFunctionOnSet(f, (T \ {x}) \ {n})
      BY <1>1, <2>2, <2>4
    <3>3. (T \ {n}) \ {x} = U /\ (T \ {x}) \ {n} = U
      OBVIOUS
    <3>4. IsFiniteSet(U)
      BY <2>1, FS_Subset
    <3>5. \A z \in U : f[z] \in Int
      OBVIOUS
    <3>6. SumFunctionOnSet(f, U) \in Int
      <4> HIDE DEF U
      <4> QED
        BY <3>4, <3>5, SumType
    <3>7. f[x] \in Int /\ f[n] \in Int
      BY <2>2
    <3> HIDE DEF U
    <3>8. SumFunctionOnSet(f, T \ {n}) = f[x] + SumFunctionOnSet(f, U)
      BY <3>1, <3>3
    <3>9. SumFunctionOnSet(f, T \ {x}) = f[n] + SumFunctionOnSet(f, U)
      BY <3>2, <3>3
    <3> QED
      BY <2>2, <3>6, <3>7, <3>8, <3>9
  <2> QED
    BY <2>3, <2>4
<1>2. SUBSET S \subseteq Q
  <2> HIDE DEF Q
  <2> QED
    BY <1>1, FiniteInd
<1> QED
  BY <1>2

\* A sum depends on the summands only.
LEMMA SumAgree ==
    ASSUME NEW S, IsFiniteSet(S), NEW f, NEW g,
           \A x \in S : f[x] \in Int /\ f[x] = g[x]
    PROVE  SumFunctionOnSet(f, S) = SumFunctionOnSet(g, S)
<1> DEFINE Q == {T \in SUBSET S : SumFunctionOnSet(f, T) = SumFunctionOnSet(g, T)}
<1>1. ASSUME NEW T \in SUBSET S, \A x \in T : T \ {x} \in Q PROVE T \in Q
  <2>1. CASE T = {}
    BY <2>1, SumEmpty
  <2>2. CASE T # {}
    <3>1. IsFiniteSet(T)
      BY FS_Subset
    <3>2. Next1(T) \in T
      BY <2>2, <3>1, SumNext
    <3>3. SumFunctionOnSet(f, T) = f[Next1(T)] + SumFunctionOnSet(f, T \ {Next1(T)})
      BY <2>2, <3>1, SumNext
    <3>4. SumFunctionOnSet(g, T) = g[Next1(T)] + SumFunctionOnSet(g, T \ {Next1(T)})
      BY <2>2, <3>1, SumNext
    <3>5. SumFunctionOnSet(f, T \ {Next1(T)}) = SumFunctionOnSet(g, T \ {Next1(T)})
      BY <1>1, <3>2
    <3> QED
      BY <3>2, <3>3, <3>4, <3>5
  <2> QED
    BY <2>1, <2>2
<1>2. SUBSET S \subseteq Q
  <2> HIDE DEF Q
  <2> QED
    BY <1>1, FiniteInd
<1> QED
  BY <1>2

\* What is 0 adds nothing.
LEMMA SumOfPart ==
    ASSUME NEW S, IsFiniteSet(S), NEW T \in SUBSET S, NEW f,
           \A x \in S : f[x] \in Int, \A x \in S \ T : f[x] = 0
    PROVE  SumFunctionOnSet(f, S) = SumFunctionOnSet(f, T)
<1> DEFINE R == S \ T
           Q == {U \in SUBSET R : SumFunctionOnSet(f, T \cup U) = SumFunctionOnSet(f, T)}
<1>1. ASSUME NEW U \in SUBSET R, \A x \in U : U \ {x} \in Q PROVE U \in Q
  <2>1. CASE U = {}
    <3>1. T \cup U = T
      BY <2>1
    <3> QED
      BY <3>1
  <2>2. CASE U # {}
    <3>1. PICK x \in U : TRUE
      BY <2>2
    <3> DEFINE W == T \cup U
    <3>2. IsFiniteSet(W) /\ IsFiniteSet(W \ {x}) /\ x \in W /\ W \in SUBSET S
      <4>1. W \in SUBSET S /\ W \ {x} \in SUBSET S
        OBVIOUS
      <4> QED
        BY <3>1, <4>1, FS_Subset
    <3>3. W \ {x} = T \cup (U \ {x})
      BY <3>1
    <3>4. SumFunctionOnSet(f, T \cup (U \ {x})) = SumFunctionOnSet(f, T)
      BY <1>1, <3>1
    <3>5. f[x] = 0
      BY <3>1
    <3> HIDE DEF W
    <3>6. \A y \in W : f[y] \in Int
      BY <3>2
    <3>7. SumFunctionOnSet(f, W) = f[x] + SumFunctionOnSet(f, W \ {x})
      BY <3>2, <3>6, SumRemove
    <3>8. SumFunctionOnSet(f, W \ {x}) \in Int
      BY <3>2, <3>6, SumType
    <3>9. SumFunctionOnSet(f, W) = SumFunctionOnSet(f, W \ {x})
      BY <3>5, <3>7, <3>8
    <3>10. SumFunctionOnSet(f, W \ {x}) = SumFunctionOnSet(f, T)
      BY <3>3, <3>4, Zenon
    <3> QED
      BY <3>9, <3>10 DEF W
  <2> QED
    BY <2>1, <2>2
<1>2. IsFiniteSet(R)
  BY FS_Subset
<1>3. SUBSET R \subseteq Q
  <2> HIDE DEF Q, R
  <2> QED
    BY <1>1, <1>2, FiniteInd
<1>4. R \in Q /\ T \cup R = S
  BY <1>3
<1> QED
  BY <1>4

\* A sum of sums.
LEMMA SumPlus ==
    ASSUME NEW S, IsFiniteSet(S), NEW f, NEW g, NEW h,
           \A x \in S : f[x] \in Int /\ g[x] \in Int /\ h[x] = f[x] + g[x]
    PROVE  SumFunctionOnSet(h, S) = SumFunctionOnSet(f, S) + SumFunctionOnSet(g, S)
<1> DEFINE Q == {T \in SUBSET S : SumFunctionOnSet(h, T)
                                    = SumFunctionOnSet(f, T) + SumFunctionOnSet(g, T)}
<1>1. ASSUME NEW T \in SUBSET S, \A x \in T : T \ {x} \in Q PROVE T \in Q
  <2>1. CASE T = {}
    BY <2>1, SumEmpty
  <2>2. CASE T # {}
    <3>1. PICK x \in T : TRUE
      BY <2>2
    <3> DEFINE U == T \ {x}
    <3>2. IsFiniteSet(T) /\ IsFiniteSet(U)
      BY FS_Subset
    <3>3. /\ SumFunctionOnSet(f, T) = f[x] + SumFunctionOnSet(f, U)
          /\ SumFunctionOnSet(g, T) = g[x] + SumFunctionOnSet(g, U)
          /\ SumFunctionOnSet(h, T) = h[x] + SumFunctionOnSet(h, U)
      <4>1. \A y \in T : f[y] \in Int /\ g[y] \in Int /\ h[y] \in Int
        OBVIOUS
      <4> QED
        BY <3>2, <4>1, SumRemove
    <3>4. SumFunctionOnSet(h, U) = SumFunctionOnSet(f, U) + SumFunctionOnSet(g, U)
      BY <1>1, <3>1
    <3>5. \A y \in U : f[y] \in Int /\ g[y] \in Int
      OBVIOUS
    <3> HIDE DEF U
    <3>6. SumFunctionOnSet(f, U) \in Int /\ SumFunctionOnSet(g, U) \in Int
      BY <3>2, <3>5, SumType
    <3>7. f[x] \in Int /\ g[x] \in Int /\ h[x] = f[x] + g[x]
      BY <3>1
    <3> QED
      BY <3>3, <3>4, <3>6, <3>7
  <2> QED
    BY <2>1, <2>2
<1>2. SUBSET S \subseteq Q
  <2> HIDE DEF Q
  <2> QED
    BY <1>1, FiniteInd
<1> QED
  BY <1>2

\* A sum of multiples.
LEMMA SumScale ==
    ASSUME NEW S, IsFiniteSet(S), NEW k \in Int, NEW f, NEW h,
           \A x \in S : f[x] \in Int /\ h[x] = k * f[x]
    PROVE  SumFunctionOnSet(h, S) = k * SumFunctionOnSet(f, S)
<1> DEFINE Q == {T \in SUBSET S : SumFunctionOnSet(h, T) = k * SumFunctionOnSet(f, T)}
<1>1. ASSUME NEW T \in SUBSET S, \A x \in T : T \ {x} \in Q PROVE T \in Q
  <2>1. CASE T = {}
    BY <2>1, SumEmpty
  <2>2. CASE T # {}
    <3>1. PICK x \in T : TRUE
      BY <2>2
    <3> DEFINE U == T \ {x}
    <3>2. IsFiniteSet(T) /\ IsFiniteSet(U)
      BY FS_Subset
    <3>3. /\ SumFunctionOnSet(f, T) = f[x] + SumFunctionOnSet(f, U)
          /\ SumFunctionOnSet(h, T) = h[x] + SumFunctionOnSet(h, U)
      <4>1. \A y \in T : f[y] \in Int /\ h[y] \in Int
        OBVIOUS
      <4> QED
        BY <3>2, <4>1, SumRemove
    <3>4. SumFunctionOnSet(h, U) = k * SumFunctionOnSet(f, U)
      BY <1>1, <3>1
    <3>5. \A y \in U : f[y] \in Int
      OBVIOUS
    <3> HIDE DEF U
    <3>6. SumFunctionOnSet(f, U) \in Int
      BY <3>2, <3>5, SumType
    <3>7. f[x] \in Int /\ h[x] = k * f[x]
      BY <3>1
    <3> DEFINE a == f[x]
               b == SumFunctionOnSet(f, U)
    <3>8. a \in Int /\ b \in Int /\ k * (a + b) = k * a + k * b
      <4>1. a \in Int /\ b \in Int
        BY <3>6, <3>7
      <4> HIDE DEF a, b
      <4> QED
        BY <4>1
    <3> QED
      BY <3>3, <3>4, <3>7, <3>8
  <2> QED
    BY <2>1, <2>2
<1>2. SUBSET S \subseteq Q
  <2> HIDE DEF Q
  <2> QED
    BY <1>1, FiniteInd
<1> QED
  BY <1>2

\* Summands that are each at most k above the other's.
LEMMA SumLeq ==
    ASSUME NEW S, IsFiniteSet(S), NEW k \in Int, NEW f, NEW g,
           \A x \in S : f[x] \in Int /\ g[x] \in Int /\ f[x] <= g[x] + k
    PROVE  SumFunctionOnSet(f, S) <= SumFunctionOnSet(g, S) + k * Cardinality(S)
<1> DEFINE Q == {T \in SUBSET S : SumFunctionOnSet(f, T)
                                    <= SumFunctionOnSet(g, T) + k * Cardinality(T)}
<1>1. ASSUME NEW T \in SUBSET S, \A x \in T : T \ {x} \in Q PROVE T \in Q
  <2>1. CASE T = {}
    <3>1. Cardinality(T) = 0 /\ k * 0 = 0
      BY <2>1, FS_EmptySet
    <3> QED
      BY <2>1, <3>1, SumEmpty
  <2>2. CASE T # {}
    <3>1. PICK x \in T : TRUE
      BY <2>2
    <3> DEFINE U == T \ {x}
               c == Cardinality(U)
    <3>2. IsFiniteSet(T) /\ IsFiniteSet(U)
      BY FS_Subset
    <3>3. /\ SumFunctionOnSet(f, T) = f[x] + SumFunctionOnSet(f, U)
          /\ SumFunctionOnSet(g, T) = g[x] + SumFunctionOnSet(g, U)
      <4>1. \A y \in T : f[y] \in Int /\ g[y] \in Int
        OBVIOUS
      <4> QED
        BY <3>2, <4>1, SumRemove
    <3>4. SumFunctionOnSet(f, U) <= SumFunctionOnSet(g, U) + k * c
      BY <1>1, <3>1
    <3>5. \A y \in U : f[y] \in Int /\ g[y] \in Int
      OBVIOUS
    <3>6. c \in Nat /\ Cardinality(T) = c + 1
      <4>1. c = Cardinality(T) - 1 /\ Cardinality(T) \in Nat /\ c \in Nat
        BY <3>1, <3>2, FS_RemoveElement, FS_CardinalityType
      <4> QED
        BY <4>1
    <3> HIDE DEF U, c
    <3>7. SumFunctionOnSet(f, U) \in Int /\ SumFunctionOnSet(g, U) \in Int
      BY <3>2, <3>5, SumType
    <3>8. f[x] \in Int /\ g[x] \in Int /\ f[x] <= g[x] + k
      BY <3>1
    <3>9. k * (c + 1) = k * c + k /\ k * c \in Int
      BY <3>6
    <3> QED
      BY <3>3, <3>4, <3>6, <3>7, <3>8, <3>9
  <2> QED
    BY <2>1, <2>2
<1>2. SUBSET S \subseteq Q
  <2> HIDE DEF Q
  <2> QED
    BY <1>1, FiniteInd
<1> QED
  BY <1>2

\* A sum grows with its summands.
LEMMA SumMonotone ==
    ASSUME NEW S, IsFiniteSet(S), NEW f, NEW g,
           \A x \in S : f[x] \in Int /\ g[x] \in Int /\ f[x] <= g[x]
    PROVE  SumFunctionOnSet(f, S) <= SumFunctionOnSet(g, S)
<1>1. PICK k \in Int : k = 0
  OBVIOUS
<1>2. \A x \in S : f[x] \in Int /\ g[x] \in Int /\ f[x] <= g[x] + k
  BY <1>1
<1>3. SumFunctionOnSet(f, S) <= SumFunctionOnSet(g, S) + k * Cardinality(S)
  <2> HIDE <1>1
  <2> QED
    BY <1>2, SumLeq
<1>4. Cardinality(S) \in Nat /\ SumFunctionOnSet(g, S) \in Int
  BY <1>2, SumType, FS_CardinalityType
<1>5. k * Cardinality(S) = 0
  BY <1>1, <1>4
<1> QED
  BY <1>3, <1>4, <1>5

\* The least of a set of natural numbers.
LEMMA LeastIs ==
    ASSUME NEW S \in SUBSET Nat, S # {}
    PROVE  Min(S) \in S /\ \A y \in S : Min(S) <= y
<1> DEFINE Q == {n \in Nat : (\E k \in S : k <= n) => \E x \in S : \A y \in S : x <= y}
<1>1. 0 \in Q
  <2> SUFFICES ASSUME NEW k \in S, k <= 0 PROVE \E x \in S : \A y \in S : x <= y
    OBVIOUS
  <2>1. \A y \in S : k <= y
    OBVIOUS
  <2> QED
    BY <2>1
<1>2. ASSUME NEW n \in Nat, n \in Q PROVE n + 1 \in Q
  <2> SUFFICES ASSUME NEW k \in S, k <= n + 1 PROVE \E x \in S : \A y \in S : x <= y
    OBVIOUS
  <2>1. CASE \E j \in S : j <= n
    BY <1>2, <2>1
  <2>2. CASE ~(\E j \in S : j <= n)
    <3>1. \A y \in S : k <= y
      BY <2>2
    <3> QED
      BY <3>1
  <2> QED
    BY <2>1, <2>2
<1>3. Nat \subseteq Q
  <2> HIDE DEF Q
  <2> QED
    BY <1>1, <1>2, NatInd
<1>4. PICK k \in S : TRUE
  OBVIOUS
<1>5. k \in Q /\ k <= k
  BY <1>3
<1>6. \E x \in S : \A y \in S : x <= y
  BY <1>5
<1> QED
  BY <1>6 DEF Min

-----------------------------------------------------------------------------
(* Sums of sequences of numbers.                                           *)

\* The sum of a sequence is a natural number, and 0 for the empty one.
LEMMA SeqSumType ==
    ASSUME NEW s \in Seq(Nat)
    PROVE  SumFunction(s) \in Nat /\ (s = <<>> => SumFunction(s) = 0)
<1>1. DOMAIN s = 1..Len(s) /\ Len(s) \in Nat /\ \A i \in DOMAIN s : s[i] \in Nat
  BY LenProperties, ElementOfSeq
<1>2. IsFiniteSet(DOMAIN s)
  BY <1>1, FS_Interval
<1>3. SumFunctionOnSet(s, DOMAIN s) \in Nat
  BY <1>1, <1>2, SumType
<1>4. ASSUME s = <<>> PROVE SumFunctionOnSet(s, DOMAIN s) = 0
  <2>1. DOMAIN s = {}
    BY <1>4
  <2> QED
    BY <2>1, SumEmpty
<1> QED
  BY <1>3, <1>4 DEF SumFunction

\* An appended number is added.
LEMMA SeqSumAppend ==
    ASSUME NEW s \in Seq(Nat), NEW x \in Nat
    PROVE  SumFunction(Append(s, x)) = SumFunction(s) + x
<1> DEFINE t == Append(s, x)
           n == Len(s)
<1>1. /\ t \in Seq(Nat) /\ Len(t) = n + 1
      /\ \A i \in 1..n : t[i] = s[i]
      /\ t[n + 1] = x
  BY AppendProperties
<1>2. /\ n \in Nat /\ DOMAIN s = 1..n /\ DOMAIN t = 1..(n + 1)
      /\ \A i \in DOMAIN s : s[i] \in Nat
      /\ \A i \in DOMAIN t : t[i] \in Nat
  BY <1>1, LenProperties, ElementOfSeq
<1> HIDE DEF t, n
<1>3. IsFiniteSet(DOMAIN s) /\ IsFiniteSet(DOMAIN t)
  BY <1>2, FS_Interval
<1>4. n + 1 \in DOMAIN t /\ DOMAIN t \ {n + 1} = DOMAIN s
  BY <1>2
<1>5. SumFunctionOnSet(t, DOMAIN t) = t[n + 1] + SumFunctionOnSet(t, DOMAIN t \ {n + 1})
  <2>1. \A i \in DOMAIN t : t[i] \in Int
    BY <1>2
  <2> QED
    BY <1>3, <1>4, <2>1, SumRemove
<1>6. SumFunctionOnSet(s, DOMAIN s) = SumFunctionOnSet(t, DOMAIN s)
  <2>1. \A i \in DOMAIN s : s[i] \in Int /\ s[i] = t[i]
    BY <1>1, <1>2
  <2> QED
    BY <1>3, <2>1, SumAgree
<1>7. SumFunction(s) \in Nat
  BY SeqSumType
<1>8. SumFunction(t) = x + SumFunction(s)
  BY <1>1, <1>4, <1>5, <1>6 DEF SumFunction
<1> QED
  BY <1>7, <1>8 DEF t

\* What a sequence adds up to before its i-th number.
Before(s, i) == SumFunction(SubSeq(s, 1, i - 1))

\* Each number adds to what came before it.
LEMMA SeqSumNext ==
    ASSUME NEW s \in Seq(Nat), NEW i \in 1..Len(s)
    PROVE  /\ Before(s, i) \in Nat /\ s[i] \in Nat
           /\ Before(s, i + 1) = Before(s, i) + s[i]
<1>1. Len(s) \in Nat /\ \A j \in 1..Len(s) : s[j] \in Nat
  BY LenProperties, ElementOfSeq
<1>2. SubSeq(s, 1, i - 1) \in Seq(Nat)
  <2>1. \A j \in 1..(i - 1) : s[j] \in Nat
    BY <1>1
  <2> QED
    BY <2>1, SubSeqProperties
<1>3. SubSeq(s, 1, i) = Append(SubSeq(s, 1, i - 1), s[i])
  <2>1. 1 \in 1..Len(s) /\ i \in 1..Len(s)
    BY <1>1
  <2>2. SubSeq(s, 1, i) = SubSeq(s, 1, i - 1) \o <<s[i]>>
    BY <2>1, SubSeqRecursiveSecond
  <2> QED
    BY <1>1, <1>2, <2>2, AppendIsConcat
<1>4. (i + 1) - 1 = i
  OBVIOUS
<1>5. SumFunction(SubSeq(s, 1, i - 1)) \in Nat /\ s[i] \in Nat
  BY <1>1, <1>2, SeqSumType
<1>6. SumFunction(SubSeq(s, 1, i)) = SumFunction(SubSeq(s, 1, i - 1)) + s[i]
  BY <1>2, <1>3, <1>5, SeqSumAppend
<1> QED
  BY <1>4, <1>5, <1>6 DEF Before

\* Nothing comes before the first number, and no more than all of them before
\* any.
LEMMA SeqSumBounds ==
    ASSUME NEW s \in Seq(Nat)
    PROVE  /\ Before(s, 1) = 0
           /\ Before(s, Len(s) + 1) = SumFunction(s)
           /\ \A i \in 1..(Len(s) + 1) : Before(s, i) \in Nat /\ Before(s, i) <= SumFunction(s)
<1> DEFINE L == Len(s)
           Q == {m \in Nat : m <= L =>
                    /\ Before(s, L + 1 - m) \in Nat
                    /\ Before(s, L + 1 - m) <= SumFunction(s)}
<1>1. L \in Nat /\ SumFunction(s) \in Nat
  BY LenProperties, SeqSumType
<1>2. Before(s, 1) = 0
  <2>1. SubSeq(s, 1, 1 - 1) = <<>> /\ <<>> \in Seq(Nat)
    BY SubSeqEmpty, EmptySeq
  <2>2. SumFunction(<<>>) = 0
    BY <2>1, SeqSumType
  <2> QED
    BY <2>1, <2>2 DEF Before
<1>3. Before(s, L + 1) = SumFunction(s)
  <2>1. (L + 1) - 1 = L
    BY <1>1
  <2>2. SubSeq(s, 1, L) = s
    BY SubSeqFull
  <2> QED
    BY <2>1, <2>2 DEF Before
<1> HIDE DEF L
<1>4. 0 \in Q
  <2>1. L + 1 - 0 = L + 1
    BY <1>1
  <2> QED
    BY <1>1, <1>3, <2>1
<1>5. ASSUME NEW m \in Nat, m \in Q PROVE m + 1 \in Q
  <2> SUFFICES ASSUME m + 1 <= L
               PROVE  /\ Before(s, L + 1 - (m + 1)) \in Nat
                      /\ Before(s, L + 1 - (m + 1)) <= SumFunction(s)
    OBVIOUS
  <2> DEFINE i == L - m
  <2>1. i \in 1..L /\ L + 1 - (m + 1) = i /\ L + 1 - m = i + 1
    BY <1>1
  <2>2. Before(s, i + 1) <= SumFunction(s)
    BY <1>1, <1>5, <2>1
  <2>3. Before(s, i) \in Nat /\ s[i] \in Nat /\ Before(s, i + 1) = Before(s, i) + s[i]
    BY <2>1, SeqSumNext DEF L
  <2> HIDE DEF i
  <2> QED
    BY <1>1, <2>1, <2>2, <2>3
<1>6. Nat \subseteq Q
  <2> HIDE DEF Q
  <2> QED
    BY <1>4, <1>5, NatInd
<1>7. ASSUME NEW i \in 1..(L + 1)
      PROVE  Before(s, i) \in Nat /\ Before(s, i) <= SumFunction(s)
  <2>1. CASE i = L + 1
    BY <1>1, <1>3, <2>1
  <2>2. CASE i # L + 1
    <3>1. L + 1 - i \in Nat /\ L + 1 - i <= L /\ L + 1 - (L + 1 - i) = i
      BY <1>1, <2>2
    <3>2. L + 1 - i \in Q
      BY <1>6, <3>1
    <3>3. /\ Before(s, L + 1 - (L + 1 - i)) \in Nat
          /\ Before(s, L + 1 - (L + 1 - i)) <= SumFunction(s)
      BY <3>1, <3>2
    <3> QED
      BY <3>1, <3>3
  <2> QED
    BY <2>1, <2>2
<1> QED
  BY <1>2, <1>3, <1>7 DEF L

-----------------------------------------------------------------------------
(* Concatenations.                                                         *)

Flattens(g, ss, n) == g = [i \in 1..n |-> IF i = 1 THEN ss[i] ELSE g[i - 1] \o ss[i]]

Flat(ss) == CHOOSE g : Flattens(g, ss, Len(ss))

LEMMA FlattenUnfolds ==
    ASSUME NEW ss, Len(ss) # 0 PROVE FlattenSeq(ss) = Flat(ss)[Len(ss)]
  BY DEF FlattenSeq, Flat, Flattens

LEMMA FlattensExist ==
    ASSUME NEW ss, Len(ss) \in Nat PROVE Flattens(Flat(ss), ss, Len(ss))
<1> DEFINE Q == {n \in Nat : \E g : Flattens(g, ss, n)}
<1>1. 0 \in Q
  <2> DEFINE g == [i \in 1..0 |-> 0]
  <2>1. g = [i \in 1..0 |-> IF i = 1 THEN ss[i] ELSE g[i - 1] \o ss[i]]
    OBVIOUS
  <2>2. Flattens(g, ss, 0)
    BY <2>1 DEF Flattens
  <2> QED
    BY <2>2
<1>2. ASSUME NEW n \in Nat, n \in Q PROVE n + 1 \in Q
  <2>1. PICK g : Flattens(g, ss, n)
    BY <1>2
  <2> DEFINE next == IF n + 1 = 1 THEN ss[n + 1] ELSE g[n] \o ss[n + 1]
             h == [i \in 1..(n + 1) |-> IF i = n + 1 THEN next ELSE g[i]]
  <2>2. ASSUME NEW i \in 1..(n + 1) PROVE h[i] = IF i = 1 THEN ss[i] ELSE h[i - 1] \o ss[i]
    <3>1. CASE i = n + 1
      <4>1. h[i] = next
        BY <3>1
      <4>2. i # 1 => i - 1 \in 1..(n + 1) /\ i - 1 # n + 1 /\ i - 1 = n
        BY <3>1
      <4>3. i # 1 => h[i - 1] = g[n]
        BY <4>2
      <4> QED
        BY <3>1, <4>1, <4>3
    <3>2. CASE i # n + 1
      <4>1. i \in 1..n /\ h[i] = g[i]
        BY <3>2
      <4>2. g[i] = IF i = 1 THEN ss[i] ELSE g[i - 1] \o ss[i]
        BY <2>1, <4>1 DEF Flattens
      <4>3. i # 1 => i - 1 \in 1..(n + 1) /\ i - 1 # n + 1
        BY <4>1
      <4>4. i # 1 => h[i - 1] = g[i - 1]
        BY <4>3
      <4> QED
        BY <4>1, <4>2, <4>4
    <3> QED
      BY <3>1, <3>2
  <2>3. h = [i \in 1..(n + 1) |-> IF i = 1 THEN ss[i] ELSE h[i - 1] \o ss[i]]
    BY <2>2
  <2>4. Flattens(h, ss, n + 1)
    BY <2>3 DEF Flattens
  <2> QED
    BY <2>4
<1>3. Nat \subseteq Q
  <2> HIDE DEF Q
  <2> QED
    BY <1>1, <1>2, NatInd
<1>4. \E g : Flattens(g, ss, Len(ss))
  BY <1>3
<1> QED
  BY <1>4 DEF Flat

\* f holds the elements of the first m parts in their order, each part after
\* all that come before it.
Joined(f, ss, lens, m) ==
    /\ Len(f) = Before(lens, m + 1)
    /\ \A k \in 1..m : \A j \in 1..lens[k] :
          /\ Before(lens, k) + j \in 1..Len(f)
          /\ f[Before(lens, k) + j] = ss[k][j]

\* One more part extends it.
LEMMA JoinedAppend ==
    ASSUME NEW X, NEW ss, NEW lens, NEW m \in Nat, NEW f \in Seq(X), Joined(f, ss, lens, m),
           NEW part \in Seq(X), ss[m + 1] = part, lens[m + 1] = Len(part),
           Before(lens, m + 1) \in Nat,
           Before(lens, (m + 1) + 1) = Before(lens, m + 1) + lens[m + 1]
    PROVE  f \o part \in Seq(X) /\ Joined(f \o part, ss, lens, m + 1)
<1> DEFINE n == m + 1
           h == f \o part
<1>1. /\ h \in Seq(X) /\ Len(h) = Len(f) + Len(part)
      /\ \A i \in 1..(Len(f) + Len(part)) :
            h[i] = IF i <= Len(f) THEN f[i] ELSE part[i - Len(f)]
  BY ConcatProperties
<1>2. Len(f) \in Nat /\ Len(part) \in Nat /\ Len(f) = Before(lens, n)
  BY LenProperties DEF Joined
<1> HIDE DEF h
<1>3. Len(h) = Before(lens, n + 1)
  BY <1>1, <1>2
<1>4. ASSUME NEW k \in 1..n, NEW j \in 1..lens[k]
      PROVE  Before(lens, k) + j \in 1..Len(h) /\ h[Before(lens, k) + j] = ss[k][j]
  <2> DEFINE i == Before(lens, k) + j
  <2>1. CASE k = n
    <3>1. j \in 1..Len(part) /\ i = Len(f) + j
      BY <1>2, <2>1
    <3>2. i \in 1..(Len(f) + Len(part)) /\ ~(i <= Len(f)) /\ i - Len(f) = j
      BY <1>2, <3>1
    <3>3. h[i] = part[j]
      BY <1>1, <3>2
    <3>4. i \in 1..Len(h)
      BY <1>1, <3>2
    <3> HIDE DEF i
    <3>5. h[i] = ss[k][j]
      BY <2>1, <3>3
    <3> QED
      BY <3>4, <3>5 DEF i
  <2>2. CASE k # n
    <3>1. k \in 1..m
      BY <2>2
    <3>2. i \in 1..Len(f) /\ f[i] = ss[k][j]
      BY <3>1 DEF Joined
    <3> HIDE DEF i
    <3>3. i \in 1..(Len(f) + Len(part)) /\ i <= Len(f)
      BY <1>2, <3>2
    <3>4. h[i] = f[i]
      BY <1>1, <3>3
    <3>5. i \in 1..Len(h)
      BY <1>1, <3>3
    <3> QED
      BY <3>2, <3>4, <3>5 DEF i
  <2> QED
    BY <2>1, <2>2
<1>5. Joined(h, ss, lens, n)
  <2> HIDE DEF n
  <2> QED
    BY <1>3, <1>4 DEF Joined
<1> QED
  BY <1>1, <1>5 DEF h

\* The concatenation of a list of sequences is all of them joined.
LEMMA FlattenHolds ==
    ASSUME NEW X, NEW ss \in Seq(Seq(X)), Len(ss) # 0,
           NEW lens, lens = [i \in DOMAIN ss |-> Len(ss[i])]
    PROVE  /\ lens \in Seq(Nat) /\ Len(lens) = Len(ss)
           /\ FlattenSeq(ss) \in Seq(X)
           /\ Len(FlattenSeq(ss)) = SumFunction(lens)
           /\ Joined(FlattenSeq(ss), ss, lens, Len(ss))
<1> DEFINE L == Len(ss)
           g == Flat(ss)
           Right(m) == g[m] \in Seq(X) /\ Joined(g[m], ss, lens, m)
           Q == {m \in Nat : m \in 1..L => Right(m)}
<1>1. L \in Nat /\ L >= 1 /\ DOMAIN ss = 1..L
  BY LenProperties
<1>2. \A i \in 1..L : ss[i] \in Seq(X) /\ Len(ss[i]) \in Nat /\ lens[i] = Len(ss[i])
  BY <1>1, ElementOfSeq, LenProperties
<1>3. lens \in Seq(Nat) /\ Len(lens) = L
  <2>1. lens \in [1..L -> Nat]
    BY <1>1, <1>2
  <2> QED
    BY <1>1, <2>1
<1>4. \A i \in 1..L : g[i] = IF i = 1 THEN ss[i] ELSE g[i - 1] \o ss[i]
  <2>1. Flattens(g, ss, L)
    BY <1>1, FlattensExist
  <2> HIDE DEF g, L
  <2> QED
    BY <2>1 DEF Flattens
<1>5. /\ Before(lens, 1) = 0
      /\ Before(lens, L + 1) = SumFunction(lens)
      /\ \A i \in 1..L : /\ Before(lens, i) \in Nat
                        /\ Before(lens, i + 1) = Before(lens, i) + lens[i]
  BY <1>3, SeqSumBounds, SeqSumNext
<1> HIDE DEF L, g
<1>6. 0 \in Q
  <2>1. 0 \notin 1..L
    BY <1>1
  <2> QED
    BY <2>1
<1>7. ASSUME NEW m \in Nat, m \in Q PROVE m + 1 \in Q
  <2> SUFFICES ASSUME m + 1 \in 1..L PROVE Right(m + 1)
    OBVIOUS
  <2> DEFINE n == m + 1
  <2>0. n \in 1..L /\ ss[n] \in Seq(X) /\ Len(ss[n]) \in Nat /\ lens[n] = Len(ss[n])
        /\ Before(lens, n) \in Nat /\ Before(lens, n + 1) = Before(lens, n) + lens[n]
    BY <1>2, <1>5
  <2>1. CASE n = 1
    <3>1. g[n] = ss[n] /\ Before(lens, n) = 0
      BY <1>4, <1>5, <2>0, <2>1
    <3>2. Len(g[n]) = Before(lens, n + 1)
      BY <2>0, <3>1
    <3>3. ASSUME NEW k \in 1..n, NEW j \in 1..lens[k]
          PROVE  Before(lens, k) + j \in 1..Len(g[n]) /\ g[n][Before(lens, k) + j] = ss[k][j]
      <4>1. k = n /\ lens[k] = Len(g[n])
        <5>1. k = n
          BY <2>1
        <5> QED
          BY <2>0, <3>1, <5>1
      <4>2. 0 + j = j /\ j \in 1..Len(g[n])
        BY <4>1
      <4> QED
        BY <3>1, <4>1, <4>2
    <3>4. Joined(g[n], ss, lens, n)
      <4> HIDE DEF n
      <4> QED
        BY <3>2, <3>3 DEF Joined
    <3> QED
      BY <2>0, <3>1, <3>4
  <2>2. CASE n # 1
    <3>1. m \in 1..L /\ n - 1 = m
      BY <1>1, <2>0, <2>2
    <3>2. Right(m)
      BY <1>7, <3>1
    <3>3. g[n] = g[m] \o ss[n]
      BY <1>4, <2>0, <2>2, <3>1
    <3>4. g[m] \o ss[n] \in Seq(X) /\ Joined(g[m] \o ss[n], ss, lens, m + 1)
      <4>1. g[m] \in Seq(X) /\ Joined(g[m], ss, lens, m)
        BY <3>2
      <4> QED
        BY <2>0, <4>1, JoinedAppend
    <3> QED
      BY <3>3, <3>4
  <2> QED
    BY <2>1, <2>2
<1>8. Nat \subseteq Q
  <2> HIDE DEF Q
  <2> QED
    BY <1>6, <1>7, NatInd
<1>9. g[L] \in Seq(X) /\ Joined(g[L], ss, lens, L)
  <2>1. L \in Q /\ L \in 1..L
    BY <1>1, <1>8
  <2> QED
    BY <2>1
<1>10. FlattenSeq(ss) = g[L]
  BY FlattenUnfolds DEF g, L
<1>11. Len(g[L]) = SumFunction(lens)
  BY <1>5, <1>9 DEF Joined
<1> QED
  BY <1>3, <1>9, <1>10, <1>11 DEF L

\* Every position of a concatenation is in one of its parts.
LEMMA JoinedCovers ==
    ASSUME NEW lens \in Seq(Nat), NEW m \in 0..Len(lens), NEW p \in 1..Before(lens, m + 1)
    PROVE  \E k \in 1..m : \E j \in 1..lens[k] : p = Before(lens, k) + j
<1> DEFINE L == Len(lens)
           InPart(q, n) == \E k \in 1..n : \E j \in 1..lens[k] : q = Before(lens, k) + j
           Q == {n \in Nat : n <= L => \A q \in 1..Before(lens, n + 1) : InPart(q, n)}
<1>1. /\ L \in Nat /\ Before(lens, 1) = 0
      /\ \A i \in 1..(L + 1) : Before(lens, i) \in Nat
      /\ \A i \in 1..L : lens[i] \in Nat /\ Before(lens, i + 1) = Before(lens, i) + lens[i]
  BY LenProperties, SeqSumBounds, SeqSumNext
<1>2. 0 \in Q
  <2>1. 0 + 1 = 1 /\ 1..Before(lens, 1) = {}
    BY <1>1
  <2> QED
    BY <2>1
<1>3. ASSUME NEW n \in Nat, n \in Q PROVE n + 1 \in Q
  <2> SUFFICES ASSUME n + 1 <= L, NEW q \in 1..Before(lens, (n + 1) + 1)
               PROVE  InPart(q, n + 1)
    OBVIOUS
  <2>1. /\ n + 1 \in 1..L /\ lens[n + 1] \in Nat /\ Before(lens, n + 1) \in Nat
        /\ Before(lens, (n + 1) + 1) = Before(lens, n + 1) + lens[n + 1]
    BY <1>1
  <2>2. CASE q <= Before(lens, n + 1)
    <3>1. InPart(q, n)
      BY <1>3, <2>1, <2>2
    <3> QED
      BY <3>1
  <2>3. CASE ~(q <= Before(lens, n + 1))
    <3>1. q - Before(lens, n + 1) \in 1..lens[n + 1]
          /\ q = Before(lens, n + 1) + (q - Before(lens, n + 1))
      BY <2>1, <2>3
    <3> QED
      BY <3>1
  <2> QED
    BY <2>2, <2>3
<1>4. Nat \subseteq Q
  <2> HIDE DEF Q
  <2> QED
    BY <1>2, <1>3, NatInd
<1>5. m \in Q /\ m <= L
  BY <1>1, <1>4
<1> QED
  BY <1>5

\* A list of tokens whose parts are told apart by a separator: it starts every
\* part but the first and is nowhere else.
Delimited(ss, sep) ==
    \A i \in 1..Len(ss) :
        /\ Len(ss[i]) >= 1
        /\ ss[i][1] = sep <=> i # 1
        /\ \A j \in 2..Len(ss[i]) : ss[i][j] # sep

\* Where a part of one concatenation starts, the other's is no longer.
LEMMA PartNoLonger ==
    ASSUME NEW X, NEW sep, NEW ss \in Seq(Seq(X)), NEW tt \in Seq(Seq(X)),
           Delimited(ss, sep), Delimited(tt, sep), Len(ss) # 0, Len(tt) # 0,
           FlattenSeq(ss) = FlattenSeq(tt),
           NEW k \in 1..Len(ss), k \in 1..Len(tt),
           NEW a, a = [i \in DOMAIN ss |-> Len(ss[i])],
           NEW b, b = [i \in DOMAIN tt |-> Len(tt[i])],
           Before(a, k) = Before(b, k)
    PROVE  b[k] <= a[k]
<1> DEFINE F == FlattenSeq(ss)
           at == Before(a, k)
<1>1. /\ a \in Seq(Nat) /\ Len(a) = Len(ss) /\ Len(F) = SumFunction(a)
      /\ Joined(F, ss, a, Len(ss))
  BY FlattenHolds
<1>2. /\ b \in Seq(Nat) /\ Len(b) = Len(tt) /\ Len(F) = SumFunction(b)
      /\ Joined(F, tt, b, Len(tt))
  BY FlattenHolds
<1>3. /\ at \in Nat /\ a[k] \in Nat /\ b[k] \in Nat
      /\ Before(a, k + 1) = at + a[k]
      /\ Before(a, Len(ss) + 1) = SumFunction(a)
  <2>1. k \in 1..(Len(a) + 1)
    BY <1>1
  <2> QED
    BY <1>1, <1>2, <2>1, SeqSumBounds, SeqSumNext
<1>4. a[k] = Len(ss[k]) /\ b[k] = Len(tt[k]) /\ a[k] >= 1
  <2>1. k \in DOMAIN ss /\ k \in DOMAIN tt
    BY LenProperties
  <2> QED
    BY <2>1 DEF Delimited
<1> HIDE DEF F, at
<1>5. SUFFICES ASSUME a[k] < b[k] PROVE FALSE
  BY <1>3
<1>6. /\ at + (a[k] + 1) \in 1..Len(F)
      /\ F[at + (a[k] + 1)] = tt[k][a[k] + 1]
      /\ tt[k][a[k] + 1] # sep
  <2> DEFINE x == a[k]
             y == b[k]
  <2>1. a[k] + 1 \in 1..b[k] /\ a[k] + 1 \in 2..Len(tt[k])
    <3>1. x \in Nat /\ y \in Nat /\ x >= 1 /\ x < y /\ Len(tt[k]) = y
      BY <1>3, <1>4, <1>5
    <3> HIDE DEF x, y
    <3>2. x + 1 \in 1..y /\ x + 1 \in 2..Len(tt[k])
      BY <3>1
    <3> QED
      BY <3>2 DEF x, y
  <2>2. /\ Before(b, k) + (a[k] + 1) \in 1..Len(F)
        /\ F[Before(b, k) + (a[k] + 1)] = tt[k][a[k] + 1]
    BY <1>2, <2>1 DEF Joined
  <2> QED
    BY <2>1, <2>2 DEF Delimited, at
<1>7. CASE k = Len(ss)
  <2>1. Len(F) = at + a[k]
    BY <1>1, <1>3, <1>7
  <2> QED
    BY <1>3, <1>6, <2>1
<1>8. CASE k # Len(ss)
  <2>1. k + 1 \in 1..Len(ss) /\ k + 1 \in DOMAIN ss /\ k + 1 # 1
    BY <1>8, LenProperties
  <2>2. a[k + 1] = Len(ss[k + 1]) /\ Len(ss[k + 1]) >= 1 /\ ss[k + 1][1] = sep
    BY <2>1 DEF Delimited
  <2>3. a[k + 1] \in Nat
    BY <1>1, <2>1
  <2>4. 1 \in 1..a[k + 1]
    BY <2>2, <2>3
  <2>5. F[Before(a, k + 1) + 1] = ss[k + 1][1]
    BY <1>1, <2>1, <2>4 DEF Joined
  <2>6. Before(a, k + 1) + 1 = at + (a[k] + 1)
    BY <1>3
  <2> QED
    BY <1>6, <2>2, <2>5, <2>6
<1> QED
  BY <1>7, <1>8

\* Delimited lists can be read back from their concatenation.
LEMMA PartsReadBack ==
    ASSUME NEW X, NEW sep, NEW ss \in Seq(Seq(X)), NEW tt \in Seq(Seq(X)),
           Delimited(ss, sep), Delimited(tt, sep), Len(ss) # 0, Len(tt) # 0,
           FlattenSeq(ss) = FlattenSeq(tt)
    PROVE  \A i \in 1..Len(ss) : i \in 1..Len(tt) /\ ss[i] = tt[i]
<1> DEFINE F == FlattenSeq(ss)
           a == [i \in DOMAIN ss |-> Len(ss[i])]
           b == [i \in DOMAIN tt |-> Len(tt[i])]
           L == Len(ss)
           M == Len(tt)
           Same(k) == k \in 1..M /\ Before(a, k) = Before(b, k)
           Q == {n \in Nat : n + 1 <= L => Same(n + 1)}
<1>1. /\ a \in Seq(Nat) /\ Len(a) = L /\ Len(F) = SumFunction(a) /\ Joined(F, ss, a, L)
      /\ L \in Nat /\ DOMAIN ss = 1..L
  BY FlattenHolds, LenProperties
<1>2. /\ b \in Seq(Nat) /\ Len(b) = M /\ Len(F) = SumFunction(b) /\ Joined(F, tt, b, M)
      /\ M \in Nat /\ DOMAIN tt = 1..M
  BY FlattenHolds, LenProperties
<1>3. /\ \A i \in 1..L : a[i] = Len(ss[i]) /\ a[i] \in Nat \ {0}
      /\ \A i \in 1..M : b[i] = Len(tt[i]) /\ b[i] \in Nat \ {0}
  <2>1. \A i \in 1..L : a[i] = Len(ss[i]) /\ Len(ss[i]) >= 1
    BY <1>1 DEF Delimited
  <2>2. \A i \in 1..M : b[i] = Len(tt[i]) /\ Len(tt[i]) >= 1
    BY <1>2 DEF Delimited
  <2> HIDE DEF a, b, L, M
  <2>3. \A i \in 1..L : a[i] \in Nat
    BY <1>1
  <2>4. \A i \in 1..M : b[i] \in Nat
    BY <1>2
  <2>5. \A n \in Nat : n >= 1 => n \in Nat \ {0}
    OBVIOUS
  <2> QED
    BY <2>1, <2>2, <2>3, <2>4, <2>5
<1>4. /\ Before(a, 1) = 0 /\ Before(b, 1) = 0
      /\ \A i \in 1..L : Before(a, i) \in Nat /\ Before(a, i + 1) = Before(a, i) + a[i]
      /\ \A i \in 1..M : Before(b, i) \in Nat /\ Before(b, i + 1) = Before(b, i) + b[i]
      /\ \A i \in 1..(L + 1) : Before(a, i) <= Len(F)
      /\ Before(b, M + 1) = Len(F)
  BY <1>1, <1>2, SeqSumBounds, SeqSumNext
<1>5. ASSUME NEW k \in 1..L, Same(k) PROVE a[k] = b[k] /\ ss[k] = tt[k]
  <2>1. /\ Before(a, k) = Before(b, k) /\ k \in 1..L /\ k \in 1..M
        /\ a = [i \in DOMAIN ss |-> Len(ss[i])] /\ b = [i \in DOMAIN tt |-> Len(tt[i])]
    BY <1>5
  <2> HIDE DEF a, b, L, M
  <2>2. b[k] <= a[k] /\ a[k] <= b[k]
    BY <2>1, PartNoLonger DEF L, M
  <2>3. a[k] = b[k]
    <3>1. a[k] \in Int /\ b[k] \in Int
      <4>1. k \in 1..L /\ k \in 1..M
        BY <2>1
      <4>2. a[k] \in Nat \ {0} /\ b[k] \in Nat \ {0}
        BY <1>3, <4>1
      <4> QED
        BY <4>2
    <3>2. \A x, y \in Int : y <= x /\ x <= y => x = y
      OBVIOUS
    <3> QED
      BY <2>2, <3>1, <3>2
  <2>4. \A j \in 1..a[k] : ss[k][j] = tt[k][j]
    <3> HIDE DEF F
    <3>1. \A j \in 1..a[k] : F[Before(a, k) + j] = ss[k][j]
      BY <1>1, <2>1 DEF Joined
    <3>2. \A j \in 1..b[k] : F[Before(b, k) + j] = tt[k][j]
      BY <1>2, <2>1 DEF Joined
    <3> QED
      BY <2>1, <2>3, <3>1, <3>2
  <2>5. ss[k] \in Seq(X) /\ tt[k] \in Seq(X) /\ Len(ss[k]) = Len(tt[k]) /\ a[k] = Len(ss[k])
    BY <1>1, <1>2, <1>3, <2>1, <2>3, ElementOfSeq
  <2>6. ss[k] = tt[k]
    BY <2>4, <2>5, SeqEqual
  <2> QED
    BY <2>3, <2>6
<1> HIDE DEF F, a, b, L, M
<1>6. 0 \in Q
  <2>1. 0 + 1 = 1 /\ 1 \in 1..M
    BY <1>2 DEF M
  <2> QED
    BY <1>4, <2>1
<1>7. ASSUME NEW n \in Nat, n \in Q PROVE n + 1 \in Q
  <2> SUFFICES ASSUME (n + 1) + 1 <= L PROVE Same((n + 1) + 1)
    OBVIOUS
  <2> DEFINE k == n + 1
  <2>1. k \in 1..L /\ k + 1 \in 1..L /\ Same(k)
    BY <1>1, <1>7
  <2> HIDE DEF k
  <2>2. a[k] = b[k] /\ Before(a, k + 1) = Before(b, k + 1)
    BY <1>4, <1>5, <2>1
  <2>3. k + 1 \in 1..M
    <3>1. SUFFICES ASSUME k = M PROVE FALSE
      BY <1>1, <1>2, <2>1
    <3>2. /\ Before(a, (k + 1) + 1) = Before(a, k + 1) + a[k + 1]
          /\ Before(a, k + 1) \in Nat /\ a[k + 1] \in Nat \ {0}
      BY <1>3, <1>4, <2>1
    <3>3. (k + 1) + 1 \in 1..(L + 1)
      BY <1>1, <2>1
    <3>4. Before(a, (k + 1) + 1) <= Len(F) /\ Before(a, k + 1) = Len(F)
      BY <1>4, <2>2, <3>1, <3>3
    <3> QED
      BY <3>2, <3>4
  <2> QED
    BY <2>2, <2>3 DEF k
<1>8. Nat \subseteq Q
  <2> HIDE DEF Q
  <2> QED
    BY <1>6, <1>7, NatInd
<1>9. ASSUME NEW i \in 1..L PROVE i \in 1..M /\ ss[i] = tt[i]
  <2>1. i - 1 \in Nat /\ (i - 1) + 1 = i /\ i <= L
    BY <1>1
  <2>2. (i - 1) + 1 <= L => Same((i - 1) + 1)
    BY <1>8, <2>1
  <2>3. Same(i)
    BY <2>1, <2>2
  <2> QED
    BY <1>5, <2>3
<1> QED
  BY <1>9 DEF L, M
=============================================================================
