---------------------------- MODULE EngineProofs ----------------------------
(***************************************************************************)
(* The arithmetic of the forecasts, which has no state.  For every set of  *)
(* horizons and table of quantiles: what is left by reconciling            *)
(* (Coherence).  For every sequence of origins: what the folds of a        *)
(* cross-validation share (PurgedFolds).  For all scores: what normalized  *)
(* weights are.  For any history of forecasts: that what the engine makes  *)
(* of it are numbers with a point inside each interval (ForecastEngine,    *)
(* ForecastEvidence).  Inductions go by the greatest member of a finite    *)
(* set.                                                                    *)
(***************************************************************************)
EXTENDS RecencyPolicy, PurgedFolds, FiniteSetTheorems, SequenceTheorems, TLAPS

-----------------------------------------------------------------------------
(* Induction over a range of numbers, by a greatest member. *)

\* A finite set of integers that is not empty has a greatest member.
LEMMA GreatestExists ==
    ASSUME NEW S \in SUBSET Int, IsFiniteSet(S), S # {}
    PROVE  \E m \in S : \A n \in S : n <= m
<1> DEFINE Bounded(T) == \E m \in T : \A n \in T : n <= m
           Bad == {T \in FiniteSubsetsOf(S) : T # {} /\ ~Bounded(T)}
<1>1. SUFFICES ASSUME Bad # {} PROVE FALSE
    <2>1. S \in FiniteSubsetsOf(S)
        BY DEF FiniteSubsetsOf
    <2> QED BY <2>1
<1>2. PICK T \in Bad : \A U \in Bad : <<U, T>> \notin StrictSubsetOrdering(S)
    <2>1. Bad \subseteq FiniteSubsetsOf(S)
        OBVIOUS
    <2> HIDE DEF Bad
    <2> QED BY <1>1, <2>1, FS_StrictSubsetOrderingWellFounded, WFMin
<1>3. PICK x \in T : TRUE
    OBVIOUS
<1> DEFINE U == T \ {x}
<1>4. U \in FiniteSubsetsOf(S) /\ T \in FiniteSubsetsOf(S)
    BY FS_RemoveElement DEF FiniteSubsetsOf
<1>5. <<U, T>> \in StrictSubsetOrdering(S)
    BY <1>3, <1>4 DEF StrictSubsetOrdering, FiniteSubsetsOf
<1>6. U = {} \/ Bounded(U)
    BY <1>2, <1>4, <1>5
<1>7. Bounded(T)
    <2>1. T \subseteq Int
        BY <1>4 DEF FiniteSubsetsOf
    <2> QED BY <1>3, <1>6, <2>1
<1> QED BY <1>2, <1>7

\* What holds of 0, and of the next number with each, holds of all up to n.
LEMMA UpTo ==
    ASSUME NEW n \in Nat, NEW S \in SUBSET (0 .. n), 0 \in S,
           \A m \in S : m < n => m + 1 \in S
    PROVE  n \in S
<1>1. IsFiniteSet(S) /\ S \in SUBSET Int
    <2>1. IsFiniteSet(0 .. n)
        BY FS_Interval
    <2>2. IsFiniteSet(S)
        BY <2>1, FS_Subset
    <2> QED BY <2>2
<1>2. PICK m \in S : \A k \in S : k <= m
    BY <1>1, GreatestExists
<1>3. ~(m + 1 \in S)
    BY <1>2
<1> QED BY <1>2, <1>3

-----------------------------------------------------------------------------
(* Induction over the parts of a finite set, and folds. *)

\* What holds of a part of a finite set when it holds of the part without any one of its
\* elements, holds of the set.
LEMMA SetInduction ==
    ASSUME NEW S, IsFiniteSet(S), NEW Q,
           \A T \in SUBSET S : (\A x \in T : T \ {x} \in Q) => T \in Q
    PROVE  S \in Q
<1> DEFINE Bad == {T \in FiniteSubsetsOf(S) : T \notin Q}
<1>1. SUFFICES ASSUME Bad # {} PROVE FALSE
    <2>1. S \in FiniteSubsetsOf(S)
        BY DEF FiniteSubsetsOf
    <2> QED BY <2>1
<1>2. PICK T \in Bad : \A U \in Bad : <<U, T>> \notin StrictSubsetOrdering(S)
    <2>1. Bad \subseteq FiniteSubsetsOf(S)
        OBVIOUS
    <2> HIDE DEF Bad
    <2> QED BY <1>1, <2>1, FS_StrictSubsetOrderingWellFounded, WFMin
<1>3. ASSUME NEW x \in T PROVE T \ {x} \in Q
    <2>1. T \ {x} \in FiniteSubsetsOf(S) /\ T \in FiniteSubsetsOf(S)
        BY FS_RemoveElement DEF FiniteSubsetsOf
    <2>2. <<T \ {x}, T>> \in StrictSubsetOrdering(S)
        BY <1>3, <2>1 DEF StrictSubsetOrdering, FiniteSubsetsOf
    <2> QED BY <1>2, <2>1, <2>2
<1>4. T \in SUBSET S /\ T \notin Q
    BY DEF FiniteSubsetsOf
<1> QED BY <1>3, <1>4

\* A fold of a finite set: what is made of its parts, each with one element more.
\* pick chooses the element, step adds it.
Folding(g, S, base, pick, step) ==
    g = [T \in SUBSET S |-> IF T = {} THEN base ELSE step[<<pick[T], g[T \ {pick[T]}]>>]]

LEMMA FoldExists ==
    ASSUME NEW S, IsFiniteSet(S), NEW V, NEW base \in V, NEW step \in [S \X V -> V],
           NEW pick, \A T \in (SUBSET S) \ {{}} : pick[T] \in T
    PROVE  \E g \in [SUBSET S -> V] : Folding(g, S, base, pick, step)
<1> DEFINE Made(g, T) == IF T = {} THEN base ELSE step[<<pick[T], g[T \ {pick[T]}]>>]
           Good(g, k) == \A T \in SUBSET S : Cardinality(T) <= k => g[T] = Made(g, T)
           n == Cardinality(S)
           Q == {k \in 0 .. n : \E g \in [SUBSET S -> V] : Good(g, k)}
<1>1. n \in Nat /\ \A T \in SUBSET S : IsFiniteSet(T) /\ Cardinality(T) \in Nat /\ Cardinality(T) <= n
    BY FS_CardinalityType, FS_Subset
<1>2. 0 \in Q
    <2> DEFINE g == [T \in SUBSET S |-> base]
    <2>1. ASSUME NEW T \in SUBSET S, Cardinality(T) <= 0 PROVE T = {}
        BY <1>1, <2>1, FS_EmptySet
    <2>2. Good(g, 0)
        BY <2>1
    <2>3. g \in [SUBSET S -> V]
        OBVIOUS
    <2> HIDE DEF g, Good
    <2> QED BY <1>1, <2>2, <2>3
<1>3. ASSUME NEW k \in Q, k < n PROVE k + 1 \in Q
    <2>1. PICK g \in [SUBSET S -> V] : Good(g, k)
        OBVIOUS
    <2> DEFINE f == [T \in SUBSET S |-> IF Cardinality(T) <= k THEN g[T] ELSE Made(g, T)]
    <2>2. ASSUME NEW T \in SUBSET S PROVE Made(g, T) \in V
        <3>1. CASE T = {}
            BY <3>1
        <3>2. CASE T # {}
            <4>1. pick[T] \in S /\ g[T \ {pick[T]}] \in V
                BY <3>2
            <4> QED BY <3>2, <4>1
        <3> QED BY <3>1, <3>2
    <2>3. f \in [SUBSET S -> V]
        <3> HIDE DEF Made
        <3> QED BY <2>2
    <2>4. ASSUME NEW T \in SUBSET S, Cardinality(T) <= k + 1 PROVE f[T] = Made(f, T)
        <3>1. CASE T = {}
            <4>1. Cardinality(T) <= k
                BY <1>1, <3>1, FS_EmptySet
            <4>2. f[T] = g[T] /\ g[T] = Made(g, T)
                BY <2>1, <4>1
            <4> HIDE DEF f
            <4> QED BY <3>1, <4>2
        <3>2. CASE T # {}
            <4> DEFINE U == T \ {pick[T]}
            <4>1. pick[T] \in T /\ U \in SUBSET S
                BY <3>2
            <4>2. Cardinality(U) = Cardinality(T) - 1
                BY <1>1, <4>1, FS_RemoveElement
            <4>3. Cardinality(U) <= k
                BY <1>1, <2>4, <4>2
            <4>4. f[U] = g[U]
                BY <4>1, <4>3
            <4>5. f[T] = Made(g, T)
                <5> HIDE DEF Made
                <5>1. Cardinality(T) <= k => g[T] = Made(g, T)
                    BY <2>1
                <5> QED BY <5>1
            <4> HIDE DEF f, U
            <4>6. Made(g, T) = step[<<pick[T], g[U]>>] /\ Made(f, T) = step[<<pick[T], f[U]>>]
                BY <3>2 DEF U
            <4> QED BY <4>4, <4>5, <4>6
        <3> QED BY <3>1, <3>2
    <2> HIDE DEF f, Made
    <2>5. Good(f, k + 1)
        BY <2>4
    <2>6. k + 1 \in 0 .. n
        BY <1>1, <1>3
    <2> HIDE DEF Good
    <2> QED BY <2>3, <2>5, <2>6
<1>4. n \in Q
    <2>1. Q \in SUBSET (0 .. n)
        OBVIOUS
    <2> HIDE DEF Q, n
    <2> QED BY <1>1, <1>2, <1>3, <2>1, UpTo
<1>5. PICK g \in [SUBSET S -> V] : Good(g, n)
    BY <1>4
<1>6. g = [T \in SUBSET S |-> Made(g, T)]
    <2> HIDE DEF Made
    <2> QED BY <1>1, <1>5
<1> QED BY <1>6 DEF Folding

-----------------------------------------------------------------------------
(* Sums. *)

Integral(f, S) == \A x \in S : f[x] \in Int

\* the element that the library takes out of a set
AnyOf(S) == CHOOSE x \in S : TRUE

\* What a sum of part of a set is, as the library defines it.
Summing(g, f, S) == g = [T \in SUBSET S |-> IF T = {} THEN 0
                                            ELSE f[CHOOSE x \in T : TRUE] + g[T \ {CHOOSE x \in T : TRUE}]]

LEMMA SummingFacts ==
    ASSUME NEW S, IsFiniteSet(S), NEW f, Integral(f, S)
    PROVE  \E g \in [SUBSET S -> Int] : Summing(g, f, S) /\ SumFunctionOnSet(f, S) = g[S]
<1> DEFINE pick == [T \in SUBSET S |-> CHOOSE x \in T : TRUE]
           step == [p \in S \X Int |-> f[p[1]] + p[2]]
           Sums(g) == g = [T \in SUBSET S |-> IF T = {} THEN 0
                                              ELSE f[CHOOSE x \in T : TRUE] + g[T \ {CHOOSE x \in T : TRUE}]]
           h == CHOOSE g : Sums(g)
<1>1. \A T \in (SUBSET S) \ {{}} : pick[T] \in T /\ pick[T] = CHOOSE x \in T : TRUE
    OBVIOUS
<1>2. step \in [S \X Int -> Int]
    BY DEF Integral
<1>3. PICK g \in [SUBSET S -> Int] : Folding(g, S, 0, pick, step)
    <2>1. 0 \in Int /\ \A T \in (SUBSET S) \ {{}} : pick[T] \in T
        BY <1>1
    <2> HIDE DEF pick, step
    <2> QED BY <1>2, <2>1, FoldExists, Zenon
<1>4. Sums(g)
    <2>1. ASSUME NEW T \in SUBSET S, T # {}
          PROVE  step[<<pick[T], g[T \ {pick[T]}]>>] = f[pick[T]] + g[T \ {pick[T]}]
        <3>1. pick[T] \in S /\ g[T \ {pick[T]}] \in Int
            BY <1>1, <2>1
        <3> HIDE DEF pick
        <3> QED BY <3>1
    <2>2. g = [T \in SUBSET S |-> IF T = {} THEN 0 ELSE step[<<pick[T], g[T \ {pick[T]}]>>]]
        BY <1>3, Zenon DEF Folding
    <2> HIDE DEF step, pick
    <2>3. ASSUME NEW T \in SUBSET S
          PROVE  g[T] = IF T = {} THEN 0 ELSE f[CHOOSE x \in T : TRUE] + g[T \ {CHOOSE x \in T : TRUE}]
        BY <1>1, <2>1, <2>2
    <2> QED BY <2>3
<1>5. Sums(h)
    BY <1>4
<1>6. SumFunctionOnSet(f, S) = h[S]
    BY DEF SumFunctionOnSet, FoldFunctionOnSet, MapThenFoldSet
<1>7. h \in [SUBSET S -> Int]
    <2> DEFINE Q == {T \in SUBSET S : h[T] = g[T]}
    <2>1. ASSUME NEW T \in SUBSET S, \A x \in T : T \ {x} \in Q PROVE T \in Q
        <3>1. /\ h[T] = IF T = {} THEN 0 ELSE f[CHOOSE x \in T : TRUE] + h[T \ {CHOOSE x \in T : TRUE}]
              /\ g[T] = IF T = {} THEN 0 ELSE f[CHOOSE x \in T : TRUE] + g[T \ {CHOOSE x \in T : TRUE}]
            <4> HIDE DEF h
            <4> QED BY <1>4, <1>5
        <3>2. T # {} => h[T \ {CHOOSE x \in T : TRUE}] = g[T \ {CHOOSE x \in T : TRUE}]
            BY <2>1
        <3> HIDE DEF h
        <3> QED BY <3>1, <3>2
    <2> HIDE DEF h
    <2>2. DOMAIN h = SUBSET S /\ h = [T \in SUBSET S |-> h[T]]
        BY <1>5
    <2>3. \A T \in SUBSET S : T \in Q
        <3>1. ASSUME NEW T \in SUBSET S PROVE T \in Q
            <4>1. IsFiniteSet(T) /\ \A U \in SUBSET T : U \in SUBSET S
                BY FS_Subset
            <4> HIDE DEF Q
            <4> QED BY <2>1, <4>1, SetInduction
        <3> QED BY <3>1
    <2> QED BY <2>2, <2>3
<1> HIDE DEF h
<1> QED BY <1>5, <1>6, <1>7 DEF Summing

\* the sums of the parts of a set, and of the parts of its parts, are the same
LEMMA SummingUnique ==
    ASSUME NEW S, IsFiniteSet(S), NEW R, S \subseteq R, NEW f, NEW g, Summing(g, f, S), NEW h, Summing(h, f, R)
    PROVE  g[S] = h[S]
<1> DEFINE Q == {T \in SUBSET S : g[T] = h[T]}
<1>1. ASSUME NEW T \in SUBSET S, \A x \in T : T \ {x} \in Q PROVE T \in Q
    <2>1. /\ g[T] = IF T = {} THEN 0 ELSE f[CHOOSE x \in T : TRUE] + g[T \ {CHOOSE x \in T : TRUE}]
          /\ h[T] = IF T = {} THEN 0 ELSE f[CHOOSE x \in T : TRUE] + h[T \ {CHOOSE x \in T : TRUE}]
        BY DEF Summing
    <2>2. T # {} => h[T \ {CHOOSE x \in T : TRUE}] = g[T \ {CHOOSE x \in T : TRUE}]
        BY <1>1
    <2> QED BY <2>1, <2>2
<1>2. S \in Q
    <2> HIDE DEF Q
    <2> QED BY <1>1, SetInduction
<1> QED BY <1>2

LEMMA SumStep ==
    ASSUME NEW S, IsFiniteSet(S), NEW f, Integral(f, S)
    PROVE  /\ SumFunctionOnSet(f, S) \in Int
           /\ SumFunctionOnSet(f, {}) = 0
           /\ S # {} => SumFunctionOnSet(f, S) = f[AnyOf(S)]
                                                   + SumFunctionOnSet(f, S \ {AnyOf(S)})
<1>1. PICK g \in [SUBSET S -> Int] : Summing(g, f, S) /\ SumFunctionOnSet(f, S) = g[S]
    BY SummingFacts
<1>2. \A T \in SUBSET S : SumFunctionOnSet(f, T) = g[T]
    <2>1. ASSUME NEW T \in SUBSET S PROVE SumFunctionOnSet(f, T) = g[T]
        <3>1. IsFiniteSet(T) /\ Integral(f, T)
            BY FS_Subset DEF Integral
        <3>2. PICK h \in [SUBSET T -> Int] : Summing(h, f, T) /\ SumFunctionOnSet(f, T) = h[T]
            BY <3>1, SummingFacts
        <3> QED BY <1>1, <3>1, <3>2, SummingUnique
    <2> QED BY <2>1
<1>3. /\ g[{}] = 0
      /\ S # {} => g[S] = f[AnyOf(S)] + g[S \ {AnyOf(S)}]
    BY <1>1 DEF Summing, AnyOf
<1> QED BY <1>2, <1>3

\* A sum of integers is one, and each of them can be taken out of it.
LEMMA SumFacts ==
    ASSUME NEW S, IsFiniteSet(S), NEW f, Integral(f, S)
    PROVE  /\ SumFunctionOnSet(f, S) \in Int
           /\ SumFunctionOnSet(f, {}) = 0
           /\ \A x \in S : SumFunctionOnSet(f, S) = f[x] + SumFunctionOnSet(f, S \ {x})
<1> DEFINE Sum(T) == SumFunctionOnSet(f, T)
           Q == {T \in SUBSET S : \A x \in T : Sum(T) = f[x] + Sum(T \ {x})}
<1>1. \A T \in SUBSET S : IsFiniteSet(T) /\ Integral(f, T)
    BY FS_Subset DEF Integral
<1>2. \A T \in SUBSET S : /\ Sum(T) \in Int
                          /\ T # {} => Sum(T) = f[AnyOf(T)] + Sum(T \ {AnyOf(T)})
    BY <1>1, SumStep
<1>3. ASSUME NEW T \in SUBSET S, \A x \in T : T \ {x} \in Q PROVE T \in Q
    <2>1. ASSUME NEW x \in T PROVE Sum(T) = f[x] + Sum(T \ {x})
        <3>1. PICK y \in T : y = AnyOf(T)
            BY <2>1 DEF AnyOf
        <3>2. Sum(T) = f[y] + Sum(T \ {y})
            <4> HIDE DEF Sum
            <4> QED BY <1>2, <2>1, <3>1
        <3>3. CASE x = y
            BY <3>2, <3>3
        <3>4. CASE x # y
            <4>1. Sum(T \ {y}) = f[x] + Sum((T \ {y}) \ {x}) /\ Sum(T \ {x}) = f[y] + Sum((T \ {x}) \ {y})
                BY <1>3, <3>4
            <4>2. (T \ {y}) \ {x} = (T \ {x}) \ {y}
                OBVIOUS
            <4>3. PICK rest \in Int : rest = Sum((T \ {x}) \ {y})
                BY <1>2
            <4>4. f[x] \in Int /\ f[y] \in Int
                BY DEF Integral
            <4>5. Sum(T \ {y}) = f[x] + rest /\ Sum(T \ {x}) = f[y] + rest
                BY <4>1, <4>2, <4>3
            <4>6. Sum(T) = f[y] + (f[x] + rest)
                BY <3>2, <4>5
            <4>7. f[y] + (f[x] + rest) = f[x] + (f[y] + rest)
                BY <4>4
            <4> QED BY <4>5, <4>6, <4>7
        <3> QED BY <3>3, <3>4
    <2> QED BY <2>1
<1>4. S \in Q
    <2> HIDE DEF Q
    <2> QED BY <1>3, SetInduction
<1> QED BY <1>4, SumStep

\* What is summed over a set is what is summed over its parts.
Additive(f, S) ==
    \A T \in SUBSET S :
        /\ SumFunctionOnSet(f, T) \in Int
        /\ \A x \in T : /\ f[x] \in Int /\ SumFunctionOnSet(f, T \ {x}) \in Int
                        /\ SumFunctionOnSet(f, T) = f[x] + SumFunctionOnSet(f, T \ {x})

LEMMA SumParts ==
    ASSUME NEW S, IsFiniteSet(S), NEW f, Integral(f, S)
    PROVE  Additive(f, S)
<1>1. ASSUME NEW T \in SUBSET S
      PROVE  /\ SumFunctionOnSet(f, T) \in Int
             /\ \A x \in T : SumFunctionOnSet(f, T) = f[x] + SumFunctionOnSet(f, T \ {x})
    <2>1. IsFiniteSet(T) /\ Integral(f, T)
        BY FS_Subset DEF Integral
    <2> QED BY <2>1, SumFacts
<1>2. \A T \in SUBSET S : \A x \in T : T \ {x} \in SUBSET S /\ f[x] \in Int
    BY DEF Integral
<1> QED BY <1>1, <1>2 DEF Additive

\* A sum is no greater than another that is nowhere less.
LEMMA SumMonotone ==
    ASSUME NEW S, IsFiniteSet(S), NEW f, Integral(f, S), NEW g, Integral(g, S), \A x \in S : f[x] <= g[x]
    PROVE  SumFunctionOnSet(f, S) <= SumFunctionOnSet(g, S)
<1>a. Additive(f, S) /\ Additive(g, S)
    BY SumParts
<1> DEFINE Q == {T \in SUBSET S : SumFunctionOnSet(f, T) <= SumFunctionOnSet(g, T)}
<1>1. ASSUME NEW T \in SUBSET S, \A x \in T : T \ {x} \in Q PROVE T \in Q
    <2>1. CASE T = {}
        BY <2>1, SumFacts
    <2>2. CASE T # {}
        <3>1. PICK x \in T : TRUE
            BY <2>2
        <3>2. PICK a \in Int, b \in Int : a = SumFunctionOnSet(f, T \ {x}) /\ b = SumFunctionOnSet(g, T \ {x})
            BY <1>a DEF Additive
        <3>3. SumFunctionOnSet(f, T) = f[x] + a /\ f[x] \in Int
            BY <1>a, <3>2 DEF Additive
        <3>4. SumFunctionOnSet(g, T) = g[x] + b /\ g[x] \in Int
            BY <1>a, <3>2 DEF Additive
        <3>5. f[x] <= g[x] /\ a <= b
            BY <1>1, <3>2
        <3> QED BY <3>3, <3>4, <3>5
    <2> QED BY <2>1, <2>2
<1>2. S \in Q
    <2> HIDE DEF Q
    <2> QED BY <1>1, SetInduction
<1> QED BY <1>2

\* Sums of the same summands are the same.
LEMMA SumSame ==
    ASSUME NEW S, IsFiniteSet(S), NEW f, Integral(f, S), NEW g, \A x \in S : f[x] = g[x]
    PROVE  SumFunctionOnSet(f, S) = SumFunctionOnSet(g, S)
<1>1. Integral(g, S)
    BY DEF Integral
<1>2. \A x \in S : f[x] <= g[x] /\ g[x] <= f[x]
    BY DEF Integral
<1>3. SumFunctionOnSet(f, S) \in Int /\ SumFunctionOnSet(g, S) \in Int
    BY <1>1, SumFacts
<1> QED BY <1>1, <1>2, <1>3, SumMonotone

\* The sum of multiples is the multiple of the sum.
LEMMA SumScaled ==
    ASSUME NEW S, IsFiniteSet(S), NEW f, Integral(f, S), NEW c \in Int, NEW g, \A x \in S : g[x] = f[x] * c
    PROVE  Integral(g, S) /\ SumFunctionOnSet(g, S) = SumFunctionOnSet(f, S) * c
<1>0. Integral(g, S)
    BY DEF Integral
<1>a. Additive(f, S) /\ Additive(g, S)
    BY <1>0, SumParts
<1> DEFINE Q == {T \in SUBSET S : SumFunctionOnSet(g, T) = SumFunctionOnSet(f, T) * c}
<1>1. ASSUME NEW T \in SUBSET S, \A x \in T : T \ {x} \in Q PROVE T \in Q
    <2>1. CASE T = {}
        BY <1>0, <2>1, SumFacts
    <2>2. CASE T # {}
        <3>1. PICK x \in T : TRUE
            BY <2>2
        <3>2. PICK a \in Int : a = SumFunctionOnSet(f, T \ {x})
            BY <1>a DEF Additive
        <3>3. PICK b \in Int : b = SumFunctionOnSet(g, T \ {x})
            BY <1>a, <1>0 DEF Additive
        <3>4. SumFunctionOnSet(f, T) = f[x] + a /\ f[x] \in Int
            BY <1>a, <3>2 DEF Additive
        <3>5. SumFunctionOnSet(g, T) = g[x] + b
            BY <1>a, <1>0, <3>3 DEF Additive
        <3>6. g[x] = f[x] * c /\ b = a * c
            BY <1>1, <3>2, <3>3
        <3>7. f[x] * c + a * c = (f[x] + a) * c
            BY <3>4
        <3> QED BY <3>4, <3>5, <3>6, <3>7
    <2> QED BY <2>1, <2>2
<1>2. S \in Q
    <2> HIDE DEF Q
    <2> QED BY <1>1, SetInduction
<1> QED BY <1>0, <1>2

\* The sum of the same for all is as often it as there are.
LEMMA SumConstant ==
    ASSUME NEW S, IsFiniteSet(S), NEW c \in Int, NEW f, \A x \in S : f[x] = c
    PROVE  Integral(f, S) /\ SumFunctionOnSet(f, S) = c * Cardinality(S)
<1>0. Integral(f, S)
    BY DEF Integral
<1>a. Additive(f, S)
    BY <1>0, SumParts
<1> DEFINE Q == {T \in SUBSET S : SumFunctionOnSet(f, T) = c * Cardinality(T)}
<1>1. ASSUME NEW T \in SUBSET S, \A x \in T : T \ {x} \in Q PROVE T \in Q
    <2>1. CASE T = {}
        BY <1>0, <2>1, SumFacts, FS_EmptySet
    <2>2. CASE T # {}
        <3>1. PICK x \in T : TRUE
            BY <2>2
        <3>2. IsFiniteSet(T) /\ Cardinality(T) \in Int /\ Cardinality(T \ {x}) = Cardinality(T) - 1
            BY FS_Subset, FS_CardinalityType, FS_RemoveElement
        <3>3. SumFunctionOnSet(f, T) = c + c * Cardinality(T \ {x})
            BY <1>a, <1>0, <1>1 DEF Additive
        <3>4. c + c * (Cardinality(T) - 1) = c * Cardinality(T)
            BY <3>2
        <3> QED BY <3>2, <3>3, <3>4
    <2> QED BY <2>1, <2>2
<1>2. S \in Q
    <2> HIDE DEF Q
    <2> QED BY <1>1, SetInduction
<1> QED BY <1>0, <1>2

\* The sum of two sets that share nothing is the sum of theirs.
LEMMA SumUnion ==
    ASSUME NEW S, NEW R, IsFiniteSet(S), IsFiniteSet(R), S \cap R = {}, NEW f, Integral(f, S \cup R)
    PROVE  SumFunctionOnSet(f, S \cup R) = SumFunctionOnSet(f, S) + SumFunctionOnSet(f, R)
<1>0. IsFiniteSet(S \cup R) /\ Integral(f, R) /\ Integral(f, S)
    BY FS_Union DEF Integral
<1>a. Additive(f, S) /\ Additive(f, R) /\ Additive(f, S \cup R)
    BY <1>0, SumParts
<1> DEFINE Sum(T) == SumFunctionOnSet(f, T)
           Q == {T \in SUBSET S : Sum(T \cup R) = Sum(T) + Sum(R)}
<1>1. ASSUME NEW T \in SUBSET S, \A x \in T : T \ {x} \in Q PROVE T \in Q
    <2>1. CASE T = {}
        <3>1. T \cup R = R /\ Sum(R) \in Int /\ Sum({}) = 0
            BY <1>0, <2>1, SumFacts
        <3> QED BY <2>1, <3>1
    <2>2. CASE T # {}
        <3>1. PICK x \in T : TRUE
            BY <2>2
        <3>2a. Sum(T \ {x}) \in Int /\ Sum(R) \in Int
            BY <1>a DEF Additive
        <3>2. PICK a \in Int, b \in Int : a = Sum(T \ {x}) /\ b = Sum(R)
            <4> HIDE DEF Sum
            <4> QED BY <3>2a
        <3>3. (T \cup R) \ {x} = (T \ {x}) \cup R /\ T \cup R \in SUBSET (S \cup R)
            BY <3>1
        <3>4. Sum(T) = f[x] + a /\ f[x] \in Int
            BY <1>a, <1>0, <3>2 DEF Additive
        <3>5. Sum((T \ {x}) \cup R) = a + b
            BY <1>1, <3>2
        <3>6. Sum(T \cup R) = f[x] + Sum((T \cup R) \ {x})
            BY <1>a, <1>0, <3>3 DEF Additive
        <3>7. Sum(T \cup R) = f[x] + (a + b)
            BY <3>3, <3>5, <3>6
        <3>8. f[x] + (a + b) = (f[x] + a) + b
            BY <3>4
        <3>9. Sum(T \cup R) = Sum(T) + Sum(R)
            BY <3>2, <3>4, <3>7, <3>8
        <3> QED BY <3>9
    <2> QED BY <2>1, <2>2
<1>2. S \in Q
    <2> HIDE DEF Q
    <2> QED BY <1>1, SetInduction
<1> QED BY <1>2

\* Sums add up.
LEMMA SumAdds ==
    ASSUME NEW S, IsFiniteSet(S), NEW f, Integral(f, S), NEW g, Integral(g, S),
           NEW h, \A x \in S : h[x] = f[x] + g[x]
    PROVE  Integral(h, S) /\ SumFunctionOnSet(h, S) = SumFunctionOnSet(f, S) + SumFunctionOnSet(g, S)
<1>0. Integral(h, S)
    BY DEF Integral
<1>a. Additive(f, S) /\ Additive(g, S) /\ Additive(h, S)
    BY <1>0, SumParts
<1> DEFINE Q == {T \in SUBSET S : SumFunctionOnSet(h, T) = SumFunctionOnSet(f, T) + SumFunctionOnSet(g, T)}
<1>1. ASSUME NEW T \in SUBSET S, \A x \in T : T \ {x} \in Q PROVE T \in Q
    <2>1. CASE T = {}
        BY <1>0, <2>1, SumFacts
    <2>2. CASE T # {}
        <3>1. PICK x \in T : TRUE
            BY <2>2
        <3>2. PICK a \in Int, b \in Int : a = SumFunctionOnSet(f, T \ {x}) /\ b = SumFunctionOnSet(g, T \ {x})
            BY <1>a DEF Additive
        <3>3. SumFunctionOnSet(h, T \ {x}) = a + b
            BY <1>1, <3>2
        <3>4. SumFunctionOnSet(f, T) = f[x] + a /\ f[x] \in Int
            BY <1>a, <3>2 DEF Additive
        <3>5. SumFunctionOnSet(g, T) = g[x] + b /\ g[x] \in Int
            BY <1>a, <3>2 DEF Additive
        <3>6. SumFunctionOnSet(h, T) = h[x] + (a + b) /\ h[x] = f[x] + g[x]
            BY <1>a, <1>0, <3>3 DEF Additive
        <3> QED BY <3>4, <3>5, <3>6
    <2> QED BY <2>1, <2>2
<1>2. S \in Q
    <2> HIDE DEF Q
    <2> QED BY <1>1, SetInduction
<1> QED BY <1>0, <1>2

-----------------------------------------------------------------------------
(* The quantiles of the horizons. *)

\* What a run keeps of what it makes: outcomes that are recorded, and a forecast that
\* learnt from nothing behind its origin.
\* A table is the function it was made of.
LEMMA TableFacts ==
    ASSUME NEW f PROVE Table(f) = f
BY DEF Table

\* A finite set of integers that is not empty has a least member.
LEMMA LeastExists ==
    ASSUME NEW S \in SUBSET Int, IsFiniteSet(S), S # {}
    PROVE  \E m \in S : \A n \in S : m <= n
<1> DEFINE T == {-n : n \in S}
           g == [n \in S |-> -n]
<1>1. g \in Surjection(S, T)
    BY DEF Surjection
<1>2. IsFiniteSet(T)
    BY <1>1, FS_Surjection
<1>3. T \in SUBSET Int /\ T # {}
    <2>1. PICK n \in S : TRUE
        OBVIOUS
    <2>2. -n \in T
        OBVIOUS
    <2>3. \A k \in T : k \in Int
        OBVIOUS
    <2> QED BY <2>2, <2>3
<1> HIDE DEF T
<1>4. PICK m \in T : \A n \in T : n <= m
    BY <1>2, <1>3, GreatestExists
<1>5. PICK k \in S : m = -k
    BY DEF T
<1>6. \A n \in S : -n <= m
    BY <1>4 DEF T
<1> QED BY <1>5, <1>6

\* The least, the greatest, and the nearest shorter horizon are what they are chosen as.
LEMMA MinFacts ==
    ASSUME NEW S \in SUBSET Int, IsFiniteSet(S), S # {}
    PROVE  Min(S) \in S /\ \A n \in S : Min(S) <= n
BY LeastExists DEF Min

LEMMA MaxFacts ==
    ASSUME NEW S \in SUBSET Int, IsFiniteSet(S), S # {}
    PROVE  Max(S) \in S /\ \A n \in S : n <= Max(S)
<1>1. \E m \in S : \A n \in S : m >= n
    BY GreatestExists
<1> QED BY <1>1 DEF Max

LEMMA PairFacts ==
    ASSUME NEW a \in Int, NEW b \in Int
    PROVE  /\ Min({a, b}) \in {a, b} /\ Min({a, b}) <= a /\ Min({a, b}) <= b
           /\ Max({a, b}) \in {a, b} /\ Max({a, b}) >= a /\ Max({a, b}) >= b
<1> DEFINE S == {a, b}
<1>1. IsFiniteSet(S) /\ S \in SUBSET Int /\ S # {}
    <2>1. IsFiniteSet({}) /\ S = ({} \cup {a}) \cup {b}
        BY FS_EmptySet
    <2>2. IsFiniteSet({} \cup {a})
        BY <2>1, FS_AddElement
    <2>3. IsFiniteSet(({} \cup {a}) \cup {b})
        BY <2>2, FS_AddElement
    <2> QED BY <2>1, <2>3
<1>2. a \in S /\ b \in S
    OBVIOUS
<1>3. Min(S) \in S /\ \A n \in S : Min(S) <= n
    BY <1>1, MinFacts
<1>4. Max(S) \in S /\ \A n \in S : n <= Max(S)
    BY <1>1, MaxFacts
<1>5. a <= Max(S) /\ b <= Max(S) /\ Max(S) \in Int
    BY <1>2, <1>4
<1> HIDE DEF S
<1>6. Max(S) >= a /\ Max(S) >= b
    BY <1>5
<1> QED BY <1>2, <1>3, <1>4, <1>6 DEF S

LEMMA UpToFacts ==
    ASSUME NEW h \in Horizons
    PROVE  /\ IsFiniteSet(HorizonsUpTo(h)) /\ h \in HorizonsUpTo(h)
           /\ h \in Nat
           /\ HorizonsUpTo(h) # {h} => Before(h) \in Horizons /\ Before(h) < h
<1>1. Horizons \subseteq Nat /\ IsFiniteSet(Horizons) /\ h \in Nat
    BY EngineAssumption
<1>2. HorizonsUpTo(h) \subseteq Horizons /\ h \in HorizonsUpTo(h)
    BY <1>1 DEF HorizonsUpTo
<1>3. IsFiniteSet(HorizonsUpTo(h))
    BY <1>1, <1>2, FS_Subset
<1>4. ASSUME HorizonsUpTo(h) # {h} PROVE Before(h) \in Horizons /\ Before(h) < h
    <2> DEFINE S == {g \in Horizons : g < h}
    <2>0. PICK g \in HorizonsUpTo(h) : g # h
        BY <1>2, <1>4
    <2>1. S # {} /\ S \in SUBSET Int /\ S \subseteq Horizons
        <3>1. g \in Horizons /\ g \in Nat /\ g <= h /\ g < h
            BY <1>1, <2>0 DEF HorizonsUpTo
        <3>2. g \in S
            BY <3>1
        <3>3. \A x \in Horizons : x \in Int
            BY <1>1
        <3> QED BY <3>2, <3>3
    <2>2. IsFiniteSet(S)
        BY <1>1, <2>1, FS_Subset
    <2>3. Max(S) \in S
        BY <2>1, <2>2, MaxFacts
    <2> QED BY <2>3 DEF Before
<1> QED BY <1>1, <1>2, <1>3, <1>4

\* A table of quantiles.
Quantiles(p) ==
    \A h \in Horizons :
        /\ {"q10", "q50", "q90", "point"} \subseteq DOMAIN p[h]
        /\ p[h].q10 \in Int /\ p[h].q50 \in Int /\ p[h].q90 \in Int

\* Each interval is opened around its median.
LEMMA OpenedFacts ==
    ASSUME NEW p, Quantiles(p)
    PROVE  /\ Quantiles(Opened(p))
           /\ \A h \in Horizons :
                  /\ Opened(p)[h].q50 = p[h].q50
                  /\ Opened(p)[h].q10 = Min({p[h].q10, p[h].q50 - QuantileGap})
                  /\ Opened(p)[h].q90 = Max({p[h].q90, p[h].q50 + QuantileGap})
<1> DEFINE low(h) == Min({p[h].q10, p[h].q50 - QuantileGap})
           high(h) == Max({p[h].q90, p[h].q50 + QuantileGap})
           o == Opened(p)
<1>1. o = [h \in Horizons |-> [p[h] EXCEPT !.q10 = low(h), !.q90 = high(h)]]
    BY TableFacts DEF Opened
<1>2. ASSUME NEW h \in Horizons PROVE low(h) \in Int /\ high(h) \in Int
    <2>1. p[h].q10 \in Int /\ p[h].q90 \in Int /\ p[h].q50 - QuantileGap \in Int /\ p[h].q50 + QuantileGap \in Int
        BY DEF Quantiles, QuantileGap
    <2> QED BY <2>1, PairFacts
<1> HIDE DEF low, high, o
<1>3. ASSUME NEW h \in Horizons
      PROVE  /\ DOMAIN o[h] = DOMAIN p[h] /\ o[h].q50 = p[h].q50
             /\ o[h].q10 = low(h) /\ o[h].q90 = high(h)
    BY <1>1 DEF Quantiles
<1>4. Quantiles(o)
    BY <1>2, <1>3 DEF Quantiles
<1> QED BY <1>3, <1>4 DEF o, low, high

\* Each interval covers those of the shorter horizons.
LEMMA NestedFacts ==
    ASSUME NEW p, Quantiles(p)
    PROVE  /\ Quantiles(Nested(p))
           /\ \A h \in Horizons :
                  /\ Nested(p)[h].q50 = p[h].q50
                  /\ \A g \in HorizonsUpTo(h) :
                         /\ Nested(p)[h].q10 <= p[g].q10 /\ Nested(p)[h].q90 >= p[g].q90
                         /\ Nested(p)[h].q10 <= Nested(p)[g].q10 /\ Nested(p)[h].q90 >= Nested(p)[g].q90
<1> DEFINE Between(g, h) == {f \in Horizons : g < f /\ f <= h}
           Gap(g, h) == EnvelopeGap * Cardinality(Between(g, h))
           lows(h) == {p[g].q10 - Gap(g, h) : g \in HorizonsUpTo(h)}
           highs(h) == {p[g].q90 + Gap(g, h) : g \in HorizonsUpTo(h)}
           n == Nested(p)
<1>1. n = [h \in Horizons |-> [p[h] EXCEPT !.q10 = Min(lows(h)), !.q90 = Max(highs(h))]]
    BY TableFacts DEF Nested
<1>2. Horizons \subseteq Nat /\ IsFiniteSet(Horizons)
    BY EngineAssumption
<1>3. ASSUME NEW g \in Horizons, NEW h \in Horizons PROVE Gap(g, h) \in Nat
    <2>1. IsFiniteSet(Between(g, h))
        <3>1. Between(g, h) \subseteq Horizons
            OBVIOUS
        <3> HIDE DEF Between
        <3> QED BY <1>2, <3>1, FS_Subset
    <2>2. Cardinality(Between(g, h)) \in Nat
        <3> HIDE DEF Between
        <3> QED BY <2>1, FS_CardinalityType
    <2> HIDE DEF Between
    <2> QED BY <2>2 DEF EnvelopeGap
<1>4. ASSUME NEW f \in Horizons, NEW g \in Horizons, NEW h \in Horizons, g <= h
      PROVE  Gap(f, g) <= Gap(f, h)
    <2>1. Between(f, g) \subseteq Between(f, h) /\ Between(f, h) \subseteq Horizons
        <3>1. ASSUME NEW e \in Horizons, e <= g PROVE e <= h
            <4>1. e \in Nat /\ g \in Nat /\ h \in Nat
                BY <1>2
            <4> QED BY <1>4, <3>1, <4>1
        <3> QED BY <3>1
    <2> HIDE DEF Between
    <2>2. IsFiniteSet(Between(f, h))
        BY <1>2, <2>1, FS_Subset
    <2>3. Cardinality(Between(f, g)) <= Cardinality(Between(f, h))
        BY <2>1, <2>2, FS_Subset
    <2>4. IsFiniteSet(Between(f, g))
        BY <2>1, <2>2, FS_Subset
    <2>5. Cardinality(Between(f, g)) \in Nat
        BY <2>4, FS_CardinalityType
    <2>6. Cardinality(Between(f, h)) \in Nat
        BY <2>2, FS_CardinalityType
    <2> QED BY <2>3, <2>5, <2>6 DEF EnvelopeGap
<1> HIDE DEF Gap
<1>5. ASSUME NEW h \in Horizons
      PROVE  /\ Min(lows(h)) \in lows(h) /\ Min(lows(h)) \in Int /\ \A x \in lows(h) : Min(lows(h)) <= x
             /\ Max(highs(h)) \in highs(h) /\ Max(highs(h)) \in Int /\ \A x \in highs(h) : x <= Max(highs(h))
    <2>1. HorizonsUpTo(h) \subseteq Horizons /\ IsFiniteSet(HorizonsUpTo(h)) /\ h \in HorizonsUpTo(h)
        BY UpToFacts DEF HorizonsUpTo
    <2>2. lows(h) \in SUBSET Int /\ highs(h) \in SUBSET Int /\ lows(h) # {} /\ highs(h) # {}
        BY <1>3, <2>1 DEF Quantiles
    <2> DEFINE a == [g \in HorizonsUpTo(h) |-> p[g].q10 - Gap(g, h)]
               b == [g \in HorizonsUpTo(h) |-> p[g].q90 + Gap(g, h)]
    <2>3. a \in Surjection(HorizonsUpTo(h), lows(h)) /\ b \in Surjection(HorizonsUpTo(h), highs(h))
        BY DEF Surjection
    <2>4. IsFiniteSet(lows(h))
        <3> HIDE DEF lows, a
        <3> QED BY <2>1, <2>3, FS_Surjection
    <2>5. IsFiniteSet(highs(h))
        <3> HIDE DEF highs, b
        <3> QED BY <2>1, <2>3, FS_Surjection
    <2> HIDE DEF lows, highs
    <2>6. Min(lows(h)) \in lows(h) /\ \A x \in lows(h) : Min(lows(h)) <= x
        BY <2>2, <2>4, MinFacts
    <2>7. Max(highs(h)) \in highs(h) /\ \A x \in highs(h) : x <= Max(highs(h))
        BY <2>2, <2>5, MaxFacts
    <2> QED BY <2>2, <2>6, <2>7
<1>6. ASSUME NEW h \in Horizons
      PROVE  /\ DOMAIN n[h] = DOMAIN p[h] /\ n[h].q50 = p[h].q50
             /\ n[h].q10 = Min(lows(h)) /\ n[h].q90 = Max(highs(h))
    <2> HIDE DEF lows, highs, n
    <2> QED BY <1>1 DEF Quantiles
<1> HIDE DEF n
<1>7. Quantiles(n)
    <2> HIDE DEF lows, highs
    <2> QED BY <1>5, <1>6 DEF Quantiles
<1>8. ASSUME NEW h \in Horizons, NEW g \in HorizonsUpTo(h)
      PROVE  /\ n[h].q10 <= p[g].q10 /\ n[h].q90 >= p[g].q90
             /\ n[h].q10 <= n[g].q10 /\ n[h].q90 >= n[g].q90
    <2>1. g \in Horizons /\ g <= h /\ HorizonsUpTo(g) \subseteq HorizonsUpTo(h)
        <3>1. g \in Horizons /\ g <= h /\ g \in Nat /\ h \in Nat
            BY <1>2 DEF HorizonsUpTo
        <3>2. ASSUME NEW f \in Horizons, f <= g PROVE f <= h
            <4>1. f \in Nat
                BY <1>2
            <4> QED BY <3>1, <3>2, <4>1
        <3> QED BY <3>1, <3>2 DEF HorizonsUpTo
    <2>2. n[h].q10 \in Int /\ n[h].q90 \in Int /\ n[g].q10 \in Int /\ n[g].q90 \in Int
        BY <1>7, <2>1 DEF Quantiles
    <2>3. ASSUME NEW f \in HorizonsUpTo(h)
          PROVE  /\ f \in Horizons /\ n[h].q10 <= p[f].q10 - Gap(f, h) /\ n[h].q90 >= p[f].q90 + Gap(f, h)
        <3>1. f \in Horizons
            BY DEF HorizonsUpTo
        <3>2. n[h].q10 <= p[f].q10 - Gap(f, h) /\ p[f].q90 + Gap(f, h) <= n[h].q90
            BY <1>5, <1>6
        <3>3. p[f].q90 \in Int /\ Gap(f, h) \in Nat
            BY <1>3, <3>1 DEF Quantiles
        <3> QED BY <2>2, <3>1, <3>2, <3>3
    <2>4. n[h].q10 <= p[g].q10 /\ n[h].q90 >= p[g].q90
        <3>1. p[g].q10 \in Int /\ p[g].q90 \in Int /\ Gap(g, h) \in Nat
            BY <1>3, <2>1 DEF Quantiles
        <3> QED BY <2>2, <2>3, <3>1
    <2>5. n[h].q10 <= n[g].q10
        <3>1. PICK f \in HorizonsUpTo(g) : n[g].q10 = p[f].q10 - Gap(f, g)
            BY <1>5, <1>6, <2>1
        <3>2. f \in Horizons /\ n[h].q10 <= p[f].q10 - Gap(f, h)
            BY <2>1, <2>3
        <3>3. p[f].q10 \in Int /\ Gap(f, h) \in Nat /\ Gap(f, g) \in Nat /\ Gap(f, g) <= Gap(f, h)
            BY <1>3, <1>4, <2>1, <3>2 DEF Quantiles
        <3> QED BY <2>2, <3>1, <3>2, <3>3
    <2>6. n[h].q90 >= n[g].q90
        <3>1. PICK f \in HorizonsUpTo(g) : n[g].q90 = p[f].q90 + Gap(f, g)
            BY <1>5, <1>6, <2>1
        <3>2. f \in Horizons /\ n[h].q90 >= p[f].q90 + Gap(f, h)
            BY <2>1, <2>3
        <3>3. p[f].q90 \in Int /\ Gap(f, h) \in Nat /\ Gap(f, g) \in Nat /\ Gap(f, g) <= Gap(f, h)
            BY <1>3, <1>4, <2>1, <3>2 DEF Quantiles
        <3> QED BY <2>2, <3>1, <3>2, <3>3
    <2> QED BY <2>4, <2>5, <2>6
<1> QED BY <1>6, <1>7, <1>8 DEF n

\* A median that is settled is one of the medians up to its horizon.
LEMMA SettledFacts ==
    ASSUME NEW p, Quantiles(p), NEW base, NEW counts
    PROVE  /\ Quantiles(Settled(p, base, counts))
           /\ \A h \in Horizons :
                  LET s == Settled(p, base, counts)
                  IN  /\ s[h].q10 = p[h].q10 /\ s[h].q90 = p[h].q90
                      /\ \E f \in HorizonsUpTo(h) : s[h].q50 = p[f].q50
<1> DEFINE Stands(v, h) == \/ Sign(v - base) = Sign(p[h].q50 - base)
                           \/ /\ Marked(v - base, p[h].q50 - base)
                              /\ Evidenced(counts, Before(h), h)
           First(h) == HorizonsUpTo(h) = {h}
           Value(f, h) == IF First(h) THEN p[h].q50
                          ELSE IF Stands(f[Before(h)], h) THEN p[h].q50 ELSE f[Before(h)]
           median == CHOOSE f : f = [h \in Horizons |-> Value(f, h)]
           N == Max(Horizons)
           s == Settled(p, base, counts)
<1>1. s = [h \in Horizons |-> [p[h] EXCEPT !.q50 = median[h]]]
    BY TableFacts DEF Settled
<1>2. N \in Nat /\ \A h \in Horizons : h \in Nat /\ 1 <= h /\ h <= N
    <2>1. Horizons \in SUBSET Int /\ IsFiniteSet(Horizons) /\ Horizons # {}
        BY EngineAssumption
    <2>2. N \in Horizons /\ \A h \in Horizons : h <= N
        BY <2>1, MaxFacts
    <2> HIDE DEF N
    <2>3. \A h \in Horizons : h \in Nat /\ 1 <= h
        BY EngineAssumption
    <2> QED BY <2>2, <2>3
<1> HIDE DEF Stands, N
<1>3. \E f : f = [h \in Horizons |-> Value(f, h)]
    <2> DEFINE Solved(f, m) == /\ f = [h \in Horizons |-> f[h]]
                               /\ \A h \in Horizons : h <= m => f[h] = Value(f, h)
               S == {m \in 0 .. N : \E f : Solved(f, m)}
    <2>1. 0 \in S
        <3> DEFINE f == [h \in Horizons |-> 0]
        <3>1. \A h \in Horizons : ~(h <= 0)
            BY <1>2
        <3>2. f = [h \in Horizons |-> f[h]]
            OBVIOUS
        <3> HIDE DEF f
        <3> QED BY <1>2, <3>1, <3>2
    <2>2. ASSUME NEW m \in S, m < N PROVE m + 1 \in S
        <3>1. PICK f : Solved(f, m)
            OBVIOUS
        <3> DEFINE g == [h \in Horizons |-> IF h = m + 1 THEN Value(f, h) ELSE f[h]]
        <3> HIDE DEF Value
        <3>2. g = [h \in Horizons |-> g[h]]
            OBVIOUS
        <3>3. ASSUME NEW h \in Horizons, h <= m + 1 PROVE g[h] = Value(f, h)
            <4>1. h = m + 1 \/ h <= m
                BY <1>2, <3>3
            <4> QED BY <3>1, <4>1
        <3>4. ASSUME NEW h \in Horizons, h <= m + 1 PROVE Value(g, h) = Value(f, h)
            <4>1. CASE First(h)
                BY <4>1 DEF Value
            <4>2. CASE ~First(h)
                <5>1. Before(h) \in Horizons /\ Before(h) < h
                    BY <4>2, UpToFacts
                <5>2. Before(h) # m + 1
                    BY <1>2, <3>4, <5>1
                <5>3. g[Before(h)] = f[Before(h)]
                    BY <5>1, <5>2
                <5> QED BY <5>3 DEF Value
            <4> QED BY <4>1, <4>2
        <3> HIDE DEF g
        <3>5. Solved(g, m + 1)
            BY <3>2, <3>3, <3>4
        <3>6. m + 1 \in 0 .. N
            BY <1>2, <2>2
        <3> HIDE DEF Solved
        <3> QED BY <3>5, <3>6
    <2>3. N \in S
        <3>1. S \in SUBSET (0 .. N)
            OBVIOUS
        <3> HIDE DEF S
        <3> QED BY <1>2, <2>1, <2>2, <3>1, UpTo
    <2>4. PICK f : Solved(f, N)
        BY <2>3
    <2> HIDE DEF Value
    <2>5. \A h \in Horizons : f[h] = Value(f, h)
        BY <1>2, <2>4
    <2>6. f = [h \in Horizons |-> Value(f, h)]
        BY <2>4, <2>5
    <2> QED BY <2>6
<1>4. \A h \in Horizons : median[h] = Value(median, h)
    <2>1. median = [h \in Horizons |-> Value(median, h)]
        <3> HIDE DEF Value
        <3> QED BY <1>3
    <2> HIDE DEF Value, median
    <2> QED BY <2>1
<1> HIDE DEF median
<1>5. \A h \in Horizons : \E f \in HorizonsUpTo(h) : median[h] = p[f].q50
    <2> DEFINE Of(h) == \E f \in HorizonsUpTo(h) : median[h] = p[f].q50
               S == {m \in 0 .. N : \A h \in Horizons : h <= m => Of(h)}
    <2>1. 0 \in S
        <3>1. \A h \in Horizons : ~(h <= 0)
            BY <1>2
        <3> HIDE DEF Of
        <3> QED BY <1>2, <3>1
    <2>2. ASSUME NEW m \in S, m < N, NEW h \in Horizons, h <= m + 1 PROVE Of(h)
        <3>1. median[h] = p[h].q50 \/ (~First(h) /\ median[h] = median[Before(h)])
            BY <1>4
        <3>2. CASE median[h] = p[h].q50
            BY <3>2, UpToFacts
        <3>3. CASE ~First(h) /\ median[h] = median[Before(h)]
            <4>1. Before(h) \in Horizons /\ Before(h) < h
                BY <3>3, UpToFacts
            <4>2. Before(h) <= m
                BY <1>2, <2>2, <4>1
            <4>3. Of(Before(h))
                BY <4>1, <4>2
            <4>4. PICK f \in HorizonsUpTo(Before(h)) : median[Before(h)] = p[f].q50
                BY <4>3
            <4>5. f \in HorizonsUpTo(h)
                <5>1. f \in Horizons /\ f <= Before(h)
                    BY <4>4 DEF HorizonsUpTo
                <5>2. f \in Nat /\ Before(h) \in Nat /\ h \in Nat
                    BY <1>2, <4>1, <5>1
                <5>3. f <= h
                    BY <4>1, <5>1, <5>2
                <5> QED BY <5>1, <5>3 DEF HorizonsUpTo
            <4> QED BY <3>3, <4>4, <4>5
        <3> QED BY <3>1, <3>2, <3>3
    <2>3. ASSUME NEW m \in S, m < N PROVE m + 1 \in S
        <3>1. m + 1 \in 0 .. N
            BY <1>2, <2>3
        <3> HIDE DEF Of
        <3> QED BY <2>2, <2>3, <3>1
    <2>4. N \in S
        <3>1. S \in SUBSET (0 .. N)
            OBVIOUS
        <3> HIDE DEF S
        <3> QED BY <1>2, <2>1, <2>3, <3>1, UpTo
    <2> HIDE DEF Of
    <2>5. \A h \in Horizons : Of(h)
        BY <1>2, <2>4
    <2> QED BY <2>5 DEF Of
<1>6. ASSUME NEW h \in Horizons
      PROVE  /\ DOMAIN s[h] = DOMAIN p[h] /\ s[h].q50 = median[h]
             /\ s[h].q10 = p[h].q10 /\ s[h].q90 = p[h].q90
    BY <1>1 DEF Quantiles
<1> HIDE DEF s
<1>7. ASSUME NEW h \in Horizons PROVE s[h].q50 \in Int
    <2>1. PICK f \in HorizonsUpTo(h) : median[h] = p[f].q50
        BY <1>5
    <2>2. f \in Horizons
        BY DEF HorizonsUpTo
    <2> QED BY <1>6, <2>1, <2>2 DEF Quantiles
<1>8. Quantiles(s)
    BY <1>6, <1>7 DEF Quantiles
<1> QED BY <1>5, <1>6, <1>8 DEF s

\* The targets: every interval holds its median with a gap, and covers those of the
\* shorter horizons; none is narrower than it was.
LEMMA TargetsFacts ==
    ASSUME NEW p, Quantiles(p), NEW base, NEW counts
    PROVE  LET t == Targets(p, base, counts)
           IN  /\ Quantiles(t)
               /\ \A h \in Horizons :
                      /\ t[h].q10 + QuantileGap <= t[h].q50 /\ t[h].q50 + QuantileGap <= t[h].q90
                      /\ t[h].q10 <= p[h].q10 /\ t[h].q90 >= p[h].q90
                      /\ \A g \in HorizonsUpTo(h) : t[h].q10 <= t[g].q10 /\ t[h].q90 >= t[g].q90
<1> DEFINE o == Opened(p)
           n == Nested(o)
           s == Settled(n, base, counts)
           t == Opened(s)
<1>1. Quantiles(o) /\ Quantiles(n) /\ Quantiles(s) /\ Quantiles(t)
    BY OpenedFacts, NestedFacts, SettledFacts
<1> HIDE DEF o, n, s, t
<1>2. ASSUME NEW f \in Horizons
      PROVE  /\ o[f].q10 <= p[f].q10 /\ o[f].q10 + QuantileGap <= p[f].q50
             /\ o[f].q90 >= p[f].q90 /\ p[f].q50 + QuantileGap <= o[f].q90
             /\ o[f].q50 = p[f].q50
    <2>1. /\ p[f].q10 \in Int /\ p[f].q90 \in Int /\ p[f].q50 \in Int
          /\ p[f].q50 - QuantileGap \in Int /\ p[f].q50 + QuantileGap \in Int
        BY DEF Quantiles, QuantileGap
    <2>2. /\ o[f].q10 = Min({p[f].q10, p[f].q50 - QuantileGap})
          /\ o[f].q90 = Max({p[f].q90, p[f].q50 + QuantileGap})
          /\ o[f].q50 = p[f].q50
        BY OpenedFacts DEF o
    <2>3. /\ o[f].q10 <= p[f].q10 /\ o[f].q10 <= p[f].q50 - QuantileGap
          /\ o[f].q90 >= p[f].q90 /\ o[f].q90 >= p[f].q50 + QuantileGap
        BY <2>1, <2>2, PairFacts, ZenonT(40)
    <2>4. o[f].q10 \in Int /\ o[f].q90 \in Int
        BY <1>1 DEF Quantiles
    <2> QED BY <2>1, <2>2, <2>3, <2>4 DEF QuantileGap
<1>3. ASSUME NEW h \in Horizons
      PROVE  /\ t[h].q10 = n[h].q10 /\ t[h].q90 = n[h].q90 /\ t[h].q50 = s[h].q50
             /\ n[h].q10 + QuantileGap <= s[h].q50 /\ s[h].q50 + QuantileGap <= n[h].q90
    <2>1. PICK f \in HorizonsUpTo(h) : s[h].q50 = n[f].q50
        BY <1>1, SettledFacts DEF s
    <2>2. f \in Horizons
        BY DEF HorizonsUpTo
    <2>3. n[f].q50 = o[f].q50 /\ o[f].q50 = p[f].q50
        BY <1>1, <1>2, <2>2, NestedFacts DEF n
    <2>4. n[h].q10 <= o[f].q10 /\ n[h].q90 >= o[f].q90
        BY <1>1, NestedFacts DEF n
    <2>5. /\ n[h].q10 \in Int /\ n[h].q90 \in Int /\ o[f].q10 \in Int /\ o[f].q90 \in Int
          /\ s[h].q50 \in Int /\ p[f].q50 \in Int
        BY <1>1, <2>2 DEF Quantiles
    <2>6. n[h].q10 + QuantileGap <= s[h].q50 /\ s[h].q50 + QuantileGap <= n[h].q90
        BY <1>2, <2>1, <2>2, <2>3, <2>4, <2>5 DEF QuantileGap
    <2>7. s[h].q10 = n[h].q10 /\ s[h].q90 = n[h].q90
        BY <1>1, SettledFacts DEF s
    <2>8. /\ t[h].q10 = Min({n[h].q10, s[h].q50 - QuantileGap})
          /\ t[h].q90 = Max({n[h].q90, s[h].q50 + QuantileGap})
          /\ t[h].q50 = s[h].q50
        BY <1>1, <2>7, OpenedFacts DEF t
    <2> DEFINE low == s[h].q50 - QuantileGap
               high == s[h].q50 + QuantileGap
    <2>9. low \in Int /\ high \in Int /\ n[h].q10 <= low /\ high <= n[h].q90
        BY <2>5, <2>6 DEF QuantileGap
    <2> HIDE DEF low, high
    <2>10. Min({n[h].q10, low}) \in {n[h].q10, low} /\ Min({n[h].q10, low}) <= n[h].q10
        BY <2>5, <2>9, PairFacts
    <2>11. Max({n[h].q90, high}) \in {n[h].q90, high} /\ Max({n[h].q90, high}) >= n[h].q90
        BY <2>5, <2>9, PairFacts
    <2>12. Min({n[h].q10, low}) = n[h].q10
        BY <2>5, <2>9, <2>10
    <2>13. Max({n[h].q90, high}) = n[h].q90
        BY <2>5, <2>9, <2>11
    <2> QED BY <2>6, <2>8, <2>12, <2>13 DEF low, high
<1>4. ASSUME NEW h \in Horizons PROVE t[h].q10 <= p[h].q10 /\ t[h].q90 >= p[h].q90
    <2>1. n[h].q10 <= o[h].q10 /\ n[h].q90 >= o[h].q90
        BY <1>1, NestedFacts, UpToFacts DEF n
    <2>2. /\ n[h].q10 \in Int /\ n[h].q90 \in Int /\ o[h].q10 \in Int /\ o[h].q90 \in Int
          /\ p[h].q10 \in Int /\ p[h].q90 \in Int
        BY <1>1 DEF Quantiles
    <2> QED BY <1>2, <1>3, <2>1, <2>2
<1>5. ASSUME NEW h \in Horizons, NEW g \in HorizonsUpTo(h)
      PROVE  t[h].q10 <= t[g].q10 /\ t[h].q90 >= t[g].q90
    <2>1. g \in Horizons
        BY DEF HorizonsUpTo
    <2>2. n[h].q10 <= n[g].q10 /\ n[h].q90 >= n[g].q90
        BY <1>1, NestedFacts DEF n
    <2> QED BY <1>3, <2>1, <2>2
<1>6. t = Targets(p, base, counts)
    BY DEF Targets, o, n, s, t
<1>7. ASSUME NEW h \in Horizons
      PROVE  t[h].q10 + QuantileGap <= t[h].q50 /\ t[h].q50 + QuantileGap <= t[h].q90
    BY <1>3
<1> HIDE DEF t
<1> QED BY <1>1, <1>4, <1>5, <1>6, <1>7

\* Reconciling makes no new crossing, and no interval loses what it held.
LEMMA ReconciledFacts ==
    ASSUME NEW p, Quantiles(p), NEW base, NEW counts
    PROVE  LET after == Reconciled(p, base, counts)
           IN  /\ Crossings(after) \subseteq Crossings(p)
               /\ \A h \in Horizons :
                      /\ after[h].point = p[h].point
                      /\ after[h].q10 \in Int /\ after[h].q10 <= p[h].q10
                      /\ after[h].q90 \in Int /\ after[h].q90 >= p[h].q90
<1> DEFINE t == Targets(p, base, counts)
           after == Reconciled(p, base, counts)
           Toward(from, to) == from + Clip(to - from, -MaxAdjustment, MaxAdjustment)
<1>1. after = [h \in Horizons |-> [p[h] EXCEPT !.q10 = Toward(@, t[h].q10),
                                               !.q50 = Toward(@, t[h].q50),
                                               !.q90 = Toward(@, t[h].q90)]]
    BY TableFacts DEF Reconciled
<1>2. ASSUME NEW a \in Int, NEW b \in Int, NEW c \in Int, NEW d \in Int
      PROVE  /\ Toward(a, b) \in Int
             /\ b <= a => Toward(a, b) <= a
             /\ b >= a => Toward(a, b) >= a
             /\ a <= c /\ b <= d => Toward(a, b) <= Toward(c, d)
             /\ a + QuantileGap <= c /\ b + QuantileGap <= d => Toward(a, b) + QuantileGap <= Toward(c, d)
    BY DEF Clip, MaxAdjustment, QuantileGap
<1> HIDE DEF t, Toward
<1>3. Quantiles(t)
    BY TargetsFacts DEF t
<1>4. ASSUME NEW h \in Horizons
      PROVE  /\ after[h].q10 = Toward(p[h].q10, t[h].q10)
             /\ after[h].q50 = Toward(p[h].q50, t[h].q50)
             /\ after[h].q90 = Toward(p[h].q90, t[h].q90)
             /\ after[h].point = p[h].point
    <2> HIDE DEF after
    <2> QED BY <1>1 DEF Quantiles
<1> HIDE DEF after
<1>5. ASSUME NEW h \in Horizons
      PROVE  /\ p[h].q10 \in Int /\ p[h].q50 \in Int /\ p[h].q90 \in Int
             /\ t[h].q10 \in Int /\ t[h].q50 \in Int /\ t[h].q90 \in Int
             /\ after[h].q10 \in Int /\ after[h].q50 \in Int /\ after[h].q90 \in Int
    <2>1. /\ p[h].q10 \in Int /\ p[h].q50 \in Int /\ p[h].q90 \in Int
          /\ t[h].q10 \in Int /\ t[h].q50 \in Int /\ t[h].q90 \in Int
        BY <1>3 DEF Quantiles
    <2>2. /\ Toward(p[h].q10, t[h].q10) \in Int /\ Toward(p[h].q50, t[h].q50) \in Int
          /\ Toward(p[h].q90, t[h].q90) \in Int
        BY <1>2, <2>1
    <2> QED BY <1>4, <2>1, <2>2
<1>6. ASSUME NEW h \in Horizons
      PROVE  /\ after[h].q10 <= p[h].q10 /\ after[h].q90 >= p[h].q90
             /\ p[h].q10 + QuantileGap <= p[h].q50 => after[h].q10 + QuantileGap <= after[h].q50
             /\ p[h].q50 + QuantileGap <= p[h].q90 => after[h].q50 + QuantileGap <= after[h].q90
    <2>1. /\ t[h].q10 <= p[h].q10 /\ t[h].q90 >= p[h].q90
          /\ t[h].q10 + QuantileGap <= t[h].q50 /\ t[h].q50 + QuantileGap <= t[h].q90
        BY TargetsFacts DEF t
    <2>2. after[h].q10 <= p[h].q10 /\ after[h].q90 >= p[h].q90
        <3>1. Toward(p[h].q10, t[h].q10) <= p[h].q10
            BY <1>2, <1>5, <2>1
        <3>2. Toward(p[h].q90, t[h].q90) >= p[h].q90
            BY <1>2, <1>5, <2>1
        <3> QED BY <1>4, <3>1, <3>2
    <2>3. ASSUME p[h].q10 + QuantileGap <= p[h].q50 PROVE after[h].q10 + QuantileGap <= after[h].q50
        <3>1. Toward(p[h].q10, t[h].q10) + QuantileGap <= Toward(p[h].q50, t[h].q50)
            BY <1>2, <1>5, <2>1, <2>3
        <3> QED BY <1>4, <3>1
    <2>4. ASSUME p[h].q50 + QuantileGap <= p[h].q90 PROVE after[h].q50 + QuantileGap <= after[h].q90
        <3>1. Toward(p[h].q50, t[h].q50) + QuantileGap <= Toward(p[h].q90, t[h].q90)
            BY <1>2, <1>5, <2>1, <2>4
        <3> QED BY <1>4, <3>1
    <2> QED BY <2>2, <2>3, <2>4
<1>7. ASSUME NEW m \in Neighbours
      PROVE  /\ m[1] \in Horizons /\ m[2] \in Horizons
             /\ p[m[2]].q10 <= p[m[1]].q10 => after[m[2]].q10 <= after[m[1]].q10
             /\ p[m[1]].q90 <= p[m[2]].q90 => after[m[1]].q90 <= after[m[2]].q90
    <2>1. m[1] \in Horizons /\ m[2] \in Horizons /\ m[1] < m[2]
        BY DEF Neighbours
    <2>2. m[1] \in HorizonsUpTo(m[2])
        <3>1. m[1] \in Nat /\ m[2] \in Nat
            BY <2>1, EngineAssumption
        <3> QED BY <2>1, <3>1 DEF HorizonsUpTo
    <2>3. t[m[2]].q10 <= t[m[1]].q10 /\ t[m[2]].q90 >= t[m[1]].q90
        BY <2>1, <2>2, TargetsFacts DEF t
    <2>4. t[m[1]].q90 <= t[m[2]].q90
        BY <1>5, <2>1, <2>3
    <2>5. ASSUME p[m[2]].q10 <= p[m[1]].q10 PROVE after[m[2]].q10 <= after[m[1]].q10
        <3>1. Toward(p[m[2]].q10, t[m[2]].q10) <= Toward(p[m[1]].q10, t[m[1]].q10)
            BY <1>2, <1>5, <2>1, <2>3, <2>5
        <3> QED BY <1>4, <2>1, <3>1
    <2>6. ASSUME p[m[1]].q90 <= p[m[2]].q90 PROVE after[m[1]].q90 <= after[m[2]].q90
        <3>1. Toward(p[m[1]].q90, t[m[1]].q90) <= Toward(p[m[2]].q90, t[m[2]].q90)
            BY <1>2, <1>5, <2>1, <2>4, <2>6
        <3> QED BY <1>4, <2>1, <3>1
    <2> QED BY <2>1, <2>5, <2>6
<1>8. ASSUME NEW h \in Horizons
      PROVE  /\ after[h].q50 - after[h].q10 < QuantileGap => p[h].q50 - p[h].q10 < QuantileGap
             /\ after[h].q90 - after[h].q50 < QuantileGap => p[h].q90 - p[h].q50 < QuantileGap
    BY <1>5, <1>6 DEF QuantileGap
<1>9. ASSUME NEW m \in Neighbours
      PROVE  /\ after[m[2]].q10 > after[m[1]].q10 => p[m[2]].q10 > p[m[1]].q10
             /\ after[m[2]].q90 < after[m[1]].q90 => p[m[2]].q90 < p[m[1]].q90
    BY <1>5, <1>7
<1>10. Crossings(after) \subseteq Crossings(p)
    BY <1>8, <1>9 DEF Crossings
<1> QED BY <1>4, <1>5, <1>6, <1>10 DEF after

\* The forecast that is published is looked at again only where it crossed before it
\* was reconciled.  That is enough: where it was not refused, it crosses nowhere, and a
\* point that was inside its interval still is.
THEOREM ReconcilingIsEnough ==
    ASSUME NEW p, Quantiles(p), NEW base, NEW counts, ~Raises(Coherence(p, base, counts))
    PROVE  LET after == Coherence(p, base, counts).predictions
           IN  /\ Crossings(after) = {}
               /\ \A h \in Horizons :
                      p[h].point \in Int /\ p[h].q10 < p[h].point /\ p[h].point < p[h].q90
                          => after[h].q10 < after[h].point /\ after[h].point < after[h].q90
<1> DEFINE c == Coherence(p, base, counts)
           after == Reconciled(p, base, counts)
<1>1. c.predictions = after /\ Crossings(p) \cap Crossings(after) \subseteq c.unrecoverable
    BY DEF Coherence
<1>2. c.unrecoverable = {}
    BY DEF Raises
<1>3. Crossings(after) = {}
    BY <1>1, <1>2, ReconciledFacts
<1>4. ASSUME NEW h \in Horizons, p[h].point \in Int, p[h].q10 < p[h].point, p[h].point < p[h].q90
      PROVE  after[h].q10 < after[h].point /\ after[h].point < after[h].q90
    <2>1. p[h].q10 \in Int /\ p[h].q90 \in Int
        BY DEF Quantiles
    <2>2. /\ after[h].point = p[h].point
          /\ after[h].q10 \in Int /\ after[h].q10 <= p[h].q10
          /\ after[h].q90 \in Int /\ after[h].q90 >= p[h].q90
        BY ReconciledFacts
    <2> HIDE DEF after
    <2> QED BY <1>4, <2>1, <2>2
<1> HIDE DEF after, c
<1> QED BY <1>1, <1>3, <1>4 DEF c

-----------------------------------------------------------------------------
(* The folds of a cross-validation. *)

\* Where the j-th of k chunks starts.
ChunkStart(first, last, k, j) ==
    first + (j - 1) * ((last - first + 1) \div k) + Min({j - 1, (last - first + 1) % k})

\* What is left of a division.
LEMMA DivisionFacts ==
    ASSUME NEW n \in Nat, NEW k \in Nat \ {0}
    PROVE  /\ n \div k \in Nat /\ n % k \in 0 .. k - 1
           /\ n = k * (n \div k) + (n % k)
           /\ k <= n => n \div k >= 1
<1>1. n \div k \in Nat /\ n % k \in 0 .. k - 1 /\ n = k * (n \div k) + (n % k)
    OBVIOUS
<1> DEFINE q == n \div k
           r == n % k
<1>2. ASSUME k <= n PROVE q >= 1
    <2> HIDE DEF q, r
    <2>1. q \in Nat /\ r \in 0 .. k - 1 /\ n = k * q + r
        BY <1>1 DEF q, r
    <2>2. q = 0 => k * q = 0
        OBVIOUS
    <2> QED BY <1>2, <2>1, <2>2
<1> QED BY <1>1, <1>2

\* The chunks are as long as the shares of their elements, and the first ones may be
\* one longer.
LEMMA ChunkFacts ==
    ASSUME NEW first \in Int, NEW last \in Int, NEW k \in Nat \ {0}, k <= last - first + 1
    PROVE  /\ ChunkStart(first, last, k, 1) = first
           /\ ChunkStart(first, last, k, k + 1) = last + 1
           /\ \A j \in 1 .. k + 1 : ChunkStart(first, last, k, j) \in Int
           /\ \A i, j \in 1 .. k + 1 : i <= j => ChunkStart(first, last, k, i) <= ChunkStart(first, last, k, j)
           /\ \A j \in 1 .. k : /\ ChunkStart(first, last, k, j) < ChunkStart(first, last, k, j + 1)
                                /\ Chunk(first, last, k, j) = ChunkStart(first, last, k, j)
                                                              .. ChunkStart(first, last, k, j + 1) - 1
<1> DEFINE n == last - first + 1
           q == n \div k
           r == n % k
           start(j) == ChunkStart(first, last, k, j)
<1>1. n \in Nat /\ q \in Nat /\ r \in 0 .. k - 1 /\ n = k * q + r /\ q >= 1 /\ n = last - first + 1
    <2>1. n \in Nat /\ k <= n /\ n = last - first + 1
        OBVIOUS
    <2> HIDE DEF n
    <2> QED BY <2>1, DivisionFacts
<1> DEFINE extra(j) == Min({j - 1, r})
<1>2. \A j : start(j) = first + (j - 1) * q + extra(j)
    BY DEF ChunkStart
<1>3. \A j \in 1 .. k : Chunk(first, last, k, j) = start(j) .. start(j + 1) - 1
    BY DEF Chunk, ChunkStart
<1> HIDE DEF n, q, r, start
<1>4. ASSUME NEW j \in 1 .. k + 1
      PROVE  /\ extra(j) = IF j - 1 <= r THEN j - 1 ELSE r
             /\ (j - 1) * q \in Int /\ extra(j) \in Int
    <2>1. j - 1 \in Int /\ r \in Int
        BY <1>1
    <2>2. Min({j - 1, r}) \in {j - 1, r} /\ Min({j - 1, r}) <= j - 1 /\ Min({j - 1, r}) <= r
        BY <2>1, PairFacts
    <2>3. Min({j - 1, r}) = IF j - 1 <= r THEN j - 1 ELSE r
        BY <2>1, <2>2
    <2> QED BY <1>1, <2>1, <2>3
<1> HIDE DEF extra
<1>5. \A j \in 1 .. k + 1 : start(j) \in Int
    BY <1>1, <1>2, <1>4
<1>6. start(1) = first
    <2>1. 1 \in 1 .. k + 1 /\ (1 - 1) * q = 0
        BY <1>1
    <2>2. extra(1) = 0
        BY <1>1, <1>4, <2>1
    <2> QED BY <1>2, <2>1, <2>2
<1>7. start(k + 1) = last + 1
    <2>1. k + 1 \in 1 .. k + 1 /\ ((k + 1) - 1) = k
        OBVIOUS
    <2>2. extra(k + 1) = r
        BY <1>1, <1>4, <2>1
    <2>3. start(k + 1) = first + k * q + r
        BY <1>2, <2>1, <2>2
    <2> DEFINE m == k * q
    <2>4. m \in Int
        BY <1>1
    <2> HIDE DEF m
    <2> QED BY <1>1, <2>3, <2>4 DEF m
<1>8. ASSUME NEW j \in 1 .. k PROVE start(j) < start(j + 1)
    <2>1. j \in 1 .. k + 1 /\ j + 1 \in 1 .. k + 1 /\ (j + 1) - 1 = j
        OBVIOUS
    <2> DEFINE a == (j - 1) * q
               b == j * q
    <2>2. b = a + q /\ a \in Int
        BY <1>1
    <2>3. /\ start(j) = first + a + (IF j - 1 <= r THEN j - 1 ELSE r)
          /\ start(j + 1) = first + b + (IF j <= r THEN j ELSE r)
        BY <1>2, <1>4, <2>1
    <2> HIDE DEF a, b
    <2> QED BY <1>1, <2>2, <2>3
<1>9. ASSUME NEW i \in 1 .. k + 1, NEW j \in 1 .. k + 1, i <= j PROVE start(i) <= start(j)
    <2> DEFINE a == (i - 1) * q
               b == (j - 1) * q
               c == (j - i) * q
    <2>1. b = a + c
        BY <1>1
    <2>2. a \in Int /\ c \in Nat
        BY <1>1, <1>9
    <2>3. /\ start(i) = first + a + (IF i - 1 <= r THEN i - 1 ELSE r)
          /\ start(j) = first + b + (IF j - 1 <= r THEN j - 1 ELSE r)
        BY <1>2, <1>4
    <2> HIDE DEF a, b, c
    <2> QED BY <1>1, <1>9, <2>1, <2>2, <2>3
<1> QED BY <1>3, <1>5, <1>6, <1>7, <1>8, <1>9 DEF start

\* Numbers that grow lie between two neighbours of a growing sequence of bounds.
LEMMA BetweenBounds ==
    ASSUME NEW k \in Nat \ {0}, NEW bound \in [1 .. k + 1 -> Int],
           NEW x \in Int, bound[1] <= x, x < bound[k + 1]
    PROVE  \E j \in 1 .. k : bound[j] <= x /\ x < bound[j + 1]
<1> DEFINE S == {j \in 1 .. k : bound[j] <= x}
<1>1. S \in SUBSET Int /\ S # {}
    <2>1. 1 \in S
        OBVIOUS
    <2> QED BY <2>1
<1>2. IsFiniteSet(S)
    <2>1. IsFiniteSet(1 .. k)
        BY FS_Interval
    <2>2. S \subseteq 1 .. k
        OBVIOUS
    <2> HIDE DEF S
    <2> QED BY <2>1, <2>2, FS_Subset
<1>3. PICK m \in S : \A j \in S : j <= m
    <2> HIDE DEF S
    <2> QED BY <1>1, <1>2, GreatestExists
<1>4. CASE m = k
    BY <1>3, <1>4
<1>5. CASE m # k
    <2>1. m + 1 \in 1 .. k /\ m + 1 \notin S
        BY <1>3, <1>5
    <2> QED BY <1>3, <2>1
<1> QED BY <1>4, <1>5

\* The elements of a set of numbers, in order.
LEMMA AscendingFacts ==
    ASSUME NEW S \in SUBSET Int, IsFiniteSet(S)
    PROVE  /\ Cardinality(S) \in Nat
           /\ Ascending(S) \in [1 .. Cardinality(S) -> S]
           /\ \A i, j \in 1 .. Cardinality(S) : i < j => Ascending(S)[i] < Ascending(S)[j]
           /\ \A x \in S : \E i \in 1 .. Cardinality(S) : Ascending(S)[i] = x
<1> DEFINE c == Cardinality(S)
           Below(x) == {y \in S : y < x}
           rank(x) == Cardinality(Below(x))
           place == [x \in S |-> rank(x) + 1]
           element(i) == CHOOSE x \in S : rank(x) = i - 1
<1>1. c \in Nat
    BY FS_CardinalityType
<1>0. ASSUME NEW x \in S PROVE IsFiniteSet(Below(x)) /\ rank(x) \in Nat
    BY FS_Subset, FS_CardinalityType
<1>2. \A x \in S : rank(x) \in Nat
    BY <1>0
<1>3. ASSUME NEW x \in S PROVE rank(x) < c
    <2>1. Below(x) \subseteq S /\ x \notin Below(x)
        OBVIOUS
    <2> HIDE DEF Below
    <2>2. rank(x) <= c /\ (c = rank(x) => S = Below(x))
        BY <2>1, FS_Subset
    <2> QED BY <1>0, <1>1, <2>1, <2>2
<1>4. ASSUME NEW x \in S, NEW y \in S, x < y PROVE rank(x) < rank(y)
    <2>1. Below(x) \subseteq Below(y) /\ x \in Below(y) /\ x \notin Below(x)
        <3>1. x \in Int /\ y \in Int /\ \A z \in S : z \in Int
            OBVIOUS
        <3>2. \A z \in S : z < x => z < y
            BY <1>4, <3>1
        <3>3. ~(x < x)
            BY <3>1
        <3> QED BY <1>4, <3>2, <3>3
    <2>2. IsFiniteSet(Below(y)) /\ rank(x) \in Nat /\ rank(y) \in Nat
        BY <1>0
    <2> HIDE DEF Below
    <2>3. rank(x) <= rank(y) /\ (rank(y) = rank(x) => Below(y) = Below(x))
        BY <2>1, <2>2, FS_Subset
    <2> QED BY <2>1, <2>2, <2>3
<1>5. Ascending(S) = [i \in 1 .. c |-> element(i)]
    BY DEF Ascending
<1> HIDE DEF c, rank
<1>6. ASSUME NEW i \in 1 .. c PROVE \E x \in S : rank(x) = i - 1
    <2>1. place \in [S -> 1 .. c]
        BY <1>1, <1>2, <1>3
    <2>2. ASSUME NEW x \in S, NEW y \in S, place[x] = place[y] PROVE x = y
        <3>1. rank(x) = rank(y)
            BY <1>2, <2>2
        <3>2. ~(x < y) /\ ~(y < x)
            BY <1>2, <1>4, <3>1
        <3> QED BY <3>2
    <2> HIDE DEF place
    <2>3. place \in Injection(S, 1 .. c)
        BY <2>1, <2>2 DEF Injection, IsInjective
    <2>4. IsFiniteSet(1 .. c) /\ Cardinality(1 .. c) = c
        BY <1>1, FS_Interval
    <2>5. place \in Surjection(S, 1 .. c)
        BY <2>3, <2>4, FS_Injection DEF c
    <2>6. PICK x \in S : place[x] = i
        BY <2>5 DEF Surjection
    <2>7. rank(x) + 1 = i
        BY <2>6 DEF place
    <2> QED BY <1>2, <2>7
<1>7. \A i \in 1 .. c : element(i) \in S /\ rank(element(i)) = i - 1
    BY <1>6
<1> HIDE DEF element
<1>8. Ascending(S) \in [1 .. c -> S]
    BY <1>5, <1>7
<1>9. ASSUME NEW i \in 1 .. c, NEW j \in 1 .. c, i < j PROVE Ascending(S)[i] < Ascending(S)[j]
    <2>1. /\ Ascending(S)[i] = element(i) /\ Ascending(S)[j] = element(j)
          /\ element(i) \in S /\ element(j) \in S
        BY <1>5, <1>7
    <2> DEFINE x == element(i)
               y == element(j)
    <2>2. rank(x) = i - 1 /\ rank(y) = j - 1 /\ x \in S /\ y \in S
        BY <1>7
    <2> HIDE DEF x, y
    <2>3. rank(x) < rank(y) /\ rank(x) \in Nat /\ rank(y) \in Nat
        BY <1>2, <1>9, <2>2
    <2>4. x # y /\ ~(y < x)
        BY <1>4, <2>2, <2>3
    <2>5. x < y
        BY <2>2, <2>4
    <2> QED BY <2>1, <2>5 DEF x, y
<1>10. ASSUME NEW x \in S PROVE \E i \in 1 .. c : Ascending(S)[i] = x
    <2> DEFINE i == rank(x) + 1
    <2>1. i \in 1 .. c /\ i - 1 = rank(x)
        BY <1>1, <1>2, <1>3
    <2> DEFINE y == element(i)
    <2>2. y \in S /\ rank(y) = rank(x) /\ Ascending(S)[i] = y
        BY <1>5, <1>7, <2>1
    <2> HIDE DEF i, y
    <2>3. ~(x < y) /\ ~(y < x)
        BY <1>2, <1>4, <2>2
    <2>4. x = y
        BY <2>2, <2>3
    <2> QED BY <2>1, <2>2, <2>4
<1> QED BY <1>1, <1>8, <1>9, <1>10 DEF c

\* Folds that are chunks of the origins after the first ones, each with what is eligible
\* before it.
Chunked(folds, at, settings) ==
    \E k \in Nat \ {0} : \E start \in [1 .. k + 1 -> 1 .. Len(at) + 1] :
        /\ start[1] = settings.least + 1 /\ start[k + 1] = Len(at) + 1
        /\ \A i, j \in 1 .. k + 1 : i <= j => start[i] <= start[j]
        /\ \A i \in 1 .. k : /\ start[i] < start[i + 1] /\ Min(start[i] .. start[i + 1] - 1) = start[i]
                             /\ Eligible(at, start[i], settings) # {}
        /\ folds = [i \in 1 .. k |-> [train |-> Eligible(at, start[i], settings),
                                      validation |-> start[i] .. start[i + 1] - 1]]

LEMMA FoldFacts ==
    ASSUME NEW at \in Seq(Int), NEW longest \in Nat, NEW settings,
           settings.folds \in Int, settings.least \in Int, settings.purge \in Int, settings.embargo \in Int,
           Folds(at, settings, longest) # Missing
    PROVE  /\ settings.least >= 1 /\ settings.least < Len(at) /\ settings.purge >= longest /\ settings.embargo >= 0
           /\ Chunked(Folds(at, settings, longest), at, settings)
<1> DEFINE n == Len(at)
           first == settings.least + 1
           k == Min({settings.folds, n - settings.least})
           start(j) == ChunkStart(first, n, k, j)
           folds == Folds(at, settings, longest)
           validation(i) == Chunk(first, n, k, i)
           train(i) == Eligible(at, Min(validation(i)), settings)
<1>1. /\ n \in Nat /\ n >= 2
      /\ settings.folds >= 1 /\ settings.least >= 1 /\ settings.least < n
      /\ settings.purge >= longest /\ settings.embargo >= 0
    <2>1. ~Refuses(at, settings, longest)
        BY DEF Folds
    <2> QED BY <2>1 DEF Refuses
<1>2. k \in Nat \ {0} /\ k <= n - settings.least
    <2>1. n - settings.least \in Int
        BY <1>1
    <2>2. k \in {settings.folds, n - settings.least} /\ k <= n - settings.least
        BY <2>1, PairFacts
    <2> HIDE DEF k
    <2> QED BY <1>1, <2>2
<1>3. /\ folds = [i \in 1 .. k |-> [train |-> train(i), validation |-> validation(i)]]
      /\ \A i \in 1 .. k : train(i) # {}
    BY DEF Folds
<1> HIDE DEF k
<1>4. first \in Int /\ n \in Int /\ k <= n - first + 1
    BY <1>1, <1>2
<1>5. /\ start(1) = first /\ start(k + 1) = n + 1
      /\ \A j \in 1 .. k + 1 : start(j) \in Int
      /\ \A i, j \in 1 .. k + 1 : i <= j => start(i) <= start(j)
      /\ \A j \in 1 .. k : start(j) < start(j + 1) /\ validation(j) = start(j) .. start(j + 1) - 1
    <2> HIDE DEF n, first
    <2>1. start(1) = first /\ start(k + 1) = n + 1
        BY <1>2, <1>4, ChunkFacts
    <2>2. \A j \in 1 .. k + 1 : start(j) \in Int
        BY <1>2, <1>4, ChunkFacts
    <2>3. \A i, j \in 1 .. k + 1 : i <= j => start(i) <= start(j)
        BY <1>2, <1>4, ChunkFacts
    <2>4. \A j \in 1 .. k : start(j) < start(j + 1) /\ validation(j) = start(j) .. start(j + 1) - 1
        BY <1>2, <1>4, ChunkFacts, ZenonT(40)
    <2> QED BY <2>1, <2>2, <2>3, <2>4
<1> HIDE DEF start, validation, folds, train
<1>11. ASSUME NEW i \in 1 .. k
       PROVE  /\ i \in 1 .. k + 1 /\ i + 1 \in 1 .. k + 1
              /\ start(i) \in Int /\ start(i + 1) \in Int
    <2>1. i \in 1 .. k + 1 /\ i + 1 \in 1 .. k + 1
        BY <1>2
    <2> QED BY <1>5, <2>1
<1>6. ASSUME NEW i \in 1 .. k PROVE Min(validation(i)) = start(i) /\ start(i) \in 1 .. n
    <2>1. start(i) \in Int /\ start(i + 1) \in Int /\ start(i) < start(i + 1)
        BY <1>5, <1>11
    <2>2. start(1) <= start(i) /\ start(i + 1) <= start(k + 1)
        <3>1. 1 \in 1 .. k + 1 /\ k + 1 \in 1 .. k + 1 /\ 1 <= i /\ i + 1 <= k + 1
            BY <1>2
        <3> QED BY <1>5, <1>11, <3>1
    <2> DEFINE V == start(i) .. start(i + 1) - 1
    <2>3. V = validation(i) /\ V \in SUBSET Int /\ start(i) \in V
        BY <1>5, <2>1
    <2>4. start(i + 1) - 1 \in Int
        BY <2>1
    <2>5. IsFiniteSet(V)
        BY <2>1, <2>4, FS_Interval
    <2>6. \A x \in V : start(i) <= x
        BY <2>1
    <2> HIDE DEF V
    <2>7. Min(V) \in V /\ \A x \in V : Min(V) <= x
        BY <2>3, <2>5, MinFacts
    <2>8. Min(V) = start(i)
        BY <2>3, <2>6, <2>7
    <2>9. start(i) \in 1 .. n
        <3>1. first \in Int /\ first >= 1 /\ n \in Nat
            BY <1>1
        <3> HIDE DEF n, first
        <3> QED BY <1>5, <2>1, <2>2, <3>1
    <2> QED BY <2>3, <2>8, <2>9
<1> DEFINE place == [j \in 1 .. k + 1 |-> start(j)]
<1>7. ASSUME NEW j \in 1 .. k + 1 PROVE place[j] = start(j) /\ start(j) \in 1 .. n + 1
    <2>1. 1 \in 1 .. k + 1 /\ k + 1 \in 1 .. k + 1 /\ 1 <= j /\ j <= k + 1
        BY <1>2
    <2>2. start(1) <= start(j) /\ start(j) <= start(k + 1) /\ start(j) \in Int
        BY <1>5, <2>1
    <2>3. start(1) >= 1 /\ start(k + 1) = n + 1 /\ n \in Nat
        BY <1>1, <1>5
    <2>4. place[j] = start(j)
        OBVIOUS
    <2> HIDE DEF n, place
    <2>5. start(j) \in 1 .. n + 1
        BY <1>5, <2>2, <2>3
    <2> QED BY <2>4, <2>5
<1>8. ASSUME NEW i \in 1 .. k
      PROVE  /\ place[i] = start(i) /\ place[i + 1] = start(i + 1) /\ place[i] < place[i + 1]
             /\ Min(place[i] .. place[i + 1] - 1) = place[i]
             /\ train(i) = Eligible(at, place[i], settings) /\ train(i) # {}
             /\ validation(i) = place[i] .. place[i + 1] - 1
    <2>1. place[i] = start(i) /\ place[i + 1] = start(i + 1)
        BY <1>7, <1>11
    <2>2. validation(i) = start(i) .. start(i + 1) - 1 /\ start(i) < start(i + 1)
        BY <1>5
    <2>3. train(i) = Eligible(at, start(i), settings) /\ train(i) # {}
        BY <1>3, <1>6 DEF train
    <2> HIDE DEF place
    <2> QED BY <1>6, <2>1, <2>2, <2>3
<1>9. place \in [1 .. k + 1 -> 1 .. n + 1]
    BY <1>7
<1>10. place[1] = first /\ place[k + 1] = n + 1
    BY <1>2, <1>5
<1>12. \A i, j \in 1 .. k + 1 : i <= j => place[i] <= place[j]
    BY <1>5, <1>7
<1> HIDE DEF place
<1>13. folds = [i \in 1 .. k |-> [train |-> Eligible(at, place[i], settings),
                                 validation |-> place[i] .. place[i + 1] - 1]]
    BY <1>3, <1>8
<1>14. Chunked(folds, at, settings)
    BY <1>2, <1>8, <1>9, <1>10, <1>12, <1>13 DEF Chunked
<1> QED BY <1>1, <1>14 DEF folds

\* what is eligible lies before
LEMMA EligibleFacts ==
    ASSUME NEW at, NEW first, NEW settings
    PROVE  /\ Eligible(at, first, settings) \subseteq 1 .. first - 1
           /\ \A i \in Eligible(at, first, settings) :
                 at[i] <= at[first] - Hour * (settings.purge + settings.embargo)
BY DEF Eligible

\* what is eligible was due, the embargo away
LEMMA EligibleIsDue ==
    ASSUME NEW at \in Seq(Int), NEW first \in 1 .. Len(at), NEW settings, NEW longest \in Nat,
           settings.purge \in Int, settings.embargo \in Int, settings.purge >= longest
    PROVE  \A j \in Eligible(at, first, settings) :
              /\ j \in 1 .. Len(at) /\ j < first
              /\ at[j] + Hour * (longest + settings.embargo) <= at[first]
<1> SUFFICES ASSUME NEW j \in Eligible(at, first, settings)
             PROVE  /\ j \in 1 .. Len(at) /\ j < first
                    /\ at[j] + Hour * (longest + settings.embargo) <= at[first]
    OBVIOUS
<1> DEFINE a == at[j]
           b == at[first]
           p == settings.purge
           e == settings.embargo
<1>1. j \in 1 .. first - 1 /\ a <= b - Hour * (p + e)
    BY EligibleFacts
<1>2. j \in 1 .. Len(at) /\ j < first
    BY <1>1
<1>3. a \in Int /\ b \in Int /\ p \in Int /\ e \in Int /\ p >= longest
    BY <1>2
<1> HIDE DEF a, b, p, e
<1>4. a + Hour * (longest + e) <= b
    BY <1>1, <1>3 DEF Hour
<1> QED BY <1>2, <1>4 DEF a, b, e

\* Folds are of the origins there are.
LEMMA ChunkedWithin ==
    ASSUME NEW at \in Seq(Int), NEW settings, NEW folds, Chunked(folds, at, settings)
    PROVE  \A i \in DOMAIN folds :
              /\ folds[i].train \subseteq 1 .. Len(at) /\ folds[i].validation \subseteq 1 .. Len(at)
              /\ Min(folds[i].validation) \in 1 .. Len(at)
              /\ folds[i].train = Eligible(at, Min(folds[i].validation), settings)
<1> DEFINE n == Len(at)
<1>0. n \in Nat
    OBVIOUS
<1> HIDE DEF n
<1>1. PICK k \in Nat \ {0} : \E start \in [1 .. k + 1 -> 1 .. n + 1] :
        /\ \A i \in 1 .. k : start[i] < start[i + 1] /\ Min(start[i] .. start[i + 1] - 1) = start[i]
        /\ folds = [i \in 1 .. k |-> [train |-> Eligible(at, start[i], settings),
                                      validation |-> start[i] .. start[i + 1] - 1]]
    BY DEF Chunked, n
<1>2. PICK start \in [1 .. k + 1 -> 1 .. n + 1] :
        /\ \A i \in 1 .. k : start[i] < start[i + 1] /\ Min(start[i] .. start[i + 1] - 1) = start[i]
        /\ folds = [i \in 1 .. k |-> [train |-> Eligible(at, start[i], settings),
                                      validation |-> start[i] .. start[i + 1] - 1]]
    BY <1>1
<1>3. DOMAIN folds = 1 .. k
    BY <1>2
<1>4. ASSUME NEW i \in 1 .. k
      PROVE  /\ folds[i].train \subseteq 1 .. n /\ folds[i].validation \subseteq 1 .. n
             /\ Min(folds[i].validation) \in 1 .. n
             /\ folds[i].train = Eligible(at, Min(folds[i].validation), settings)
    <2> DEFINE a == start[i]
               b == start[i + 1]
    <2>1. /\ folds[i].train = Eligible(at, a, settings) /\ folds[i].validation = a .. b - 1
          /\ Min(a .. b - 1) = a /\ a < b
        BY <1>2
    <2>2. a \in 1 .. n + 1 /\ b \in 1 .. n + 1
        <3>1. i \in 1 .. k + 1 /\ i + 1 \in 1 .. k + 1
            OBVIOUS
        <3> QED BY <1>2, <3>1
    <2> HIDE DEF a, b
    <2>3. a \in 1 .. n /\ a .. b - 1 \subseteq 1 .. n /\ 1 .. a - 1 \subseteq 1 .. n
        BY <1>0, <2>1, <2>2
    <2>4. Eligible(at, a, settings) \subseteq 1 .. a - 1
        BY EligibleFacts
    <2> QED BY <2>1, <2>3, <2>4
<1> QED BY <1>3, <1>4 DEF n

\* Folds that are built keep their word (assert_no_fold_leakage): what is trained on was
\* due before the validation starts, the embargo away, and every origin after the first
\* ones is validated exactly once.
THEOREM FoldsDoNotLeak ==
    ASSUME NEW at \in Seq(Int), NEW longest \in Nat, NEW settings,
           settings.folds \in Int, settings.least \in Int, settings.purge \in Int, settings.embargo \in Int,
           Folds(at, settings, longest) # Missing
    PROVE  LET folds == Folds(at, settings, longest)
           IN  /\ \A i \in DOMAIN folds : folds[i].train # {} /\ ~Leaks(folds[i], at, settings, longest)
               /\ \A x \in 1 .. Len(at) :
                      IF x <= settings.least THEN \A i \in DOMAIN folds : x \notin folds[i].validation
                      ELSE \E i \in DOMAIN folds : \A j \in DOMAIN folds : x \in folds[j].validation <=> i = j
<1> DEFINE n == Len(at)
           folds == Folds(at, settings, longest)
           least == settings.least
<1>1. least >= 1 /\ settings.purge >= longest /\ Chunked(folds, at, settings) /\ n \in Nat
    BY FoldFacts
<1> HIDE DEF n, folds
<1>2. PICK k \in Nat \ {0} : \E start \in [1 .. k + 1 -> 1 .. n + 1] :
        /\ start[1] = least + 1 /\ start[k + 1] = n + 1
        /\ \A i, j \in 1 .. k + 1 : i <= j => start[i] <= start[j]
        /\ \A i \in 1 .. k : start[i] < start[i + 1] /\ Eligible(at, start[i], settings) # {}
        /\ folds = [i \in 1 .. k |-> [train |-> Eligible(at, start[i], settings),
                                      validation |-> start[i] .. start[i + 1] - 1]]
    BY <1>1 DEF Chunked, n
<1>3. PICK start \in [1 .. k + 1 -> 1 .. n + 1] :
        /\ start[1] = least + 1 /\ start[k + 1] = n + 1
        /\ \A i, j \in 1 .. k + 1 : i <= j => start[i] <= start[j]
        /\ \A i \in 1 .. k : start[i] < start[i + 1] /\ Eligible(at, start[i], settings) # {}
        /\ folds = [i \in 1 .. k |-> [train |-> Eligible(at, start[i], settings),
                                      validation |-> start[i] .. start[i + 1] - 1]]
    BY <1>2
<1>4. DOMAIN folds = 1 .. k /\ \A i \in 1 .. k : folds[i].validation = start[i] .. start[i + 1] - 1
    BY <1>3
<1>5. ASSUME NEW i \in 1 .. k
      PROVE  /\ i \in 1 .. k + 1 /\ i + 1 \in 1 .. k + 1 /\ start[i] \in Int /\ start[i + 1] \in Int
             /\ start[1] <= start[i]
    <2>1. i \in 1 .. k + 1 /\ i + 1 \in 1 .. k + 1 /\ 1 \in 1 .. k + 1 /\ 1 <= i
        BY <1>2
    <2>2. \A j \in 1 .. k + 1 : start[j] \in Int
        BY <1>1, <1>3
    <2> QED BY <1>3, <2>1, <2>2
<1>6. ASSUME NEW i \in 1 .. k PROVE folds[i].train # {} /\ ~Leaks(folds[i], at, settings, longest)
    <2> DEFINE s == Min(folds[i].validation)
    <2>1. s \in 1 .. Len(at) /\ folds[i].train = Eligible(at, s, settings)
        BY <1>1, <1>4, ChunkedWithin
    <2>2. folds[i].train # {}
        BY <1>3
    <2> HIDE DEF s
    <2>3. ASSUME NEW j \in Eligible(at, s, settings)
          PROVE  ~(j >= s) /\ ~(at[j] + Hour * longest > at[s] - Hour * settings.embargo)
        <3> DEFINE a == at[j]
                   b == at[s]
                   e == settings.embargo
        <3>1. j \in 1 .. Len(at) /\ j < s /\ a + Hour * (longest + e) <= b
            BY <1>1, <2>1, EligibleIsDue
        <3>2. a \in Int /\ b \in Int /\ e \in Int
            BY <2>1, <3>1
        <3> HIDE DEF a, b, e
        <3>3. ~(a + Hour * longest > b - Hour * e)
            BY <3>1, <3>2 DEF Hour
        <3>4. ~(j >= s)
            BY <2>1, <3>1
        <3> QED BY <3>3, <3>4 DEF a, b, e
    <2>4. ~Leaks(folds[i], at, settings, longest)
        BY <2>1, <2>3 DEF Leaks, s
    <2> QED BY <2>2, <2>4
<1>8. least \in Int
    OBVIOUS
<1> HIDE DEF least
<1>7. ASSUME NEW x \in 1 .. n, x <= least, NEW i \in DOMAIN folds PROVE x \notin folds[i].validation
    <2>1. start[i] \in Int /\ start[i + 1] \in Int /\ least + 1 <= start[i] /\ x \in Int
        BY <1>1, <1>3, <1>4, <1>5
    <2>2. folds[i].validation = start[i] .. start[i + 1] - 1
        BY <1>4
    <2> QED BY <1>7, <1>8, <2>1, <2>2
<1>9. ASSUME NEW x \in 1 .. n, ~(x <= least)
      PROVE  \E i \in DOMAIN folds : \A j \in DOMAIN folds : x \in folds[j].validation <=> i = j
    <2>1. start[1] <= x /\ x < start[k + 1] /\ x \in Int
        BY <1>1, <1>3, <1>8, <1>9
    <2>2. start \in [1 .. k + 1 -> Int]
        BY <1>1, <1>3
    <2>3. PICK i \in 1 .. k : start[i] <= x /\ x < start[i + 1]
        BY <2>1, <2>2, BetweenBounds
    <2>4. ASSUME NEW j \in 1 .. k PROVE x \in folds[j].validation <=> i = j
        <3>1. /\ start[i] \in Int /\ start[i + 1] \in Int /\ start[j] \in Int /\ start[j + 1] \in Int
              /\ i \in 1 .. k + 1 /\ i + 1 \in 1 .. k + 1 /\ j \in 1 .. k + 1 /\ j + 1 \in 1 .. k + 1
            BY <1>5
        <3>2. i < j => start[i + 1] <= start[j]
            BY <1>3, <3>1
        <3>3. j < i => start[j + 1] <= start[i]
            BY <1>3, <3>1
        <3>4. x \in folds[j].validation <=> start[j] <= x /\ x < start[j + 1]
            BY <1>4, <2>1, <3>1, SMTT(30)
        <3>5. i = j \/ i < j \/ j < i
            OBVIOUS
        <3> QED BY <2>1, <2>3, <3>1, <3>2, <3>3, <3>4, <3>5, SMTT(30)
    <2>5. i \in DOMAIN folds /\ \A j \in DOMAIN folds : x \in folds[j].validation <=> i = j
        BY <1>4, <2>4
    <2> QED BY <2>5, Zenon
<1> QED BY <1>4, <1>6, <1>7, <1>9 DEF folds, n, least

-----------------------------------------------------------------------------
(* Weights between a floor and a cap, which total one. *)

LEMMA Times ==
    ASSUME NEW a \in Int, NEW b \in Int, NEW c \in Int, a <= b, c >= 0
    PROVE  a * c <= b * c
OBVIOUS

LEMMA Cancel ==
    ASSUME NEW a \in Int, NEW b \in Int, NEW k \in Nat \ {0}, a * k <= b * k
    PROVE  a <= b
<1>1. SUFFICES ASSUME a >= b + 1 PROVE FALSE
    OBVIOUS
<1>2. (b + 1) * k <= a * k
    BY <1>1
<1>3. (b + 1) * k = b * k + k
    OBVIOUS
<1>4. a * k \in Int /\ b * k \in Int
    OBVIOUS
<1> QED BY <1>2, <1>3, <1>4

Positive(raw, S) == \A m \in S : raw[m] \in Nat \ {0}

\* Numbers have a common multiple.
LEMMA CommonMultiple ==
    ASSUME NEW S, IsFiniteSet(S), NEW raw, Positive(raw, S)
    PROVE  \E k \in Nat \ {0} : \A m \in S : \E j \in Nat : k = raw[m] * j
<1> DEFINE Of(T, k) == \A m \in T : \E j \in Nat : k = raw[m] * j
           Q == {T \in SUBSET S : \E k \in Nat \ {0} : Of(T, k)}
<1>1. ASSUME NEW T \in SUBSET S, \A x \in T : T \ {x} \in Q PROVE T \in Q
    <2>1. CASE T = {}
        <3>1. Of(T, 1)
            BY <2>1
        <3> QED BY <3>1
    <2>2. CASE T # {}
        <3>1. PICK x \in T : TRUE
            BY <2>2
        <3>2. PICK k \in Nat \ {0} : Of(T \ {x}, k)
            BY <1>1
        <3>3. raw[x] \in Nat \ {0}
            BY DEF Positive
        <3>4. k * raw[x] \in Nat \ {0}
            BY <3>3
        <3>5. ASSUME NEW m \in T PROVE \E j \in Nat : k * raw[x] = raw[m] * j
            <4>1. CASE m = x
                <5>1. k * raw[x] = raw[x] * k
                    BY <3>3
                <5> QED BY <4>1, <5>1
            <4>2. CASE m # x
                <5>1. PICK j \in Nat : k = raw[m] * j
                    BY <3>2, <4>2
                <5>2. PICK c \in Nat, r \in Nat : c = raw[m] /\ r = raw[x]
                    BY <3>3 DEF Positive
                <5>3. (c * j) * r = c * (j * r) /\ j * r \in Nat
                    OBVIOUS
                <5> QED BY <5>1, <5>2, <5>3
            <4> QED BY <4>1, <4>2
        <3> QED BY <3>4, <3>5
    <2> QED BY <2>1, <2>2
<1>2. S \in Q
    <2> HIDE DEF Q
    <2> QED BY <1>1, SetInduction
<1> QED BY <1>2

\* Summands that are one for some, another for others, and multiples for the rest.
SplitAs(f, raw, S, low, high, a, b, t) ==
    /\ low \in SUBSET S /\ high \in SUBSET S /\ low \cap high = {}
    /\ a \in Int /\ b \in Int /\ t \in Int /\ Integral(raw, S)
    /\ \A m \in low : f[m] = a
    /\ \A m \in high : f[m] = b
    /\ \A m \in S \ (low \cup high) : f[m] = raw[m] * t

\* What is summed of models at the floor, at the cap and between.
LEMMA SplitTotal ==
    ASSUME NEW S, IsFiniteSet(S), NEW f, NEW raw, NEW low, NEW high, NEW a, NEW b, NEW t,
           SplitAs(f, raw, S, low, high, a, b, t)
    PROVE  /\ SumFunctionOnSet(raw, S \ (low \cup high)) \in Int
           /\ Cardinality(low) \in Nat /\ Cardinality(high) \in Nat
           /\ SumFunctionOnSet(f, S) = a * Cardinality(low) + b * Cardinality(high)
                                          + SumFunctionOnSet(raw, S \ (low \cup high)) * t
<1> USE DEF SplitAs
<1> DEFINE free == S \ (low \cup high)
<1>1. /\ IsFiniteSet(low) /\ IsFiniteSet(high) /\ IsFiniteSet(free) /\ IsFiniteSet(low \cup high)
      /\ Cardinality(low) \in Nat /\ Cardinality(high) \in Nat
    BY FS_Subset, FS_CardinalityType
<1>2. Integral(raw, free)
    BY DEF Integral
<1>3. Integral(f, low) /\ SumFunctionOnSet(f, low) = a * Cardinality(low)
    BY <1>1, SumConstant
<1>4. Integral(f, high) /\ SumFunctionOnSet(f, high) = b * Cardinality(high)
    BY <1>1, SumConstant
<1>5. Integral(f, free) /\ SumFunctionOnSet(f, free) = SumFunctionOnSet(raw, free) * t
    BY <1>1, <1>2, SumScaled
<1>6. S = (low \cup high) \cup free /\ (low \cup high) \cap free = {}
    OBVIOUS
<1>7. Integral(f, low \cup high) /\ Integral(f, (low \cup high) \cup free)
    BY <1>3, <1>4, <1>5 DEF Integral
<1>8. SumFunctionOnSet(f, low \cup high) = SumFunctionOnSet(f, low) + SumFunctionOnSet(f, high)
    BY <1>1, <1>7, SumUnion
<1>9. SumFunctionOnSet(f, (low \cup high) \cup free) = SumFunctionOnSet(f, low \cup high) + SumFunctionOnSet(f, free)
    <2> HIDE DEF free
    <2> QED BY <1>1, <1>6, <1>7, SumUnion
<1>10. SumFunctionOnSet(raw, free) \in Int
    BY <1>1, <1>2, SumFacts
<1> HIDE DEF free
<1>11. SumFunctionOnSet(f, S) = (a * Cardinality(low) + b * Cardinality(high)) + SumFunctionOnSet(raw, free) * t
    BY <1>3, <1>4, <1>5, <1>6, <1>8, <1>9
<1> QED BY <1>1, <1>10, <1>11 DEF free

\* A multiple of the raw weights, clipped between the bounds.
Clipped(raw, S, floor, cap, t) ==
    [m \in S |-> IF raw[m] * t <= floor THEN floor ELSE IF raw[m] * t >= cap THEN cap ELSE raw[m] * t]

LEMMA ClippedFacts ==
    ASSUME NEW S, NEW raw, Positive(raw, S), NEW floor \in Nat, NEW cap \in Nat, NEW t \in Nat
    PROVE  Integral(Clipped(raw, S, floor, cap, t), S)
BY DEF Clipped, Integral, Positive

\* Between two scales that are next to each other, where the bounds are multiples of the
\* raw weights, none of the clipped weights leaves its bound.
LEMMA ClippedBetween ==
    ASSUME NEW S, NEW raw, Positive(raw, S), NEW floor \in Nat, NEW cap \in Nat, floor <= cap,
           \A m \in S : \E j \in Nat : floor = raw[m] * j,
           \A m \in S : \E j \in Nat : cap = raw[m] * j,
           NEW t \in Nat, NEW u \in {t, t + 1}
    PROVE  LET low == {m \in S : raw[m] * (t + 1) <= floor}
               high == {m \in S \ low : raw[m] * t >= cap}
               f == Clipped(raw, S, floor, cap, u)
           IN  /\ \A m \in low : f[m] = floor
               /\ \A m \in high : f[m] = cap
               /\ \A m \in S \ (low \cup high) : f[m] = raw[m] * u /\ floor <= raw[m] * t /\ raw[m] * (t + 1) <= cap
<1> DEFINE low == {m \in S : raw[m] * (t + 1) <= floor}
           high == {m \in S \ low : raw[m] * t >= cap}
           f == Clipped(raw, S, floor, cap, u)
<1>1. ASSUME NEW r \in Nat \ {0}
      PROVE  r * t \in Nat /\ r * u \in Nat /\ r * (t + 1) \in Nat /\ r * t <= r * u /\ r * u <= r * (t + 1)
    <2>1. r * (t + 1) = r * t + r
        OBVIOUS
    <2> QED BY <2>1
<1>2. \A m \in S : /\ raw[m] \in Nat \ {0}
                   /\ f[m] = IF raw[m] * u <= floor THEN floor ELSE IF raw[m] * u >= cap THEN cap ELSE raw[m] * u
    BY DEF Clipped, Positive
<1> HIDE DEF f
<1>3. ASSUME NEW m \in low PROVE f[m] = floor
    <2>1. raw[m] * u <= floor
        BY <1>1, <1>2
    <2> QED BY <1>2, <2>1
<1>4. ASSUME NEW m \in high PROVE f[m] = cap
    <2>1. raw[m] * u >= cap
        BY <1>1, <1>2
    <2> QED BY <1>2, <2>1
<1>5. ASSUME NEW m \in S \ (low \cup high)
      PROVE  f[m] = raw[m] * u /\ floor <= raw[m] * t /\ raw[m] * (t + 1) <= cap
    <2>1. PICK r \in Nat \ {0} : r = raw[m]
        BY <1>2
    <2>2. PICK i \in Nat : floor = r * i
        BY <2>1
    <2>3. PICK j \in Nat : cap = r * j
        BY <2>1
    <2>4. r * (t + 1) > floor /\ r * t < cap
        BY <1>1, <2>1
    <2>5. i <= t
        <3>1. SUFFICES ASSUME t + 1 <= i PROVE FALSE
            OBVIOUS
        <3>2. r * (t + 1) <= r * i
            BY <3>1
        <3> QED BY <1>1, <2>2, <2>4, <3>2
    <2>6. t + 1 <= j
        <3>1. SUFFICES ASSUME j <= t PROVE FALSE
            OBVIOUS
        <3>2. r * j <= r * t
            BY <3>1
        <3> QED BY <1>1, <2>3, <2>4, <3>2
    <2>7. r * i <= r * t /\ r * (t + 1) <= r * j
        BY <2>5, <2>6
    <2>8. floor <= r * t /\ r * (t + 1) <= cap
        BY <2>2, <2>3, <2>7
    <2>9. f[m] = r * u
        BY <1>1, <1>2, <2>1, <2>4, <2>8
    <2> QED BY <2>1, <2>8, <2>9
<1> QED BY <1>3, <1>4, <1>5 DEF f

\* The bounds can be met: some models are at the floor, some at the cap, and the others
\* share what is left in proportion, between them.
LEMMA SplitExists ==
    ASSUME NEW S, IsFiniteSet(S), S # {}, NEW raw, DOMAIN raw = S, Positive(raw, S),
           NEW floor \in Nat, NEW cap \in Nat,
           floor * Cardinality(S) <= 1000, 1000 <= cap * Cardinality(S)
    PROVE  \E low, high \in SUBSET S : Fits(raw, low, high, floor, cap) /\ cap * Cardinality(high) <= 1000
<1> DEFINE n == Cardinality(S)
<1>1. n \in Nat \ {0} /\ floor <= cap
    <2>1. n \in Nat \ {0}
        BY FS_CardinalityType, FS_EmptySet
    <2> HIDE DEF n
    <2>2. ~(cap + 1 <= floor)
        <3>1. SUFFICES ASSUME cap + 1 <= floor PROVE FALSE
            OBVIOUS
        <3>2. (cap + 1) * n <= floor * n
            BY <2>1, <3>1, Times
        <3>3. (cap + 1) * n = cap * n + n /\ cap * n \in Nat /\ floor * n \in Nat
            BY <2>1
        <3> QED BY <2>1, <3>2, <3>3 DEF n
    <2> QED BY <2>1, <2>2
<1>2. PICK k \in Nat \ {0} : \A m \in S : \E j \in Nat : k = raw[m] * j
    BY CommonMultiple
<1> DEFINE F == floor * k
           C == cap * k
           Total(t) == SumFunctionOnSet(Clipped(raw, S, F, C, t), S)
           G == {t \in 0 .. C : Total(t) <= 1000 * k}
<1>3. /\ F \in Nat /\ C \in Nat /\ F <= C
      /\ \A m \in S : \E j \in Nat : F = raw[m] * j
      /\ \A m \in S : \E j \in Nat : C = raw[m] * j
    <2>1. F \in Nat /\ C \in Nat /\ F <= C
        BY <1>1, Times
    <2>2. ASSUME NEW m \in S PROVE (\E j \in Nat : F = raw[m] * j) /\ (\E j \in Nat : C = raw[m] * j)
        <3>1. PICK r \in Nat : r = raw[m]
            BY DEF Positive
        <3>2. PICK j \in Nat : k = r * j
            BY <1>2, <3>1
        <3>3. floor * (r * j) = r * (floor * j) /\ cap * (r * j) = r * (cap * j)
              /\ floor * j \in Nat /\ cap * j \in Nat
            OBVIOUS
        <3> QED BY <3>1, <3>2, <3>3
    <2> QED BY <2>1, <2>2
<1> HIDE DEF F, C
<1>4. 0 \in G
    <2> DEFINE f == Clipped(raw, S, F, C, 0)
    <2>1. \A m \in S : f[m] = F
        <3>1. \A m \in S : raw[m] * 0 = 0
            BY DEF Positive
        <3> QED BY <1>3, <3>1 DEF Clipped
    <2> HIDE DEF f
    <2>2. SumFunctionOnSet(f, S) = F * n
        BY <1>3, <2>1, SumConstant
    <2>3. F * n = (floor * n) * k
        BY <1>1 DEF F
    <2>4. (floor * n) * k <= 1000 * k
        BY <1>1, Times
    <2>5. SumFunctionOnSet(f, S) <= 1000 * k
        BY <2>2, <2>3, <2>4
    <2>6. Total(0) <= 1000 * k
        BY <2>5 DEF f
    <2> HIDE DEF Total
    <2> QED BY <1>3, <2>6
<1>5. PICK t \in G : \A u \in G : u <= t
    <2>1. IsFiniteSet(0 .. C)
        BY <1>3, FS_Interval
    <2>2. G \in SUBSET (0 .. C)
        OBVIOUS
    <2> HIDE DEF G
    <2>3. IsFiniteSet(G) /\ G \in SUBSET Int
        <3>1. IsFiniteSet(G)
            BY <2>1, <2>2, FS_Subset, ZenonT(40)
        <3>2. \A x \in 0 .. C : x \in Int
            OBVIOUS
        <3> QED BY <2>2, <3>1, <3>2
    <2> QED BY <1>4, <2>3, GreatestExists
<1>6. t \in Nat /\ t <= C /\ Total(t) <= 1000 * k
    <2> HIDE DEF Total
    <2> QED BY <1>3
<1>7. t < C => ~(Total(t + 1) <= 1000 * k)
    <2> HIDE DEF Total
    <2>1. SUFFICES ASSUME t < C, Total(t + 1) <= 1000 * k PROVE FALSE
        OBVIOUS
    <2>2. t + 1 \in G
        BY <1>3, <1>6, <2>1
    <2> QED BY <1>5, <1>6, <2>2
<1> HIDE DEF G
<1> DEFINE low == {m \in S : raw[m] * (t + 1) <= F}
           high == {m \in S \ low : raw[m] * t >= C}
           free == S \ (low \cup high)
           mass == SumFunctionOnSet(raw, free)
           nl == Cardinality(low)
           nh == Cardinality(high)
           left == 1000 - floor * nl - cap * nh
<1>8. ASSUME NEW u \in {t, t + 1}
      PROVE  /\ mass \in Int /\ nl \in Nat /\ nh \in Nat
             /\ Total(u) = F * nl + C * nh + mass * u
             /\ \A m \in free : F <= raw[m] * t /\ raw[m] * (t + 1) <= C
    <2> DEFINE f == Clipped(raw, S, F, C, u)
    <2>1. /\ \A m \in low : f[m] = F
          /\ \A m \in high : f[m] = C
          /\ \A m \in free : f[m] = raw[m] * u /\ F <= raw[m] * t /\ raw[m] * (t + 1) <= C
        BY <1>3, <1>6, ClippedBetween
    <2>2. low \in SUBSET S /\ high \in SUBSET S /\ low \cap high = {} /\ u \in Int /\ Integral(raw, S)
        BY <1>6 DEF Positive, Integral
    <2> HIDE DEF low, high, f
    <2>3. /\ mass \in Int /\ nl \in Nat /\ nh \in Nat
          /\ SumFunctionOnSet(f, S) = F * nl + C * nh + mass * u
        <3>1. F \in Int /\ C \in Int
            BY <1>3
        <3>2. /\ \A m \in low : f[m] = F
              /\ \A m \in high : f[m] = C
              /\ \A m \in S \ (low \cup high) : f[m] = raw[m] * u
            BY <2>1
        <3>3. SplitAs(f, raw, S, low, high, F, C, u)
            BY <2>2, <3>1, <3>2 DEF SplitAs
        <3>4. /\ SumFunctionOnSet(raw, S \ (low \cup high)) \in Int
              /\ Cardinality(low) \in Nat /\ Cardinality(high) \in Nat
              /\ SumFunctionOnSet(f, S) = F * Cardinality(low) + C * Cardinality(high)
                                             + SumFunctionOnSet(raw, S \ (low \cup high)) * u
            <4>1. IsFiniteSet(S)
                OBVIOUS
            <4>2. Cardinality(low) \in Nat /\ Cardinality(high) \in Nat
                BY ONLY <4>1, <3>3, SplitTotal
            <4>3. SumFunctionOnSet(raw, S \ (low \cup high)) \in Int
                BY ONLY <4>1, <3>3, SplitTotal
            <4>4. SumFunctionOnSet(f, S) = F * Cardinality(low) + C * Cardinality(high)
                                             + SumFunctionOnSet(raw, S \ (low \cup high)) * u
                BY ONLY <4>1, <3>3, SplitTotal
            <4> QED BY <4>2, <4>3, <4>4
        <3> QED BY <3>4
    <2>4. Total(u) = F * nl + C * nh + mass * u
        BY <2>3 DEF f
    <2> QED BY <2>1, <2>3, <2>4
<1>9. /\ low \in SUBSET S /\ high \in SUBSET S /\ low \cap high = {}
      /\ IsFiniteSet(low) /\ IsFiniteSet(high) /\ IsFiniteSet(free)
      /\ \A m \in low : raw[m] * (t + 1) <= F
      /\ \A m \in high : raw[m] * t >= C
    <2>1. low \in SUBSET S /\ high \in SUBSET S /\ low \cap high = {} /\ free \in SUBSET S
        OBVIOUS
    <2> QED BY <2>1, FS_Subset
<1>10. mass \in Nat /\ (free = {} => mass = 0)
    <2> DEFINE zero == [m \in free |-> 0]
    <2>1. Integral(raw, free) /\ Integral(zero, free) /\ \A m \in free : zero[m] <= raw[m]
        BY DEF Integral, Positive
    <2>2. SumFunctionOnSet(zero, free) = 0 * Cardinality(free)
        <3>1. \A m \in free : zero[m] = 0
            OBVIOUS
        <3> HIDE DEF zero, free
        <3> QED BY <1>9, <3>1, SumConstant
    <2>3. 0 * Cardinality(free) = 0
        <3> HIDE DEF free
        <3> QED BY <1>9, FS_CardinalityType
    <2> HIDE DEF zero, free
    <2>4. SumFunctionOnSet(zero, free) <= mass /\ mass \in Int /\ SumFunctionOnSet(raw, {}) = 0
        BY <1>9, <2>1, SumMonotone, SumFacts
    <2> QED BY <2>2, <2>3, <2>4
<1>11. t = C => low = {} /\ free = {}
    <2>1. SUFFICES ASSUME t = C PROVE low = {} /\ free = {}
        OBVIOUS
    <2>2. ASSUME NEW m \in S PROVE raw[m] * (t + 1) > F /\ raw[m] * t >= C
        <3>1. PICK r \in Nat \ {0} : r = raw[m]
            BY DEF Positive
        <3>2. 1 * t <= r * t
            BY <1>6, Times
        <3>3. 1 * t = t /\ r * t \in Nat /\ r * (t + 1) = r * t + r
            BY <1>6
        <3>4. PICK s \in Nat : s = r * t
            BY <3>3
        <3>5. r * (t + 1) > F /\ r * t >= C
            BY <1>3, <1>6, <2>1, <3>2, <3>3, <3>4
        <3> QED BY <3>1, <3>5
    <2>3. low = {}
        <3>1. \A m \in S : ~(raw[m] * (t + 1) <= F)
            <4>1. \A m \in S : raw[m] * (t + 1) \in Int
                BY <1>6 DEF Positive
            <4> QED BY <1>3, <2>2, <4>1
        <3> QED BY <3>1
    <2> QED BY <2>2, <2>3
<1>12. nl \in Nat /\ nh \in Nat /\ Total(t) = F * nl + C * nh + mass * t
       /\ Total(t + 1) = F * nl + C * nh + mass * (t + 1)
    BY <1>8
<1>13. \A m \in free : F <= raw[m] * t /\ raw[m] * (t + 1) <= C
    BY <1>8
<1> HIDE DEF low, high, free, mass, nl, nh, Total
<1>14. left \in Int /\ left * k = 1000 * k - F * nl - C * nh
    <2>1. F * nl = (floor * nl) * k /\ C * nh = (cap * nh) * k
        BY <1>12 DEF F, C
    <2>2. PICK a \in Int, b \in Int : a = floor * nl /\ b = cap * nh
        BY <1>12
    <2>3. (1000 - a - b) * k = 1000 * k - a * k - b * k
        OBVIOUS
    <2> QED BY <2>1, <2>2, <2>3
<1> HIDE DEF left
<1>15. mass * t <= left * k
    <2>1. PICK a \in Int, b \in Int, c \in Int, d \in Int :
              a = F * nl /\ b = C * nh /\ c = mass * t /\ d = 1000 * k
        BY <1>3, <1>6, <1>10, <1>12
    <2> QED BY <1>6, <1>12, <1>14, <2>1
<1>16. t < C => left * k < mass * (t + 1)
    <2>1. PICK a \in Int, b \in Int, c \in Int, d \in Int :
              a = F * nl /\ b = C * nh /\ c = mass * (t + 1) /\ d = 1000 * k
        BY <1>3, <1>6, <1>10, <1>12
    <2> QED BY <1>7, <1>12, <1>14, <2>1
<1>17. free # {} \/ left = 0
    <2>1. SUFFICES ASSUME free = {} PROVE left = 0
        OBVIOUS
    <2>2. mass = 0 /\ mass * t = 0 /\ mass * (t + 1) = 0
        BY <1>6, <1>10, <2>1
    <2>3. left >= 0
        <3>1. 0 * k <= left * k
            BY <1>15, <2>2
        <3> QED BY <1>14, <3>1, Cancel
    <2>4. CASE t < C
        <3>1. left * k < 0
            BY <1>16, <2>2, <2>4
        <3>2. left * k >= 0
            BY <1>14, <2>3
        <3> QED BY <1>14, <3>1, <3>2
    <2>5. CASE t = C
        <3>1. low = {} /\ high = S
            BY <1>9, <1>11, <2>1, <2>5 DEF free
        <3>2. nl = 0 /\ nh = n
            BY <3>1, FS_EmptySet DEF nl, nh
        <3>3. left = 1000 - floor * 0 - cap * n
            BY <3>2 DEF left
        <3>4. cap * n \in Nat
            BY <1>1
        <3> QED BY <2>3, <3>3, <3>4
    <2> QED BY <1>3, <1>6, <2>4, <2>5
<1>18. ASSUME NEW r \in Nat \ {0}, NEW x \in Nat
       PROVE  /\ x * k <= r * t => x * mass <= r * left
              /\ t < C /\ r * (t + 1) <= x * k => r * left <= x * mass
    <2>1. ASSUME x * k <= r * t PROVE x * mass <= r * left
        <3>1. (x * k) * mass <= (r * t) * mass
            BY <1>6, <1>10, <2>1, Times
        <3>2. (mass * t) * r <= (left * k) * r
            BY <1>6, <1>10, <1>14, <1>15, Times
        <3>3. (x * k) * mass = (x * mass) * k
            BY <1>10
        <3>4. (r * t) * mass = (mass * t) * r
            BY <1>6, <1>10
        <3>5. (left * k) * r = (r * left) * k
            BY <1>14
        <3>6. PICK p \in Int, q \in Int : p = x * mass /\ q = r * left
            BY <1>10, <1>14
        <3>7. (x * mass) * k <= (r * left) * k
            <4>1. PICK a \in Int, b \in Int, c \in Int :
                      a = (x * k) * mass /\ b = (mass * t) * r /\ c = (left * k) * r
                BY <1>6, <1>10, <1>14
            <4> QED BY <3>1, <3>2, <3>3, <3>4, <3>5, <4>1
        <3> QED BY <3>6, <3>7, Cancel
    <2>2. ASSUME t < C, r * (t + 1) <= x * k PROVE r * left <= x * mass
        <3>1. (r * (t + 1)) * mass <= (x * k) * mass
            BY <1>6, <1>10, <2>2, Times
        <3>2. (left * k) * r <= (mass * (t + 1)) * r
            BY <1>6, <1>10, <1>14, <1>16, <2>2, Times
        <3>3. (x * k) * mass = (x * mass) * k
            BY <1>10
        <3>4. (r * (t + 1)) * mass = (mass * (t + 1)) * r
            BY <1>6, <1>10
        <3>5. (left * k) * r = (r * left) * k
            BY <1>14
        <3>6. PICK p \in Int, q \in Int : p = x * mass /\ q = r * left
            BY <1>10, <1>14
        <3>7. (r * left) * k <= (x * mass) * k
            <4>1. PICK a \in Int, b \in Int, c \in Int :
                      a = (x * k) * mass /\ b = (mass * (t + 1)) * r /\ c = (left * k) * r
                BY <1>6, <1>10, <1>14
            <4> QED BY <3>1, <3>2, <3>3, <3>4, <3>5, <4>1
        <3> QED BY <3>6, <3>7, Cancel
    <2> QED BY <2>1, <2>2
<1>19. \A m \in S : raw[m] \in Nat \ {0}
    BY DEF Positive
<1>20. ASSUME NEW m \in free PROVE raw[m] * left >= floor * mass /\ raw[m] * left <= cap * mass
    <2>1. m \in S /\ t < C
        BY <1>3, <1>6, <1>11 DEF free
    <2>2. PICK r \in Nat \ {0} : r = raw[m]
        BY <1>19, <2>1
    <2>3. floor * k <= r * t /\ r * (t + 1) <= cap * k
        BY <1>13, <2>2 DEF F, C
    <2>4. floor * mass <= r * left /\ r * left <= cap * mass
        BY <1>18, <2>1, <2>3
    <2>5. r * left \in Int /\ floor * mass \in Int
        BY <1>10, <1>14
    <2> QED BY <2>2, <2>4, <2>5
<1>21. ASSUME NEW m \in low PROVE raw[m] * left <= floor * mass
    <2>1. m \in S /\ t < C
        BY <1>3, <1>6, <1>9, <1>11
    <2>2. PICK r \in Nat \ {0} : r = raw[m]
        BY <1>19, <2>1
    <2>3. r * (t + 1) <= floor * k
        BY <1>9, <2>2 DEF F
    <2> QED BY <1>18, <2>1, <2>2, <2>3
<1>22. ASSUME NEW m \in high PROVE raw[m] * left >= cap * mass
    <2>1. m \in S
        BY <1>9
    <2>2. PICK r \in Nat \ {0} : r = raw[m]
        BY <1>19, <2>1
    <2>3. r * t >= C /\ r * t \in Int
        BY <1>6, <1>9, <2>2
    <2>4. cap * k <= r * t
        BY <1>3, <2>3 DEF C
    <2>5. cap * mass <= r * left
        BY <1>18, <2>4
    <2>6. r * left \in Int /\ cap * mass \in Int
        BY <1>10, <1>14
    <2> QED BY <2>2, <2>5, <2>6
<1>23. ASSUME NEW l \in low, NEW m \in high PROVE raw[l] * cap <= raw[m] * floor
    <2>1. l \in S /\ m \in S
        BY <1>9
    <2>2. PICK r \in Nat \ {0}, q \in Nat \ {0} : r = raw[l] /\ q = raw[m]
        BY <1>19, <2>1
    <2>3. r * t <= floor * k
        <3>1. r * (t + 1) <= floor * k /\ r * (t + 1) = r * t + r
            BY <1>6, <1>9, <2>2 DEF F
        <3>2. PICK a \in Int, b \in Int : a = r * t /\ b = floor * k
            BY <1>6
        <3> QED BY <3>1, <3>2
    <2>4. cap * k <= q * t
        BY <1>9, <2>2 DEF C
    <2>5. (r * t) * q <= (floor * k) * q /\ (cap * k) * r <= (q * t) * r
        BY <1>6, <2>3, <2>4, Times
    <2>6. (r * t) * q = (q * t) * r /\ (floor * k) * q = (q * floor) * k /\ (cap * k) * r = (r * cap) * k
        BY <1>6
    <2>7. PICK a \in Int, b \in Int, c \in Int : a = (r * t) * q /\ b = (r * cap) * k /\ c = (q * floor) * k
        BY <1>6
    <2>8. (r * cap) * k <= (q * floor) * k
        BY <2>5, <2>6, <2>7
    <2> QED BY <2>2, <2>8, Cancel
<1>24. cap * nh <= 1000
    <2>1. F * nl >= 0 /\ mass * t >= 0 /\ C * nh \in Int /\ 1000 * k \in Int
        BY <1>3, <1>6, <1>10, <1>12
    <2>2. C * nh <= 1000 * k
        <3>1. PICK a \in Nat, b \in Nat : a = F * nl /\ b = mass * t
            BY <1>3, <1>6, <1>10, <1>12
        <3> QED BY <1>6, <1>12, <2>1, <3>1
    <2>3. C * nh = (cap * nh) * k
        BY <1>12 DEF C
    <2>4. cap * nh \in Int
        BY <1>12
    <2> QED BY <2>2, <2>3, <2>4, Cancel
<1>25. /\ Left(low, high, floor, cap) = left /\ Free(raw, low, high) = free /\ Mass(raw, low, high) = mass
    BY DEF Left, Free, Mass, left, mass, free, nl, nh
<1>26. Fits(raw, low, high, floor, cap)
    BY <1>9, <1>17, <1>20, <1>21, <1>22, <1>23, <1>25 DEF Fits
<1> QED BY <1>9, <1>24, <1>26 DEF nh

\* What is left of a number when it is divided.
LEMMA Quotient ==
    ASSUME NEW x \in Int, NEW d \in Nat \ {0}
    PROVE  x \div d \in Int /\ (x \div d) * d <= x /\ x < (x \div d) * d + d
OBVIOUS

\* A share is between the bounds when its multiple is.
LEMMA QuotientBetween ==
    ASSUME NEW x \in Int, NEW d \in Nat \ {0}, NEW a \in Int, NEW b \in Int, a * d <= x, x <= b * d
    PROVE  a <= x \div d /\ x \div d <= b
<1> DEFINE q == x \div d
<1>1. q \in Int /\ q * d <= x /\ x < q * d + d
    BY Quotient
<1> HIDE DEF q
<1>2. q <= b
    <2>1. q * d <= b * d
        <3>1. q * d \in Int /\ b * d \in Int
            BY <1>1
        <3> QED BY <1>1, <3>1
    <2> QED BY <1>1, <2>1, Cancel
<1>3. a <= q
    <2>1. SUFFICES ASSUME q + 1 <= a PROVE FALSE
        BY <1>1
    <2>2. (q + 1) * d <= a * d
        BY <1>1, <2>1, Times
    <2>3. (q + 1) * d = q * d + d /\ q * d \in Int /\ a * d \in Int
        BY <1>1
    <2> QED BY <1>1, <2>2, <2>3
<1> QED BY <1>2, <1>3 DEF q

\* Positive summands have a positive sum.
LEMMA SumPositive ==
    ASSUME NEW S, IsFiniteSet(S), NEW raw, Positive(raw, S)
    PROVE  SumFunctionOnSet(raw, S) \in Nat /\ Cardinality(S) <= SumFunctionOnSet(raw, S)
<1> DEFINE one == [m \in S |-> 1]
<1>1. Integral(raw, S) /\ \A m \in S : one[m] = 1 /\ one[m] <= raw[m]
    BY DEF Integral, Positive
<1> HIDE DEF one
<1>2. Integral(one, S) /\ SumFunctionOnSet(one, S) = 1 * Cardinality(S)
    BY <1>1, SumConstant
<1>3. SumFunctionOnSet(one, S) <= SumFunctionOnSet(raw, S)
    BY <1>1, <1>2, SumMonotone
<1>4. SumFunctionOnSet(raw, S) \in Int /\ Cardinality(S) \in Nat
    BY <1>1, SumFacts, FS_CardinalityType
<1> QED BY <1>2, <1>3, <1>4

\* Weights that share what is left in proportion share all of it, but for less than one
\* of a thousand each.
LEMMA SharedFacts ==
    ASSUME NEW S, IsFiniteSet(S), S # {}, NEW raw, Positive(raw, S), NEW left \in Int,
           NEW w, \A m \in S : w[m] = (raw[m] * left) \div SumFunctionOnSet(raw, S)
    PROVE  /\ Integral(w, S)
           /\ SumFunctionOnSet(w, S) <= left
           /\ left < SumFunctionOnSet(w, S) + Cardinality(S)
<1> DEFINE d == SumFunctionOnSet(raw, S)
           n == Cardinality(S)
           x == [m \in S |-> raw[m] * left]
           y == [m \in S |-> w[m] * d]
           z == [m \in S |-> d - 1]
           v == [m \in S |-> y[m] + z[m]]
<1>1. d \in Nat \ {0} /\ n \in Nat \ {0} /\ Integral(raw, S)
    <2>1. n \in Nat \ {0}
        BY FS_CardinalityType, FS_EmptySet
    <2>2. Integral(raw, S)
        BY DEF Integral, Positive
    <2> HIDE DEF n, d
    <2>3. d \in Nat /\ n <= d
        BY SumPositive DEF n, d
    <2> QED BY <2>1, <2>2, <2>3
<1> HIDE DEF d, n
<1>2. ASSUME NEW m \in S PROVE w[m] \in Int /\ x[m] \in Int /\ y[m] <= x[m] /\ x[m] <= y[m] + (d - 1) /\ y[m] \in Int
    <2>1. PICK r \in Int : r = raw[m] * left
        BY DEF Positive
    <2>2. w[m] = r \div d
        BY <2>1 DEF d
    <2>3. w[m] \in Int /\ w[m] * d <= r /\ r < w[m] * d + d
        BY <1>1, <2>2, Quotient
    <2>4. w[m] * d \in Int
        BY <1>1, <2>3
    <2> QED BY <1>1, <2>1, <2>3, <2>4
<1>3. Integral(w, S) /\ Integral(x, S)
    BY <1>2 DEF Integral
<1>4. Integral(x, S) /\ SumFunctionOnSet(x, S) = d * left
    <2>1. \A m \in S : x[m] = raw[m] * left
        OBVIOUS
    <2> HIDE DEF x
    <2> QED BY <1>1, <2>1, SumScaled DEF d
<1>5. Integral(y, S) /\ SumFunctionOnSet(y, S) = SumFunctionOnSet(w, S) * d
    <2>1. \A m \in S : y[m] = w[m] * d
        OBVIOUS
    <2> HIDE DEF y
    <2> QED BY <1>1, <1>3, <2>1, SumScaled
<1>6. Integral(z, S) /\ SumFunctionOnSet(z, S) = (d - 1) * n
    <2>1. \A m \in S : z[m] = d - 1
        OBVIOUS
    <2> HIDE DEF z
    <2> QED BY <1>1, <2>1, SumConstant DEF n
<1>7. Integral(v, S) /\ SumFunctionOnSet(v, S) = SumFunctionOnSet(y, S) + SumFunctionOnSet(z, S)
    <2>1. \A m \in S : v[m] = y[m] + z[m]
        OBVIOUS
    <2> HIDE DEF v, y, z
    <2> QED BY <1>5, <1>6, <2>1, SumAdds
<1>8. \A m \in S : y[m] <= x[m] /\ x[m] <= v[m]
    BY <1>2
<1> HIDE DEF x, y, z, v
<1>9. SumFunctionOnSet(y, S) <= SumFunctionOnSet(x, S) /\ SumFunctionOnSet(x, S) <= SumFunctionOnSet(v, S)
    BY <1>4, <1>5, <1>7, <1>8, SumMonotone
<1>10. PICK s \in Int : s = SumFunctionOnSet(w, S)
    BY <1>3, SumFacts
<1>11. s * d <= left * d /\ left * d < (s + n) * d
    <2>1. d * left = left * d /\ (s + n) * d = s * d + n * d /\ (d - 1) * n = n * d - n
        BY <1>1
    <2>2. PICK a \in Int, b \in Int, c \in Int : a = s * d /\ b = left * d /\ c = n * d
        BY <1>1
    <2> QED BY <1>1, <1>4, <1>5, <1>6, <1>7, <1>9, <1>10, <2>1, <2>2
<1>12. s <= left
    BY <1>1, <1>11, Cancel
<1>13. left < s + n
    <2>1. SUFFICES ASSUME s + n <= left PROVE FALSE
        BY <1>1
    <2>2. (s + n) * d <= left * d
        BY <1>1, <2>1, Times
    <2>3. (s + n) * d \in Int /\ left * d \in Int
        BY <1>1
    <2> QED BY <1>11, <2>2, <2>3
<1> QED BY <1>3, <1>10, <1>12, <1>13 DEF n

\* Weights that total one whole, but for less than one each of rounding.
NearlyWhole(w, S) ==
    /\ SumFunctionOnSet(w, S) \in Int /\ SumFunctionOnSet(w, S) <= 1000
    /\ 1000 < SumFunctionOnSet(w, S) + Cardinality(S)

\* The scaled weights are between the bounds, and miss the whole by less than there are
\* models.
LEMMA ScaledFacts ==
    ASSUME NEW S, IsFiniteSet(S), S # {}, NEW raw, DOMAIN raw = S, Positive(raw, S),
           NEW floor \in Nat, NEW cap \in Nat, floor <= cap,
           NEW low \in SUBSET S, NEW high \in SUBSET S, Fits(raw, low, high, floor, cap)
    PROVE  LET w == Scaled(raw, low, high, floor, cap)
           IN  /\ w \in [S -> floor .. cap]
               /\ NearlyWhole(w, S)
<1> DEFINE w == Scaled(raw, low, high, floor, cap)
           free == S \ (low \cup high)
           mass == SumFunctionOnSet(raw, free)
           left == 1000 - floor * Cardinality(low) - cap * Cardinality(high)
<1>1. Left(low, high, floor, cap) = left /\ Free(raw, low, high) = free /\ Mass(raw, low, high) = mass
    BY DEF Left, Free, Mass
<1>2. /\ IsFiniteSet(low) /\ IsFiniteSet(high) /\ IsFiniteSet(free) /\ IsFiniteSet(low \cup high)
      /\ Cardinality(low) \in Nat /\ Cardinality(high) \in Nat /\ Cardinality(free) \in Nat
      /\ Cardinality(free) <= Cardinality(S) /\ Cardinality(S) \in Nat \ {0}
    BY FS_Subset, FS_CardinalityType, FS_EmptySet
<1>3. left \in Int /\ Positive(raw, free)
    BY <1>2 DEF Positive
<1> HIDE DEF left, mass
<1>4. /\ low \cap high = {} /\ (free # {} \/ left = 0)
      /\ \A m \in free : raw[m] * left >= floor * mass /\ raw[m] * left <= cap * mass
    <2> HIDE DEF free
    <2> QED BY <1>1 DEF Fits
<1>5. w = [m \in S |-> IF m \in low THEN floor ELSE IF m \in high THEN cap ELSE (raw[m] * left) \div mass]
    BY <1>1 DEF Scaled
<1> HIDE DEF w
<1>6. /\ \A m \in low : w[m] = floor
      /\ \A m \in high : w[m] = cap
      /\ \A m \in free : w[m] = (raw[m] * left) \div mass
    BY <1>4, <1>5
<1>7. free # {} => mass \in Nat \ {0}
    <2>1. free # {} => Cardinality(free) # 0
        BY <1>2, FS_EmptySet
    <2> HIDE DEF free
    <2>2. mass \in Nat /\ Cardinality(free) <= mass
        BY <1>2, <1>3, SumPositive DEF mass
    <2> QED BY <1>2, <2>1, <2>2
<1>8. ASSUME NEW m \in S PROVE w[m] \in floor .. cap
    <2>1. CASE m \in low \cup high
        BY <1>6, <2>1
    <2>2. CASE m \in free
        <3>1. PICK x \in Int : x = raw[m] * left
            BY <1>3 DEF Positive
        <3>2. mass \in Nat \ {0}
            BY <1>7, <2>2
        <3>3. floor * mass <= x /\ x <= cap * mass
            <4>1. floor * mass \in Int
                BY <3>2
            <4> QED BY <1>4, <2>2, <3>1, <4>1
        <3>4. floor <= x \div mass /\ x \div mass <= cap /\ x \div mass \in Int
            BY <3>2, <3>3, QuotientBetween, Quotient
        <3> QED BY <1>6, <2>2, <3>1, <3>4
    <2> QED BY <2>1, <2>2
<1>9. Integral(w, S) /\ Integral(w, low) /\ Integral(w, high) /\ Integral(w, free) /\ Integral(w, low \cup high)
    BY <1>8 DEF Integral
<1>10. /\ SumFunctionOnSet(w, free) \in Int
       /\ SumFunctionOnSet(w, free) <= left /\ left < SumFunctionOnSet(w, free) + Cardinality(S)
    <2>1. CASE free = {}
        <3>1. SumFunctionOnSet(w, free) = 0 /\ left = 0
            BY <1>2, <1>4, <1>9, <2>1, SumFacts
        <3> QED BY <1>2, <3>1
    <2>2. CASE free # {}
        <3> HIDE DEF free
        <3>1. SumFunctionOnSet(w, free) \in Int
            BY <1>2, <1>9, SumFacts
        <3> QED BY <1>2, <1>3, <1>6, <2>2, <3>1, SharedFacts DEF mass
    <2> QED BY <2>1, <2>2
<1>11. SumFunctionOnSet(w, S) = floor * Cardinality(low) + cap * Cardinality(high) + SumFunctionOnSet(w, free)
    <2>1. SumFunctionOnSet(w, low) = floor * Cardinality(low) /\ SumFunctionOnSet(w, high) = cap * Cardinality(high)
        BY <1>2, <1>6, SumConstant
    <2>2. S = (low \cup high) \cup free /\ (low \cup high) \cap free = {}
        OBVIOUS
    <2> HIDE DEF free
    <2>3. SumFunctionOnSet(w, low \cup high) = SumFunctionOnSet(w, low) + SumFunctionOnSet(w, high)
        BY <1>2, <1>4, <1>9, SumUnion
    <2>4. SumFunctionOnSet(w, (low \cup high) \cup free)
            = SumFunctionOnSet(w, low \cup high) + SumFunctionOnSet(w, free)
        BY <1>2, <1>9, <2>2, SumUnion
    <2> QED BY <2>1, <2>2, <2>3, <2>4
<1>12. PICK a \in Int, b \in Int : a = floor * Cardinality(low) /\ b = cap * Cardinality(high)
    BY <1>2
<1>13. left = 1000 - a - b
    BY <1>12 DEF left
<1>14. /\ SumFunctionOnSet(w, S) \in Int /\ SumFunctionOnSet(w, S) <= 1000
       /\ 1000 < SumFunctionOnSet(w, S) + Cardinality(S)
    <2> HIDE DEF free
    <2> QED BY <1>2, <1>10, <1>11, <1>12, <1>13
<1>15. w = [m \in S |-> w[m]]
    BY <1>5
<1>16. w \in [S -> floor .. cap]
    BY <1>8, <1>15
<1> QED BY <1>14, <1>16 DEF w, NearlyWhole

\* What rounding leaves is given to one that has room for it.
LEMMA RoundedFacts ==
    ASSUME NEW S, IsFiniteSet(S), S # {}, NEW w, w = [m \in S |-> w[m]],
           NEW floor \in Nat, NEW cap \in Nat, \A m \in S : w[m] \in floor .. cap,
           NEW residue \in Nat, residue = 1000 - SumFunctionOnSet(w, S)
    PROVE  LET v == Rounded(w, residue, cap)
           IN  /\ v \in [S -> floor .. cap] /\ \A m \in S : w[m] <= v[m] /\ v[m] <= w[m] + residue
               /\ SumFunctionOnSet(v, S) = 1000 \/ \A m \in S : v[m] = w[m] /\ cap < w[m] + residue
<1> DEFINE room == {m \in S : w[m] + residue <= cap}
           x == CHOOSE m \in room : TRUE
           v == Rounded(w, residue, cap)
<1>1. DOMAIN w = S
    OBVIOUS
<1>2. v = IF residue = 0 \/ room = {} THEN w ELSE [w EXCEPT ![x] = @ + residue]
    BY <1>1 DEF Rounded
<1>3. Integral(w, S) /\ SumFunctionOnSet(w, S) \in Int
    <2>1. Integral(w, S)
        BY DEF Integral
    <2> QED BY <2>1, SumFacts
<1>4. CASE residue = 0
    <2>1. v = w /\ SumFunctionOnSet(w, S) = 1000
        BY <1>2, <1>3, <1>4
    <2> QED BY <1>1, <2>1
<1>5. CASE residue # 0 /\ room = {}
    <2>1. v = w
        BY <1>2, <1>5
    <2>2. \A m \in S : cap < w[m] + residue
        BY <1>5
    <2> QED BY <1>1, <2>1, <2>2
<1>6. CASE residue # 0 /\ room # {}
    <2>1. x \in room
        BY <1>6
    <2>2. v = [w EXCEPT ![x] = @ + residue]
        BY <1>2, <1>6
    <2> HIDE DEF v, x
    <2>3. /\ x \in S /\ v = [m \in S |-> v[m]]
          /\ \A m \in S : v[m] = IF m = x THEN w[m] + residue ELSE w[m]
        BY <1>1, <2>1, <2>2
    <2>4. \A m \in S : v[m] \in floor .. cap /\ w[m] <= v[m] /\ v[m] <= w[m] + residue
        BY <2>1, <2>3
    <2>5. Integral(v, S)
        BY <2>4 DEF Integral
    <2>6. SumFunctionOnSet(v, S) = v[x] + SumFunctionOnSet(v, S \ {x})
        BY <2>3, <2>5, SumFacts
    <2>7. SumFunctionOnSet(w, S) = w[x] + SumFunctionOnSet(w, S \ {x})
        BY <1>3, <2>3, SumFacts
    <2>8. SumFunctionOnSet(w, S \ {x}) = SumFunctionOnSet(v, S \ {x}) /\ SumFunctionOnSet(w, S \ {x}) \in Int
        <3>1. IsFiniteSet(S \ {x}) /\ Integral(w, S \ {x}) /\ \A m \in S \ {x} : w[m] = v[m]
            BY <1>3, <2>3, FS_RemoveElement DEF Integral
        <3> QED BY <3>1, SumSame, SumFacts
    <2>9. PICK s \in Int : s = SumFunctionOnSet(w, S \ {x})
        BY <2>8
    <2>10. SumFunctionOnSet(v, S) = (w[x] + residue) + s /\ SumFunctionOnSet(w, S) = w[x] + s /\ w[x] \in Int
        BY <2>3, <2>6, <2>7, <2>8, <2>9
    <2>11. SumFunctionOnSet(v, S) = 1000
        BY <1>3, <2>10
    <2> QED BY <2>3, <2>4, <2>11 DEF v
<1> QED BY <1>4, <1>5, <1>6

\* w are the scaled weights of a split that fits, with what rounding leaves.
NormalizedBy(w, S, raw, low, high, floor, cap) ==
    LET scaled == Scaled(raw, low, high, floor, cap)
    IN  /\ Fits(raw, low, high, floor, cap)
        /\ w = Rounded(scaled, 1000 - SumFunction(scaled), cap)
        /\ scaled \in [S -> floor .. cap] /\ NearlyWhole(scaled, S)
        /\ SumFunction(scaled) = SumFunctionOnSet(scaled, S)

\* and there is such a split of some scores
NormalizedWithin(w, S, score, floor, cap) ==
    LET raw == [m \in S |-> Max({1, score[m]})]
    IN  /\ floor <= cap /\ Positive(raw, S)
        /\ \E low, high \in SUBSET S : NormalizedBy(w, S, raw, low, high, floor, cap)

LEMMA NormalizedFrom ==
    ASSUME NEW S, IsFiniteSet(S), S # {}, NEW score \in [S -> Int], NEW floor \in Nat, NEW cap \in Nat,
           floor * Cardinality(S) <= 1000, 1000 <= cap * Cardinality(S)
    PROVE  NormalizedWithin(BoundedNormalize(score, floor, cap), S, score, floor, cap)
<1> DEFINE n == Cardinality(S)
           raw == [m \in S |-> Max({1, score[m]})]
           split == Bounds(raw, floor, cap)
           scaled == Scaled(raw, split[1], split[2], floor, cap)
           w == BoundedNormalize(score, floor, cap)
<1>1. w = Rounded(scaled, 1000 - SumFunction(scaled), cap)
    BY TableFacts DEF BoundedNormalize
<1>2. n \in Nat \ {0} /\ floor <= cap
    <2>1. n \in Nat \ {0}
        BY FS_CardinalityType, FS_EmptySet
    <2> HIDE DEF n
    <2>2. SUFFICES ASSUME cap + 1 <= floor PROVE FALSE
        BY <2>1
    <2>3. (cap + 1) * n <= floor * n
        BY <2>1, <2>2, Times
    <2>4. (cap + 1) * n = cap * n + n /\ cap * n \in Nat /\ floor * n \in Nat
        BY <2>1
    <2> QED BY <2>1, <2>3, <2>4 DEF n
<1>3. DOMAIN raw = S /\ Positive(raw, S)
    <2>1. ASSUME NEW m \in S PROVE Max({1, score[m]}) \in Nat \ {0}
        <3>1. 1 \in Int /\ score[m] \in Int
            OBVIOUS
        <3>2. Max({1, score[m]}) \in {1, score[m]} /\ Max({1, score[m]}) >= 1
            BY <3>1, PairFacts, ZenonT(40)
        <3> QED BY <3>1, <3>2
    <2> QED BY <2>1 DEF Positive
<1> HIDE DEF raw
<1>4. split \in (SUBSET S) \X (SUBSET S) /\ Fits(raw, split[1], split[2], floor, cap)
    <2> DEFINE capped == {s \in SUBSET S : cap * Cardinality(s) <= 1000}
    <2>1. PICK low \in SUBSET S, high \in SUBSET S :
              Fits(raw, low, high, floor, cap) /\ cap * Cardinality(high) <= 1000
        BY <1>3, SplitExists
    <2>2. <<low, high>> \in (SUBSET S) \X capped /\ Fits(raw, <<low, high>>[1], <<low, high>>[2], floor, cap)
        BY <2>1
    <2>3. split = CHOOSE s \in (SUBSET S) \X capped : Fits(raw, s[1], s[2], floor, cap)
        BY <1>3 DEF Bounds
    <2> HIDE DEF split
    <2>4. split \in (SUBSET S) \X capped /\ Fits(raw, split[1], split[2], floor, cap)
        BY <2>2, <2>3
    <2>5. capped \subseteq SUBSET S
        OBVIOUS
    <2> QED BY <2>4, <2>5
<1>5. PICK low \in SUBSET S, high \in SUBSET S : split = <<low, high>> /\ Fits(raw, low, high, floor, cap)
    <2> HIDE DEF split
    <2> QED BY <1>4
<1>6. scaled = Scaled(raw, low, high, floor, cap)
    BY <1>5
<1> HIDE DEF split
<1>7. scaled \in [S -> floor .. cap] /\ NearlyWhole(scaled, S)
    <2>1. /\ IsFiniteSet(S) /\ DOMAIN raw = S /\ Positive(raw, S) /\ floor <= cap
          /\ low \in SUBSET S /\ high \in SUBSET S /\ Fits(raw, low, high, floor, cap)
        BY <1>2, <1>3, <1>5
    <2> HIDE DEF scaled
    <2>2. scaled \in [S -> floor .. cap]
        BY <1>6, <2>1, ScaledFacts, ZenonT(40)
    <2>3. NearlyWhole(scaled, S)
        BY <1>6, <2>1, ScaledFacts
    <2> QED BY <2>2, <2>3
<1>8. SumFunction(scaled) = SumFunctionOnSet(scaled, S)
    <2> HIDE DEF scaled
    <2> QED BY <1>7 DEF SumFunction
<1>9. NormalizedBy(w, S, raw, low, high, floor, cap)
    <2> HIDE DEF w, scaled
    <2> QED BY <1>1, <1>5, <1>6, <1>7, <1>8 DEF NormalizedBy
<1> HIDE DEF w
<1> QED BY <1>2, <1>3, <1>9 DEF NormalizedWithin, w, raw

\* Normalized weights keep their floor and their cap, and total one whole where the
\* caps leave room for what rounding leaves (_bounded_normalize): whatever the scores.
THEOREM WeightsKeepTheirBounds ==
    ASSUME NEW S, IsFiniteSet(S), S # {}, NEW score \in [S -> Int], NEW floor \in Nat, NEW cap \in Nat,
           floor * Cardinality(S) <= 1000, 1000 <= cap * Cardinality(S)
    PROVE  LET w == BoundedNormalize(score, floor, cap)
           IN  /\ w \in [S -> floor .. cap]
               /\ SumFunction(w) <= 1000 /\ 1000 < SumFunction(w) + Cardinality(S)
               /\ 1000 + Cardinality(S) * Cardinality(S) <= cap * Cardinality(S) => SumFunction(w) = 1000
<1> DEFINE n == Cardinality(S)
           raw == [m \in S |-> Max({1, score[m]})]
           w == BoundedNormalize(score, floor, cap)
<1>0. NormalizedWithin(w, S, score, floor, cap)
    BY NormalizedFrom
<1>1. PICK low \in SUBSET S, high \in SUBSET S : NormalizedBy(w, S, raw, low, high, floor, cap)
    BY <1>0 DEF NormalizedWithin
<1> DEFINE scaled == Scaled(raw, low, high, floor, cap)
           residue == 1000 - SumFunction(scaled)
<1>2. n \in Nat \ {0} /\ floor <= cap
    BY <1>0, FS_CardinalityType, FS_EmptySet DEF NormalizedWithin
<1>3. w = Rounded(scaled, residue, cap)
    BY <1>1 DEF NormalizedBy
<1>4. scaled \in [S -> floor .. cap] /\ NearlyWhole(scaled, S) /\ SumFunction(scaled) = SumFunctionOnSet(scaled, S)
    BY <1>1 DEF NormalizedBy
<1> HIDE DEF raw, scaled
<1>5. /\ scaled = [m \in S |-> scaled[m]]
      /\ \A m \in S : scaled[m] \in floor .. cap
      /\ SumFunctionOnSet(scaled, S) \in Int /\ SumFunctionOnSet(scaled, S) <= 1000
      /\ 1000 < SumFunctionOnSet(scaled, S) + n
    BY <1>4 DEF NearlyWhole
<1>6. residue \in Nat /\ residue = 1000 - SumFunctionOnSet(scaled, S) /\ residue < n
    <2> HIDE DEF n
    <2> QED BY <1>2, <1>4, <1>5
<1> HIDE DEF residue, w
<1>7. /\ w = [m \in S |-> w[m]]
      /\ \A m \in S : w[m] \in floor .. cap /\ scaled[m] <= w[m]
      /\ SumFunctionOnSet(w, S) = 1000 \/ \A m \in S : w[m] = scaled[m] /\ cap < scaled[m] + residue
    <2>1. w \in [S -> floor .. cap]
        BY <1>3, <1>5, <1>6, RoundedFacts
    <2>2. \A m \in S : scaled[m] <= w[m]
        BY <1>3, <1>5, <1>6, RoundedFacts
    <2>3. SumFunctionOnSet(w, S) = 1000 \/ \A m \in S : w[m] = scaled[m] /\ cap < scaled[m] + residue
        BY <1>3, <1>5, <1>6, RoundedFacts
    <2> QED BY <2>1, <2>2, <2>3
<1>8. SumFunction(w) = SumFunctionOnSet(w, S) /\ w \in [S -> floor .. cap]
    BY <1>7 DEF SumFunction
<1>9. Integral(w, S) /\ Integral(scaled, S) /\ SumFunctionOnSet(w, S) \in Int
    <2>1. Integral(w, S) /\ Integral(scaled, S)
        BY <1>5, <1>7 DEF Integral
    <2> QED BY <2>1, SumFacts
<1>10. CASE SumFunctionOnSet(w, S) = 1000
    BY <1>2, <1>8, <1>10 DEF w
<1>11. CASE \A m \in S : w[m] = scaled[m] /\ cap < scaled[m] + residue
    <2>1. SumFunctionOnSet(w, S) = SumFunctionOnSet(scaled, S)
        BY <1>9, <1>11, SumSame
    <2>2. ASSUME 1000 + n * n <= cap * n PROVE FALSE
        <3> DEFINE least == [m \in S |-> cap - residue]
        <3>1. \A m \in S : least[m] = cap - residue /\ least[m] <= scaled[m]
            BY <1>5, <1>6, <1>11
        <3> HIDE DEF least
        <3>2. Integral(least, S) /\ SumFunctionOnSet(least, S) = (cap - residue) * n
            BY <1>6, <3>1, SumConstant
        <3>3. (cap - residue) * n <= SumFunctionOnSet(scaled, S)
            BY <1>9, <3>1, <3>2, SumMonotone
        <3> HIDE DEF n
        <3>4. (cap - residue) * n = cap * n - residue * n /\ residue * n <= n * n
            <4>1. residue * n <= n * n
                BY <1>2, <1>6, Times
            <4> QED BY <1>2, <1>6, <4>1
        <3>5. residue # 0
            <4>1. PICK m \in S : TRUE
                OBVIOUS
            <4> QED BY <1>5, <1>11, <4>1
        <3>6. PICK a \in Int, b \in Int, c \in Int : a = cap * n /\ b = residue * n /\ c = n * n
            BY <1>2, <1>6
        <3> QED BY <1>5, <1>6, <2>2, <3>3, <3>4, <3>5, <3>6
    <2>3. SumFunction(w) <= 1000 /\ 1000 < SumFunction(w) + n
        BY <1>5, <1>8, <2>1
    <2> QED BY <1>8, <2>2, <2>3 DEF w
<1> QED BY <1>7, <1>10, <1>11

-----------------------------------------------------------------------------
(* The arithmetic of the forecasts stays among the integers. *)

\* A root is a natural number.
LEMMA RootType == ASSUME NEW n \in Int PROVE Root(n) \in Nat
<1> DEFINE bits == <<1024, 512, 256, 128, 64, 32, 16, 8, 4, 2, 1>>
           S == 1 .. 11
           WithBit(r, bit) == IF (r + bit) * (r + bit) <= n THEN r + bit ELSE r
           pick == [T \in SUBSET S |-> Max(T)]
           step == [p \in S \X Nat |-> WithBit(p[2], bits[p[1]])]
           Roots(g) == g = [T \in SUBSET S |-> IF T = {} THEN 0 ELSE WithBit(g[T \ {Max(T)}], bits[Max(T)])]
           h == CHOOSE g : Roots(g)
<1>1. IsFiniteSet(S) /\ DOMAIN bits = S /\ \A i \in S : bits[i] \in Nat
    <2>1. IsFiniteSet(S)
        <3>1. PICK a \in Int, b \in Int : a = 1 /\ b = 11
            OBVIOUS
        <3>2. IsFiniteSet(a .. b)
            BY FS_Interval
        <3> QED BY <3>1, <3>2
    <2>2. DOMAIN bits = S
        OBVIOUS
    <2>3. ASSUME NEW i \in S PROVE bits[i] \in Nat
        <3>1. i = 1 \/ i = 2 \/ i = 3 \/ i = 4 \/ i = 5 \/ i = 6 \/ i = 7 \/ i = 8 \/ i = 9 \/ i = 10 \/ i = 11
            OBVIOUS
        <3> QED BY <3>1
    <2> HIDE DEF bits, S
    <2> QED BY <2>1, <2>2, <2>3
<1>2. \A T \in (SUBSET S) \ {{}} : Max(T) \in T /\ pick[T] = Max(T)
    <2>1. ASSUME NEW T \in (SUBSET S) \ {{}} PROVE Max(T) \in T
        <3>1. T \in SUBSET Int /\ T # {}
            OBVIOUS
        <3>2. IsFiniteSet(T)
            <4> HIDE DEF S
            <4> QED BY <1>1, FS_Subset
        <3> QED BY <3>1, <3>2, MaxFacts
    <2> QED BY <2>1
<1> HIDE DEF bits
<1>3. ASSUME NEW r \in Nat, NEW i \in S PROVE WithBit(r, bits[i]) \in Nat
    BY <1>1
<1>4. PICK g \in [SUBSET S -> Nat] : Folding(g, S, 0, pick, step)
    <2>1. step \in [S \X Nat -> Nat]
        <3> HIDE DEF WithBit, S
        <3> QED BY <1>3
    <2>2. \A T \in (SUBSET S) \ {{}} : pick[T] \in T
        BY <1>2
    <2> HIDE DEF pick, step, S
    <2> QED BY <1>1, <2>1, <2>2, FoldExists
<1>5. Roots(g)
    <2>1. ASSUME NEW T \in SUBSET S, T # {}
          PROVE  step[<<pick[T], g[T \ {pick[T]}]>>] = WithBit(g[T \ {Max(T)}], bits[Max(T)])
        <3>1. pick[T] = Max(T) /\ Max(T) \in S /\ g[T \ {Max(T)}] \in Nat
            BY <1>2, <2>1
        <3> HIDE DEF pick, WithBit, S
        <3> QED BY <3>1
    <2>2. g = [T \in SUBSET S |-> IF T = {} THEN 0 ELSE step[<<pick[T], g[T \ {pick[T]}]>>]]
        BY <1>4, Zenon DEF Folding
    <2> HIDE DEF step, pick, WithBit, S
    <2> QED BY <2>1, <2>2
<1>6. Roots(h)
    <2> HIDE DEF Roots
    <2> QED BY <1>5
<1>7. Root(n) = h[S]
    BY <1>1 DEF Root, FoldLeft, MapThenFoldSet, bits
<1>8. h[S] \in Nat
    <2> DEFINE Q == {T \in SUBSET S : h[T] \in Nat}
    <2>1. ASSUME NEW T \in SUBSET S, \A x \in T : T \ {x} \in Q PROVE T \in Q
        <3>1. h[T] = IF T = {} THEN 0 ELSE WithBit(h[T \ {Max(T)}], bits[Max(T)])
            <4> HIDE DEF h, WithBit, S
            <4> QED BY <1>6
        <3> HIDE DEF h
        <3>2. CASE T = {}
            BY <3>1, <3>2
        <3>3. CASE T # {}
            <4>1. Max(T) \in T /\ h[T \ {Max(T)}] \in Nat
                BY <1>2, <2>1, <3>3
            <4> HIDE DEF WithBit, S
            <4> QED BY <1>3, <3>1, <3>3, <4>1
        <3> QED BY <3>2, <3>3
    <2> HIDE DEF Q, h
    <2>2. S \in Q
        BY <1>1, <2>1, SetInduction
    <2> QED BY <2>2 DEF Q
<1> HIDE DEF h
<1> QED BY <1>7, <1>8

LEMMA SumInt ==
    ASSUME NEW S, IsFiniteSet(S), NEW f \in [S -> Int]
    PROVE  SumFunction(f) \in Int /\ SumFunctionOnSet(f, S) \in Int
<1>1. Integral(f, S)
    BY DEF Integral
<1>2. SumFunctionOnSet(f, S) \in Int
    BY <1>1, SumFacts
<1>3. SumFunction(f) = SumFunctionOnSet(f, S)
    BY DEF SumFunction
<1> QED BY <1>2, <1>3

LEMMA SumNat ==
    ASSUME NEW S, IsFiniteSet(S), NEW f \in [S -> Nat]
    PROVE  SumFunction(f) \in Nat /\ SumFunctionOnSet(f, S) \in Nat
<1> DEFINE zero == [x \in S |-> 0]
<1>1. \A x \in S : zero[x] = 0 /\ zero[x] <= f[x]
    OBVIOUS
<1>2. f \in [S -> Int]
    OBVIOUS
<1> HIDE DEF zero
<1>3. Integral(f, S) /\ Integral(zero, S)
    BY <1>1, <1>2 DEF Integral
<1>4. SumFunctionOnSet(zero, S) = 0
    <2>1. SumFunctionOnSet(zero, S) = 0 * Cardinality(S) /\ Cardinality(S) \in Nat
        BY <1>1, SumConstant, FS_CardinalityType
    <2> QED BY <2>1
<1>5. SumFunctionOnSet(zero, S) <= SumFunctionOnSet(f, S)
    BY <1>1, <1>3, SumMonotone
<1>6. SumFunctionOnSet(f, S) \in Int /\ SumFunction(f) = SumFunctionOnSet(f, S)
    BY <1>2, SumInt DEF SumFunction
<1> QED BY <1>4, <1>5, <1>6

LEMMA Indices == ASSUME NEW n \in Nat PROVE IsFiniteSet(1 .. n)
BY FS_Interval

LEMMA ClipFacts ==
    ASSUME NEW x \in Int, NEW low \in Int, NEW high \in Int
    PROVE  Clip(x, low, high) \in Int /\ (low <= high => low <= Clip(x, low, high) /\ Clip(x, low, high) <= high)
BY DEF Clip

LEMMA FadeType == ASSUME NEW x PROVE Fade(x) \in Nat
BY EngineAssumption DEF Fade

\* The moves of the baselines.

LEMMA DriftType ==
    ASSUME NEW r \in Seq(Int), Len(r) >= 1
    PROVE  Deviation(r) \in Nat /\ DriftRate(r) \in Int
<1> DEFINE n == Len(r)
           total == SumFunction(r)
           f == [i \in 1 .. n |-> r[i] * r[i]]
           squares == SumFunction(f)
<1>1. n \in Nat \ {0} /\ IsFiniteSet(1 .. n)
    BY Indices
<1>2. total \in Int
    <2>1. r \in [1 .. n -> Int]
        OBVIOUS
    <2> HIDE DEF n
    <2> QED BY <1>1, <2>1, SumInt
<1>3. squares \in Int
    <2>1. f \in [1 .. n -> Int]
        OBVIOUS
    <2> HIDE DEF f, n
    <2> QED BY <1>1, <2>1, SumInt
<1> DEFINE x == n * squares - total * total
           sigma == Root(x \div (n * n))
<1>4. x \in Int /\ n * n \in Nat \ {0}
    <2> HIDE DEF n, squares, total
    <2> QED BY <1>1, <1>2, <1>3
<1>5. Deviation(r) = sigma
    BY DEF Deviation
<1>6. sigma \in Nat
    <2> HIDE DEF n, x
    <2> QED BY <1>4, Quotient, RootType
<1> HIDE DEF sigma
<1>7. DriftRate(r) = Clip(total \div n, -2 * sigma, 2 * sigma)
    BY <1>5 DEF DriftRate
<1> HIDE DEF n, total
<1>8. total \div n \in Int
    BY <1>1, <1>2, Quotient
<1> QED BY <1>5, <1>6, <1>7, <1>8, ClipFacts

LEMMA AutoRegressionType ==
    ASSUME NEW r \in Seq(Int), Len(r) >= 1
    PROVE  AutoRegression(r).phi \in Int /\ AutoRegression(r).intercept \in Int
<1> DEFINE n == Len(r) - 1
           x == SubSeq(r, 1, n)
           y == Tail(r)
           sx == SumFunction(x)
           sy == SumFunction(y)
           xx == [i \in 1 .. n |-> x[i] * x[i]]
           xy == [i \in 1 .. n |-> x[i] * y[i]]
           variance == n * SumFunction(xx) - sx * sx
           covariance == n * SumFunction(xy) - sx * sy
           phi == Clip(10 * ((100 * covariance) \div variance), -950, 950)
           intercept == (1000 * sy - phi * sx) \div (1000 * n)
<1>1. AutoRegression(r) = IF n >= ArMin /\ variance > 0 THEN [phi |-> phi, intercept |-> intercept]
                          ELSE [phi |-> 0, intercept |-> DriftRate(r)]
    BY DEF AutoRegression
<1>2. n \in Nat /\ IsFiniteSet(1 .. n)
    BY Indices
<1>3. x \in [1 .. n -> Int] /\ y \in [1 .. n -> Int]
    <2>1. x \in Seq(Int) /\ Len(x) = n
        <3>1. \A i \in 1 .. n : r[i] \in Int
            OBVIOUS
        <3>2. x = [i \in 1 .. n |-> r[i]]
            BY <1>2
        <3> HIDE DEF x, n
        <3> QED BY <1>2, <3>1, <3>2
    <2>2. y \in Seq(Int) /\ Len(y) = n
        <3>1. r # <<>>
            OBVIOUS
        <3> QED BY <3>1
    <2> HIDE DEF x, y, n
    <2> QED BY <2>1, <2>2
<1> HIDE DEF x, y
<1>4. xx \in [1 .. n -> Int] /\ xy \in [1 .. n -> Int]
    BY <1>3
<1> HIDE DEF n, xx, xy
<1>5. sx \in Int /\ sy \in Int /\ SumFunction(xx) \in Int /\ SumFunction(xy) \in Int
    BY <1>2, <1>3, <1>4, SumInt
<1>6. variance \in Int /\ covariance \in Int
    <2> HIDE DEF sx, sy
    <2> QED BY <1>2, <1>5
<1> HIDE DEF variance, covariance, sx, sy
<1>7. CASE n >= ArMin /\ variance > 0
    <2>1. phi \in Int
        <3>1. (100 * covariance) \div variance \in Int
            BY <1>6, <1>7, Quotient
        <3>2. PICK a \in Int, b \in Int, c \in Int :
                  a = 10 * ((100 * covariance) \div variance) /\ b = -950 /\ c = 950
            BY <3>1
        <3> QED BY <3>2, ClipFacts
    <2> HIDE DEF phi
    <2>2. intercept \in Int
        <3>1. 1000 * sy - phi * sx \in Int
            BY <1>5, <2>1
        <3>2. 1000 * n \in Nat \ {0}
            BY <1>2, <1>7, EngineAssumption
        <3> QED BY <3>1, <3>2, Quotient
    <2> HIDE DEF intercept
    <2> QED BY <1>1, <1>7, <2>1, <2>2
<1>8. CASE ~(n >= ArMin /\ variance > 0)
    <2> HIDE DEF phi, intercept
    <2> QED BY <1>1, <1>8, DriftType
<1> QED BY <1>7, <1>8

LEMMA ArPathType ==
    ASSUME NEW ar, ar.phi \in Int, ar.intercept \in Int, NEW sigma \in Nat, NEW last \in Int, NEW hours \in Nat
    PROVE  ArPath(ar, sigma, last, hours) \in Int
<1> DEFINE seq == [i \in 1 .. hours |-> i]
           S == 1 .. hours
           V == [last : Int, move : Int]
           base == [last |-> last, move |-> 0]
           Extended(path, r) == [last |-> r, move |-> path.move + r]
           After(path, i) ==
               Extended(path, Clip(ar.intercept + (ar.phi * path.last) \div 1000, -4 * sigma, 4 * sigma))
           pick == [T \in SUBSET S |-> Max(T)]
           step == [p \in S \X V |-> After(p[2], seq[p[1]])]
           Paths(g) == g = [T \in SUBSET S |-> IF T = {} THEN base ELSE After(g[T \ {Max(T)}], seq[Max(T)])]
           h == CHOOSE g : Paths(g)
<1>1. IsFiniteSet(S) /\ DOMAIN seq = S /\ base \in V
    BY Indices
<1>2. \A T \in (SUBSET S) \ {{}} : Max(T) \in T /\ pick[T] = Max(T)
    <2>1. ASSUME NEW T \in (SUBSET S) \ {{}} PROVE Max(T) \in T
        <3>1. T \in SUBSET Int /\ T # {}
            OBVIOUS
        <3>2. IsFiniteSet(T)
            <4> HIDE DEF S
            <4> QED BY <1>1, FS_Subset
        <3> QED BY <3>1, <3>2, MaxFacts
    <2> QED BY <2>1
<1> HIDE DEF seq, base
<1>3. ASSUME NEW path \in V, NEW i PROVE After(path, i) \in V
    <2>1. (ar.phi * path.last) \div 1000 \in Int
        OBVIOUS
    <2>2. Clip(ar.intercept + (ar.phi * path.last) \div 1000, -4 * sigma, 4 * sigma) \in Int
        <3>1. PICK a \in Int, b \in Int, c \in Int :
                  a = ar.intercept + (ar.phi * path.last) \div 1000 /\ b = -4 * sigma /\ c = 4 * sigma
            BY <2>1
        <3> QED BY <3>1, ClipFacts
    <2> QED BY <2>2
<1> HIDE DEF V
<1>4. PICK g \in [SUBSET S -> V] : Folding(g, S, base, pick, step)
    <2>1. step \in [S \X V -> V]
        <3> HIDE DEF After, S
        <3> QED BY <1>3
    <2>2. \A T \in (SUBSET S) \ {{}} : pick[T] \in T
        BY <1>2
    <2> HIDE DEF pick, step, S
    <2> QED BY <1>1, <2>1, <2>2, FoldExists
<1>5. Paths(g)
    <2>1. ASSUME NEW T \in SUBSET S, T # {}
          PROVE  step[<<pick[T], g[T \ {pick[T]}]>>] = After(g[T \ {Max(T)}], seq[Max(T)])
        <3>1. pick[T] = Max(T) /\ Max(T) \in S /\ g[T \ {Max(T)}] \in V
            BY <1>2, <2>1, Zenon
        <3> HIDE DEF pick, After, S
        <3> QED BY <3>1
    <2>2. g = [T \in SUBSET S |-> IF T = {} THEN base ELSE step[<<pick[T], g[T \ {pick[T]}]>>]]
        BY <1>4, Zenon DEF Folding
    <2> HIDE DEF step, pick, After, S
    <2> QED BY <2>1, <2>2
<1>6. Paths(h)
    <2> HIDE DEF Paths
    <2> QED BY <1>5
<1>7. ArPath(ar, sigma, last, hours) = h[S].move
    BY <1>1 DEF ArPath, FoldLeft, MapThenFoldSet, base, seq
<1>8. h[S] \in V
    <2> DEFINE Q == {T \in SUBSET S : h[T] \in V}
    <2>1. ASSUME NEW T \in SUBSET S, \A x \in T : T \ {x} \in Q PROVE T \in Q
        <3>1. h[T] = IF T = {} THEN base ELSE After(h[T \ {Max(T)}], seq[Max(T)])
            <4> HIDE DEF h, After, S
            <4> QED BY <1>6
        <3> HIDE DEF h
        <3>2. CASE T = {}
            BY <1>1, <3>1, <3>2
        <3>3. CASE T # {}
            <4>1. Max(T) \in T /\ h[T \ {Max(T)}] \in V
                BY <1>2, <2>1, <3>3
            <4> HIDE DEF After, S
            <4> QED BY <1>3, <3>1, <3>3, <4>1
        <3> QED BY <3>2, <3>3
    <2> HIDE DEF Q, h
    <2>2. S \in Q
        BY <1>1, <2>1, SetInduction
    <2> QED BY <2>2 DEF Q
<1> HIDE DEF h
<1> QED BY <1>7, <1>8 DEF V

\* a series that returns can be computed of
Priced(series) ==
    Len(series) \in Nat /\ Len(series) >= 2 /\ \A i \in 1 .. Len(series) : series[i].close \in Int

LEMMA ReturnsFacts ==
    ASSUME NEW series, Priced(series)
    PROVE  Returns(series) \in Seq(Int) /\ Len(Returns(series)) >= 1 /\ Last(Returns(series)) \in Int
<1> DEFINE n == Len(series) - 1
           r == Returns(series)
<1>1. n \in Nat \ {0}
    BY DEF Priced
<1>2. r = [i \in 1 .. n |-> series[i + 1].close - series[i].close]
    BY DEF Returns
<1>3. \A i \in 1 .. n : series[i + 1].close - series[i].close \in Int
    BY DEF Priced
<1> HIDE DEF n, r
<1>4. r \in [1 .. n -> Int]
    BY <1>2, <1>3
<1>5. r \in Seq(Int) /\ Len(r) = n
    BY <1>1, <1>4
<1>6. Last(r) = r[n]
    BY <1>5 DEF Last
<1> QED BY <1>1, <1>4, <1>5, <1>6 DEF r

LEMMA BaselineType ==
    ASSUME NEW r \in Seq(Int), Len(r) >= 1, Last(r) \in Int, NEW hours \in Nat
    PROVE  /\ \A m \in Baselines : BaselineMove(m, r, hours) \in Int
           /\ BaselineMove("persistence", r, hours) = 0
<1>1. DriftRate(r) \in Int /\ Deviation(r) \in Nat
    BY DriftType
<1>2. AutoRegression(r).phi \in Int /\ AutoRegression(r).intercept \in Int
    BY AutoRegressionType
<1>3. ArMove(r, hours) \in Int
    BY <1>1, <1>2, ArPathType DEF ArMove
<1>4. hours * DriftRate(r) \in Int
    BY <1>1
<1>5. /\ BaselineMove("persistence", r, hours) = 0
      /\ BaselineMove("drift_7d", r, hours) = hours * DriftRate(r)
      /\ BaselineMove("ar1", r, hours) = ArMove(r, hours)
    BY DEF BaselineMove
<1> QED BY <1>3, <1>4, <1>5 DEF Baselines

LEMMA MovesType ==
    ASSUME NEW answer, \A c \in Contexts, h \in Horizons : answer[c][h].point \in Int,
           NEW series, Priced(series)
    PROVE  /\ ModelMoves(answer, series) \in [Models -> [Horizons -> Int]]
           /\ \A h \in Horizons : ModelMoves(answer, series)["persistence"][h] = 0
<1> DEFINE r == Returns(series)
           Move(m, h) == IF m \in Contexts THEN answer[m][h].point ELSE BaselineMove(m, r, h)
           moves == [m \in Models |-> [h \in Horizons |-> Move(m, h)]]
<1>1. ModelMoves(answer, series) = moves
    <2>1. Table(Returns(series)) = r
        BY TableFacts
    <2> HIDE DEF r
    <2>2. ModelMoves(answer, series) = Table([m \in Models |-> Table([h \in Horizons |-> Move(m, h)])])
        BY <2>1 DEF ModelMoves
    <2> HIDE DEF Move
    <2>3. \A m \in Models : Table([h \in Horizons |-> Move(m, h)]) = [h \in Horizons |-> Move(m, h)]
        BY TableFacts
    <2>4. [m \in Models |-> Table([h \in Horizons |-> Move(m, h)])] = moves
        BY <2>3
    <2> QED BY <2>2, <2>4, TableFacts
<1>2. \A h \in Horizons : h \in Nat
    BY EngineAssumption
<1>3. r \in Seq(Int) /\ Len(r) >= 1 /\ Last(r) \in Int
    BY ReturnsFacts
<1> HIDE DEF r
<1>4. ASSUME NEW m \in Models, NEW h \in Horizons PROVE Move(m, h) \in Int
    <2>1. CASE m \in Contexts
        BY <2>1
    <2>2. CASE m \notin Contexts
        <3>1. m \in Baselines
            BY <2>2 DEF Models
        <3> QED BY <1>2, <1>3, <2>2, <3>1, BaselineType
    <2> QED BY <2>1, <2>2
<1>5. "persistence" \in Models /\ "persistence" \notin Contexts
    BY ContextsAreNoBaselines DEF Models, Baselines
<1>6. ASSUME NEW h \in Horizons PROVE Move("persistence", h) = 0
    BY <1>2, <1>3, <1>5, BaselineType
<1> HIDE DEF Move
<1>7. moves \in [Models -> [Horizons -> Int]]
    BY <1>4
<1>8. \A h \in Horizons : moves["persistence"][h] = 0
    BY <1>5, <1>6
<1> QED BY <1>1, <1>7, <1>8

LEMMA ShareType ==
    ASSUME NEW x \in Nat, NEW d \in Nat \ {0} PROVE x \div d \in Nat
BY Quotient

\* weights that a mean can be taken with
Weighing(w) == w \in [Models -> Nat] /\ SumFunctionOnSet(w, Models) > 0

LEMMA ModelsFacts ==
    /\ IsFiniteSet(Models) /\ IsFiniteSet(Contexts) /\ IsFiniteSet(Baselines)
    /\ Models # {} /\ "persistence" \in Models /\ "persistence" \notin Contexts
    /\ Cardinality(Models) \in Nat /\ Cardinality(Models) >= 2
<1>1. IsFiniteSet(Contexts)
    BY EngineAssumption
<1> DEFINE one == {"persistence"}
           two == one \cup {"drift_7d"}
<1>2. IsFiniteSet(one) /\ Cardinality(one) = 1
    BY FS_Singleton
<1>3. IsFiniteSet(two) /\ Cardinality(two) = 2
    <2>1. "drift_7d" \notin one
        OBVIOUS
    <2> HIDE DEF one
    <2> QED BY <1>2, <2>1, FS_AddElement
<1>4. Baselines = two \cup {"ar1"}
    BY DEF Baselines
<1>5. IsFiniteSet(Baselines)
    <2> HIDE DEF two
    <2> QED BY <1>3, <1>4, FS_AddElement
<1>6. IsFiniteSet(Models)
    BY <1>1, <1>5, FS_Union DEF Models
<1>7. two \subseteq Models /\ "persistence" \in Models
    BY <1>4 DEF Models
<1>8. Cardinality(Models) \in Nat /\ Cardinality(two) <= Cardinality(Models)
    <2> HIDE DEF two
    <2> QED BY <1>6, <1>7, FS_Subset, FS_CardinalityType
<1>9. "persistence" \notin Contexts
    BY ContextsAreNoBaselines
<1> HIDE DEF two
<1> QED BY <1>1, <1>3, <1>5, <1>6, <1>7, <1>8, <1>9

LEMMA WeighingFrom ==
    ASSUME NEW w \in [Models -> Nat], NEW m \in Models, w[m] > 0
    PROVE  Weighing(w)
<1>1. IsFiniteSet(Models) /\ IsFiniteSet(Models \ {m})
    BY ModelsFacts, FS_RemoveElement
<1>2. Integral(w, Models)
    BY DEF Integral
<1>3. SumFunctionOnSet(w, Models) = w[m] + SumFunctionOnSet(w, Models \ {m})
    BY <1>1, <1>2, SumFacts
<1>4. SumFunctionOnSet(w, Models \ {m}) >= 0 /\ SumFunctionOnSet(w, Models \ {m}) \in Int
    <2> DEFINE S == Models \ {m}
               zero == [x \in S |-> 0]
    <2>1. \A x \in S : zero[x] = 0 /\ zero[x] <= w[x]
        OBVIOUS
    <2>2. Integral(w, S)
        BY DEF Integral
    <2> HIDE DEF zero, S
    <2>3. Integral(zero, S) /\ SumFunctionOnSet(zero, S) = 0 * Cardinality(S) /\ Cardinality(S) \in Nat
        BY <1>1, <2>1, SumConstant, FS_CardinalityType DEF S
    <2>4. SumFunctionOnSet(zero, S) <= SumFunctionOnSet(w, S)
        BY <1>1, <2>1, <2>2, <2>3, SumMonotone DEF S
    <2>5. SumFunctionOnSet(w, S) \in Int
        BY <1>1, <2>2, SumFacts DEF S
    <2> QED BY <2>3, <2>4, <2>5 DEF S
<1> QED BY <1>3, <1>4 DEF Weighing

\* Without evidence, the static weights are a prior of all models.
LEMMA StaticType == ASSUME NEW regime PROVE Weighing(StaticWeights(Models, regime))
<1> DEFINE families == Baselines \cup {"timesfm"}
           share == [f \in families |-> FamilyWeight(f, regime)]
           ranks == SumFunctionOnSet(ContextRank, Contexts)
           total == SumFunction(share)
           Share(family) == (1000 * FamilyWeight(family, regime)) \div total
           w == [m \in Models |-> IF m \in Contexts THEN (Share("timesfm") * ContextRank[m]) \div ranks ELSE Share(m)]
<1>1. StaticWeights(Models, regime) = w
    <2> DEFINE Static(contexts, present) ==
                   LET all == SumFunction([f \in present |-> FamilyWeight(f, regime)])
                       Of(family) == (1000 * FamilyWeight(family, regime)) \div all
                   IN  [m \in Models |->
                           IF m \in Contexts
                           THEN (Of("timesfm") * ContextRank[m]) \div SumFunctionOnSet(ContextRank, contexts)
                           ELSE Of(m)]
               there == Models \cap Contexts
               present == (Models \cap Baselines) \cup (IF there = {} THEN {} ELSE {"timesfm"})
    <2>1. StaticWeights(Models, regime) = Static(there, present)
        BY DEF StaticWeights
    <2>2. there = Contexts /\ Models \cap Baselines = Baselines /\ Contexts # {}
        BY EngineAssumption DEF Models
    <2>3. present = families
        BY <2>2
    <2>4. w = Static(Contexts, families)
        OBVIOUS
    <2> HIDE DEF Static, present, families, w, there
    <2> QED BY <2>1, <2>2, <2>3, <2>4
<1>2. \A f : FamilyWeight(f, regime) \in 40 .. 720 /\ FamilyWeight("persistence", regime) >= 80
    BY DEF FamilyWeight
<1>3. IsFiniteSet(families) /\ families # {} /\ Cardinality(families) <= 4 /\ Cardinality(families) \in Nat
    <2>1. IsFiniteSet({"persistence"}) /\ Cardinality({"persistence"}) = 1
        BY FS_Singleton
    <2>2. IsFiniteSet({"persistence"} \cup {"drift_7d"}) /\ Cardinality({"persistence"} \cup {"drift_7d"}) = 2
        BY <2>1, FS_AddElement
    <2> DEFINE two == {"persistence"} \cup {"drift_7d"}
               three == two \cup {"ar1"}
    <2>3. IsFiniteSet(three) /\ Cardinality(three) = 3
        <3>1. "ar1" \notin two
            OBVIOUS
        <3> HIDE DEF two
        <3> QED BY <2>2, <3>1, FS_AddElement DEF two
    <2>4. families = three \cup {"timesfm"} /\ "timesfm" \notin three
        BY DEF Baselines
    <2> HIDE DEF three
    <2>5. IsFiniteSet(families) /\ Cardinality(families) = 4
        BY <2>3, <2>4, FS_AddElement
    <2> QED BY <2>5, <2>4
<1>4. total \in 1 .. 2880
    <2>1. DOMAIN share = families /\ Positive(share, families) /\ \A f \in families : share[f] <= 720
        BY <1>2 DEF Positive
    <2> DEFINE most == [f \in families |-> 720]
    <2>2. \A f \in families : most[f] = 720 /\ share[f] <= most[f]
        BY <2>1
    <2> HIDE DEF families, share, most
    <2>3. SumFunctionOnSet(share, families) \in Nat /\ Cardinality(families) <= SumFunctionOnSet(share, families)
        BY <1>3, <2>1, SumPositive
    <2>4. Cardinality(families) # 0
        BY <1>3, FS_EmptySet
    <2>5. Integral(most, families) /\ SumFunctionOnSet(most, families) = 720 * Cardinality(families)
        BY <1>3, <2>2, SumConstant
    <2>6. Integral(share, families)
        BY <2>1 DEF Integral, Positive
    <2>7. SumFunctionOnSet(share, families) <= SumFunctionOnSet(most, families)
        BY <1>3, <2>2, <2>5, <2>6, SumMonotone
    <2>8. total = SumFunctionOnSet(share, families)
        BY <2>1 DEF SumFunction
    <2> QED BY <1>3, <2>3, <2>4, <2>5, <2>7, <2>8
<1> HIDE DEF total
<1>5. \A f : Share(f) \in Nat
    <2>1. ASSUME NEW f PROVE Share(f) \in Nat
        <3>1. 1000 * FamilyWeight(f, regime) \in Nat
            BY <1>2
        <3> QED BY <1>4, <3>1, ShareType, SMTT(30)
    <2> QED BY <2>1
<1>6. Share("persistence") > 0
    <2>1. PICK x \in Int : x = 1000 * FamilyWeight("persistence", regime)
        BY <1>2
    <2>2. x >= 80000
        BY <1>2, <2>1
    <2>3. 1 * total <= x /\ x <= x * total
        BY <1>4, <2>2
    <2>4. 1 <= x \div total
        BY <1>4, <2>3, QuotientBetween
    <2>5. x \div total \in Int
        BY <1>4, Quotient
    <2>6. Share("persistence") = x \div total
        BY <2>1
    <2> HIDE DEF Share
    <2> QED BY <2>4, <2>5, <2>6
<1> HIDE DEF Share
<1>7. ranks \in Nat \ {0}
    <2>1. IsFiniteSet(Contexts) /\ Contexts # {} /\ Positive(ContextRank, Contexts)
        BY EngineAssumption DEF Positive
    <2>2. ranks \in Nat /\ Cardinality(Contexts) <= ranks
        BY <2>1, SumPositive
    <2>3. Cardinality(Contexts) # 0 /\ Cardinality(Contexts) \in Nat
        BY <2>1, FS_EmptySet, FS_CardinalityType
    <2> QED BY <2>2, <2>3
<1> HIDE DEF ranks
<1>8. ASSUME NEW m \in Contexts PROVE (Share("timesfm") * ContextRank[m]) \div ranks \in Nat
    <2>1. Share("timesfm") * ContextRank[m] \in Nat
        BY <1>5, EngineAssumption
    <2> QED BY <1>7, <2>1, ShareType
<1>9. w \in [Models -> Nat]
    BY <1>5, <1>8
<1>10. w["persistence"] = Share("persistence") /\ "persistence" \in Models
    BY ModelsFacts
<1> HIDE DEF w
<1> QED BY <1>1, <1>6, <1>9, <1>10, WeighingFrom

\* Weights that are normalized between the bounds can be taken a mean with.
LEMMA NormalizedType ==
    ASSUME NEW score \in [Models -> Int]
    PROVE  Weighing(BoundedNormalize(score, MinWeight, MaxWeight))
<1> DEFINE w == BoundedNormalize(score, MinWeight, MaxWeight)
<1>1. MinWeight * Cardinality(Models) <= 1000 /\ 1000 <= MaxWeight * Cardinality(Models)
    BY BoundsAssumption, ModelsFacts DEF MinWeight, MaxWeight
<1>2. MinWeight \in Nat /\ MaxWeight \in Nat
    BY DEF MinWeight, MaxWeight
<1>3. w \in [Models -> MinWeight .. MaxWeight]
    BY <1>1, <1>2, ModelsFacts, WeightsKeepTheirBounds
<1>4. w \in [Models -> Nat] /\ \A m \in Models : w[m] > 0
    BY <1>3 DEF MinWeight, MaxWeight
<1> HIDE DEF w
<1> QED BY <1>4, ModelsFacts, WeighingFrom DEF w

-----------------------------------------------------------------------------
(* What the engine makes of a history. *)

\* quantiles of numbers, with the point inside the interval
Sensible(p) ==
    \A h \in Horizons :
        /\ p[h].point \in Int /\ p[h].q10 \in Int /\ p[h].q90 \in Int
        /\ p[h].q10 < p[h].point /\ p[h].point < p[h].q90

\* what the models answered, in numbers
Measurable(s) ==
    /\ s.close \in Int /\ s.models \in [Models -> [Horizons -> Int]]
    /\ \A c \in Contexts, h \in Horizons : s.bands[c][h][1] \in Int /\ s.bands[c][h][2] \in Int

\* a snapshot as every forecast leaves it
Sane(s) ==
    /\ "ensemble" \in DOMAIN s /\ s.origin \in Int /\ Measurable(s)
    /\ \A h \in Horizons : s.models["persistence"][h] = s.close
    /\ Sensible(s.ensemble)

\* a history of answers, and what is known of some of its forecasts
Observations(hist, known) ==
    /\ IsFiniteSet(DOMAIN hist) /\ DOMAIN hist \subseteq Int
    /\ \A o \in DOMAIN hist : Measurable(hist[o])
    /\ DOMAIN known \subseteq (DOMAIN hist) \X Horizons
    /\ \A k \in DOMAIN known : known[k] \in Int

\* a history of forecasts, and what is known of some of them
Evidence(hist, known) == Observations(hist, known) /\ \A o \in DOMAIN hist : Sane(hist[o])

LEMMA OriginsFacts ==
    ASSUME NEW hist, NEW known, Observations(hist, known), NEW h
    PROVE  /\ OriginsKnown(known, h) \in SUBSET (DOMAIN hist) /\ IsFiniteSet(OriginsKnown(known, h))
           /\ OriginsKnown(known, h) \in SUBSET Int
           /\ \A o \in OriginsKnown(known, h) : <<o, h>> \in DOMAIN known /\ h \in Horizons
<1>1. \A o \in OriginsKnown(known, h) : <<o, h>> \in DOMAIN known /\ o \in DOMAIN hist /\ h \in Horizons
    BY DEF Observations, OriginsKnown
<1>2. OriginsKnown(known, h) \subseteq DOMAIN hist
    BY <1>1
<1>3. IsFiniteSet(OriginsKnown(known, h))
    BY <1>2, FS_Subset DEF Observations
<1> QED BY <1>1, <1>2, <1>3 DEF Observations

LEMMA NewestType ==
    ASSUME NEW origins, origins \in SUBSET Int, IsFiniteSet(origins), NEW limit \in Nat \ {0}
    PROVE  Newest(origins, limit) \in SUBSET origins /\ IsFiniteSet(Newest(origins, limit))
<1>1. Newest(origins, limit) \in SUBSET origins
    BY DEF Newest
<1>2. IsFiniteSet(Newest(origins, limit))
    BY <1>1, FS_Subset
<1> QED BY <1>1, <1>2

LEMMA NewestExists ==
    ASSUME NEW origins, origins \in SUBSET Int, IsFiniteSet(origins), origins # {}, NEW limit \in Nat \ {0}
    PROVE  Newest(origins, limit) # {}
<1>1. PICK x \in origins : \A y \in origins : y <= x
    BY GreatestExists
<1>2. {y \in origins : y > x} = {}
    <2>1. ASSUME NEW y \in origins, y > x PROVE FALSE
        <3>1. y <= x /\ y \in Int /\ x \in Int
            BY <1>1
        <3> QED BY <2>1, <3>1
    <2> QED BY <2>1
<1>3. Cardinality({y \in origins : y > x}) = 0
    BY <1>2, FS_EmptySet
<1>4. x \in Newest(origins, limit)
    BY <1>3 DEF Newest
<1> QED BY <1>4

Counted(m) == m.samples \in Nat /\ m.absolute \in Int /\ m.signed \in Int /\ m.correct \in Nat /\ m.covered \in Nat

LEMMA MetricsType ==
    ASSUME NEW hist, NEW known, Observations(hist, known), NEW model \in Models, NEW h \in Horizons,
           NEW origins \in SUBSET OriginsKnown(known, h)
    PROVE  /\ Counted(Metrics(hist, known, model, h, origins))
           /\ Metrics(hist, known, model, h, origins).samples = Cardinality(origins)
<1> DEFINE Error(o) == hist[o].models[model][h] - known[<<o, h>>]
           Correct(o) == Sign(hist[o].models[model][h] - hist[o].close)
                           = Sign(known[<<o, h>>] - hist[o].close)
           covered == {o \in origins : model \in Contexts
                                       /\ hist[o].bands[model][h][1] <= known[<<o, h>>]
                                       /\ known[<<o, h>>] <= hist[o].bands[model][h][2]}
           right == {o \in origins : Correct(o)}
           abs == [o \in origins |-> Abs(Error(o))]
           off == [o \in origins |-> Error(o)]
           m == Metrics(hist, known, model, h, origins)
<1>1. m = [samples |-> Cardinality(origins), absolute |-> SumFunction(abs), signed |-> SumFunction(off),
           correct |-> Cardinality(right), covered |-> Cardinality(covered)]
    BY DEF Metrics
<1>2. IsFiniteSet(origins) /\ IsFiniteSet(right) /\ IsFiniteSet(covered)
    BY OriginsFacts, FS_Subset
<1>3. Cardinality(origins) \in Nat /\ Cardinality(right) \in Nat /\ Cardinality(covered) \in Nat
    BY <1>2, FS_CardinalityType
<1>4. ASSUME NEW o \in origins PROVE Error(o) \in Int /\ Abs(Error(o)) \in Int
    <2>1. o \in DOMAIN hist /\ <<o, h>> \in DOMAIN known
        BY OriginsFacts
    <2>2. hist[o].models[model][h] \in Int /\ known[<<o, h>>] \in Int
        BY <2>1 DEF Observations, Measurable
    <2> QED BY <2>2 DEF Abs
<1> HIDE DEF Error
<1>5. abs \in [origins -> Int] /\ off \in [origins -> Int]
    BY <1>4
<1> HIDE DEF abs, off, right, covered
<1>6. SumFunction(abs) \in Int /\ SumFunction(off) \in Int
    BY <1>2, <1>5, SumInt
<1> HIDE DEF m
<1> QED BY <1>1, <1>3, <1>6 DEF Counted, m

LEMMA AtLeastOne == ASSUME NEW x \in Int PROVE Max({1, x}) \in Nat \ {0}
<1>1. PICK a \in Int : a = 1
    OBVIOUS
<1>2. Max({a, x}) \in {a, x} /\ Max({a, x}) >= a
    BY PairFacts
<1> QED BY <1>1, <1>2

LEMMA ProgressType ==
    ASSUME NEW n \in Nat, NEW least \in Int, NEW full \in Int
    PROVE  Progress(n, least, full) \in 0 .. 1000
<1>1. Max({1, full - least}) \in Nat \ {0}
    <2>1. PICK d \in Int : d = full - least
        OBVIOUS
    <2> QED BY <2>1, AtLeastOne
<1>2. (1000 * (n - least)) \div Max({1, full - least}) \in Int
    BY <1>1, Quotient
<1>3. PICK x \in Int : x = (1000 * (n - least)) \div Max({1, full - least})
    BY <1>2
<1>4. Clip(x, 0, 1000) \in Int /\ 0 <= Clip(x, 0, 1000) /\ Clip(x, 0, 1000) <= 1000
    BY ClipFacts
<1> QED BY <1>3, <1>4 DEF Progress

LEMMA ScoreType ==
    ASSUME NEW model, NEW metrics, metrics[model].samples \in Nat \ {0}, metrics[model].correct \in Nat
    PROVE  RawScore(model, metrics) \in Nat \ {0}
<1> DEFINE n == metrics[model].samples
           worse == Max({0, metrics[model].absolute - metrics["persistence"].absolute})
           miss == IF model \in Contexts /\ n >= MinCoverageSamples
                   THEN (35 * Abs(1000 * metrics[model].covered - 800 * n)) \div (1000 * n) ELSE 0
           penalty == (250 * metrics[model].absolute + 35 * Abs(metrics[model].signed)
                       + 150 * worse) \div (100 * n) + miss
           fade == Fade(penalty)
<1>1. RawScore(model, metrics) = Max({1, (fade * (75 * n + 50 * metrics[model].correct)) \div (100 * n)})
    BY DEF RawScore
<1>2. fade \in Nat
    BY FadeType
<1> HIDE DEF fade
<1>3. fade * (75 * n + 50 * metrics[model].correct) \in Int /\ 100 * n \in Nat \ {0}
    BY <1>2
<1>4. PICK x \in Int : x = (fade * (75 * n + 50 * metrics[model].correct)) \div (100 * n)
    BY <1>3, Quotient
<1> QED BY <1>1, <1>4, AtLeastOne

\* a policy for all models, whose weights are between the bounds
Weighs(policy) ==
    /\ policy.models = Models /\ policy.least \in Nat \ {0} /\ policy.full \in Int
    /\ policy.limit \in Nat \ {0} /\ policy.floor = MinWeight /\ policy.cap = MaxWeight

LEMMA InForceWeighs == Weighs(InForce)
BY EngineAssumption DEF Weighs, InForce

LEMMA SampledType ==
    ASSUME NEW policy, Weighs(policy), NEW hist, NEW known, Observations(hist, known), NEW h, NEW regime
    PROVE  LET s == Sampled(policy, hist, known, h, regime)
           IN  /\ s.origins \in SUBSET OriginsKnown(known, h)
               /\ s.source # "insufficient_history" => s.origins # {}
<1> DEFINE all == OriginsKnown(known, h)
           here == {o \in all : hist[o].regime = regime}
           limit == policy.limit
           s == Sampled(policy, hist, known, h, regime)
<1>1. s = IF Cardinality(here) >= policy.least
          THEN [source |-> "regime", origins |-> Newest(here, limit)]
          ELSE IF Cardinality(all) >= policy.least
               THEN [source |-> "all_regimes", origins |-> Newest(all, limit)]
               ELSE [source |-> "insufficient_history", origins |-> all]
    BY DEF Sampled
<1>2. all \in SUBSET Int /\ IsFiniteSet(all) /\ limit \in Nat \ {0} /\ policy.least >= 1 /\ policy.least \in Nat
    BY OriginsFacts DEF Weighs
<1>3. here \subseteq all
    OBVIOUS
<1> HIDE DEF all, here, limit, s
<1>4. IsFiniteSet(here) /\ here \in SUBSET Int
    BY <1>2, <1>3, FS_Subset
<1>5. CASE Cardinality(here) >= policy.least
    <2>1. here # {}
        BY <1>2, <1>5, FS_EmptySet
    <2>2. Newest(here, limit) \in SUBSET here /\ Newest(here, limit) # {}
        BY <1>2, <1>4, <2>1, NewestType, NewestExists
    <2>3. s.origins = Newest(here, limit)
        BY <1>1, <1>5
    <2> QED BY <1>3, <2>2, <2>3 DEF s, all
<1>6. CASE ~(Cardinality(here) >= policy.least) /\ Cardinality(all) >= policy.least
    <2>1. all # {}
        BY <1>2, <1>6, FS_EmptySet
    <2>2. Newest(all, limit) \in SUBSET all /\ Newest(all, limit) # {}
        BY <1>2, <2>1, NewestType, NewestExists
    <2>3. s.origins = Newest(all, limit)
        BY <1>1, <1>6
    <2> QED BY <2>2, <2>3 DEF s, all
<1>7. CASE ~(Cardinality(here) >= policy.least) /\ ~(Cardinality(all) >= policy.least)
    <2>1. s.origins = all /\ s.source = "insufficient_history"
        BY <1>1, <1>7
    <2> QED BY <2>1 DEF s, all
<1> QED BY <1>5, <1>6, <1>7

LEMMA LearnedType ==
    ASSUME NEW policy, Weighs(policy), NEW hist, NEW known, Observations(hist, known), NEW h \in Horizons,
           NEW regime, NEW confidence \in Nat
    PROVE  Weighing(LearnedWeights(policy, hist, known, h, regime, confidence).weights)
<1> DEFINE M == policy.models
           sampled == Sampled(policy, hist, known, h, regime)
           prior == StaticWeights(M, regime)
           metrics == [m \in M |-> Metrics(hist, known, m, h, sampled.origins)]
           score == [m \in M |-> RawScore(m, metrics)]
           n == Cardinality(sampled.origins)
           progress == Progress(n, policy.least, policy.full)
           others == M \ {"persistence"}
           WeighedBy(met, sc) ==
               LET total == SumFunction(sc)
                   blend == ((250 + ((550 * progress) \div 1000)) * confidence) \div 1000
                   Blended(m) == ((1000 - blend) * prior[m] + (blend * 1000 * sc[m]) \div total) \div 1000
                   beaten == SumFunction([m \in others |-> met[m].absolute])
                               < Cardinality(others) * met["persistence"].absolute
                   boost == IF beaten THEN 0 ELSE 120
               IN  IF sampled.source = "insufficient_history" \/ confidence = 0
                   THEN [mode |-> "static_prior", source |-> sampled.source, weights |-> prior]
                   ELSE [mode |-> "adaptive", source |-> sampled.source,
                         weights |-> BoundedNormalize(
                             [m \in M |-> Blended(m) + IF m = "persistence" THEN boost ELSE 0],
                             policy.floor, policy.cap)]
           w == LearnedWeights(policy, hist, known, h, regime, confidence)
<1>1. w = WeighedBy(metrics, score)
    <2>1. Table([m \in M |-> Metrics(hist, known, m, h, sampled.origins)]) = metrics
        BY TableFacts
    <2>2. Table(score) = score
        BY TableFacts
    <2>3. w = WeighedBy(Table([m \in M |-> Metrics(hist, known, m, h, sampled.origins)]),
                      Table([m \in M |->
                          RawScore(m, Table([k \in M |-> Metrics(hist, known, k, h, sampled.origins)]))]))
        BY DEF LearnedWeights
    <2> HIDE DEF WeighedBy, w
    <2> QED BY <2>1, <2>2, <2>3
<1>2. M = Models /\ IsFiniteSet(M) /\ M # {}
    BY ModelsFacts DEF Weighs
<1>3. Weighing(prior)
    BY <1>2, StaticType
<1>4. CASE sampled.source = "insufficient_history" \/ confidence = 0
    <2>1. w.weights = prior
        BY <1>1, <1>4
    <2> QED BY <1>3, <2>1
<1>5. CASE ~(sampled.source = "insufficient_history" \/ confidence = 0)
    <2> DEFINE total == SumFunction(score)
               blend == ((250 + ((550 * progress) \div 1000)) * confidence) \div 1000
               Blended(m) == ((1000 - blend) * prior[m] + (blend * 1000 * score[m]) \div total) \div 1000
               beaten == SumFunction([m \in others |-> metrics[m].absolute])
                           < Cardinality(others) * metrics["persistence"].absolute
               boost == IF beaten THEN 0 ELSE 120
               f == [m \in M |-> Blended(m) + IF m = "persistence" THEN boost ELSE 0]
    <2>1. w.weights = BoundedNormalize(f, policy.floor, policy.cap)
        BY <1>1, <1>5
    <2>2. n \in Nat \ {0}
        <3>1. sampled.origins \in SUBSET OriginsKnown(known, h) /\ sampled.origins # {}
            BY <1>5, SampledType
        <3>2. IsFiniteSet(sampled.origins)
            BY <3>1, OriginsFacts, FS_Subset
        <3> HIDE DEF sampled
        <3> QED BY <3>1, <3>2, FS_EmptySet, FS_CardinalityType
    <2>3. ASSUME NEW m \in M PROVE score[m] \in Nat \ {0}
        <3>1. Counted(metrics[m]) /\ metrics[m].samples = n
            <4>1. sampled.origins \in SUBSET OriginsKnown(known, h)
                BY SampledType
            <4> HIDE DEF sampled
            <4>2. metrics[m] = Metrics(hist, known, m, h, sampled.origins)
                OBVIOUS
            <4> HIDE DEF metrics
            <4> QED BY <1>2, <4>1, <4>2, MetricsType
        <3> HIDE DEF metrics, n
        <3> QED BY <2>2, <3>1, ScoreType DEF Counted
    <2> HIDE DEF metrics
    <2>4. total \in Nat \ {0}
        <3>1. DOMAIN score = M /\ Positive(score, M)
            BY <2>3 DEF Positive
        <3> HIDE DEF score, M
        <3>2. SumFunctionOnSet(score, M) \in Nat /\ Cardinality(M) <= SumFunctionOnSet(score, M)
            BY <1>2, <3>1, SumPositive
        <3>3. Cardinality(M) \in Nat /\ Cardinality(M) # 0
            BY <1>2, FS_CardinalityType, FS_EmptySet
        <3> QED BY <3>1, <3>2, <3>3 DEF SumFunction
    <2> HIDE DEF score, total
    <2>5. blend \in Int
        <3>1. progress \in Int
            <4> HIDE DEF n
            <4>1. PICK a \in Int, b \in Int : a = policy.least /\ b = policy.full
                BY DEF Weighs
            <4>2. Progress(n, a, b) \in 0 .. 1000
                BY <2>2, ProgressType, ZenonT(40)
            <4> QED BY <4>1, <4>2
        <3> HIDE DEF progress
        <3> QED BY <3>1
    <2> HIDE DEF blend
    <2>6. ASSUME NEW m \in M PROVE Blended(m) \in Int
        <3>1. prior[m] \in Int /\ score[m] \in Int
            BY <1>2, <1>3, <2>3 DEF Weighing
        <3> HIDE DEF prior, M
        <3>2. (blend * 1000 * score[m]) \div total \in Int
            <4>1. blend * 1000 * score[m] \in Int
                BY <2>5, <3>1
            <4> QED BY <2>4, <4>1, Quotient
        <3>3. (1000 - blend) * prior[m] \in Int
            BY <2>5, <3>1
        <3> QED BY <3>2, <3>3
    <2>7. boost \in Int
        OBVIOUS
    <2> HIDE DEF Blended, boost
    <2>8. f \in [Models -> Int]
        BY <1>2, <2>6, <2>7
    <2>9. policy.floor = MinWeight /\ policy.cap = MaxWeight
        BY DEF Weighs
    <2> HIDE DEF f
    <2> QED BY <2>1, <2>8, <2>9, NormalizedType
<1> QED BY <1>4, <1>5

\* A variance is not negative.
LEMMA VarianceFacts ==
    ASSUME NEW S, IsFiniteSet(S), NEW f \in [S -> Int]
    PROVE  Cardinality(S) * SumFunction([x \in S |-> f[x] * f[x]]) - SumFunction(f) * SumFunction(f) \in Nat
<1> DEFINE n == Cardinality(S)
           sq == [x \in S |-> f[x] * f[x]]
           total == SumFunctionOnSet(f, S)
           squares == SumFunctionOnSet(sq, S)
           a == [x \in S |-> sq[x] * (n * n)]
           b == [x \in S |-> f[x] * (-2 * (n * total))]
           c == [x \in S |-> total * total]
           d == [x \in S |-> a[x] + b[x]]
           e == [x \in S |-> d[x] + c[x]]
<1>1. n \in Nat /\ SumFunction(sq) = squares /\ SumFunction(f) = total
    BY FS_CardinalityType DEF SumFunction
<1>2. sq \in [S -> Int]
    OBVIOUS
<1>3. \A x \in S : sq[x] = f[x] * f[x]
    OBVIOUS
<1> HIDE DEF n, sq
<1>4. squares \in Int /\ total \in Int
    BY <1>2, SumInt
<1> HIDE DEF squares, total
<1>5. n * n \in Int /\ -2 * (n * total) \in Int /\ total * total \in Int
    BY <1>1, <1>4
<1>6. \A x \in S : a[x] = sq[x] * (n * n) /\ b[x] = f[x] * (-2 * (n * total)) /\ c[x] = total * total
    OBVIOUS
<1>7. (\A x \in S : d[x] = a[x] + b[x]) /\ \A x \in S : e[x] = d[x] + c[x]
    OBVIOUS
<1> HIDE DEF a, b, c, d, e
<1>8. Integral(a, S) /\ SumFunctionOnSet(a, S) = squares * (n * n)
    <2>1. Integral(sq, S)
        BY <1>2 DEF Integral
    <2> QED BY <1>5, <1>6, <2>1, SumScaled DEF squares
<1>9. Integral(b, S) /\ SumFunctionOnSet(b, S) = total * (-2 * (n * total))
    <2>1. Integral(f, S)
        BY DEF Integral
    <2> QED BY <1>5, <1>6, <2>1, SumScaled DEF total
<1>10. Integral(c, S) /\ SumFunctionOnSet(c, S) = (total * total) * n
    BY <1>5, <1>6, SumConstant DEF n
<1>11. Integral(d, S) /\ SumFunctionOnSet(d, S) = squares * (n * n) + total * (-2 * (n * total))
    BY <1>7, <1>8, <1>9, SumAdds
<1>12. /\ Integral(e, S)
       /\ SumFunctionOnSet(e, S) = (squares * (n * n) + total * (-2 * (n * total))) + (total * total) * n
    BY <1>7, <1>10, <1>11, SumAdds
<1>13. SumFunctionOnSet(e, S) \in Nat
    <2>1. ASSUME NEW x \in S PROVE e[x] \in Nat
        <3>1. PICK v \in Int : v = f[x]
            OBVIOUS
        <3>2. e[x] = ((v * v) * (n * n) + v * (-2 * (n * total))) + total * total
            BY <1>3, <1>6, <1>7, <3>1
        <3>3. ((v * v) * (n * n) + v * (-2 * (n * total))) + total * total = (v * n - total) * (v * n - total)
            BY <1>1, <1>4
        <3>4. PICK y \in Int : y = v * n - total
            BY <1>1, <1>4
        <3>5. y * y \in Nat
            OBVIOUS
        <3> QED BY <3>2, <3>3, <3>4, <3>5
    <2>2. e \in [S -> Nat]
        BY <2>1 DEF e
    <2> QED BY <2>2, SumNat
<1>14. (squares * (n * n) + total * (-2 * (n * total))) + (total * total) * n = (n * squares - total * total) * n
    BY <1>1, <1>4
<1>15. PICK x \in Int : x = n * squares - total * total
    BY <1>1, <1>4
<1>16. x * n \in Nat
    BY <1>12, <1>13, <1>14, <1>15
<1>17. CASE n = 0
    <2>1. S = {}
        BY <1>17, FS_EmptySet DEF n
    <2>2. total = 0
        <3>1. Integral(f, {}) /\ IsFiniteSet({})
            BY FS_EmptySet DEF Integral
        <3>2. SumFunctionOnSet(f, {}) = 0
            BY <3>1, SumFacts
        <3> QED BY <2>1, <3>2 DEF total
    <2> QED BY <1>1, <1>4, <1>17, <2>2 DEF n, sq
<1>18. CASE n # 0
    <2>1. 0 * n <= x * n
        BY <1>1, <1>16
    <2>2. 0 <= x
        BY <1>1, <1>18, <2>1, Cancel
    <2> QED BY <1>1, <1>15, <2>2 DEF n, sq
<1> QED BY <1>17, <1>18

\* covariances of errors: those of an error with itself are variances
Covarying(cov) == \A x \in Models, y \in Models : cov[<<x, y>>] \in Int /\ cov[<<x, x>>] \in Nat

LEMMA CovariancesType ==
    ASSUME NEW hist, NEW known, Observations(hist, known), NEW h \in Horizons,
           NEW origins \in SUBSET OriginsKnown(known, h)
    PROVE  Covarying(Covariances(hist, known, h, origins))
<1> DEFINE n == Cardinality(origins)
           off(m) == [o \in origins |-> hist[o].models[m][h] - known[<<o, h>>]]
           error == [m \in Models |-> off(m)]
           Product(x, y) == [o \in origins |-> off(x)[o] * off(y)[o]]
           Total(m) == SumFunction(off(m))
           Cov(x, y) == n * SumFunction(Product(x, y)) - Total(x) * Total(y)
           cov == Covariances(hist, known, h, origins)
<1>1. \A x \in Models, y \in Models : cov[<<x, y>>] = Cov(x, y)
    <2> DEFINE Full(e, t) ==
                   [pair \in (Models \X Models) |->
                       n * SumFunction([o \in origins |-> e[pair[1]][o] * e[pair[2]][o]]) - t[pair[1]] * t[pair[2]]]
               totals == [m \in Models |-> SumFunction([o \in origins |-> error[m][o]])]
    <2>1. Table([m \in Models |-> Table([o \in origins |-> hist[o].models[m][h] - known[<<o, h>>]])]) = error
        <3>1. \A m \in Models : Table([o \in origins |-> hist[o].models[m][h] - known[<<o, h>>]]) = off(m)
            BY TableFacts
        <3> HIDE DEF off
        <3>2. [m \in Models |-> Table([o \in origins |-> hist[o].models[m][h] - known[<<o, h>>]])] = error
            BY <3>1
        <3> QED BY <3>2, TableFacts
    <2>2. Table(totals) = totals
        BY TableFacts
    <2> DEFINE e == Table([m \in Models |-> Table([o \in origins |-> hist[o].models[m][h] - known[<<o, h>>]])])
    <2>3. cov = Table(Full(e, Table([m \in Models |-> SumFunction([o \in origins |-> e[m][o]])])))
        BY DEF Covariances
    <2> HIDE DEF Full
    <2>4. cov = Full(error, totals)
        BY <2>1, <2>2, <2>3, TableFacts
    <2>5. ASSUME NEW x \in Models, NEW y \in Models PROVE Full(error, totals)[<<x, y>>] = Cov(x, y)
        <3>1. error[x] = off(x) /\ error[y] = off(y)
            OBVIOUS
        <3>2. /\ totals[x] = SumFunction([o \in origins |-> off(x)[o]])
              /\ totals[y] = SumFunction([o \in origins |-> off(y)[o]])
            OBVIOUS
        <3>3. [o \in origins |-> off(x)[o]] = off(x) /\ [o \in origins |-> off(y)[o]] = off(y)
            OBVIOUS
        <3> HIDE DEF off, error, totals
        <3>4. Full(error, totals)[<<x, y>>]
                = n * SumFunction([o \in origins |-> error[x][o] * error[y][o]]) - totals[x] * totals[y]
            BY DEF Full
        <3> QED BY <3>1, <3>2, <3>3, <3>4
    <2> HIDE DEF Cov, error, totals
    <2> QED BY <2>4, <2>5
<1>2. IsFiniteSet(origins) /\ n \in Nat
    BY OriginsFacts, FS_Subset, FS_CardinalityType
<1>3. ASSUME NEW m \in Models PROVE off(m) \in [origins -> Int]
    <2>1. ASSUME NEW o \in origins PROVE hist[o].models[m][h] - known[<<o, h>>] \in Int
        <3>1. o \in DOMAIN hist /\ <<o, h>> \in DOMAIN known
            BY OriginsFacts
        <3> QED BY <3>1 DEF Observations, Measurable
    <2> QED BY <2>1
<1> HIDE DEF off, n, cov
<1>4. ASSUME NEW x \in Models, NEW y \in Models PROVE Cov(x, y) \in Int
    <2>1. Product(x, y) \in [origins -> Int]
        BY <1>3
    <2> HIDE DEF Product
    <2>2. SumFunction(Product(x, y)) \in Int /\ Total(x) \in Int /\ Total(y) \in Int
        BY <1>2, <1>3, <2>1, SumInt
    <2> HIDE DEF Total
    <2> QED BY <1>2, <2>2
<1>5. ASSUME NEW x \in Models PROVE Cov(x, x) \in Nat
    BY <1>2, <1>3, VarianceFacts DEF n
<1> HIDE DEF Cov
<1> QED BY <1>1, <1>4, <1>5 DEF Covarying, cov

\* squares of correlations, where they are known
Correlated(squared) ==
    \A x \in Models, y \in Models : squared[<<x, y>>] # Missing => squared[<<x, y>>] \in Nat

LEMMA SquaredType ==
    ASSUME NEW cov, Covarying(cov), NEW x \in Models, NEW y \in Models, SquaredCorrelation(cov, x, y) # Missing
    PROVE  SquaredCorrelation(cov, x, y) \in Nat
<1> DEFINE p == cov[<<x, x>>]
           q == cov[<<y, y>>]
           c == cov[<<x, y>>]
           low == Min({p, q})
           high == Max({p, q})
           s == SquaredCorrelation(cov, x, y)
<1>1. s = IF low = 0 THEN Missing ELSE IF c <= 0 THEN 0 ELSE (((100 * c) \div high) * ((100 * c) \div low)) \div 10
    BY DEF SquaredCorrelation
<1>2. p \in Nat /\ q \in Nat /\ c \in Int
    BY DEF Covarying
<1> HIDE DEF p, q, c, s
<1>3. low \in Nat /\ high \in Nat /\ low <= high
    <2>1. p \in Int /\ q \in Int
        BY <1>2
    <2>2. low \in {p, q} /\ low <= p /\ high \in {p, q} /\ high >= p
        BY <2>1, PairFacts
    <2> HIDE DEF low, high
    <2> QED BY <1>2, <2>2
<1> HIDE DEF low, high
<1>4. CASE low = 0
    BY <1>1, <1>4 DEF s
<1>5. CASE low # 0 /\ c <= 0
    BY <1>1, <1>5 DEF s
<1>6. CASE low # 0 /\ ~(c <= 0)
    <2>1. low \in Nat \ {0} /\ high \in Nat \ {0} /\ 100 * c \in Nat
        BY <1>2, <1>3, <1>6
    <2>2. PICK a \in Nat, b \in Nat : a = (100 * c) \div high /\ b = (100 * c) \div low
        BY <2>1, ShareType
    <2>3. a * b \in Nat
        OBVIOUS
    <2>4. (a * b) \div 10 \in Nat
        BY <2>3, ShareType
    <2> QED BY <1>1, <1>6, <2>2, <2>4 DEF s
<1> QED BY <1>4, <1>5, <1>6

LEMMA PenaltyType ==
    ASSUME NEW model \in Models, NEW base \in [Models -> Nat], NEW squared, Correlated(squared), NEW n \in Nat
    PROVE  Penalty(model, base, squared, n) \in Int
<1> DEFINE peers == {p \in Models \ {model} : squared[<<model, p>>] # Missing}
           mass == SumFunctionOnSet(base, peers)
           f == [p \in peers |-> base[p] * squared[<<model, p>>]]
           redundancy == SumFunction(f) \div mass
           progress == Progress(n, CorrelationMin, CorrelationFull)
           blend == (MaxCorrelationBlend * progress) \div 1000
           full == 1000000 \div (1000 + (CorrelationStrength * redundancy) \div 1000)
           result == Penalty(model, base, squared, n)
<1>1. result = IF peers = {} \/ mass = 0 THEN 1000 ELSE 1000 - (blend * (1000 - full)) \div 1000
    BY DEF Penalty
<1>2. IsFiniteSet(peers) /\ peers \subseteq Models
    <2>1. peers \subseteq Models
        OBVIOUS
    <2> HIDE DEF peers
    <2> QED BY <2>1, ModelsFacts, FS_Subset
<1>3. \A p \in peers : squared[<<model, p>>] \in Nat
    BY DEF Correlated
<1> HIDE DEF peers, result
<1>4. f \in [peers -> Nat]
    <2>1. ASSUME NEW p \in peers PROVE base[p] * squared[<<model, p>>] \in Nat
        <3>1. base[p] \in Nat /\ squared[<<model, p>>] \in Nat
            BY <1>2, <1>3
        <3> QED BY <3>1
    <2> QED BY <2>1
<1>5. SumFunction(f) \in Nat
    <2> HIDE DEF f
    <2> QED BY <1>2, <1>4, SumNat
<1>6. mass \in Nat
    <2>1. Integral(base, peers)
        BY <1>2 DEF Integral
    <2> DEFINE part == [p \in peers |-> base[p]]
    <2>2. part \in [peers -> Nat] /\ \A p \in peers : base[p] = part[p]
        BY <1>2
    <2> HIDE DEF part
    <2>3. SumFunctionOnSet(part, peers) \in Nat
        BY <1>2, <2>2, SumNat
    <2>4. SumFunctionOnSet(base, peers) = SumFunctionOnSet(part, peers)
        BY <1>2, <2>1, <2>2, SumSame
    <2> QED BY <2>3, <2>4
<1> HIDE DEF f, mass
<1>7. CASE peers = {} \/ mass = 0
    BY <1>1, <1>7 DEF result
<1>8. CASE ~(peers = {} \/ mass = 0)
    <2>1. redundancy \in Nat
        BY <1>5, <1>6, <1>8, ShareType
    <2> HIDE DEF redundancy
    <2>2. progress \in 0 .. 1000
        <3>1. CorrelationMin \in Int /\ CorrelationFull \in Int
            BY EngineAssumption
        <3> QED BY <3>1, ProgressType, ZenonT(40)
    <2> HIDE DEF progress
    <2>3. blend \in Int
        <3>1. MaxCorrelationBlend * progress \in Int
            BY <2>2 DEF MaxCorrelationBlend
        <3> QED BY <3>1, Quotient
    <2> HIDE DEF blend
    <2>4. full \in Int
        <3>1. CorrelationStrength * redundancy \in Nat
            BY <2>1 DEF CorrelationStrength
        <3>2. (CorrelationStrength * redundancy) \div 1000 \in Nat
            BY <3>1, ShareType
        <3>3. 1000 + (CorrelationStrength * redundancy) \div 1000 \in Nat \ {0}
            BY <3>2
        <3> QED BY <3>3, Quotient
    <2> HIDE DEF full
    <2>5. PICK x \in Int : x = blend * (1000 - full)
        BY <2>3, <2>4
    <2>6. result = 1000 - x \div 1000
        BY <1>1, <1>8, <2>5
    <2>7. x \div 1000 \in Int
        BY Quotient
    <2> QED BY <2>6, <2>7 DEF result
<1> QED BY <1>7, <1>8

LEMMA DecorrelatedType ==
    ASSUME NEW base, Weighing(base.weights), NEW squared, Correlated(squared), NEW n \in Nat
    PROVE  Weighing(Decorrelated(base, squared, n).weights)
<1> DEFINE penalized == [m \in Models |-> (base.weights[m] * Penalty(m, base.weights, squared, n)) \div 1000]
           d == Decorrelated(base, squared, n)
<1>1. \/ d = base
      \/ d = [base EXCEPT !.mode = "correlation_aware_adaptive",
                          !.weights = BoundedNormalize(penalized, MinWeight, MaxWeight)]
    BY DEF Decorrelated
<1>2. penalized \in [Models -> Int]
    <2>1. ASSUME NEW m \in Models
          PROVE  (base.weights[m] * Penalty(m, base.weights, squared, n)) \div 1000 \in Int
        <3>1. base.weights \in [Models -> Nat]
            BY DEF Weighing
        <3>2. Penalty(m, base.weights, squared, n) \in Int
            BY <3>1, PenaltyType
        <3>3. base.weights[m] * Penalty(m, base.weights, squared, n) \in Int
            BY <3>1, <3>2
        <3> QED BY <3>3, Quotient
    <2> QED BY <2>1
<1> HIDE DEF penalized
<1>3. Weighing(BoundedNormalize(penalized, MinWeight, MaxWeight))
    BY <1>2, NormalizedType
<1> HIDE DEF d
<1>4. CASE d = base
    BY <1>4 DEF d
<1>5. CASE d = [base EXCEPT !.mode = "correlation_aware_adaptive",
                            !.weights = BoundedNormalize(penalized, MinWeight, MaxWeight)]
    <2>1. d.weights = BoundedNormalize(penalized, MinWeight, MaxWeight) \/ d.weights = base.weights
        BY <1>5
    <2> QED BY <1>3, <2>1 DEF d
<1> QED BY <1>1, <1>4, <1>5

\* The weights of a forecast can be taken a mean with.
LEMMA WeightsType ==
    ASSUME NEW hist, NEW known, Observations(hist, known), NEW h \in Horizons, NEW regime, NEW confidence \in Nat
    PROVE  Weighing(Weights(hist, known, h, regime, confidence).weights)
<1> DEFINE all == OriginsKnown(known, h)
           limit == Max({HistoryLimit, CorrelationMin})
           origins == Newest(all, limit)
           n == Cardinality(origins)
           cov == Covariances(hist, known, h, origins)
           squared == [pair \in (Models \X Models) |->
                          IF n < CorrelationMin THEN Missing ELSE SquaredCorrelation(cov, pair[1], pair[2])]
           base == AdaptiveWeights(hist, known, h, regime, confidence)
<1>1. Weights(hist, known, h, regime, confidence) = Decorrelated(base, squared, n)
    <2>1. Weights(hist, known, h, regime, confidence) = Decorrelated(base, Table(squared), n)
        BY DEF Weights
    <2> HIDE DEF squared
    <2> QED BY <2>1, TableFacts
<1>2. Weighing(base.weights)
    BY InForceWeighs, LearnedType DEF AdaptiveWeights
<1>3. origins \in SUBSET all /\ n \in Nat
    <2>1. all \in SUBSET Int /\ IsFiniteSet(all)
        BY OriginsFacts
    <2>2. origins \in SUBSET all
        BY DEF Newest
    <2> HIDE DEF all, origins
    <2> QED BY <2>1, <2>2, FS_Subset, FS_CardinalityType
<1> HIDE DEF limit, origins, n
<1>4. Covarying(cov)
    BY <1>3, CovariancesType
<1> HIDE DEF cov
<1>5. Correlated(squared)
    <2>1. ASSUME NEW x \in Models, NEW y \in Models, squared[<<x, y>>] # Missing PROVE squared[<<x, y>>] \in Nat
        <3>1. squared[<<x, y>>] = IF n < CorrelationMin THEN Missing ELSE SquaredCorrelation(cov, x, y)
            OBVIOUS
        <3> HIDE DEF squared
        <3>2. squared[<<x, y>>] = SquaredCorrelation(cov, x, y)
            BY <2>1, <3>1
        <3> QED BY <1>4, <2>1, <3>2, SquaredType
    <2> QED BY <2>1 DEF Correlated
<1> HIDE DEF squared, base
<1> QED BY <1>1, <1>2, <1>3, <1>5, DecorrelatedType

-----------------------------------------------------------------------------
(* The forecast of a run. *)

\* a history of forecasts, outcomes of some, and a series that can be forecast from
History(hist) ==
    /\ hist = [o \in DOMAIN hist |-> hist[o]] /\ IsFiniteSet(DOMAIN hist) /\ DOMAIN hist \subseteq Int
    /\ \A o \in DOMAIN hist : Sane(hist[o])

Valued(outcomes) == \A k \in DOMAIN outcomes : outcomes[k].actual \in Int

Quoted(series) ==
    /\ Priced(series) /\ Last(series).at \in Int /\ Last(series).close \in Int
    /\ \A t \in Stamps(series) : Close(series, t) \in Int

\* What is known of a history is evidence of it.
LEMMA KnownType ==
    ASSUME NEW hist, History(hist), NEW outcomes, Valued(outcomes), NEW series, Quoted(series), NEW at
    PROVE  Evidence(hist, KnownAt(hist, outcomes, Closes(series), at))
<1> DEFINE actuals == Closes(series)
           Durable(k) == k \in DOMAIN outcomes /\ outcomes[k].matured <= at
           targets == {<<o, h>> : o \in DOMAIN hist, h \in Horizons}
           usable == {t \in targets : Durable(t) \/ t[1] + Hour * t[2] \in DOMAIN actuals}
           f == [k \in usable |-> IF Durable(k) THEN outcomes[k].actual ELSE actuals[k[1] + Hour * k[2]]]
<1>1. KnownAt(hist, outcomes, actuals, at) = f
    <2>1. KnownAt(hist, outcomes, actuals, at) = Table(f)
        BY DEF KnownAt
    <2> HIDE DEF f
    <2> QED BY <2>1, TableFacts
<1>2. \A t \in DOMAIN actuals : actuals[t] \in Int
    BY DEF Closes, Quoted
<1> HIDE DEF actuals
<1>3. DOMAIN f = usable /\ usable \subseteq (DOMAIN hist) \X Horizons
    OBVIOUS
<1>4. ASSUME NEW k \in usable PROVE f[k] \in Int
    <2>1. f[k] = IF Durable(k) THEN outcomes[k].actual ELSE actuals[k[1] + Hour * k[2]]
        OBVIOUS
    <2>2. CASE Durable(k)
        BY <2>1, <2>2 DEF Valued
    <2>3. CASE ~Durable(k)
        <3>1. k[1] + Hour * k[2] \in DOMAIN actuals
            BY <2>3
        <3> QED BY <1>2, <2>1, <2>3, <3>1
    <2> QED BY <2>2, <2>3
<1> HIDE DEF f, usable
<1> QED BY <1>1, <1>3, <1>4 DEF History, Evidence, Observations, Sane, actuals

\* An interval is rescaled by three quarters at least.
LEMMA CalibratedType ==
    ASSUME NEW hist, IsFiniteSet(DOMAIN hist), NEW actuals, NEW h
    PROVE  CalibrationMultiplier(hist, actuals, h) \in Int /\ CalibrationMultiplier(hist, actuals, h) >= 750
<1> DEFINE newest == Newest(DOMAIN hist, CalibrationWindow)
           scored == {o \in newest : o + Hour * h \in DOMAIN actuals}
           Inside(o) == /\ hist[o].ensemble[h].q10 <= actuals[o + Hour * h]
                        /\ actuals[o + Hour * h] <= hist[o].ensemble[h].q90
           inside == {o \in scored : Inside(o)}
           n == Cardinality(scored)
           covered == Cardinality(inside)
           most == 800000
           m == CalibrationMultiplier(hist, actuals, h)
<1>1. m = IF n < CalibrationMin THEN 1000
          ELSE IF 10 * covered <= n THEN 1750
          ELSE Clip(Root((most * n) \div covered), 750, 1750)
    BY DEF CalibrationMultiplier
<1>2. scored \subseteq DOMAIN hist /\ inside \subseteq DOMAIN hist
    BY DEF Newest
<1> HIDE DEF scored, inside
<1>3. n \in Nat /\ covered \in Nat
    BY <1>2, FS_Subset, FS_CardinalityType
<1>7. most \in Int
    OBVIOUS
<1> HIDE DEF n, covered, m, most
<1>4. CASE n < CalibrationMin
    BY <1>1, <1>4 DEF m
<1>5. CASE ~(n < CalibrationMin) /\ 10 * covered <= n
    BY <1>1, <1>5 DEF m
<1>6. CASE ~(n < CalibrationMin) /\ ~(10 * covered <= n)
    <2>1. covered \in Nat \ {0} /\ most * n \in Int
        BY <1>3, <1>6, <1>7
    <2>2. PICK q \in Int : q = (most * n) \div covered
        BY <2>1, Quotient
    <2>3. PICK r \in Int : r = Root(q)
        BY RootType
    <2>4. m = Clip(r, 750, 1750)
        BY <1>1, <1>6, <2>2, <2>3
    <2>5. Clip(r, 750, 1750) \in Int /\ 750 <= Clip(r, 750, 1750)
        BY ClipFacts
    <2> QED BY <2>4, <2>5 DEF m
<1> QED BY <1>4, <1>5, <1>6

LEMMA TripleFacts ==
    ASSUME NEW a \in Int, NEW b \in Int, NEW c \in Int
    PROVE  Max({a, b, c}) \in Int /\ Max({a, b, c}) >= c
<1> DEFINE S == {a, b, c}
<1>1. S \in SUBSET Int /\ S # {} /\ c \in S
    OBVIOUS
<1>2. IsFiniteSet(S)
    <2>1. IsFiniteSet({}) /\ S = (({} \cup {a}) \cup {b}) \cup {c}
        BY FS_EmptySet
    <2>2. IsFiniteSet({} \cup {a})
        BY <2>1, FS_AddElement
    <2>3. IsFiniteSet(({} \cup {a}) \cup {b})
        BY <2>2, FS_AddElement
    <2>4. IsFiniteSet((({} \cup {a}) \cup {b}) \cup {c})
        BY <2>3, FS_AddElement
    <2> QED BY <2>1, <2>4
<1> HIDE DEF S
<1>3. Max(S) \in S /\ c <= Max(S)
    BY <1>1, <1>2, MaxFacts
<1>4. Max(S) \in Int
    BY <1>1, <1>3
<1> QED BY <1>3, <1>4 DEF S

\* numbers in their order
Interval(e) ==
    /\ {"q10", "q50", "q90", "point"} \subseteq DOMAIN e
    /\ e.point \in Int /\ e.q10 \in Int /\ e.q50 \in Int /\ e.q90 \in Int
    /\ e.q10 < e.point /\ e.point < e.q90

\* The interval of an ensemble is never empty: its half is at least the least half,
\* rescaled, rounded down.
LEMMA EnsembleType ==
    ASSUME NEW close \in Int, NEW moves \in [Models -> [Horizons -> Int]], NEW bands, NEW h \in Horizons,
           \A c \in Contexts : bands[c][h][1] \in Int /\ bands[c][h][2] \in Int,
           NEW weights, Weighing(weights), NEW multiplier \in Int, multiplier >= 750
    PROVE  Interval(Ensemble(close, moves, bands, weights, multiplier, h))
<1> DEFINE pull == [m \in Models |-> weights[m] * moves[m][h]]
           move == SumFunction(pull) \div SumFunctionOnSet(weights, Models)
           gap == [c \in Contexts |-> Max({0, bands[c][h][2] - bands[c][h][1]})]
           widths == SumFunction(gap)
           off == [m \in Models |-> (weights[m] * (moves[m][h] - move) * (moves[m][h] - move)) \div 1000]
           spread == SumFunction(off)
           dispersion == Root(spread)
           wide == widths \div (2 * Cardinality(Contexts))
           apart == (3 * dispersion) \div 2
           base == Max({wide, apart, MinHalfWidth})
           half == (base * multiplier) \div 1000
           Agreeing(s) == Cardinality({m \in Models : Sign(moves[m][h]) = s})
           e == Ensemble(close, moves, bands, weights, multiplier, h)
<1>1. e = [point |-> close + move, q10 |-> close + move - half, q50 |-> close + move,
           q90 |-> close + move + half, agreeing |-> Max({Agreeing(s) : s \in {-1, 0, 1}})]
    BY DEF Ensemble
<1> HIDE DEF e
<1>2. e.point = close + move /\ e.q10 = close + move - half /\ e.q50 = close + move /\ e.q90 = close + move + half
     /\ {"q10", "q50", "q90", "point"} \subseteq DOMAIN e
    <2> HIDE DEF move, half, Agreeing
    <2> QED BY <1>1
<1>3. IsFiniteSet(Models) /\ IsFiniteSet(Contexts) /\ Contexts # {}
    BY ModelsFacts, EngineAssumption
<1>4. weights \in [Models -> Nat]
    BY DEF Weighing
<1>5. move \in Int
    <2>1. pull \in [Models -> Int]
        BY <1>4
    <2> HIDE DEF pull
    <2>2. SumFunction(pull) \in Int
        BY <1>3, <2>1, SumInt
    <2>3. SumFunctionOnSet(weights, Models) \in Nat \ {0}
        BY <1>3, <1>4, SumNat DEF Weighing
    <2> QED BY <2>2, <2>3, Quotient
<1> HIDE DEF move
<1>6. wide \in Int
    <2>1. ASSUME NEW c \in Contexts PROVE Max({0, bands[c][h][2] - bands[c][h][1]}) \in Int
        <3>1. PICK d \in Int : d = bands[c][h][2] - bands[c][h][1]
            OBVIOUS
        <3>2. PICK z \in Int : z = 0
            OBVIOUS
        <3>3. Max({z, d}) \in {z, d}
            BY PairFacts
        <3> QED BY <3>1, <3>2, <3>3
    <2>2. gap \in [Contexts -> Int]
        BY <2>1
    <2> HIDE DEF gap
    <2>3. widths \in Int
        BY <1>3, <2>2, SumInt
    <2>4. 2 * Cardinality(Contexts) \in Nat \ {0}
        <3>1. Cardinality(Contexts) \in Nat /\ Cardinality(Contexts) # 0
            BY <1>3, FS_CardinalityType, FS_EmptySet
        <3> QED BY <3>1
    <2> HIDE DEF widths
    <2> QED BY <2>3, <2>4, Quotient
<1> HIDE DEF wide
<1>7. apart \in Int
    <2>1. ASSUME NEW m \in Models PROVE off[m] \in Int
        <3>1. PICK w \in Int, x \in Int : w = weights[m] /\ x = moves[m][h] - move
            BY <1>4, <1>5
        <3>2. off[m] = (w * x * x) \div 1000
            BY <3>1
        <3>3. w * x * x \in Int
            OBVIOUS
        <3> HIDE DEF off
        <3> QED BY <3>2, <3>3, Quotient
    <2>2. off \in [Models -> Int]
        BY <2>1
    <2> HIDE DEF off
    <2>3. spread \in Int
        BY <1>3, <2>2, SumInt
    <2>4. dispersion \in Nat
        BY <2>3, RootType
    <2> HIDE DEF dispersion
    <2> QED BY <2>4, Quotient
<1> HIDE DEF apart
<1>8. base \in Int /\ base >= 5
    <2>1. MinHalfWidth \in Int /\ MinHalfWidth = 5
        BY DEF MinHalfWidth
    <2> QED BY <1>6, <1>7, <2>1, TripleFacts
<1> HIDE DEF base
<1>9. half \in Int /\ half >= 3
    <2>1. base * multiplier \in Int /\ 5 * multiplier <= base * multiplier
        BY <1>8, Times
    <2>2. half \in Int /\ base * multiplier < half * 1000 + 1000
        BY <2>1, Quotient
    <2> HIDE DEF half
    <2>3. PICK x \in Int : x = base * multiplier
        BY <2>1
    <2> QED BY <2>1, <2>2, <2>3
<1> HIDE DEF half
<1> QED BY <1>2, <1>5, <1>9 DEF Interval, e

LEMMA ConfidenceType == ASSUME NEW severity PROVE AdaptiveConfidence(severity) \in Nat
<1>1. AdaptiveConfidence(severity) = 0 \/ AdaptiveConfidence(severity) = 500 \/ AdaptiveConfidence(severity) = 1000
    BY DEF AdaptiveConfidence
<1> QED BY <1>1

\* a snapshot of the newest candle of a series
StampedBy(s, series) == s.origin = Last(series).at /\ s.close = Last(series).close

\* Every forecast that is made is of numbers, and each of its points inside its interval.
LEMMA BuildType ==
    ASSUME NEW hist, History(hist), NEW outcomes, Valued(outcomes), NEW series, Quoted(series),
           NEW answer, Sound(answer), Numeric(answer), NEW confidence \in Nat
    PROVE  LET s == BuildForecast(answer, series, hist, outcomes, confidence)
           IN  Sane(s) /\ Quantiles(s.ensemble) /\ StampedBy(s, series)
<1> DEFINE close == Last(series).close
           origin == Last(series).at
           actuals == Closes(series)
           regime == Regime(Features(series))
           features == Features(series)
           known == KnownAt(hist, outcomes, actuals, origin)
           moves == ModelMoves(answer, series)
           bands == [c \in Contexts |-> [h \in Horizons |-> <<answer[c][h].q10, answer[c][h].q90>>]]
           weights == [h \in Horizons |-> Weights(hist, known, h, regime, confidence)]
           level == [m \in Models |-> [h \in Horizons |-> close + moves[m][h]]]
           limits == [c \in Contexts |-> [h \in Horizons |-> <<close + bands[c][h][1], close + bands[c][h][2]>>]]
           Of(h) == Ensemble(close, moves, bands, weights[h].weights, CalibrationMultiplier(hist, actuals, h), h)
           ensemble == [h \in Horizons |-> Of(h)]
           s == BuildForecast(answer, series, hist, outcomes, confidence)
<1>1. s = [origin |-> origin, close |-> close, regime |-> regime, weights |-> weights, features |-> features,
           models |-> level, bands |-> limits, ensemble |-> ensemble]
    <2> DEFINE W == Table(weights)
               E == [h \in Horizons |-> Ensemble(close, moves, bands, W[h].weights,
                                                 CalibrationMultiplier(hist, actuals, h), h)]
               T == Table(E)
    <2>1. s = [origin |-> origin, close |-> close, regime |-> regime, weights |-> W, features |-> features,
               models |-> level, bands |-> limits, ensemble |-> T]
        BY DEF BuildForecast
    <2> HIDE DEF weights, E
    <2>2. W = weights /\ T = E
        BY TableFacts
    <2>3. E = ensemble
        BY <2>2 DEF E
    <2> HIDE DEF W, T, ensemble
    <2> QED BY <2>1, <2>2, <2>3
<1> HIDE DEF s
<1>2. /\ s.origin = origin /\ s.close = close /\ s.models = level /\ s.bands = limits /\ s.ensemble = ensemble
      /\ "ensemble" \in DOMAIN s
    <2> HIDE DEF origin, close, level, limits, ensemble, regime, weights, features
    <2> QED BY <1>1
<1>3. close \in Int /\ origin \in Int /\ Priced(series)
    BY DEF Quoted
<1>4. moves \in [Models -> [Horizons -> Int]] /\ \A h \in Horizons : moves["persistence"][h] = 0
    BY <1>3, MovesType DEF Numeric
<1>5. \A c \in Contexts, h \in Horizons : bands[c][h][1] \in Int /\ bands[c][h][2] \in Int
    BY DEF Numeric
<1>6. Evidence(hist, known)
    BY KnownType
<1>7. ASSUME NEW h \in Horizons PROVE Weighing(weights[h].weights)
    <2>1. weights[h] = Weights(hist, known, h, regime, confidence)
        OBVIOUS
    <2> HIDE DEF weights, known, regime
    <2> QED BY <1>6, <2>1, WeightsType DEF Evidence
<1>8. ASSUME NEW h \in Horizons PROVE Interval(Of(h))
    <2>1. PICK k \in Int : k = CalibrationMultiplier(hist, actuals, h) /\ k >= 750
        BY CalibratedType DEF History
    <2> HIDE DEF close, moves, bands, weights, actuals
    <2> QED BY <1>3, <1>4, <1>5, <1>7, <2>1, EnsembleType
<1> HIDE DEF close, moves, bands, weights, actuals, Of, origin, features, regime, known
<1>9. level \in [Models -> [Horizons -> Int]] /\ \A h \in Horizons : level["persistence"][h] = close
    <2>1. "persistence" \in Models
        BY ModelsFacts
    <2> QED BY <1>3, <1>4, <2>1
<1>10. \A c \in Contexts, h \in Horizons : limits[c][h][1] \in Int /\ limits[c][h][2] \in Int
    BY <1>3, <1>5
<1>11. \A h \in Horizons : Interval(ensemble[h])
    BY <1>8
<1> HIDE DEF level, limits, ensemble
<1>12. Sensible(ensemble) /\ Quantiles(ensemble)
    BY <1>11 DEF Interval, Sensible, Quantiles
<1> QED BY <1>2, <1>3, <1>9, <1>10, <1>12 DEF Sane, Measurable, s, origin, close, StampedBy

\* What is left of a forecast once its horizons are reconciled is one still.
LEMMA CoheredType ==
    ASSUME NEW s, Sane(s), Quantiles(s.ensemble), NEW counts,
           ~Raises(Coherence(s.ensemble, s.close, counts))
    PROVE  LET after == Coherence(s.ensemble, s.close, counts).predictions
           IN  /\ Crossings(after) = {} /\ Sensible(after)
               /\ \A h \in Horizons : after[h].point = s.ensemble[h].point
               /\ Sane([s EXCEPT !.ensemble = after]) /\ [s EXCEPT !.ensemble = after].origin = s.origin
<1> DEFINE p == s.ensemble
           base == s.close
           after == Coherence(p, base, counts).predictions
           final == [s EXCEPT !.ensemble = after]
<1>1. Sensible(p)
    BY DEF Sane, Measurable
<1>2. after = Reconciled(p, base, counts)
    BY DEF Coherence
<1> HIDE DEF p, base, after
<1>3. /\ Crossings(after) = {}
      /\ \A h \in Horizons :
             p[h].point \in Int /\ p[h].q10 < p[h].point /\ p[h].point < p[h].q90
                 => after[h].q10 < after[h].point /\ after[h].point < after[h].q90
    BY ReconcilingIsEnough DEF p, base, after
<1>4. \A h \in Horizons :
          after[h].point = p[h].point /\ after[h].q10 \in Int /\ after[h].q90 \in Int
    BY <1>2, ReconciledFacts DEF p
<1>5. Sensible(after)
    BY <1>1, <1>3, <1>4 DEF Sensible
<1>6. /\ final.origin = s.origin /\ final.close = s.close /\ final.models = s.models /\ final.bands = s.bands
      /\ final.ensemble = after /\ DOMAIN final = DOMAIN s
    BY DEF Sane, Measurable
<1> HIDE DEF final
<1>7. Sane(final)
    BY <1>5, <1>6 DEF Sane, Measurable
<1> QED BY <1>3, <1>4, <1>5, <1>6, <1>7 DEF final, after, p, base

-----------------------------------------------------------------------------
(* What a claim rests on. *)

\* The members of a finite set of numbers, each at its place.
LEMMA OrderedFacts ==
    ASSUME NEW S \in SUBSET Int, IsFiniteSet(S)
    PROVE  /\ Ordered(S) = [j \in 1 .. Cardinality(S) |-> Ordered(S)[j]] /\ Cardinality(S) \in Nat
           /\ \A j \in 1 .. Cardinality(S) : Ordered(S)[j] \in S
<1> DEFINE n == Cardinality(S)
           Below(x) == {y \in S : y < x}
           P == {k \in 0 .. n : k < n => \E x \in S : Cardinality(Below(x)) = k}
<1>1. n \in Nat
    BY FS_CardinalityType
<1>2. \A x \in S : IsFiniteSet(Below(x))
    BY FS_Subset
<1>3. 0 \in P
    <2>1. ASSUME 0 < n PROVE \E x \in S : Cardinality(Below(x)) = 0
        <3>1. S # {}
            BY <2>1, FS_EmptySet
        <3>2. PICK x \in S : \A y \in S : x <= y
            BY <3>1, LeastExists
        <3>3. Below(x) = {}
            <4>1. ASSUME NEW y \in S, y < x PROVE FALSE
                <5>1. x <= y /\ x \in Int /\ y \in Int
                    BY <3>2
                <5> QED BY <4>1, <5>1
            <4> QED BY <4>1
        <3> QED BY <3>3, FS_EmptySet
    <2> QED BY <1>1, <2>1
<1>4. ASSUME NEW k \in P, k < n PROVE k + 1 \in P
    <2>1. PICK x \in S : Cardinality(Below(x)) = k
        BY <1>4
    <2>2. ASSUME k + 1 < n PROVE \E z \in S : Cardinality(Below(z)) = k + 1
        <3> DEFINE U == Below(x) \cup {x}
                   R == S \ U
        <3>1. x \notin Below(x) /\ IsFiniteSet(Below(x))
            BY <1>2
        <3> HIDE DEF Below
        <3>2. IsFiniteSet(U) /\ Cardinality(U) = k + 1
            BY <2>1, <3>1, FS_AddElement
        <3> HIDE DEF U
        <3>3. R # {}
            <4>1. ASSUME R = {} PROVE FALSE
                <5>1. S \subseteq U
                    BY <4>1
                <5>2. n <= Cardinality(U)
                    BY <3>2, <5>1, FS_Subset
                <5> QED BY <1>1, <2>2, <3>2, <5>2
            <4> QED BY <4>1
        <3>4. R \in SUBSET Int /\ IsFiniteSet(R)
            BY FS_Subset
        <3>5. PICK z \in R : \A y \in R : z <= y
            BY <3>3, <3>4, LeastExists
        <3>6. Below(z) = U
            <4>1. ASSUME NEW y \in S PROVE y < z <=> y \in U
                <5>1. y \in Int /\ z \in Int /\ x \in Int /\ z \in S /\ z \notin U
                    OBVIOUS
                <5>2. z > x
                    BY <5>1 DEF U, Below
                <5>3. CASE y \in U
                    <6>1. y <= x
                        BY <5>1, <5>3 DEF U, Below
                    <6> QED BY <5>1, <5>2, <5>3, <6>1
                <5>4. CASE y \notin U
                    <6>1. z <= y
                        BY <3>5, <5>4
                    <6> QED BY <5>1, <5>4, <6>1
                <5> QED BY <5>3, <5>4
            <4>2. U \subseteq S
                BY DEF U, Below
            <4> QED BY <4>1, <4>2 DEF Below
        <3>7. Cardinality(Below(z)) = k + 1
            BY <3>2, <3>6
        <3> QED BY <3>5, <3>7
    <2> QED BY <1>1, <1>4, <2>2
<1>5. ASSUME NEW k \in 0 .. n PROVE k \in P
    <2> DEFINE Q == P \intersect (0 .. k)
    <2>1. Q \in SUBSET (0 .. k) /\ 0 \in Q
        BY <1>3
    <2>2. ASSUME NEW m \in Q, m < k PROVE m + 1 \in Q
        <3>1. m \in P /\ m < n
            BY <1>1, <2>2
        <3>2. m + 1 \in P
            BY <1>4, <3>1
        <3> QED BY <1>1, <2>2, <3>2
    <2> HIDE DEF Q
    <2>3. k \in Q
        BY <1>1, <2>1, <2>2, UpTo
    <2> QED BY <2>3 DEF Q
<1>6. ASSUME NEW j \in 1 .. n PROVE \E x \in S : Cardinality(Below(x)) = j - 1
    <2>1. j - 1 \in 0 .. n /\ j - 1 < n
        BY <1>1
    <2> QED BY <1>5, <2>1
<1>7. Ordered(S) = [j \in 1 .. n |-> CHOOSE x \in S : Cardinality(Below(x)) = j - 1]
    BY DEF Ordered
<1> HIDE DEF n, Below
<1>8. ASSUME NEW j \in 1 .. n PROVE Ordered(S)[j] \in S
    BY <1>6, <1>7
<1>9. Ordered(S) = [j \in 1 .. n |-> Ordered(S)[j]]
    BY <1>7
<1> QED BY <1>1, <1>8, <1>9 DEF n

\* The residuals of some forecasts, oldest first, are as many numbers.
LEMMA ScoresType ==
    ASSUME NEW hist, NEW known, Evidence(hist, known), NEW h, NEW origins \in SUBSET OriginsKnown(known, h)
    PROVE  LET T == Table(Ordered(origins))
               scores == Table([i \in DOMAIN T |-> Residual(hist, known, T[i], h)])
           IN  scores \in Seq(Int) /\ Len(scores) = Cardinality(origins)
<1> DEFINE Value(o) == Residual(hist, known, o, h)
           order == Ordered(origins)
           scores == [i \in DOMAIN order |-> Value(order[i])]
           n == Cardinality(origins)
           T == Table(order)
           listed == Table([i \in DOMAIN T |-> Value(T[i])])
<1>1. listed = scores
    <2>1. T = order
        BY TableFacts
    <2> HIDE DEF T, Value, order
    <2> QED BY <2>1, TableFacts
<1>2. origins \in SUBSET Int /\ IsFiniteSet(origins)
    BY OriginsFacts, FS_Subset DEF Evidence
<1>3. n \in Nat /\ DOMAIN order = 1 .. n /\ \A i \in 1 .. n : order[i] \in origins
    BY <1>2, OrderedFacts
<1>4. ASSUME NEW o \in origins PROVE Value(o) \in Int
    <2> DEFINE p == hist[o].ensemble[h].point
               low == hist[o].ensemble[h].q10
               high == hist[o].ensemble[h].q90
               x == known[<<o, h>>]
    <2>1. o \in DOMAIN hist /\ <<o, h>> \in DOMAIN known /\ h \in Horizons
        BY OriginsFacts DEF Evidence
    <2>2. p \in Int /\ low \in Int /\ high \in Int /\ low < p /\ p < high /\ x \in Int
        BY <2>1 DEF Evidence, Observations, Sane, Measurable, Sensible
    <2>3. Value(o) = (2000 * Abs(x - p)) \div (high - low)
        BY DEF Residual
    <2> HIDE DEF p, low, high, x, Value
    <2>4. high - low \in Nat \ {0} /\ 2000 * Abs(x - p) \in Int
        BY <2>2 DEF Abs
    <2> QED BY <2>3, <2>4, Quotient
<1> HIDE DEF Value, order, n
<1>5. scores = [i \in 1 .. n |-> scores[i]] /\ \A i \in 1 .. n : scores[i] \in Int
    BY <1>3, <1>4
<1> HIDE DEF scores
<1>6. scores \in Seq(Int) /\ Len(scores) = n
    BY <1>3, <1>5
<1> QED BY <1>1, <1>6 DEF n, order, Value

\* There is a value at each place of the sorted ones.
LEMMA SortedType ==
    ASSUME NEW values \in Seq(Int), NEW index \in Int, index <= Len(values), Len(values) >= 1
    PROVE  Sorted(values, index) \in Int
<1> DEFINE all == {values[i] : i \in DOMAIN values}
           Upto(v) == {i \in DOMAIN values : values[i] <= v}
           S == {v \in all : Cardinality(Upto(v)) >= index}
           n == Len(values)
<1>1. n \in Nat /\ DOMAIN values = 1 .. n /\ \A i \in 1 .. n : values[i] \in Int
    OBVIOUS
<1>2. all \in SUBSET Int /\ all # {} /\ IsFiniteSet(all)
    <2>1. values \in Surjection(1 .. n, all)
        <3>1. values \in [1 .. n -> all]
            BY <1>1
        <3> QED BY <1>1, <3>1 DEF Surjection
    <2>2. IsFiniteSet(1 .. n)
        BY <1>1, Indices
    <2>3. IsFiniteSet(all)
        <3> HIDE DEF all
        <3> QED BY <2>1, <2>2, FS_Surjection
    <2>4. values[1] \in all
        BY <1>1
    <2> QED BY <1>1, <2>3, <2>4
<1>3. PICK top \in all : \A v \in all : v <= top
    <2> HIDE DEF all
    <2> QED BY <1>2, GreatestExists
<1>4. Upto(top) = 1 .. n
    BY <1>1, <1>3
<1>5. Cardinality(Upto(top)) = n
    <2>1. Cardinality(1 .. n) = n
        BY <1>1, FS_Interval
    <2> HIDE DEF Upto
    <2> QED BY <1>4, <2>1
<1> HIDE DEF Upto, all
<1>6. top \in S
    BY <1>5, <1>1
<1>7. S \in SUBSET Int /\ S # {} /\ IsFiniteSet(S)
    BY <1>2, <1>6, FS_Subset
<1>8. Sorted(values, index) = Min(S)
    BY DEF Sorted, all, Upto
<1> HIDE DEF S
<1> QED BY <1>7, <1>8, MinFacts

LEMMA ConformalType ==
    ASSUME NEW scores \in Seq(Int), Len(scores) >= 1
    PROVE  ConformalMultiplier(scores) \in Int
<1> DEFINE n == Len(scores)
           rank == Min({n, (8 * (n + 1) + 9) \div 10})
           index == (rank * (n - 1) + n - 1) \div n + 1
<1>1. n \in Nat \ {0}
    OBVIOUS
<1> HIDE DEF n
<1>2. rank \in Int /\ rank <= n
    <2>1. PICK k \in Int : k = (8 * (n + 1) + 9) \div 10
        BY <1>1
    <2>2. PICK j \in Int : j = n
        BY <1>1
    <2>3. Min({j, k}) \in {j, k} /\ Min({j, k}) <= j
        BY PairFacts
    <2> QED BY <2>1, <2>2, <2>3
<1> HIDE DEF rank
<1>3. index \in Int /\ index <= n
    <2> DEFINE x == rank * (n - 1) + n - 1
               q == x \div n
    <2>1. x \in Int /\ q \in Int /\ q * n <= x
        <3>1. rank * (n - 1) \in Int
            BY <1>1, <1>2
        <3>2. x \in Int
            BY <1>1, <3>1
        <3> HIDE DEF x
        <3> QED BY <1>1, <3>2, Quotient
    <2>2. x < n * n
        <3>1. rank * (n - 1) <= n * (n - 1)
            BY <1>1, <1>2, Times
        <3>2. n * (n - 1) = n * n - n /\ n * n \in Int /\ rank * (n - 1) \in Int
            BY <1>1, <1>2
        <3> QED BY <1>1, <3>1, <3>2
    <2> HIDE DEF x, q
    <2>3. q < n
        <3>1. SUFFICES ASSUME n <= q PROVE FALSE
            BY <1>1, <2>1
        <3>2. n * n <= q * n
            BY <1>1, <2>1, <3>1, Times
        <3>3. q * n \in Int /\ n * n \in Int
            BY <1>1, <2>1
        <3> QED BY <2>1, <2>2, <3>2, <3>3
    <2>4. index = q + 1
        BY DEF q, x
    <2> HIDE DEF index
    <2> QED BY <1>1, <2>1, <2>3, <2>4
<1>4. ConformalMultiplier(scores) = Clip(Sorted(scores, index), 500, 3000)
    BY DEF ConformalMultiplier, n, rank
<1> HIDE DEF index
<1>5. PICK v \in Int : v = Sorted(scores, index)
    BY <1>3, SortedType DEF n
<1> QED BY <1>4, <1>5, ClipFacts

LEMMA LegacyIs ==
    ASSUME NEW scores, NEW most, most = 800000
    PROVE  LET n == Len(scores)
               within == {i \in DOMAIN scores : scores[i] <= 1000}
               inside == Cardinality(within)
           IN  LegacyMultiplier(scores) = IF n < CalibrationMin THEN 1000
                                          ELSE IF 10 * inside <= n THEN 1750
                                          ELSE Clip(Root((most * n) \div inside), 750, 1750)
    BY SMT DEF LegacyMultiplier

LEMMA LegacyType ==
    ASSUME NEW scores \in Seq(Int)
    PROVE  LegacyMultiplier(scores) \in Int
<1> DEFINE n == Len(scores)
           within == {i \in DOMAIN scores : scores[i] <= 1000}
           inside == Cardinality(within)
<1>0. PICK most \in Int : most = 800000
    BY SMT
<1>1. LegacyMultiplier(scores) = IF n < CalibrationMin THEN 1000
                                 ELSE IF 10 * inside <= n THEN 1750
                                 ELSE Clip(Root((most * n) \div inside), 750, 1750)
    BY <1>0, LegacyIs
<1>2. n \in Nat /\ DOMAIN scores = 1 .. n
    OBVIOUS
<1>3. inside \in Nat
    <2>1. within \subseteq 1 .. n
        BY <1>2
    <2> HIDE DEF within
    <2> QED BY <1>2, <2>1, Indices, FS_Subset, FS_CardinalityType
<1> HIDE DEF n, inside
<1>4. CASE n < CalibrationMin \/ 10 * inside <= n
    BY <1>1, <1>4
<1>5. CASE ~(n < CalibrationMin) /\ ~(10 * inside <= n)
    <2>1. inside \in Nat \ {0} /\ most * n \in Int
        BY <1>0, <1>2, <1>3, <1>5
    <2>2. PICK q \in Int : q = (most * n) \div inside
        BY <2>1, Quotient
    <2>3. PICK r \in Int : r = Root(q)
        BY RootType
    <2>4. LegacyMultiplier(scores) = Clip(r, 750, 1750)
        BY <1>1, <1>5, <2>2, <2>3
    <2> QED BY <2>4, ClipFacts
<1> QED BY <1>4, <1>5

\* what the conformal report of a horizon says, when it is of any forecasts
Reported(c) ==
    c.samples \in Nat /\ (c.samples >= 1 => c.coverage \in Int /\ c.width \in Int)

LEMMA CalibrationType ==
    ASSUME NEW hist, NEW known, Evidence(hist, known), NEW h, NEW regime
    PROVE  Reported(Calibration(hist, known, h, regime))
<1> DEFINE due == OriginsKnown(known, h)
           all == Newest(due, HistoryLimit)
           here == Newest({o \in due : hist[o].regime = regime}, HistoryLimit)
           origins == IF Cardinality(here) >= ConformalMin THEN here ELSE all
           T == Table(Ordered(origins))
           scores == Table([i \in DOMAIN T |-> Residual(hist, known, T[i], h)])
           n == Len(scores)
           multiplier == IF n < ConformalMin THEN LegacyMultiplier(scores) ELSE ConformalMultiplier(scores)
           within == {i \in 1 .. n : scores[i] <= multiplier}
           inside == Cardinality(within)
           gap == [o \in origins |-> hist[o].ensemble[h].q90 - hist[o].ensemble[h].q10]
           width == SumFunction(gap)
           c == Calibration(hist, known, h, regime)
<1>1. c = [samples |-> n, conformal |-> n >= ConformalMin, multiplier |-> multiplier,
           coverage |-> IF n = 0 THEN Missing ELSE (1000 * inside) \div n,
           width |-> IF n = 0 THEN Missing ELSE (width * multiplier) \div (1000 * n)]
    BY DEF Calibration, Series
<1> DEFINE share == IF n = 0 THEN Missing ELSE (1000 * inside) \div n
           wide == IF n = 0 THEN Missing ELSE (width * multiplier) \div (1000 * n)
           conformal == n >= ConformalMin
<1>2. c.samples = n /\ c.coverage = share /\ c.width = wide
    <2>1. c = [samples |-> n, conformal |-> conformal, multiplier |-> multiplier, coverage |-> share, width |-> wide]
        BY <1>1
    <2> HIDE DEF c, n, conformal, multiplier, share, wide
    <2> QED BY <2>1, SMTT(30)
<1> HIDE DEF c
<1>3. origins \in SUBSET due
    BY DEF Newest
<1> HIDE DEF origins
<1>4. scores \in Seq(Int) /\ Len(scores) = Cardinality(origins)
    <2> HIDE DEF scores
    <2> QED BY <1>3, ScoresType DEF scores
<1> HIDE DEF scores
<1>5. n \in Nat
    BY <1>4
<1>6. ASSUME n >= 1 PROVE share \in Int /\ wide \in Int
    <2>1. multiplier \in Int
        BY <1>4, <1>6, LegacyType, ConformalType
    <2> HIDE DEF multiplier
    <2>2. inside \in Nat
        <3>1. within \subseteq 1 .. n
            OBVIOUS
        <3> HIDE DEF within, n
        <3> QED BY <1>5, <3>1, Indices, FS_Subset, FS_CardinalityType
    <2>3. width \in Int
        <3>1. IsFiniteSet(origins)
            BY <1>3, OriginsFacts, FS_Subset DEF Evidence
        <3>2. ASSUME NEW o \in origins PROVE gap[o] \in Int
            <4>1. o \in DOMAIN hist /\ h \in Horizons
                BY <1>3, OriginsFacts DEF Evidence
            <4>2. hist[o].ensemble[h].q90 \in Int /\ hist[o].ensemble[h].q10 \in Int
                BY <4>1 DEF Evidence, Observations, Sane, Measurable, Sensible
            <4> QED BY <4>2
        <3>3. gap \in [origins -> Int]
            BY <3>2
        <3> HIDE DEF gap
        <3> QED BY <3>1, <3>3, SumInt
    <2> HIDE DEF width, inside, n
    <2>4. 1000 * inside \in Int /\ n \in Nat \ {0} /\ 1000 * n \in Nat \ {0} /\ width * multiplier \in Int
        BY <1>5, <1>6, <2>1, <2>2, <2>3
    <2> QED BY <2>4, Quotient
<1> HIDE DEF n, share, wide
<1> QED BY <1>2, <1>5, <1>6 DEF Reported, c

\* The factors of a score are numbers.
LEMMA FactorTypes ==
    ASSUME NEW edge \in Int, NEW coverage \in Int, NEW count \in Nat, NEW width \in Int, NEW typical \in Int,
           NEW severity
    PROVE  /\ EdgeFactor(edge) \in Int /\ CoverageFactor(coverage) \in Int /\ SampleFactor(count) \in Int
           /\ WidthFactor(width, typical) \in Int /\ DriftFactor(severity) \in Int
<1>1. EdgeFactor(edge) \in Int
    BY DEF EdgeFactor, Clip
<1>2. CoverageFactor(coverage) \in Int
    BY DEF CoverageFactor, Clip, Abs
<1>3. SampleFactor(count) \in Int
    <2> DEFINE most == 1000000
    <2>1. most \in Int /\ SampleFactor(count) = Clip(Root((most * count) \div StrongEvidence), 0, 1000)
        BY DEF SampleFactor
    <2> HIDE DEF most
    <2>2. most * count \in Int /\ StrongEvidence \in Nat \ {0}
        BY <2>1, EvidenceAssumption
    <2>3. PICK q \in Int : q = (most * count) \div StrongEvidence
        BY <2>2, Quotient
    <2>4. PICK r \in Int : r = Root(q)
        BY RootType
    <2>5. SampleFactor(count) = Clip(r, 0, 1000)
        BY <2>1, <2>3, <2>4
    <2> QED BY <2>5, ClipFacts
<1>4. WidthFactor(width, typical) \in Int
    <2>1. CASE typical <= 0
        BY <2>1 DEF WidthFactor
    <2>2. CASE ~(typical <= 0)
        <3>1. typical \in Nat \ {0} /\ 1000 * width \in Int
            BY <2>2
        <3>2. PICK ratio \in Int : ratio = (1000 * width) \div typical
            BY <3>1, Quotient
        <3>3. WidthFactor(width, typical) =
                  IF ratio <= 1000 THEN 1000
                  ELSE IF ratio <= 2000 THEN 1000 - (600 * (ratio - 1000)) \div 1000
                  ELSE Clip(400 - (150 * (ratio - 2000)) \div 1000, 200, 400)
            BY <2>2, <3>2 DEF WidthFactor
        <3> QED BY <3>3 DEF Clip
    <2> QED BY <2>1, <2>2
<1>5. DriftFactor(severity) \in Int
    <2>1. AdaptiveConfidence(severity) \in Int
        BY ConfidenceType
    <2>2. PICK a \in Int, b \in Int : a = 650 /\ b = AdaptiveConfidence(severity)
        BY <2>1
    <2>3. Min({a, b}) \in {a, b}
        BY PairFacts
    <2>4. Min({650, AdaptiveConfidence(severity)}) \in Int
        BY <2>2, <2>3
    <2> QED BY <2>4 DEF DriftFactor
<1> QED BY <1>1, <1>2, <1>3, <1>4, <1>5

\* No edge leaves a score low.
LEMMA ScoreFacts ==
    ASSUME NEW edge \in Int, NEW coverage \in Int, NEW count \in Nat, NEW width \in Int, NEW typical \in Int,
           NEW severity, edge <= 0
    PROVE  /\ Score(edge, coverage, count, width, typical, severity) \in Int
           /\ Score(edge, coverage, count, width, typical, severity) < ModerateScore
<1> DEFINE weighed == (350 * EdgeFactor(edge) + 300 * CoverageFactor(coverage)
                         + 200 * SampleFactor(count) + 150 * WidthFactor(width, typical)) \div 1000
           x == (weighed * DriftFactor(severity)) \div 1000
           A == {ModerateScore - 10}
           B == IF severity = "warning" THEN {HighScore - 10} ELSE {}
           S == {x} \cup A \cup B
           s == Score(edge, coverage, count, width, typical, severity)
<1>1. s = Min(S)
    BY DEF Score
<1>2. x \in Int
    <2>1. PICK a \in Int, b \in Int, c \in Int, d \in Int, e \in Int :
              /\ a = EdgeFactor(edge) /\ b = CoverageFactor(coverage) /\ c = SampleFactor(count)
              /\ d = WidthFactor(width, typical) /\ e = DriftFactor(severity)
        BY FactorTypes, ZenonT(40)
    <2>2. PICK w \in Int : w = (350 * a + 300 * b + 200 * c + 150 * d) \div 1000
        OBVIOUS
    <2>3. w * e \in Int /\ x = (w * e) \div 1000
        BY <2>1, <2>2
    <2> HIDE DEF x
    <2>4. PICK v \in Int : v = w * e
        BY <2>3
    <2> QED BY <2>3, <2>4
<1> HIDE DEF x
<1>3. /\ A \subseteq Int /\ B \subseteq Int /\ IsFiniteSet(A) /\ IsFiniteSet(B) /\ IsFiniteSet({x})
    <2>1. A \subseteq Int /\ B \subseteq Int
        BY DEF ModerateScore, HighScore
    <2>2. IsFiniteSet(A) /\ IsFiniteSet({x})
        BY FS_Singleton
    <2>3. B = {} \/ B = {HighScore - 10}
        OBVIOUS
    <2>4. IsFiniteSet(B)
        BY <2>3, FS_EmptySet, FS_Singleton
    <2> QED BY <2>1, <2>2, <2>4
<1>4. 440 \in S
    BY DEF ModerateScore
<1> HIDE DEF A, B
<1>5. S \in SUBSET Int /\ S # {} /\ IsFiniteSet(S)
    <2>1. IsFiniteSet({x} \cup A)
        BY <1>3, FS_Union
    <2>2. IsFiniteSet(S)
        BY <1>3, <2>1, FS_Union
    <2> QED BY <1>2, <1>3, <1>4, <2>2
<1> HIDE DEF S
<1>6. Min(S) \in Int /\ Min(S) <= 440
    BY <1>4, <1>5, MinFacts
<1> HIDE DEF s
<1> QED BY <1>1, <1>6 DEF ModerateScore, s

\* A horizon is only trusted when enough of its forecasts have an outcome and the
\* ensemble was nearer to them than persistence.
LEMMA HorizonConfidenceFacts ==
    ASSUME NEW perf, perf.samples \in Nat, perf.ensemble \in Int, perf.persistence \in Nat,
           NEW cal, Reported(cal), NEW width \in Int, NEW severity
    PROVE  LET label == HorizonConfidence(perf, cal, width, severity)
           IN  /\ label \in {"suppressed_drift", "insufficient_evidence", "low", "moderate", "high"}
               /\ label \in {"moderate", "high"} =>
                      perf.samples >= MinEvidence /\ perf.ensemble < perf.persistence
<1> DEFINE fewest == Min({perf.samples, cal.samples})
           lead == perf.persistence - perf.ensemble
           edge == (1000 * lead) \div perf.persistence
           score == Score(edge, cal.coverage, fewest, width, cal.width, severity)
           thin == fewest < MinEvidence \/ perf.persistence = 0 \/ width <= 0
           strong == /\ score >= HighScore /\ edge > 0 /\ Abs(cal.coverage - 800) <= 50
                     /\ fewest >= StrongEvidence /\ severity = "none"
           fair == score >= ModerateScore
           label == HorizonConfidence(perf, cal, width, severity)
<1>1. label = IF severity = "severe" THEN "suppressed_drift"
              ELSE IF thin THEN "insufficient_evidence"
              ELSE IF strong THEN "high"
              ELSE IF fair THEN "moderate" ELSE "low"
    BY DEF HorizonConfidence
<1>2. strong => score >= HighScore
    OBVIOUS
<1>3. fewest \in Nat /\ fewest <= perf.samples /\ fewest <= cal.samples
    <2>1. PICK a \in Int, b \in Int : a = perf.samples /\ b = cal.samples
        BY DEF Reported
    <2>2. Min({a, b}) \in {a, b} /\ Min({a, b}) <= a /\ Min({a, b}) <= b
        BY PairFacts
    <2> QED BY <2>1, <2>2 DEF Reported
<1>4. ASSUME ~thin, lead <= 0 PROVE ~(score >= ModerateScore) /\ ~(score >= HighScore)
    <2>1. fewest >= 1 /\ cal.samples >= 1 /\ perf.persistence \in Nat \ {0} /\ lead \in Int
        <3>1. fewest >= MinEvidence /\ perf.persistence # 0
            BY <1>3, <1>4, CoherenceAssumption
        <3> HIDE DEF fewest
        <3> QED BY <1>3, <3>1, CoherenceAssumption DEF Reported
    <2> HIDE DEF fewest, score, thin
    <2>2. cal.coverage \in Int /\ cal.width \in Int
        BY <2>1 DEF Reported
    <2>3. edge \in Int /\ edge <= 0
        <3> HIDE DEF lead
        <3>1. 1000 * lead \in Int /\ 1000 * lead <= 0
            BY <1>4, <2>1
        <3>2. PICK x \in Int : x = 1000 * lead
            BY <3>1
        <3>3. PICK p \in Nat \ {0} : p = perf.persistence
            BY <2>1
        <3>4. x \div p \in Int /\ (x \div p) * p <= x
            BY Quotient
        <3>5. PICK q \in Int : q = x \div p
            BY <3>4
        <3>6. q * p <= 0 * p
            BY <3>1, <3>2, <3>4, <3>5
        <3>7. q <= 0
            BY <3>6, Cancel
        <3> QED BY <3>2, <3>3, <3>5, <3>7
    <2> HIDE DEF edge
    <2>4. score \in Int /\ score < ModerateScore
        BY <1>3, <2>2, <2>3, ScoreFacts DEF score
    <2> QED BY <2>4 DEF ModerateScore, HighScore
<1> HIDE DEF fewest, edge, score, strong, fair
<1>5. ASSUME label \in {"moderate", "high"} PROVE ~thin /\ (strong \/ fair)
    <2> HIDE DEF thin, label
    <2> QED BY <1>1, <1>5
<1>6. ASSUME label \in {"moderate", "high"} PROVE score >= ModerateScore \/ score >= HighScore
    <2> HIDE DEF thin, label
    <2> QED BY <1>2, <1>5, <1>6 DEF fair
<1>7. ASSUME label \in {"moderate", "high"}
      PROVE  perf.samples >= MinEvidence /\ perf.ensemble < perf.persistence
    <2>1. fewest >= MinEvidence
        BY <1>3, <1>5, <1>7, CoherenceAssumption
    <2>2. ~(lead <= 0)
        <3> HIDE DEF thin, lead, label
        <3> QED BY <1>4, <1>5, <1>6, <1>7
    <2> QED BY <1>3, <2>1, <2>2, CoherenceAssumption
<1> HIDE DEF thin
<1>8. label \in {"suppressed_drift", "insufficient_evidence", "low", "moderate", "high"}
    <2> HIDE DEF label
    <2> QED BY <1>1
<1> HIDE DEF label
<1> QED BY <1>7, <1>8 DEF label

\* The weakest horizon decides.
LEMMA ConfidenceFacts ==
    ASSUME NEW labels,
           \A h \in Horizons :
               labels[h] \in {"suppressed_drift", "insufficient_evidence", "low", "moderate", "high"},
           Confidence(labels) \notin {"suppressed_drift", "insufficient_evidence", "low"}
    PROVE  \A h \in Horizons : labels[h] \in {"moderate", "high"}
<1> DEFINE results == {labels[h] : h \in Horizons}
           weakest == <<"suppressed_drift", "insufficient_evidence", "low", "moderate", "high">>
           I == {i \in 1 .. 5 : weakest[i] \in results}
           least == Min(I)
<1>1. Confidence(labels) = weakest[least]
    BY DEF Confidence
<1>2. /\ weakest[1] = "suppressed_drift" /\ weakest[2] = "insufficient_evidence" /\ weakest[3] = "low"
      /\ weakest[4] = "moderate" /\ weakest[5] = "high"
    OBVIOUS
<1> HIDE DEF weakest
<1>3. ASSUME NEW h \in Horizons PROVE \E i \in I : weakest[i] = labels[h]
    <2>1. labels[h] \in results
        OBVIOUS
    <2> HIDE DEF results
    <2>2. \E i \in 1 .. 5 : weakest[i] = labels[h]
        <3>1. 1 \in 1 .. 5 /\ 2 \in 1 .. 5 /\ 3 \in 1 .. 5 /\ 4 \in 1 .. 5 /\ 5 \in 1 .. 5
            OBVIOUS
        <3>2. labels[h] \in {weakest[1], weakest[2], weakest[3], weakest[4], weakest[5]}
            BY <1>2
        <3> QED BY <3>1, <3>2
    <2> QED BY <2>1, <2>2
<1>4. I \in SUBSET Int /\ IsFiniteSet(I) /\ I # {}
    <2>1. I \subseteq 1 .. 5
        OBVIOUS
    <2>2. I # {}
        BY <1>3, EngineAssumption
    <2> HIDE DEF I
    <2>3. 5 \in Nat /\ 1 .. 5 \subseteq Int
        OBVIOUS
    <2>4. IsFiniteSet(1 .. 5)
        BY <2>3, Indices
    <2>5. IsFiniteSet(I)
        BY <2>1, <2>4, FS_Subset
    <2> QED BY <2>1, <2>2, <2>3, <2>5
<1>5. I \subseteq 1 .. 5
    OBVIOUS
<1> HIDE DEF I
<1>6. least \in I /\ \A i \in I : least <= i
    BY <1>4, MinFacts
<1> HIDE DEF least
<1>7. least # 1 /\ least # 2 /\ least # 3
    BY <1>1, <1>2
<1>8. least \in 1 .. 5 /\ least >= 4
    <2>1. least \in 1 .. 5
        BY <1>5, <1>6
    <2> QED BY <1>7, <2>1
<1>9. ASSUME NEW h \in Horizons PROVE labels[h] \in {"moderate", "high"}
    <2>1. PICK i \in I : weakest[i] = labels[h]
        BY <1>3
    <2>2. i = 4 \/ i = 5
        <3>1. i \in 1 .. 5 /\ least <= i
            BY <1>5, <1>6
        <3> QED BY <1>8, <3>1
    <2> QED BY <1>2, <2>1, <2>2
<1> QED BY <1>9

\* The move of a horizon that has an edge is beyond what is neutral.
LEMMA ThresholdFacts ==
    ASSUME NEW hist, NEW known, Evidence(hist, known), NEW h, NEW move \in Int,
           Threshold(hist, known, h, move).edge = "edge"
    PROVE  Abs(move) > Threshold(hist, known, h, move).neutral
<1> DEFINE origins == OriginsKnown(known, h)
           n == Cardinality(origins)
           Move(o) == Moved(hist, known, o, h)
           reliable == n >= MinEvidence
           one == [o \in origins |-> Move(o)]
           two == [o \in origins |-> Move(o) * Move(o)]
           total == SumFunction(one)
           sum == SumFunction(two)
           squares == n * sum - total * total
           error == squares \div (n * n * (n - 1))
           learned == reliable /\ n > 1 /\ squares > 0
           neutral == IF learned THEN Clip(Root((384 * error) \div 100), 5, 200) ELSE FlipThreshold
           noEdge == Clip(IF learned THEN Root((664 * error) \div 100) ELSE 2 * FlipThreshold, neutral, 400)
           up == Cardinality({o \in origins : Move(o) > 0})
           down == Cardinality({o \in origins : Move(o) < 0})
           chance == \/ up + down = 0
                     \/ up + down >= MinEvidence /\ 10000 * (up - down) * (up - down) <= 38415 * (up + down)
           edge == IF ~reliable THEN "insufficient_evidence"
                   ELSE IF Abs(move) <= noEdge \/ chance THEN "no_edge" ELSE "edge"
<1>1. Threshold(hist, known, h, move) =
          [samples |-> n, learned |-> learned, neutral |-> neutral, noEdge |-> noEdge, edge |-> edge]
    BY DEF Threshold
<1>2. Threshold(hist, known, h, move).neutral = neutral /\ edge = "edge"
    <2> HIDE DEF n, learned, neutral, noEdge, edge
    <2> QED BY <1>1
<1>3. ~(Abs(move) <= noEdge)
    <2> HIDE DEF noEdge, reliable, chance
    <2> QED BY <1>2
<1>4. n \in Nat /\ total \in Int /\ sum \in Int
    <2>1. IsFiniteSet(origins)
        BY OriginsFacts DEF Evidence
    <2>2. ASSUME NEW o \in origins PROVE Move(o) \in Int
        <3>1. o \in DOMAIN hist /\ <<o, h>> \in DOMAIN known
            BY OriginsFacts DEF Evidence
        <3> QED BY <3>1 DEF Evidence, Observations, Sane, Measurable, Moved
    <2> HIDE DEF origins, Move
    <2>3. one \in [origins -> Int] /\ two \in [origins -> Int]
        BY <2>2
    <2> HIDE DEF one, two
    <2> QED BY <2>1, <2>3, SumInt, FS_CardinalityType
<1> HIDE DEF n, total, sum, reliable, chance
<1>5. ASSUME learned
      PROVE  neutral \in Int /\ neutral <= 200 /\ noEdge \in Int /\ neutral <= noEdge
    <2>1. squares \in Int
        BY <1>4
    <2>2. n * n * (n - 1) \in Nat \ {0}
        BY <1>4, <1>5
    <2>3. PICK e \in Int : e = error
        BY <2>1, <2>2, Quotient
    <2>4. PICK a \in Int, b \in Int : a = (384 * e) \div 100 /\ b = (664 * e) \div 100
        OBVIOUS
    <2>5. PICK r \in Int, s \in Int : r = Root(a) /\ s = Root(b)
        BY RootType
    <2> HIDE DEF error, learned
    <2>6. neutral = Clip(r, 5, 200) /\ noEdge = Clip(s, neutral, 400)
        BY <1>5, <2>3, <2>4, <2>5
    <2> HIDE DEF neutral, noEdge
    <2>7. neutral \in Int /\ neutral <= 200
        BY <2>6, ClipFacts
    <2> QED BY <2>6, <2>7, ClipFacts
<1>6. ASSUME ~learned PROVE neutral \in Int /\ noEdge \in Int /\ neutral <= noEdge
    <2> HIDE DEF learned
    <2>1. neutral = 25 /\ noEdge = Clip(50, 25, 400)
        BY <1>6 DEF FlipThreshold
    <2> HIDE DEF neutral, noEdge
    <2> QED BY <2>1, ClipFacts
<1>7. neutral \in Int /\ noEdge \in Int /\ neutral <= noEdge
    BY <1>5, <1>6
<1> HIDE DEF neutral, noEdge
<1>8. Abs(move) \in Int
    BY DEF Abs
<1> QED BY <1>2, <1>3, <1>7, <1>8

\* the outcomes that have come, whenever they were recorded
Ever(outcomes) == [k \in DOMAIN outcomes |-> outcomes[k].actual]

\* what the outcomes of a history are to a forecast of it
LEMMA EverIsEvidence ==
    ASSUME NEW hist, History(hist), NEW outcomes, Valued(outcomes),
           DOMAIN outcomes \subseteq (DOMAIN hist) \X Horizons, NEW at
    PROVE  Evidence(hist, Ever(outcomes)) /\ Evidence(hist, MaturedBy(outcomes, at))
<1>1. DOMAIN Ever(outcomes) = DOMAIN outcomes /\ \A k \in DOMAIN outcomes : Ever(outcomes)[k] \in Int
    BY DEF Ever, Valued
<1>2. /\ DOMAIN MaturedBy(outcomes, at) \subseteq DOMAIN outcomes
      /\ \A k \in DOMAIN MaturedBy(outcomes, at) : MaturedBy(outcomes, at)[k] \in Int
    BY DEF MaturedBy, Valued
<1> QED BY <1>1, <1>2 DEF History, Evidence, Observations, Sane

\* The errors of a history are as many as its outcomes, and those of persistence are
\* no less than nothing.
LEMMA PerformanceType ==
    ASSUME NEW hist, NEW known, Evidence(hist, known), NEW h
    PROVE  LET p == Performance(hist, known, h)
           IN  p.samples \in Nat /\ p.ensemble \in Int /\ p.persistence \in Nat
<1> DEFINE origins == OriginsKnown(known, h)
           ours == [o \in origins |-> Abs(hist[o].ensemble[h].point - known[<<o, h>>])]
           theirs == [o \in origins |-> Abs(hist[o].models["persistence"][h] - known[<<o, h>>])]
           n == Cardinality(origins)
           a == SumFunction(ours)
           b == SumFunction(theirs)
           p == Performance(hist, known, h)
<1>1. p = [samples |-> n, ensemble |-> a, persistence |-> b]
    BY DEF Performance
<1>2. IsFiniteSet(origins)
    BY OriginsFacts DEF Evidence
<1>3. ASSUME NEW o \in origins PROVE ours[o] \in Nat /\ theirs[o] \in Nat
    <2>1. o \in DOMAIN hist /\ <<o, h>> \in DOMAIN known /\ h \in Horizons
        BY OriginsFacts DEF Evidence
    <2>2. PICK x \in Int, y \in Int, z \in Int :
              x = hist[o].ensemble[h].point /\ y = known[<<o, h>>] /\ z = hist[o].models["persistence"][h]
        BY <2>1 DEF Evidence, Observations, Sane, Measurable, Sensible
    <2>3. ours[o] = Abs(x - y) /\ theirs[o] = Abs(z - y)
        BY <2>2
    <2> HIDE DEF ours, theirs
    <2> QED BY <2>3 DEF Abs
<1>4. ours \in [origins -> Nat] /\ theirs \in [origins -> Nat]
    BY <1>3
<1> HIDE DEF origins, ours, theirs
<1>5. n \in Nat /\ a \in Nat /\ b \in Nat
    BY <1>2, <1>4, SumNat, FS_CardinalityType
<1> HIDE DEF n, a, b, p
<1>6. p.samples \in Nat /\ p.ensemble \in Int /\ p.persistence \in Nat
    BY <1>1, <1>5
<1> QED BY <1>6 DEF p

-----------------------------------------------------------------------------
(* What the lead of a model rests on. *)

\* Of two models on one scale the heavier weighs at most twice the other, and one more
\* for rounding, if its raw weight is at most twice the other's.
LEMMA ScaledRatio ==
    ASSUME NEW S, IsFiniteSet(S), S # {}, NEW raw, DOMAIN raw = S, Positive(raw, S),
           NEW floor \in Nat, NEW cap \in Nat, floor <= cap,
           NEW low \in SUBSET S, NEW high \in SUBSET S, Fits(raw, low, high, floor, cap),
           NEW x \in S, NEW y \in S, raw[x] <= 2 * raw[y]
    PROVE  Scaled(raw, low, high, floor, cap)[x] <= 2 * Scaled(raw, low, high, floor, cap)[y] + 1
<1> DEFINE w == Scaled(raw, low, high, floor, cap)
           free == S \ (low \cup high)
           mass == Mass(raw, low, high)
           left == Left(low, high, floor, cap)
<1>1. Free(raw, low, high) = free
    BY DEF Free
<1>2. left \in Int /\ (free # {} => mass \in Nat \ {0})
    <2>1. /\ IsFiniteSet(free) /\ Cardinality(low) \in Nat /\ Cardinality(high) \in Nat
          /\ Cardinality(free) \in Nat /\ (free # {} => Cardinality(free) # 0)
        BY FS_Subset, FS_CardinalityType, FS_EmptySet
    <2>2. Positive(raw, free)
        BY DEF Positive
    <2>3. mass = SumFunctionOnSet(raw, free)
        BY DEF Mass, Free
    <2> HIDE DEF free
    <2>4. mass \in Nat /\ Cardinality(free) <= mass
        BY <2>1, <2>2, <2>3, SumPositive
    <2>5. left \in Int
        BY <2>1 DEF Left
    <2> HIDE DEF mass
    <2> QED BY <2>1, <2>4, <2>5
<1> HIDE DEF left, mass
<1>3. /\ \A m \in free : raw[m] * left >= floor * mass /\ raw[m] * left <= cap * mass
      /\ \A m \in low : raw[m] * left <= floor * mass
      /\ \A m \in high : raw[m] * left >= cap * mass
      /\ \A l \in low, m \in high : raw[l] * cap <= raw[m] * floor
      /\ low \cap high = {}
    BY <1>1 DEF Fits, left, mass
<1>4. w \in [S -> floor .. cap]
    BY ScaledFacts
<1>5. w = [m \in S |-> IF m \in low THEN floor ELSE IF m \in high THEN cap ELSE (raw[m] * left) \div mass]
    BY DEF Scaled, left, mass
<1> SUFFICES w[x] <= 2 * w[y] + 1
    OBVIOUS
<1> HIDE DEF w
<1>6. /\ \A m \in low : w[m] = floor
      /\ \A m \in high : w[m] = cap
      /\ \A m \in free : w[m] = (raw[m] * left) \div mass
      /\ \A m \in S : w[m] \in Nat /\ floor <= w[m] /\ w[m] <= cap
    BY <1>3, <1>4, <1>5
<1>7. PICK r \in Nat \ {0}, q \in Nat \ {0} : r = raw[x] /\ q = raw[y] /\ r <= 2 * q
    BY DEF Positive
\* where some are free the whole is shared by multiples of a scale that is not negative
<1>8. free # {} => r * left <= 2 * (q * left)
    <2>1. SUFFICES ASSUME NEW m \in free PROVE r * left <= 2 * (q * left)
        OBVIOUS
    <2>2. PICK z \in Nat \ {0} : z = raw[m]
        BY DEF Positive
    <2>3. left >= 0
        <3>1. floor * mass \in Nat /\ z * left >= floor * mass
            BY <1>2, <1>3, <2>1, <2>2
        <3>2. 0 * z <= left * z
            BY <1>2, <3>1
        <3> QED BY <1>2, <3>2, Cancel
    <2>4. r * left <= (2 * q) * left
        BY <1>2, <1>7, <2>3, Times
    <2> QED BY <1>2, <2>4
<1>9. CASE x \in low \/ y \in high
    BY <1>6, <1>9
<1>10. CASE x \in high /\ y \in low
    <2>1. q * cap <= r * floor
        BY <1>3, <1>7, <1>10
    <2>2. r * floor <= (2 * q) * floor
        BY <1>7, Times
    <2>3. cap * q <= (2 * floor) * q
        <3>1. q * cap = cap * q /\ (2 * q) * floor = (2 * floor) * q
            OBVIOUS
        <3>2. PICK a \in Int, b \in Int, c \in Int : a = q * cap /\ b = r * floor /\ c = (2 * q) * floor
            OBVIOUS
        <3> QED BY <2>1, <2>2, <3>1, <3>2
    <2>4. cap <= 2 * floor
        BY <2>3, Cancel
    <2> QED BY <1>6, <1>10, <2>4
<1>11. CASE x \in free /\ y \in low
    <2>1. mass \in Nat \ {0} /\ r * left <= 2 * (q * left) /\ q * left <= floor * mass
        BY <1>2, <1>3, <1>7, <1>8, <1>11
    <2>2. PICK a \in Int, b \in Int : a = r * left /\ b = q * left
        BY <1>2
    <2>3. w[x] = a \div mass /\ w[y] = floor
        BY <1>6, <1>7, <1>11, <2>2
    <2>4. PICK k \in Int : k = a \div mass /\ k * mass <= a
        BY <2>1, Quotient
    <2>5. k * mass <= (2 * floor) * mass
        <3>1. (2 * floor) * mass = 2 * (floor * mass)
            BY <2>1
        <3>2. PICK c \in Int, d \in Int : c = k * mass /\ d = floor * mass
            BY <2>1
        <3> QED BY <2>1, <2>2, <2>4, <3>1, <3>2
    <2>6. k <= 2 * floor
        BY <2>1, <2>5, Cancel
    <2> QED BY <2>3, <2>4, <2>6
<1>12. CASE y \in free /\ (x \in high \/ x \in free)
    <2>1. mass \in Nat \ {0} /\ r * left <= 2 * (q * left)
        BY <1>2, <1>8, <1>12
    <2>2. PICK a \in Int, b \in Int : a = r * left /\ b = q * left
        BY <1>2
    <2>3. w[y] = b \div mass
        BY <1>6, <1>7, <1>12, <2>2
    <2>4. PICK k \in Int : k = b \div mass /\ b < k * mass + mass
        BY <2>1, Quotient
    <2>5. PICK j \in Nat : j = w[x] /\ j * mass <= a
        <3>1. CASE x \in high
            BY <1>3, <1>6, <1>7, <2>2, <3>1
        <3>2. CASE x \in free
            <4>1. w[x] = a \div mass
                BY <1>6, <1>7, <2>2, <3>2
            <4> QED BY <1>6, <2>1, <4>1, Quotient
        <3> QED BY <1>12, <3>1, <3>2
    <2>6. j <= 2 * k + 1
        <3>1. SUFFICES ASSUME 2 * k + 2 <= j PROVE FALSE
            OBVIOUS
        <3>2. (2 * k + 2) * mass <= j * mass
            BY <2>1, <3>1, Times
        <3>3. (2 * k + 2) * mass = 2 * (k * mass + mass)
            BY <2>1
        <3>4. PICK c \in Int, d \in Int : c = k * mass + mass /\ d = j * mass
            BY <2>1
        <3> QED BY <2>1, <2>2, <2>4, <2>5, <3>2, <3>3, <3>4
    <2> QED BY <2>3, <2>4, <2>5, <2>6
<1> QED BY <1>9, <1>10, <1>11, <1>12

\* A model that weighs more than twice another one, and more than all that rounding
\* may have given it, had more than twice the score.
LEMMA NormalizedRatio ==
    ASSUME NEW S, IsFiniteSet(S), S # {}, NEW score \in [S -> Int], NEW floor \in Nat, NEW cap \in Nat,
           floor * Cardinality(S) <= 1000, 1000 <= cap * Cardinality(S),
           NEW x \in S, NEW y \in S, Max({1, score[x]}) <= 2 * Max({1, score[y]})
    PROVE  BoundedNormalize(score, floor, cap)[x] <= 2 * BoundedNormalize(score, floor, cap)[y] + Cardinality(S)
<1> DEFINE n == Cardinality(S)
           raw == [m \in S |-> Max({1, score[m]})]
           w == BoundedNormalize(score, floor, cap)
<1>0. NormalizedWithin(w, S, score, floor, cap)
    BY NormalizedFrom
<1>1. PICK low \in SUBSET S, high \in SUBSET S : NormalizedBy(w, S, raw, low, high, floor, cap)
    BY <1>0 DEF NormalizedWithin
<1> DEFINE scaled == Scaled(raw, low, high, floor, cap)
           residue == 1000 - SumFunction(scaled)
<1>2. n \in Nat \ {0} /\ floor <= cap /\ Positive(raw, S)
    <2>1. floor <= cap
        BY <1>0 DEF NormalizedWithin
    <2>2. Positive(raw, S)
        BY <1>0 DEF NormalizedWithin
    <2>3. n \in Nat \ {0}
        BY FS_CardinalityType, FS_EmptySet
    <2> QED BY <2>1, <2>2, <2>3
<1>3. DOMAIN raw = S /\ raw[x] <= 2 * raw[y]
    OBVIOUS
<1>4. /\ Fits(raw, low, high, floor, cap) /\ w = Rounded(scaled, residue, cap)
      /\ scaled \in [S -> floor .. cap] /\ NearlyWhole(scaled, S)
      /\ SumFunction(scaled) = SumFunctionOnSet(scaled, S)
    BY <1>1 DEF NormalizedBy
<1> HIDE DEF raw
<1>5. scaled[x] <= 2 * scaled[y] + 1
    BY <1>2, <1>3, <1>4, ScaledRatio
<1> HIDE DEF scaled
<1>6. residue \in Nat /\ residue < n /\ residue = 1000 - SumFunctionOnSet(scaled, S)
    <2> HIDE DEF n
    <2> QED BY <1>2, <1>4 DEF NearlyWhole, n
<1> HIDE DEF residue, w
<1>7. /\ scaled = [m \in S |-> scaled[m]]
      /\ \A m \in S : scaled[m] \in floor .. cap
    BY <1>4
<1>8. w \in [S -> floor .. cap]
    BY <1>4, <1>6, <1>7, RoundedFacts
<1>9. \A m \in S : scaled[m] <= w[m] /\ w[m] <= scaled[m] + residue
    BY <1>4, <1>6, <1>7, RoundedFacts
<1>10. PICK a \in Nat, b \in Nat, c \in Nat, d \in Nat : a = scaled[x] /\ b = scaled[y] /\ c = w[x] /\ d = w[y]
    BY <1>7, <1>8
<1>11. c <= a + residue /\ b <= d /\ a <= 2 * b + 1
    BY <1>5, <1>9, <1>10
<1> HIDE DEF n
<1>12. c <= 2 * d + n
    BY <1>2, <1>6, <1>11
<1> QED BY <1>10, <1>12 DEF w, n

\* Of finitely many numbers one is the greatest.
LEMMA GreatestValue ==
    ASSUME NEW S, IsFiniteSet(S), S # {}, NEW f, \A k \in S : f[k] \in Int
    PROVE  /\ Max({f[k] : k \in S}) \in Int
           /\ Max({f[k] : k \in S}) \in {f[k] : k \in S}
           /\ \A k \in S : f[k] <= Max({f[j] : j \in S})
<1> DEFINE all == {f[k] : k \in S}
           g == [k \in S |-> f[k]]
<1>1. all \in SUBSET Int /\ all # {}
    OBVIOUS
<1>2. IsFiniteSet(all)
    <2>1. g \in Surjection(S, all)
        <3>1. g \in [S -> all]
            OBVIOUS
        <3> QED BY <3>1 DEF Surjection
    <2> HIDE DEF all
    <2> QED BY <2>1, FS_Surjection
<1>3. Max(all) \in all /\ \A v \in all : v <= Max(all)
    <2> HIDE DEF all
    <2> QED BY <1>1, <1>2, MaxFacts
<1>4. \A k \in S : f[k] \in all
    OBVIOUS
<1> QED BY <1>1, <1>3, <1>4

\* The guard leaves no model a score more than twice that of every other one, but one
\* that has earned it.
LEMMA GuardedFacts ==
    ASSUME NEW raw \in [Models -> Int], NEW uncertainty, NEW evidence, NEW x \in Models,
           \A y \in Models \ {x} : Max({1, Guarded(raw, uncertainty, evidence)[x]})
                                     > 2 * Max({1, Guarded(raw, uncertainty, evidence)[y]})
    PROVE  uncertainty[x].samples >= evidence /\ ~uncertainty[x].overconfident
<1> DEFINE best == CHOOSE m \in Models : \A n \in Models : raw[n] <= raw[m]
           S == Models \ {best}
           second == Max({raw[m] : m \in S})
           earned == uncertainty[best].samples >= evidence /\ ~uncertainty[best].overconfident
           g == Guarded(raw, uncertainty, evidence)
<1>1. g = IF raw[best] > MaxRatio * Max({second, 1}) /\ ~earned
          THEN [raw EXCEPT ![best] = MaxRatio * second] ELSE raw
    BY DEF Guarded
<1>2. best \in Models /\ \A n \in Models : raw[n] <= raw[best]
    <2>1. IsFiniteSet(Models) /\ Models # {}
        BY ModelsFacts
    <2>2. \E m \in Models : \A n \in Models : raw[n] <= raw[m]
        <3> DEFINE most == Max({raw[k] : k \in Models})
        <3>1. \A k \in Models : raw[k] \in Int
            OBVIOUS
        <3>2. most \in {raw[k] : k \in Models}
            BY <2>1, <3>1, GreatestValue
        <3>3. \A n \in Models : raw[n] <= most
            BY <2>1, <3>1, GreatestValue
        <3> HIDE DEF most
        <3>4. PICK m \in Models : raw[m] = most
            BY <3>2
        <3> QED BY <3>3, <3>4
    <2> QED BY <2>2
<1> HIDE DEF best
<1>3. IsFiniteSet(S) /\ S # {}
    <2>1. IsFiniteSet(S)
        BY ModelsFacts, FS_RemoveElement
    <2>2. S # {}
        <3>1. SUFFICES ASSUME S = {} PROVE FALSE
            OBVIOUS
        <3>2. Models = {best}
            BY <1>2, <3>1
        <3>3. Cardinality(Models) = 1
            BY <3>2, FS_Singleton
        <3> QED BY <3>3, ModelsFacts
    <2> QED BY <2>1, <2>2
<1>4. second \in Int /\ (\E s \in S : raw[s] = second) /\ \A k \in S : raw[k] <= second
    <2>1. \A k \in S : raw[k] \in Int
        OBVIOUS
    <2> HIDE DEF S
    <2>2. second \in Int
        BY <1>3, <2>1, GreatestValue
    <2>3. second \in {raw[k] : k \in S}
        BY <1>3, <2>1, GreatestValue
    <2>4. \A k \in S : raw[k] <= second
        BY <1>3, <2>1, GreatestValue
    <2> HIDE DEF second
    <2> QED BY <2>2, <2>3, <2>4
<1>5. ASSUME NEW a \in Int, NEW b \in Int
      PROVE  /\ Max({1, a}) \in Int /\ Max({1, a}) >= 1 /\ Max({1, a}) >= a /\ Max({1, a}) \in {1, a}
             /\ Max({a, 1}) \in Int /\ Max({a, 1}) >= 1 /\ Max({a, 1}) >= a /\ Max({a, 1}) \in {1, a}
    <2>1. PICK one \in Int : one = 1
        OBVIOUS
    <2>2. Max({one, a}) \in {one, a} /\ Max({one, a}) >= one /\ Max({one, a}) >= a
        BY PairFacts
    <2>3. {one, a} = {a, one}
        OBVIOUS
    <2> QED BY <2>1, <2>2, <2>3
<1> HIDE DEF second, g, earned
<1>6. \A y \in Models \ {x} : Max({1, g[x]}) > 2 * Max({1, g[y]})
    BY DEF g
<1>7. PICK v \in Int, z \in Int : v = raw[best] /\ z = second
    BY <1>2, <1>4
<1>8. CASE raw[best] > MaxRatio * Max({second, 1}) /\ ~earned
    <2>1. g = [raw EXCEPT ![best] = MaxRatio * second]
        BY <1>1, <1>8
    <2>2. g[best] = 2 * z /\ \A m \in S : g[m] = raw[m]
        BY <1>2, <1>7, <2>1 DEF MaxRatio
    <2>3. CASE x = best
        <3>1. PICK s \in S : raw[s] = second
            BY <1>4
        <3>2. s \in Models \ {x} /\ g[s] = z /\ g[x] = 2 * z
            BY <1>7, <2>2, <2>3, <3>1
        <3>3. Max({1, 2 * z}) > 2 * Max({1, z})
            BY <1>6, <3>2
        <3>4. PICK e \in Int : e = 2 * z
            OBVIOUS
        <3>5. Max({1, e}) \in {1, e} /\ Max({1, z}) >= 1 /\ Max({1, z}) >= z /\ Max({1, z}) \in Int
            BY <1>5
        <3> QED BY <3>3, <3>4, <3>5
    <2>4. CASE x # best
        <3>1. PICK e \in Int, d \in Int : e = raw[x] /\ d = 2 * z /\ e <= z
            BY <1>2, <1>4, <1>7, <2>4
        <3>2. best \in Models \ {x} /\ g[x] = e /\ g[best] = d
            BY <1>2, <2>2, <2>4, <3>1
        <3>3. Max({1, e}) > 2 * Max({1, d})
            BY <1>6, <3>2
        <3>4. Max({1, e}) \in {1, e} /\ Max({1, d}) >= 1 /\ Max({1, d}) >= d /\ Max({1, d}) \in Int
            BY <1>5
        <3> QED BY <3>1, <3>3, <3>4
    <2> QED BY <2>3, <2>4
<1>9. CASE ~(raw[best] > MaxRatio * Max({second, 1}) /\ ~earned)
    <2>1. g = raw
        BY <1>1, <1>9
    <2>2. CASE x # best
        <3>1. PICK e \in Int : e = raw[x] /\ e <= v
            BY <1>2, <1>7
        <3>2. best \in Models \ {x}
            BY <1>2, <2>2
        <3>3. Max({1, e}) > 2 * Max({1, v})
            BY <1>6, <1>7, <2>1, <3>1, <3>2
        <3>4. Max({1, e}) \in {1, e} /\ Max({1, v}) >= 1 /\ Max({1, v}) >= v /\ Max({1, v}) \in Int
            BY <1>5
        <3> QED BY <3>1, <3>3, <3>4
    <2>3. CASE x = best
        <3>1. PICK s \in S : raw[s] = second
            BY <1>4
        <3>2. Max({1, v}) > 2 * Max({1, z})
            BY <1>6, <1>7, <2>1, <2>3, <3>1
        <3>3. /\ Max({1, v}) \in {1, v} /\ Max({1, z}) >= 1 /\ Max({1, z}) >= z /\ Max({1, z}) \in Int
              /\ Max({z, 1}) \in {1, z} /\ Max({z, 1}) \in Int
            BY <1>5
        <3>4. v > 2 * Max({z, 1})
            BY <3>2, <3>3
        <3>5. earned
            BY <1>7, <1>9, <3>4 DEF MaxRatio
        <3> QED BY <2>3, <3>5 DEF earned
    <2> QED BY <2>2, <2>3
<1> QED BY <1>8, <1>9

\* The lead of a model in the guarded weights is evidenced.
LEMMA LeadFacts ==
    ASSUME NEW raw \in [Models -> Int], NEW uncertainty, NEW evidence, NEW x \in Models,
           LET w == BoundedNormalize(Guarded(raw, uncertainty, evidence), MinWeight, MaxWeight)
           IN  \A y \in Models \ {x} : w[x] > MaxRatio * w[y] + Cardinality(Models)
    PROVE  uncertainty[x].samples >= evidence /\ ~uncertainty[x].overconfident
<1> DEFINE g == Guarded(raw, uncertainty, evidence)
           w == BoundedNormalize(g, MinWeight, MaxWeight)
           N == Cardinality(Models)
<1>1. g \in [Models -> Int]
    <2> DEFINE best == CHOOSE m \in Models : \A n \in Models : raw[n] <= raw[m]
               S == Models \ {best}
               second == Max({raw[m] : m \in S})
    <2>1. g = raw \/ g = [raw EXCEPT ![best] = MaxRatio * second]
        BY DEF Guarded
    <2>2. second \in Int
        <3>1. IsFiniteSet(S) /\ S # {}
            <4>1. IsFiniteSet(S)
                BY ModelsFacts, FS_RemoveElement
            <4>2. S # {}
                <5>1. SUFFICES ASSUME S = {} PROVE FALSE
                    OBVIOUS
                <5> HIDE DEF best
                <5>2. Models \subseteq {best}
                    BY <5>1
                <5>3. Models = {best}
                    BY <5>2, ModelsFacts
                <5>4. Cardinality(Models) = 1
                    BY <5>3, FS_Singleton
                <5> QED BY <5>4, ModelsFacts
            <4> QED BY <4>1, <4>2
        <3>2. \A k \in S : raw[k] \in Int
            OBVIOUS
        <3> HIDE DEF S
        <3> QED BY <3>1, <3>2, GreatestValue
    <2> HIDE DEF second, best, g
    <2>3. CASE g = raw
        BY <2>3
    <2>4. CASE g = [raw EXCEPT ![best] = MaxRatio * second]
        <3>1. MaxRatio * second \in Int
            BY <2>2 DEF MaxRatio
        <3> QED BY <2>4, <3>1
    <2> QED BY <2>1, <2>3, <2>4
<1> HIDE DEF g
<1>2. MinWeight * N <= 1000 /\ 1000 <= MaxWeight * N /\ N \in Nat
    BY BoundsAssumption, ModelsFacts DEF MinWeight, MaxWeight
<1>3. MinWeight \in Nat /\ MaxWeight \in Nat /\ IsFiniteSet(Models) /\ Models # {}
    BY ModelsFacts DEF MinWeight, MaxWeight
<1>4. w \in [Models -> MinWeight .. MaxWeight]
    BY <1>1, <1>2, <1>3, WeightsKeepTheirBounds
<1>5. ASSUME NEW y \in Models \ {x} PROVE Max({1, g[x]}) > 2 * Max({1, g[y]})
    <2>1. Max({1, g[x]}) \in Nat /\ Max({1, g[y]}) \in Nat
        BY <1>1, AtLeastOne
    <2>2. SUFFICES ASSUME Max({1, g[x]}) <= 2 * Max({1, g[y]}) PROVE FALSE
        BY <2>1
    <2>3. w[x] <= 2 * w[y] + N
        BY <1>1, <1>2, <1>3, <2>2, NormalizedRatio
    <2>4. w[x] > 2 * w[y] + N
        BY DEF MaxRatio, g
    <2>5. w[x] \in Int /\ w[y] \in Int
        BY <1>3, <1>4
    <2> HIDE DEF w, N
    <2> QED BY <1>2, <2>3, <2>4, <2>5
<1> QED BY <1>5, GuardedFacts DEF g

\* how often the interval of a model came due, and held
Calibrating(u) ==
    /\ u.samples \in Nat /\ u.covered \in Nat
    /\ u.calibrated <=> (u.samples >= AdaptiveMin)
    /\ u.overconfident <=> (u.samples >= AdaptiveMin /\ 1000 * u.covered < 650 * u.samples)

LEMMA SquaredError ==
    ASSUME NEW error \in Int, NEW most \in Nat \ {0}
    PROVE  1000 - (600 * error) \div 1000 + (180 * error * error) \div most \in Int
<1>1. PICK a \in Int, b \in Int : a = 600 * error /\ b = 180 * error * error
    OBVIOUS
<1>2. a \div 1000 \in Int /\ b \div most \in Int
    BY Quotient
<1> QED BY <1>1, <1>2

LEMMA DampedType ==
    ASSUME NEW u, Calibrating(u)
    PROVE  UncertaintyPenalty(u) \in Int
<1> DEFINE progress == Progress(u.samples, UncertaintyMin, UncertaintyFull)
           blend == (UncertaintyBlend * progress) \div 1000
           error == Abs(1000 * u.covered - 800 * u.samples) \div u.samples
           raw == 1000 - (600 * error) \div 1000 + (180 * error * error) \div 1000000
<1>1. UncertaintyPenalty(u) = IF u.calibrated THEN 1000 - (blend * (1000 - raw)) \div 1000 ELSE 1000
    BY DEF UncertaintyPenalty
<1>2. blend \in Int
    <2>1. progress \in 0 .. 1000
        <3>1. u.samples \in Nat /\ UncertaintyMin \in Int /\ UncertaintyFull \in Int
            BY EngineAssumption DEF Calibrating, UncertaintyMin, UncertaintyFull
        <3> QED BY <3>1, ProgressType, ZenonT(40)
    <2> HIDE DEF progress
    <2>2. PICK a \in Int : a = UncertaintyBlend * progress
        BY <2>1 DEF UncertaintyBlend
    <2> QED BY <2>2, Quotient
<1> HIDE DEF blend
<1> HIDE DEF raw
<1>3. u.calibrated => raw \in Int
    <2>1. SUFFICES ASSUME u.calibrated PROVE raw \in Int
        OBVIOUS
    <2>2. u.samples \in Nat \ {0} /\ u.covered \in Nat
        <3>1. u.samples >= AdaptiveMin /\ u.samples \in Nat /\ u.covered \in Nat
            BY <2>1, Zenon DEF Calibrating
        <3>2. AdaptiveMin \in Nat \ {0}
            BY EngineAssumption
        <3> QED BY <3>1, <3>2
    <2>3. PICK a \in Int : a = Abs(1000 * u.covered - 800 * u.samples)
        BY <2>2 DEF Abs
    <2>4. error \in Int
        BY <2>2, <2>3, Quotient
    <2> HIDE DEF error
    <2>5. PICK most \in Nat \ {0} : most = 1000000
        BY SMT
    <2> QED BY <2>4, <2>5, SquaredError DEF raw
<1>4. u.calibrated => (blend * (1000 - raw)) \div 1000 \in Int
    <2>1. SUFFICES ASSUME u.calibrated PROVE (blend * (1000 - raw)) \div 1000 \in Int
        OBVIOUS
    <2>2. PICK a \in Int : a = blend * (1000 - raw)
        BY <1>2, <1>3, <2>1
    <2> QED BY <2>2, Quotient
<1> QED BY <1>1, <1>4

\* the forecasts whose interval of a model was one, and could be judged by a time
Banded(hist, actuals, model, h, time) ==
    {o \in Observed(hist, actuals, h, time) :
        model \in Contexts /\ hist[o].bands[model][h][1] < hist[o].bands[model][h][2]}

Held(hist, actuals, model, h, time) ==
    {o \in Banded(hist, actuals, model, h, time) :
        /\ hist[o].bands[model][h][1] <= actuals[o + Hour * h]
        /\ actuals[o + Hour * h] <= hist[o].bands[model][h][2]}

\* a history no longer than what is read of it
Short(S, limit) == \A x \in S : Cardinality({y \in S : y > x}) < limit

LEMMA ShortPart ==
    ASSUME NEW S \in SUBSET Int, IsFiniteSet(S), NEW limit \in Nat, Short(S, limit), NEW P \in SUBSET S
    PROVE  Newest(P, limit) = P
<1>1. ASSUME NEW x \in P PROVE Cardinality({y \in P : y > x}) < limit
    <2> DEFINE A == {y \in P : y > x}
               B == {y \in S : y > x}
    <2>1. A \subseteq B /\ IsFiniteSet(B)
        <3>1. B \subseteq S
            OBVIOUS
        <3> QED BY <3>1, FS_Subset
    <2>2. Cardinality(B) < limit
        BY DEF Short
    <2> HIDE DEF A, B
    <2>3. Cardinality(A) <= Cardinality(B) /\ Cardinality(A) \in Nat /\ Cardinality(B) \in Nat
        BY <2>1, FS_Subset, FS_CardinalityType
    <2> QED BY <2>2, <2>3 DEF A
<1> QED BY <1>1 DEF Newest
=============================================================================
