------------------------- MODULE ForecastApiProofs -------------------------
(***************************************************************************)
(* What the API promises its clients, for any history, page size, limit    *)
(* and window: a client that was refused and waits as long as it was told  *)
(* is let through, and a client that follows the pages to their end has    *)
(* seen every row that was there when it began and still is, however the   *)
(* history and the site change on the way.                                 *)
(***************************************************************************)
EXTENDS ForecastApi, FiniteSetTheorems, TLAPS

-----------------------------------------------------------------------------
(* The limiter. *)

\* A refusal is remembered as long as nothing was admitted since, and the oldest
\* request it was for leaves the window before the client is told to come back.
LimiterKnown ==
    /\ clock \in Nat
    /\ bucket \in Seq(Nat) /\ Len(bucket) <= Limit
    /\ promised # Missing =>
           bucket # <<>> /\ promised \in Int /\ promised >= bucket[1] + 2 * Window

\* A finite set of integers that is not empty has a greatest member.
LEMMA GreatestExists ==
    ASSUME NEW S \in SUBSET Int, IsFiniteSet(S), S # {}
    PROVE  \E m \in S : \A n \in S : n <= m
<1> DEFINE Bounded(T) == \E m \in T : \A n \in T : n <= m
           Bad == {T \in FiniteSubsetsOf(S) : T # {} /\ ~Bounded(T)}
<1>1. SUFFICES ASSUME Bad # {} PROVE FALSE
    <2>1. S \in FiniteSubsetsOf(S)
        BY DEF FiniteSubsetsOf
    <2> QED BY <2>1
<1>2. PICK T \in Bad : \A U \in Bad : <<U, T>> \notin StrictSubsetOrdering(S)
    <2>1. Bad \subseteq FiniteSubsetsOf(S)
        OBVIOUS
    <2> HIDE DEF Bad
    <2> QED BY <1>1, <2>1, FS_StrictSubsetOrderingWellFounded, WFMin
<1>3. PICK x \in T : TRUE
    OBVIOUS
<1> DEFINE U == T \ {x}
<1>4. U \in FiniteSubsetsOf(S) /\ T \in FiniteSubsetsOf(S)
    BY FS_RemoveElement DEF FiniteSubsetsOf
<1>5. <<U, T>> \in StrictSubsetOrdering(S)
    BY <1>3, <1>4 DEF StrictSubsetOrdering, FiniteSubsetsOf
<1>6. U = {} \/ Bounded(U)
    BY <1>2, <1>4, <1>5
<1>7. Bounded(T)
    <2>1. T \subseteq Int
        BY <1>4 DEF FiniteSubsetsOf
    <2> QED BY <1>3, <1>6, <2>1
<1> QED BY <1>2, <1>7

\* What the deque is without the requests that have left the window: a suffix, shorter
\* when the oldest request had left it.
LEMMA PrunedFacts ==
    ASSUME clock \in Nat, NEW b \in Seq(Nat)
    PROVE  /\ Pruned(b) \in Seq(Nat) /\ Len(Pruned(b)) <= Len(b)
           /\ Pruned(b) # <<>> => Pruned(b)[1] > clock - 2 * Window
           /\ b # <<>> /\ b[1] <= clock - 2 * Window => Len(Pruned(b)) < Len(b)
<1> DEFINE edge == clock - 2 * Window
           left == {n \in 0 .. Len(b) : \A i \in 1 .. n : b[i] <= edge}
           k == Max(left)
<1>0. edge \in Int /\ Len(b) \in Nat
    BY ApiAssumption
<1>1. \E m \in left : \A n \in left : n <= m
    <2>1. 0 \in left /\ left \in SUBSET Int
        BY <1>0
    <2>2. IsFiniteSet(left)
        <3>1. IsFiniteSet(0 .. Len(b))
            BY <1>0, FS_Interval
        <3>2. left \in SUBSET (0 .. Len(b))
            OBVIOUS
        <3> HIDE DEF left
        <3> QED BY <3>1, <3>2, FS_Subset
    <2> HIDE DEF left
    <2> QED BY <2>1, <2>2, GreatestExists
<1>2. k \in left /\ \A n \in left : n <= k
    <2>1. \E m \in left : \A n \in left : m >= n
        BY <1>0, <1>1
    <2> HIDE DEF left
    <2>2. k \in left /\ \A n \in left : k >= n
        BY <2>1 DEF Max
    <2>3. left \subseteq Int
        BY <1>0 DEF left
    <2> QED BY <2>2, <2>3
<1> HIDE DEF k
<1>3. k \in 0 .. Len(b) /\ \A i \in 1 .. k : b[i] <= edge
    BY <1>2
<1>4. Pruned(b) = SubSeq(b, k + 1, Len(b))
    BY DEF Pruned, AllAfter, k
<1>5. /\ Pruned(b) \in Seq(Nat) /\ Len(Pruned(b)) = Len(b) - k
      /\ \A i \in 1 .. Len(b) - k : Pruned(b)[i] = b[k + i]
    BY <1>0, <1>3, <1>4
<1>6. Pruned(b) # <<>> => Pruned(b)[1] > edge
    <2> SUFFICES ASSUME Pruned(b) # <<>>, ~(Pruned(b)[1] > edge) PROVE FALSE
        OBVIOUS
    <2>1. k < Len(b) /\ Pruned(b)[1] = b[k + 1] /\ b[k + 1] \in Nat
        <3>1. Len(b) - k # 0
            BY <1>5
        <3>2. k < Len(b)
            BY <1>0, <1>3, <3>1
        <3>3. 1 \in 1 .. Len(b) - k /\ k + 1 \in 1 .. Len(b)
            BY <1>0, <1>3, <3>2
        <3>4. Pruned(b)[1] = b[k + 1]
            BY <1>5, <3>3
        <3>5. b[k + 1] \in Nat
            BY <3>3
        <3> QED BY <3>2, <3>4, <3>5
    <2>2. \A i \in 1 .. k + 1 : b[i] <= edge
        BY <1>0, <1>3, <2>1
    <2>3. k + 1 \in left
        BY <1>3, <2>1, <2>2
    <2> QED BY <1>2, <1>3, <2>3
<1>7. b # <<>> /\ b[1] <= edge => Len(Pruned(b)) < Len(b)
    <2> SUFFICES ASSUME b # <<>>, b[1] <= edge PROVE Len(Pruned(b)) < Len(b)
        OBVIOUS
    <2>1. 1 \in left
        OBVIOUS
    <2> QED BY <1>2, <1>3, <1>5, <2>1
<1> QED BY <1>3, <1>5, <1>6, <1>7

LEMMA LimiterStart == Init => LimiterKnown
BY ApiAssumption DEF Init, LimiterKnown

LEMMA LimiterStep == ASSUME LimiterKnown, [Next]_vars PROVE LimiterKnown'
<1>1. CASE Traffic /\ Get
    <2>1. /\ Pruned(bucket) \in Seq(Nat) /\ Len(Pruned(bucket)) <= Len(bucket)
          /\ Pruned(bucket) # <<>> => Pruned(bucket)[1] > clock - 2 * Window
        BY PrunedFacts DEF LimiterKnown
    <2>2. clock' = clock
        BY <1>1 DEF Get
    <2> DEFINE b == Pruned(bucket)
    <2> HIDE DEF b
    <2>3. CASE Allowed /\ Admit
        <3>1. bucket' = Append(b, clock) /\ promised' = Missing /\ Len(b) < Limit
            BY <2>3 DEF Allowed, Admit, b
        <3> QED BY <2>1, <2>2, <3>1, ApiAssumption DEF LimiterKnown, b
    <2>4. CASE ~Allowed /\ Refuse
        <3>1. bucket' = b /\ promised' = clock + 2 * RetryAfter(b) /\ ~(Len(b) < Limit)
            BY <2>4 DEF Allowed, Refuse, b
        <3>2. b # <<>> /\ b[1] \in Nat
            BY <2>1, <3>1, ApiAssumption DEF b
        <3> DEFINE wait == 2 * Window - (clock - b[1])
        <3>3. wait \in Int /\ wait = 2 * Window - clock + b[1]
            BY <3>2, ApiAssumption DEF LimiterKnown
        <3>4. RetryAfter(b) = (wait \div 2) + 1
            BY DEF RetryAfter
        <3> HIDE DEF wait
        <3> DEFINE seconds == wait \div 2
        <3>5. seconds \in Int /\ 2 * (seconds + 1) >= wait + 1
            BY <3>3
        <3> HIDE DEF seconds
        <3>6. promised' = clock + 2 * (seconds + 1)
            BY <3>1, <3>4 DEF seconds
        <3>7. promised' \in Int /\ promised' >= b[1] + 2 * Window
            BY <3>2, <3>3, <3>5, <3>6, ApiAssumption DEF LimiterKnown
        <3>8. b \in Seq(Nat) /\ Len(b) <= Limit
            BY <2>1, ApiAssumption DEF LimiterKnown, b
        <3> QED BY <2>2, <3>1, <3>2, <3>7, <3>8 DEF LimiterKnown
    <2> QED BY <1>1, <2>3, <2>4 DEF Get
<1>2. CASE Traffic /\ Rejected
    BY <1>2 DEF Rejected, LimiterKnown
<1>3. CASE Traffic /\ Tick
    BY <1>3 DEF Tick, LimiterKnown
<1>4. CASE Walks \/ UNCHANGED vars
    BY <1>4 DEF Walks, vars, trafficVars, LimiterKnown
<1> QED BY <1>1, <1>2, <1>3, <1>4 DEF Next, Traffic

\* A client that is refused, and comes back when its Retry-After is over or later,
\* is let through, whatever came before it and whoever else uses the key is refused
\* (SlidingWindowLimiter.allow): the request that was the oldest has left the window.
THEOREM WaitingIsEnough == Spec => []RetryIsHonoured
<1>1. LimiterKnown => RetryIsHonoured
    <2> SUFFICES ASSUME LimiterKnown, promised # Missing, clock >= promised PROVE Allowed
        BY DEF RetryIsHonoured
    <2>1. bucket # <<>> /\ bucket[1] \in Nat /\ bucket[1] <= clock - 2 * Window
        BY ApiAssumption DEF LimiterKnown
    <2>2. Len(Pruned(bucket)) < Len(bucket) /\ Pruned(bucket) \in Seq(Nat)
        BY <2>1, PrunedFacts DEF LimiterKnown
    <2> QED BY <2>2, ApiAssumption DEF Allowed, LimiterKnown
<1> QED BY <1>1, LimiterStart, LimiterStep, PTL DEF Spec

-----------------------------------------------------------------------------
(* Rows, their keys and their order. *)

KeySpace == Origins \X Horizons \X Models

AllRows == {Row(o, h, m, q) : o \in Origins, h \in Horizons, m \in Models, q \in {Ordered, Crossed}}

\* the primary key of forecast_predictions
Keyed(rs) == rs \subseteq AllRows /\ \A r, s \in rs : Key(r) = Key(s) => r = s

\* how many rows come before one
Earlier(rs, row) == {r \in rs : Before(Key(r), Key(row))}
Rank(rs, row) == Cardinality(Earlier(rs, row))

Sorted(s) == \A i, j \in DOMAIN s : i < j => Before(Key(s[i]), Key(s[j]))

LEMMA RowFacts ==
    ASSUME NEW r \in AllRows
    PROVE  /\ r.origin \in Origins /\ r.horizon \in Horizons /\ r.model \in Models
           /\ Key(r) = <<r.origin, r.horizon, r.model>> /\ Key(r) \in KeySpace
BY DEF AllRows, Row, Key, KeySpace

LEMMA KeyFacts ==
    ASSUME NEW a \in KeySpace PROVE a[1] \in Nat /\ a[2] \in Nat /\ a[3] \in Nat
           /\ a = <<a[1], a[2], a[3]>>
<1>1. a[1] \in Origins /\ a[2] \in Horizons /\ a[3] \in Models /\ a = <<a[1], a[2], a[3]>>
    BY DEF KeySpace
<1> QED BY <1>1, ApiAssumption

\* The keys are in one order.
LEMMA BeforeIsOrder ==
    ASSUME NEW a \in KeySpace, NEW b \in KeySpace
    PROVE  /\ ~Before(a, a)
           /\ a = b \/ Before(a, b) \/ Before(b, a)
           /\ \A c \in KeySpace : Before(a, b) /\ Before(b, c) => Before(a, c)
<1>1. /\ a[1] \in Nat /\ a[2] \in Nat /\ a[3] \in Nat /\ a = <<a[1], a[2], a[3]>>
      /\ b[1] \in Nat /\ b[2] \in Nat /\ b[3] \in Nat /\ b = <<b[1], b[2], b[3]>>
    BY KeyFacts
<1>2. ~Before(a, a)
    BY <1>1 DEF Before
<1>3. a = b \/ Before(a, b) \/ Before(b, a)
    BY <1>1 DEF Before
<1>4. ASSUME NEW c \in KeySpace, Before(a, b), Before(b, c) PROVE Before(a, c)
    <2>1. c[1] \in Nat /\ c[2] \in Nat /\ c[3] \in Nat
        BY KeyFacts
    <2> QED BY <1>1, <1>4, <2>1 DEF Before
<1> QED BY <1>2, <1>3, <1>4

LEMMA KeyedIsFinite ==
    ASSUME NEW rs, Keyed(rs) PROVE IsFiniteSet(rs)
<1> DEFINE f == [r \in rs |-> <<<<r.origin, r.horizon>>, r.model>>]
           T == (Origins \X Horizons) \X Models
<1>1. IsFiniteSet(Origins \X Horizons)
    BY ApiAssumption, FS_Product
<1>2. IsFiniteSet(T)
    BY <1>1, ApiAssumption, FS_Product
<1>3. f \in [rs -> T]
    BY RowFacts DEF Keyed
<1>4. ASSUME NEW r \in rs, NEW s \in rs, f[r] = f[s] PROVE r = s
    <2>1. r.origin = s.origin /\ r.horizon = s.horizon /\ r.model = s.model
        BY <1>4
    <2> QED BY <2>1 DEF Keyed, Key
<1> HIDE DEF f, T
<1>5. f \in Injection(rs, T)
    BY <1>3, <1>4 DEF Injection, IsInjective
<1> QED BY <1>2, <1>5, FS_Injection

\* A row that comes before another has fewer rows before it.
LEMMA RankFacts ==
    ASSUME NEW rs, Keyed(rs), NEW r \in rs
    PROVE  /\ IsFiniteSet(Earlier(rs, r)) /\ Rank(rs, r) \in Nat /\ Rank(rs, r) < Cardinality(rs)
           /\ \A s \in rs : Before(Key(s), Key(r)) => Rank(rs, s) < Rank(rs, r)
<1>1. IsFiniteSet(rs)
    BY KeyedIsFinite
<1>2. \A s \in rs : Key(s) \in KeySpace
    BY RowFacts DEF Keyed
<1>3. \A s \in rs : s \notin Earlier(rs, s)
    BY <1>2, BeforeIsOrder DEF Earlier
<1>4. \A s \in rs : /\ IsFiniteSet(Earlier(rs, s)) /\ Rank(rs, s) \in Nat
                    /\ Earlier(rs, s) \in SUBSET rs
    BY <1>1, FS_Subset, FS_CardinalityType DEF Rank, Earlier
<1>5. Rank(rs, r) < Cardinality(rs)
    <2>1. /\ Cardinality(Earlier(rs, r)) <= Cardinality(rs)
          /\ Cardinality(rs) = Cardinality(Earlier(rs, r)) => rs = Earlier(rs, r)
        BY <1>1, <1>4, FS_Subset
    <2>2. Cardinality(rs) \in Nat
        BY <1>1, FS_CardinalityType
    <2> QED BY <1>3, <1>4, <2>1, <2>2 DEF Rank
<1>6. ASSUME NEW s \in rs, Before(Key(s), Key(r)) PROVE Rank(rs, s) < Rank(rs, r)
    <2>1. Earlier(rs, s) \in SUBSET Earlier(rs, r)
        BY <1>2, <1>6, BeforeIsOrder DEF Earlier
    <2>2. s \in Earlier(rs, r) /\ s \notin Earlier(rs, s)
        BY <1>3, <1>6 DEF Earlier
    <2>3. /\ Cardinality(Earlier(rs, s)) <= Cardinality(Earlier(rs, r))
          /\ Cardinality(Earlier(rs, r)) = Cardinality(Earlier(rs, s)) => Earlier(rs, r) = Earlier(rs, s)
        BY <1>4, <2>1, FS_Subset
    <2> QED BY <1>4, <2>2, <2>3 DEF Rank
<1> QED BY <1>4, <1>5, <1>6

\* Every place is some row's: the ranks of n rows are 0 to n - 1.
LEMMA EveryPlaceIsTaken ==
    ASSUME NEW rs, Keyed(rs), NEW n \in 1 .. Cardinality(rs)
    PROVE  \E row \in rs : Rank(rs, row) = n - 1
<1> DEFINE c == Cardinality(rs)
           place == [r \in rs |-> Rank(rs, r) + 1]
<1>1. IsFiniteSet(rs) /\ c \in Nat
    BY KeyedIsFinite, FS_CardinalityType
<1>2. \A r \in rs : Key(r) \in KeySpace
    BY RowFacts DEF Keyed
<1>3. \A r \in rs : Rank(rs, r) \in Nat /\ Rank(rs, r) < c
    BY RankFacts
<1> HIDE DEF c
<1>4. place \in [rs -> 1 .. c]
    BY <1>1, <1>3
<1>5. ASSUME NEW r \in rs, NEW s \in rs, place[r] = place[s] PROVE r = s
    <2>1. Rank(rs, r) = Rank(rs, s)
        BY <1>3, <1>5
    <2>2. ~Before(Key(r), Key(s)) /\ ~Before(Key(s), Key(r))
        BY <1>3, <2>1, RankFacts
    <2>3. Key(r) = Key(s)
        BY <1>2, <2>2, BeforeIsOrder
    <2> QED BY <2>3 DEF Keyed
<1> HIDE DEF place
<1>6. place \in Injection(rs, 1 .. c)
    BY <1>4, <1>5 DEF Injection, IsInjective
<1>7. IsFiniteSet(1 .. c) /\ Cardinality(1 .. c) = c
    BY <1>1, FS_Interval
<1>8. place \in Surjection(rs, 1 .. c)
    BY <1>6, <1>7, FS_Injection DEF c
<1>9. PICK row \in rs : place[row] = n
    BY <1>8 DEF Surjection, c
<1>10. Rank(rs, row) + 1 = n
    BY <1>9 DEF place
<1> QED BY <1>3, <1>10

\* ORDER BY gives every row once, in order, each at its rank.
LEMMA InOrderFacts ==
    ASSUME NEW rs, Keyed(rs)
    PROVE  /\ InOrder(rs) \in Seq(rs) /\ Len(InOrder(rs)) = Cardinality(rs) /\ Cardinality(rs) \in Nat
           /\ \A n \in 1 .. Cardinality(rs) : InOrder(rs)[n] \in rs /\ Rank(rs, InOrder(rs)[n]) = n - 1
           /\ \A r \in rs : Rank(rs, r) + 1 \in 1 .. Cardinality(rs) /\ InOrder(rs)[Rank(rs, r) + 1] = r
           /\ Sorted(InOrder(rs))
<1> DEFINE c == Cardinality(rs)
           s == InOrder(rs)
           row(n) == CHOOSE r \in rs : Rank(rs, r) = n - 1
<1>1. c \in Nat
    BY KeyedIsFinite, FS_CardinalityType
<1>2. s = [n \in 1 .. c |-> row(n)]
    BY DEF InOrder, Rank, Earlier
<1>3. ASSUME NEW n \in 1 .. c PROVE row(n) \in rs /\ Rank(rs, row(n)) = n - 1
    <2>1. \E r \in rs : Rank(rs, r) = n - 1
        BY EveryPlaceIsTaken
    <2> QED BY <2>1
<1> HIDE DEF row, s
<1>4. s \in Seq(rs) /\ Len(s) = c /\ DOMAIN s = 1 .. c
    BY <1>1, <1>2, <1>3
<1>5. \A n \in 1 .. c : s[n] \in rs /\ Rank(rs, s[n]) = n - 1
    BY <1>2, <1>3
<1>6. \A r \in rs : Key(r) \in KeySpace
    BY RowFacts DEF Keyed
<1>7. \A r \in rs : Rank(rs, r) \in Nat /\ Rank(rs, r) < c
    BY RankFacts
<1>8. ASSUME NEW r \in rs PROVE Rank(rs, r) + 1 \in 1 .. c /\ s[Rank(rs, r) + 1] = r
    <2> DEFINE n == Rank(rs, r) + 1
               t == s[n]
    <2>1. n \in 1 .. c /\ n - 1 = Rank(rs, r)
        BY <1>1, <1>7
    <2>2. t \in rs /\ Rank(rs, t) = Rank(rs, r)
        BY <1>5, <2>1
    <2> HIDE DEF t
    <2>3. ~Before(Key(r), Key(t)) /\ ~Before(Key(t), Key(r))
        BY <1>7, <2>2, RankFacts
    <2>4. Key(r) = Key(t)
        BY <1>6, <2>2, <2>3, BeforeIsOrder
    <2>5. r = t
        BY <2>2, <2>4 DEF Keyed
    <2> QED BY <2>1, <2>5 DEF t
<1>9. ASSUME NEW i \in DOMAIN s, NEW j \in DOMAIN s, i < j PROVE Before(Key(s[i]), Key(s[j]))
    <2>1. i \in 1 .. c /\ j \in 1 .. c
        BY <1>4
    <2>2. s[i] \in rs /\ s[j] \in rs /\ Rank(rs, s[i]) = i - 1 /\ Rank(rs, s[j]) = j - 1
        BY <1>5, <2>1
    <2>3. ~(Rank(rs, s[j]) < Rank(rs, s[i])) /\ Rank(rs, s[i]) # Rank(rs, s[j])
        BY <1>1, <1>9, <2>1, <2>2
    <2>4. ~Before(Key(s[j]), Key(s[i]))
        BY <2>2, <2>3, RankFacts
    <2>5. Key(s[i]) # Key(s[j])
        BY <2>2, <2>3 DEF Keyed
    <2> QED BY <1>6, <2>2, <2>4, <2>5, BeforeIsOrder
<1> QED BY <1>1, <1>4, <1>5, <1>8, <1>9 DEF s, Sorted

\* The first rows of a sequence, and what comes after them.
LEMMA FirstOfFacts ==
    ASSUME NEW S, NEW s \in Seq(S), NEW n \in Nat
    PROVE  /\ FirstOf(s, n) \in Seq(S)
           /\ Len(FirstOf(s, n)) = IF n <= Len(s) THEN n ELSE Len(s)
           /\ \A i \in 1 .. Len(FirstOf(s, n)) : FirstOf(s, n)[i] = s[i]
<1> DEFINE m == IF n <= Len(s) THEN n ELSE Len(s)
<1>1. Len(s) \in Nat /\ m \in Nat /\ m <= Len(s)
    OBVIOUS
<1>2. Min({n, Len(s)}) = m
    BY <1>1 DEF Min
<1> HIDE DEF m
<1>3. FirstOf(s, n) = SubSeq(s, 1, m)
    BY <1>2 DEF FirstOf
<1>4. /\ SubSeq(s, 1, m) \in Seq(S) /\ Len(SubSeq(s, 1, m)) = m
      /\ \A i \in 1 .. m : SubSeq(s, 1, m)[i] = s[i]
    BY <1>1
<1> QED BY <1>3, <1>4 DEF m

LEMMA AllAfterFacts ==
    ASSUME NEW S, NEW s \in Seq(S), NEW n \in Nat
    PROVE  /\ AllAfter(s, n) \in Seq(S)
           /\ Len(AllAfter(s, n)) = IF n <= Len(s) THEN Len(s) - n ELSE 0
           /\ \A i \in 1 .. Len(AllAfter(s, n)) : AllAfter(s, n)[i] = s[n + i]
<1>1. Len(s) \in Nat
    OBVIOUS
<1>2. CASE n <= Len(s)
    <2>1. /\ SubSeq(s, n + 1, Len(s)) \in Seq(S) /\ Len(SubSeq(s, n + 1, Len(s))) = Len(s) - n
          /\ \A i \in 1 .. Len(s) - n : SubSeq(s, n + 1, Len(s))[i] = s[n + i]
        BY <1>1, <1>2
    <2> QED BY <1>2, <2>1 DEF AllAfter
<1>3. CASE ~(n <= Len(s))
    <2>1. SubSeq(s, n + 1, Len(s)) = <<>>
        BY <1>1, <1>3
    <2> QED BY <1>3, <2>1 DEF AllAfter
<1> QED BY <1>2, <1>3

LEMMA PartIsKeyed == ASSUME NEW rs, Keyed(rs), NEW ss \in SUBSET rs PROVE Keyed(ss)
BY DEF Keyed

\* A page of the API holds, in order, the rows that come next after the cursor: when
\* it is cut, the rest lie beyond its last row; when it is not, there is no rest.
LEMMA PageFacts ==
    ASSUME NEW S, Keyed(S)
    PROVE  LET fetched == FirstOf(InOrder(S), PageSize + 1)
               page == FirstOf(fetched, PageSize)
               last == page[PageSize]
           IN  /\ page \in Seq(S) /\ Sorted(page)
               /\ Len(fetched) > PageSize =>
                      /\ last \in S
                      /\ \A i \in DOMAIN page :
                             Key(page[i]) = Key(last) \/ Before(Key(page[i]), Key(last))
                      /\ \A r \in S : r \in ToSet(page) \/ Before(Key(last), Key(r))
               /\ ~(Len(fetched) > PageSize) => S \subseteq ToSet(page)
<1> DEFINE all == InOrder(S)
           c == Cardinality(S)
           fetched == FirstOf(all, PageSize + 1)
           page == FirstOf(fetched, PageSize)
           last == page[PageSize]
<1>1. /\ all \in Seq(S) /\ Len(all) = c /\ c \in Nat /\ Sorted(all)
      /\ \A r \in S : \E n \in 1 .. c : all[n] = r
    BY InOrderFacts
<1>2. PageSize \in Nat \ {0}
    BY ApiAssumption
<1> HIDE DEF all, c
<1>3. /\ fetched \in Seq(S) /\ Len(fetched) = IF PageSize + 1 <= c THEN PageSize + 1 ELSE c
      /\ \A i \in 1 .. Len(fetched) : fetched[i] = all[i]
    BY <1>1, <1>2, FirstOfFacts
<1> HIDE DEF fetched
<1>4. /\ page \in Seq(S) /\ Len(page) = IF PageSize <= Len(fetched) THEN PageSize ELSE Len(fetched)
      /\ \A i \in 1 .. Len(page) : page[i] = fetched[i]
    BY <1>2, <1>3, FirstOfFacts
<1> HIDE DEF page
<1>5. /\ Len(page) = IF PageSize <= c THEN PageSize ELSE c
      /\ Len(page) \in Nat /\ DOMAIN page = 1 .. Len(page) /\ DOMAIN all = 1 .. c
      /\ Len(fetched) > PageSize <=> c > PageSize
    BY <1>1, <1>2, <1>3, <1>4
<1>6. \A i \in 1 .. Len(page) : page[i] = all[i]
    BY <1>1, <1>2, <1>3, <1>4, <1>5
<1>7. Sorted(page)
    <2> SUFFICES ASSUME NEW i \in DOMAIN page, NEW j \in DOMAIN page, i < j
                 PROVE  Before(Key(page[i]), Key(page[j]))
        BY DEF Sorted
    <2>1. i \in DOMAIN all /\ j \in DOMAIN all /\ page[i] = all[i] /\ page[j] = all[j]
        BY <1>1, <1>2, <1>5, <1>6
    <2> QED BY <1>1, <2>1 DEF Sorted
<1>8. ASSUME c > PageSize
      PROVE  /\ last \in S
             /\ \A i \in DOMAIN page : Key(page[i]) = Key(last) \/ Before(Key(page[i]), Key(last))
             /\ \A r \in S : r \in ToSet(page) \/ Before(Key(last), Key(r))
    <2>1. Len(page) = PageSize /\ PageSize \in DOMAIN page /\ PageSize \in DOMAIN all
        BY <1>1, <1>2, <1>5, <1>8
    <2>2. last = all[PageSize] /\ last \in S
        BY <1>1, <1>2, <1>5, <1>6, <2>1
    <2>3. ASSUME NEW i \in DOMAIN page
          PROVE  Key(page[i]) = Key(last) \/ Before(Key(page[i]), Key(last))
        <3>1. i = PageSize \/ i < PageSize
            BY <1>2, <1>5, <2>1
        <3> QED BY <1>7, <2>1, <3>1 DEF Sorted
    <2>4. ASSUME NEW r \in S PROVE r \in ToSet(page) \/ Before(Key(last), Key(r))
        <3>1. PICK n \in 1 .. c : all[n] = r
            BY <1>1
        <3>2. CASE n <= PageSize
            <4>1. n \in DOMAIN page /\ page[n] = r
                BY <1>2, <1>5, <1>6, <2>1, <3>1, <3>2
            <4> QED BY <4>1 DEF ToSet
        <3>3. CASE PageSize < n
            <4>1. n \in DOMAIN all
                BY <1>5
            <4> QED BY <1>1, <2>1, <2>2, <3>1, <3>3, <4>1 DEF Sorted
        <3> QED BY <1>1, <1>2, <3>2, <3>3
    <2> QED BY <2>2, <2>3, <2>4
<1>9. ASSUME ~(c > PageSize) PROVE S \subseteq ToSet(page)
    <2> SUFFICES ASSUME NEW r \in S PROVE r \in ToSet(page)
        OBVIOUS
    <2>1. PICK n \in 1 .. c : all[n] = r
        BY <1>1
    <2>2. n \in DOMAIN page /\ page[n] = r
        BY <1>1, <1>2, <1>5, <1>6, <1>9, <2>1
    <2> QED BY <2>2 DEF ToSet
<1> QED BY <1>4, <1>5, <1>7, <1>8, <1>9 DEF page, fetched, all

\* A page of the site holds the rows of its ranks, and the last page the last of them.
LEMMA StaticPageFacts ==
    ASSUME NEW rs, Keyed(rs), NEW n \in DOMAIN Pages(rs)
    PROVE  /\ n \in Nat \ {0} /\ Pages(rs)[n] \in Seq(rs)
           /\ \A r \in rs : Rank(rs, r) \in Nat
           /\ \A r \in rs : \/ Rank(rs, r) < (n - 1) * PageSize
                           \/ r \in ToSet(Pages(rs)[n])
                           \/ Rank(rs, r) >= n * PageSize
           /\ n = Len(Pages(rs)) => \A r \in rs : Rank(rs, r) < n * PageSize
<1> DEFINE all == InOrder(rs)
           c == Cardinality(rs)
           count == IF rs = {} THEN 1 ELSE ((Len(all) - 1) \div PageSize) + 1
           rest == AllAfter(all, (n - 1) * PageSize)
           page == FirstOf(rest, PageSize)
<1>1. /\ all \in Seq(rs) /\ Len(all) = c /\ c \in Nat
      /\ \A r \in rs : Rank(rs, r) + 1 \in 1 .. c /\ all[Rank(rs, r) + 1] = r
    BY InOrderFacts
<1>2. \A r \in rs : Rank(rs, r) \in Nat /\ Rank(rs, r) < c
    BY RankFacts
<1>3. PageSize \in Nat \ {0}
    BY ApiAssumption
<1>4. Pages(rs) = [i \in 1 .. count |-> FirstOf(AllAfter(all, (i - 1) * PageSize), PageSize)]
    BY DEF Pages
<1> HIDE DEF all, c
<1>5. count \in Nat /\ (rs # {} => c <= count * PageSize)
    <2>1. CASE rs = {}
        BY <2>1
    <2>2. CASE rs # {}
        <3>1. c >= 1
            BY <1>1, <1>2, <2>2
        <3> DEFINE q == (c - 1) \div PageSize
        <3>2. count = q + 1
            BY <1>1, <2>2
        <3>3. q \in Nat /\ c <= (q + 1) * PageSize
            BY <1>1, <1>3, <3>1
        <3> HIDE DEF q
        <3> QED BY <3>2, <3>3
    <2> QED BY <2>1, <2>2
<1> HIDE DEF count
<1>6. n \in 1 .. count /\ Len(Pages(rs)) = count /\ Pages(rs)[n] = page
    BY <1>4, <1>5
<1> DEFINE skipped == (n - 1) * PageSize
<1>7. skipped \in Nat /\ n * PageSize = skipped + PageSize
    BY <1>3, <1>5, <1>6
<1> HIDE DEF skipped
<1>8. /\ rest \in Seq(rs) /\ Len(rest) = IF skipped <= c THEN c - skipped ELSE 0
      /\ \A i \in 1 .. Len(rest) : rest[i] = all[skipped + i]
    BY <1>1, <1>7, AllAfterFacts DEF skipped
<1> HIDE DEF rest
<1>9. /\ page \in Seq(rs) /\ Len(page) = IF PageSize <= Len(rest) THEN PageSize ELSE Len(rest)
      /\ \A i \in 1 .. Len(page) : page[i] = rest[i]
    BY <1>3, <1>8, FirstOfFacts
<1> HIDE DEF page
<1>10. ASSUME NEW r \in rs, skipped <= Rank(rs, r), Rank(rs, r) < skipped + PageSize
       PROVE  r \in ToSet(page)
    <2> DEFINE k == Rank(rs, r)
               i == k - skipped + 1
    <2>0. k \in Nat /\ k < c /\ skipped <= k /\ k < skipped + PageSize
        BY <1>2, <1>10
    <2> HIDE DEF k
    <2>1. i \in 1 .. c - skipped /\ i <= PageSize /\ skipped + i = k + 1
        BY <1>1, <1>3, <1>7, <2>0
    <2>2. Len(rest) = c - skipped
        BY <1>1, <1>7, <1>8, <2>0
    <2> HIDE DEF i
    <2>3. i \in 1 .. Len(page) /\ i \in 1 .. Len(rest)
        BY <1>1, <1>3, <1>7, <1>9, <2>1, <2>2
    <2>4. all[k + 1] = r
        BY <1>1 DEF k
    <2>5. page[i] = r /\ i \in DOMAIN page
        BY <1>8, <1>9, <2>1, <2>3, <2>4
    <2> QED BY <2>5 DEF ToSet
<1>11. n = Len(Pages(rs)) => \A r \in rs : Rank(rs, r) < n * PageSize
    <2> SUFFICES ASSUME n = count, NEW r \in rs PROVE Rank(rs, r) < n * PageSize
        BY <1>6
    <2>1. c <= n * PageSize
        BY <1>5
    <2> DEFINE end == n * PageSize
    <2>2. Rank(rs, r) \in Nat /\ Rank(rs, r) < c /\ end \in Nat /\ c <= end
        BY <1>2, <1>3, <1>7, <2>1
    <2> HIDE DEF end
    <2>3. Rank(rs, r) < end
        BY <1>1, <2>2
    <2> QED BY <2>3 DEF end
<1>12. ASSUME NEW r \in rs
       PROVE  \/ Rank(rs, r) < skipped
              \/ r \in ToSet(page)
              \/ Rank(rs, r) >= n * PageSize
    BY <1>2, <1>3, <1>7, <1>10
<1>13. n \in Nat \ {0}
    BY <1>5, <1>6
<1> QED BY <1>2, <1>6, <1>9, <1>11, <1>12, <1>13 DEF skipped

-----------------------------------------------------------------------------
(* The walks. *)

\* cursors are keys or page numbers: which, the invariants of the walks say
IsWalk(w) ==
    /\ w = [state |-> w.state, via |-> w.via, filter |-> w.filter, cursor |-> w.cursor,
            got |-> w.got, present |-> w.present]
    /\ w.via \in {"api", "pages"}
    /\ w.got \in Seq(AllRows) /\ w.present \subseteq AllRows

RowsKnown == Keyed(rows) /\ Keyed(site) /\ (walk # Missing => IsWalk(walk))

NotBegun == walk.got = <<>> /\ walk.cursor = Missing /\ walk.present = {}

\* what the client has lies up to its cursor, and what it has not yet, beyond
UpToCursor ==
    \/ walk.cursor = Missing /\ walk.got = <<>>
    \/ /\ walk.cursor \in KeySpace
       /\ \A i \in DOMAIN walk.got :
              Key(walk.got[i]) = walk.cursor \/ Before(Key(walk.got[i]), walk.cursor)
       /\ \A r \in walk.present : r \in ToSet(walk.got) \/ Before(walk.cursor, Key(r))

ApiWalkKnown ==
    walk # Missing /\ walk.via = "api" =>
        /\ Sorted(walk.got)
        /\ walk.present \subseteq rows
        /\ walk.state = "idle" => NotBegun
        /\ walk.state = "walking" =>
               UpToCursor /\ \A r \in walk.present : Matches(walk.filter, r)
        /\ walk.state = "done" => walk.present \subseteq ToSet(walk.got)

\* a row not yet read is on this page of the site or a later one
OnPagesToCome ==
    /\ walk.cursor \in Nat \ {0}
    /\ \A r \in walk.present :
           r \in ToSet(walk.got) \/ Rank(site, r) >= (walk.cursor - 1) * PageSize

SiteWalkKnown ==
    walk # Missing /\ walk.via = "pages" =>
        /\ walk.state = "idle" => NotBegun
        /\ walk.state = "walking" => walk.present \subseteq site /\ OnPagesToCome
        /\ walk.state = "done" => walk.present \subseteq ToSet(walk.got)

LEMMA JoinFacts ==
    ASSUME NEW S, NEW s \in Seq(S), NEW t \in Seq(S)
    PROVE  /\ s \o t \in Seq(S) /\ Len(s) \in Nat /\ Len(t) \in Nat
           /\ DOMAIN (s \o t) = 1 .. Len(s) + Len(t)
           /\ \A i \in 1 .. Len(s) + Len(t) :
                  (s \o t)[i] = IF i <= Len(s) THEN s[i] ELSE t[i - Len(s)]
           /\ ToSet(s \o t) = ToSet(s) \union ToSet(t)
<1>1. /\ s \o t \in Seq(S) /\ Len(s) \in Nat /\ Len(t) \in Nat
      /\ DOMAIN (s \o t) = 1 .. Len(s) + Len(t)
      /\ \A i \in 1 .. Len(s) + Len(t) :
             (s \o t)[i] = IF i <= Len(s) THEN s[i] ELSE t[i - Len(s)]
      /\ DOMAIN s = 1 .. Len(s) /\ DOMAIN t = 1 .. Len(t)
    OBVIOUS
<1> DEFINE u == s \o t
<1> HIDE DEF u
<1>2. ToSet(u) \subseteq ToSet(s) \union ToSet(t)
    <2> SUFFICES ASSUME NEW i \in DOMAIN u PROVE u[i] \in ToSet(s) \union ToSet(t)
        BY DEF ToSet
    <2>1. CASE i <= Len(s)
        <3>1. i \in DOMAIN s /\ u[i] = s[i]
            BY <1>1, <2>1 DEF u
        <3> QED BY <3>1 DEF ToSet
    <2>2. CASE ~(i <= Len(s))
        <3>1. i - Len(s) \in DOMAIN t /\ u[i] = t[i - Len(s)]
            BY <1>1, <2>2 DEF u
        <3> QED BY <3>1 DEF ToSet
    <2> QED BY <2>1, <2>2
<1>3. ToSet(s) \subseteq ToSet(u)
    <2> SUFFICES ASSUME NEW i \in DOMAIN s PROVE s[i] \in ToSet(u)
        BY DEF ToSet
    <2>1. i \in DOMAIN u /\ u[i] = s[i]
        BY <1>1 DEF u
    <2> QED BY <2>1 DEF ToSet
<1>4. ToSet(t) \subseteq ToSet(u)
    <2> SUFFICES ASSUME NEW i \in DOMAIN t PROVE t[i] \in ToSet(u)
        BY DEF ToSet
    <2> DEFINE j == i + Len(s)
    <2>1. j \in DOMAIN u /\ ~(j <= Len(s)) /\ j - Len(s) = i
        BY <1>1 DEF u
    <2> HIDE DEF j
    <2>2. u[j] = t[i]
        BY <1>1, <2>1 DEF u
    <2> QED BY <2>1, <2>2 DEF ToSet
<1> QED BY <1>1, <1>2, <1>3, <1>4 DEF u

WalkInv == RowsKnown /\ ApiWalkKnown /\ SiteWalkKnown

LEMMA WalkStart == Init => WalkInv
<1> SUFFICES ASSUME Init PROVE WalkInv
    OBVIOUS
<1>1. PICK o \in Origins : rows = {Row(o, h, m, Ordered) : h \in Horizons, m \in Models}
    BY DEF Init
<1>2. Keyed(rows)
    BY <1>1 DEF Keyed, AllRows, Row, Key
<1>3. Keyed(site)
    BY DEF Init, Keyed
<1>4. walk # Missing => walk = Idle("api") \/ walk = Idle("pages")
    BY DEF Init
<1>5. ASSUME walk # Missing
      PROVE  /\ walk.state = "idle" /\ walk.got = <<>> /\ walk.present = {} /\ walk.cursor = Missing
             /\ IsWalk(walk)
    <2>1. CASE walk = Idle("api")
        BY <2>1 DEF Idle, IsWalk
    <2>2. CASE walk = Idle("pages")
        BY <2>2 DEF Idle, IsWalk
    <2> QED BY <1>4, <1>5, <2>1, <2>2
<1>6. RowsKnown
    BY <1>2, <1>3, <1>5 DEF RowsKnown
<1>7. ApiWalkKnown
    BY <1>5 DEF ApiWalkKnown, NotBegun, Sorted
<1>8. SiteWalkKnown
    BY <1>5 DEF SiteWalkKnown, NotBegun
<1> QED BY <1>6, <1>7, <1>8 DEF WalkInv

LEMMA BeginPreserves ==
    ASSUME WalkInv, walk # Missing, Begin PROVE WalkInv'
<1>1. IsWalk(walk) /\ walk.got = <<>> /\ walk.cursor = Missing /\ walk.present = {}
    BY DEF Begin, WalkInv, RowsKnown, IsWalk, ApiWalkKnown, SiteWalkKnown, NotBegun
<1>2. ToSet(<<>>) = {} /\ <<>> \in Seq(AllRows)
    BY DEF ToSet
<1>3. CASE walk.via = "api"
    <2>1. PICK f \in Filters :
              walk' = [walk EXCEPT !.state = "walking", !.filter = f, !.present = Matching(f)]
        BY <1>3 DEF Begin
    <2>2. walk' = [state |-> "walking", via |-> "api", filter |-> f, cursor |-> Missing,
                   got |-> <<>>, present |-> Matching(f)]
        BY <1>1, <1>3, <2>1 DEF IsWalk
    <2>3. /\ walk'.state = "walking" /\ walk'.via = "api" /\ walk'.filter = f
          /\ walk'.cursor = Missing /\ walk'.got = <<>> /\ walk'.present = Matching(f)
        BY <2>2
    <2>4. Matching(f) \subseteq rows /\ \A r \in Matching(f) : Matches(f, r)
        BY DEF Matching
    <2>5. RowsKnown'
        BY <1>2, <2>2, <2>3, <2>4 DEF WalkInv, RowsKnown, IsWalk, Keyed, Begin
    <2>6. ApiWalkKnown'
        <3>1. \A r \in walk'.present : Matches(walk'.filter, r)
            BY <2>3, <2>4
        <3>2. UpToCursor'
            BY <2>3 DEF UpToCursor
        <3>3. Sorted(walk'.got) /\ walk'.present \subseteq rows'
            <4>1. Sorted(<<>>)
                BY DEF Sorted
            <4>2. rows' = rows
                BY DEF Begin
            <4> QED BY <2>3, <2>4, <4>1, <4>2
        <3> QED BY <2>3, <3>1, <3>2, <3>3 DEF ApiWalkKnown
    <2>7. SiteWalkKnown'
        BY <2>3 DEF SiteWalkKnown
    <2> QED BY <2>5, <2>6, <2>7 DEF WalkInv
<1>4. CASE walk.via = "pages"
    <2>1. walk' = [walk EXCEPT !.state = "walking", !.cursor = 1, !.present = site]
        BY <1>4 DEF Begin
    <2>2. walk' = [state |-> "walking", via |-> "pages", filter |-> walk.filter, cursor |-> 1,
                   got |-> <<>>, present |-> site]
        BY <1>1, <1>4, <2>1 DEF IsWalk
    <2>3. /\ walk'.state = "walking" /\ walk'.via = "pages"
          /\ walk'.cursor = 1 /\ walk'.got = <<>> /\ walk'.present = site
        BY <2>2
    <2>4. RowsKnown'
        BY <1>2, <2>2, <2>3 DEF WalkInv, RowsKnown, IsWalk, Keyed, Begin
    <2>5. ApiWalkKnown'
        BY <2>3 DEF ApiWalkKnown
    <2>6. \A r \in site : Rank(site, r) >= (1 - 1) * PageSize
        <3> SUFFICES ASSUME NEW r \in site PROVE Rank(site, r) >= (1 - 1) * PageSize
            OBVIOUS
        <3>1. Rank(site, r) \in Nat
            BY RankFacts DEF WalkInv, RowsKnown
        <3>2. (1 - 1) * PageSize = 0
            BY ApiAssumption
        <3> QED BY <3>1, <3>2
    <2>7. site' = site
        BY DEF Begin
    <2>8. OnPagesToCome'
        BY <2>3, <2>6, <2>7 DEF OnPagesToCome, Rank, Earlier
    <2>9. SiteWalkKnown'
        BY <2>3, <2>7, <2>8 DEF SiteWalkKnown
    <2> QED BY <2>4, <2>5, <2>9 DEF WalkInv
<1> QED BY <1>1, <1>3, <1>4 DEF IsWalk

\* A page of the API takes the client on to its last row, or to the end.
LEMMA GetPagePreserves ==
    ASSUME WalkInv, walk # Missing, GetPage PROVE WalkInv'
<1>1. /\ IsWalk(walk) /\ walk.state = "walking" /\ walk.via = "api"
      /\ walk.got \in Seq(AllRows) /\ walk.present \subseteq AllRows
      /\ rows' = rows /\ site' = site /\ Keyed(rows) /\ Keyed(site)
    BY DEF GetPage, WalkInv, RowsKnown, IsWalk
<1>2. /\ Sorted(walk.got) /\ walk.present \subseteq rows /\ UpToCursor
      /\ \A r \in walk.present : Matches(walk.filter, r)
    BY <1>1 DEF WalkInv, ApiWalkKnown
<1>3. CASE walk' = [walk EXCEPT !.state = "failed"]
    <2>1. walk' = [state |-> "failed", via |-> "api", filter |-> walk.filter,
                   cursor |-> walk.cursor, got |-> walk.got, present |-> walk.present]
        BY <1>1, <1>3 DEF IsWalk
    <2>2. /\ walk'.state = "failed" /\ walk'.via = "api" /\ walk'.got = walk.got
          /\ walk'.present = walk.present
        BY <2>1
    <2>3. RowsKnown'
        BY <1>1, <2>1, <2>2 DEF RowsKnown, IsWalk
    <2>4. ApiWalkKnown' /\ SiteWalkKnown'
        BY <1>1, <1>2, <2>2 DEF ApiWalkKnown, SiteWalkKnown
    <2> QED BY <2>3, <2>4 DEF WalkInv
<1>4. CASE TakePage
    <2> DEFINE cursor == walk.cursor
               S == AfterCursor(Matching(walk.filter), cursor)
               fetched == FirstOf(InOrder(S), PageSize + 1)
               page == FirstOf(fetched, PageSize)
               last == page[PageSize]
               cut == Len(fetched) > PageSize
               got == walk.got \o page
    <2>1. walk' = [walk EXCEPT !.got = got,
                               !.cursor = IF cut THEN Key(last) ELSE Missing,
                               !.state = IF cut THEN "walking" ELSE "done"]
        BY <1>4 DEF TakePage, Fetched
    <2>2. S \in SUBSET rows
        BY DEF AfterCursor, Matching
    <2>3. Keyed(S)
        BY <1>1, <2>2, PartIsKeyed
    <2>4. \A r \in S : cursor # Missing => Before(cursor, Key(r))
        BY DEF AfterCursor
    <2>5. \A r \in walk.present : cursor = Missing \/ Before(cursor, Key(r)) => r \in S
        BY <1>2 DEF AfterCursor, Matching
    <2> HIDE DEF S
    <2>6. /\ page \in Seq(S) /\ Sorted(page)
          /\ cut => /\ last \in S
                    /\ \A i \in DOMAIN page :
                           Key(page[i]) = Key(last) \/ Before(Key(page[i]), Key(last))
                    /\ \A r \in S : r \in ToSet(page) \/ Before(Key(last), Key(r))
          /\ ~cut => S \subseteq ToSet(page)
        BY <2>3, PageFacts
    <2> HIDE DEF page, cut, last
    <2>7. S \subseteq AllRows /\ page \in Seq(AllRows)
        BY <1>1, <2>2, <2>6 DEF Keyed
    <2>8. /\ got \in Seq(AllRows) /\ Len(walk.got) \in Nat /\ Len(page) \in Nat
          /\ DOMAIN got = 1 .. Len(walk.got) + Len(page)
          /\ \A i \in 1 .. Len(walk.got) + Len(page) :
                 got[i] = IF i <= Len(walk.got) THEN walk.got[i] ELSE page[i - Len(walk.got)]
          /\ ToSet(got) = ToSet(walk.got) \union ToSet(page)
          /\ DOMAIN walk.got = 1 .. Len(walk.got) /\ DOMAIN page = 1 .. Len(page)
        BY <1>1, <2>7, JoinFacts
    <2> HIDE DEF got
    <2>9. walk' = [state |-> IF cut THEN "walking" ELSE "done", via |-> "api",
                   filter |-> walk.filter, cursor |-> IF cut THEN Key(last) ELSE Missing,
                   got |-> got, present |-> walk.present]
        BY <1>1, <2>1 DEF IsWalk
    <2>10. /\ walk'.state = IF cut THEN "walking" ELSE "done"
           /\ walk'.via = "api" /\ walk'.filter = walk.filter /\ walk'.got = got
           /\ walk'.cursor = IF cut THEN Key(last) ELSE Missing
           /\ walk'.present = walk.present
        BY <2>9
    <2>11. RowsKnown'
        BY <1>1, <2>8, <2>9, <2>10 DEF RowsKnown, IsWalk
    \* what the client has lies before what the page brings
    <2>12. ASSUME NEW i \in DOMAIN walk.got, NEW r \in S
           PROVE  Before(Key(walk.got[i]), Key(r))
        <3>1. walk.cursor \in KeySpace
            BY <1>2, <2>8, <2>12 DEF UpToCursor
        <3>2. walk.cursor # Missing
            BY <3>1, ApiAssumption DEF KeySpace
        <3>3. Before(walk.cursor, Key(r))
            BY <2>4, <3>2
        <3>4. Key(walk.got[i]) = walk.cursor \/ Before(Key(walk.got[i]), walk.cursor)
            BY <1>2, <3>2 DEF UpToCursor
        <3>5. Key(walk.got[i]) \in KeySpace /\ Key(r) \in KeySpace
            BY <1>1, <2>7, RowFacts
        <3> QED BY <3>1, <3>3, <3>4, <3>5, BeforeIsOrder
    <2>13. \A i \in DOMAIN page : page[i] \in S
        BY <2>6
    <2>14. Sorted(got)
        <3> SUFFICES ASSUME NEW i \in DOMAIN got, NEW j \in DOMAIN got, i < j
                     PROVE  Before(Key(got[i]), Key(got[j]))
            BY DEF Sorted
        <3> DEFINE a == Len(walk.got)
        <3>1. CASE j <= a
            <4>1. i \in DOMAIN walk.got /\ j \in DOMAIN walk.got /\ i <= a
                BY <2>8, <3>1
            <4>2. got[i] = walk.got[i] /\ got[j] = walk.got[j]
                BY <2>8, <3>1, <4>1
            <4> QED BY <1>2, <4>1, <4>2 DEF Sorted
        <3>2. CASE ~(j <= a) /\ i <= a
            <4>1. i \in DOMAIN walk.got /\ j - a \in DOMAIN page
                BY <2>8, <3>2
            <4>2. got[i] = walk.got[i] /\ got[j] = page[j - a]
                BY <2>8, <3>2
            <4> QED BY <2>12, <2>13, <4>1, <4>2
        <3>3. CASE ~(j <= a) /\ ~(i <= a)
            <4>1. i - a \in DOMAIN page /\ j - a \in DOMAIN page /\ i - a < j - a
                BY <2>8, <3>3
            <4>2. got[i] = page[i - a] /\ got[j] = page[j - a]
                BY <2>8, <3>3
            <4> QED BY <2>6, <4>1, <4>2 DEF Sorted
        <3> QED BY <3>1, <3>2, <3>3
    <2>15. \A r \in walk.present : r \in ToSet(walk.got) \/ r \in S
        BY <1>2, <2>5 DEF UpToCursor
    <2>16. CASE ~cut
        <3>1. walk'.present \subseteq ToSet(walk'.got) /\ walk'.state = "done"
            BY <2>6, <2>8, <2>10, <2>15, <2>16
        <3>2. ApiWalkKnown' /\ SiteWalkKnown'
            BY <1>1, <1>2, <2>10, <2>14, <3>1 DEF ApiWalkKnown, SiteWalkKnown
        <3> QED BY <2>11, <3>2 DEF WalkInv
    <2>17. CASE cut
        <3>1. walk'.cursor = Key(last) /\ Key(last) \in KeySpace /\ walk'.state = "walking"
            BY <2>6, <2>7, <2>10, <2>17, RowFacts
        <3>2. ASSUME NEW i \in DOMAIN got
              PROVE  Key(got[i]) = Key(last) \/ Before(Key(got[i]), Key(last))
            <4>1. CASE i <= Len(walk.got)
                <5>1. i \in DOMAIN walk.got /\ got[i] = walk.got[i]
                    BY <2>8, <4>1
                <5> QED BY <2>6, <2>12, <2>17, <5>1
            <4>2. CASE ~(i <= Len(walk.got))
                <5>1. i - Len(walk.got) \in DOMAIN page /\ got[i] = page[i - Len(walk.got)]
                    BY <2>8, <4>2
                <5> QED BY <2>6, <2>17, <5>1
            <4> QED BY <4>1, <4>2
        <3>3. \A r \in walk.present : r \in ToSet(got) \/ Before(Key(last), Key(r))
            BY <2>6, <2>8, <2>15, <2>17
        <3>4. UpToCursor'
            BY <2>10, <3>1, <3>2, <3>3 DEF UpToCursor
        <3>5. \A r \in walk'.present : Matches(walk'.filter, r)
            BY <1>2, <2>10
        <3>6. ApiWalkKnown' /\ SiteWalkKnown'
            BY <1>1, <1>2, <2>10, <2>14, <3>1, <3>4, <3>5 DEF ApiWalkKnown, SiteWalkKnown
        <3> QED BY <2>11, <3>6 DEF WalkInv
    <2> QED BY <2>16, <2>17
<1> QED BY <1>3, <1>4 DEF GetPage

\* A page of the site takes the client past the rows of its ranks.
LEMMA GetStaticPreserves ==
    ASSUME WalkInv, walk # Missing, GetStatic PROVE WalkInv'
<1>1. /\ IsWalk(walk) /\ walk.state = "walking" /\ walk.via = "pages"
      /\ walk.got \in Seq(AllRows) /\ walk.present \subseteq AllRows
      /\ rows' = rows /\ site' = site /\ Keyed(rows) /\ Keyed(site)
    BY DEF GetStatic, WalkInv, RowsKnown, IsWalk
<1>2. walk.present \subseteq site /\ OnPagesToCome
    BY <1>1 DEF WalkInv, SiteWalkKnown
<1> DEFINE pages == Pages(site)
           n == walk.cursor
<1>3. CASE walk' = [walk EXCEPT !.state = "failed"]
    <2>1. walk' = [state |-> "failed", via |-> "pages", filter |-> walk.filter,
                   cursor |-> walk.cursor, got |-> walk.got, present |-> walk.present]
        BY <1>1, <1>3 DEF IsWalk
    <2>2. /\ walk'.state = "failed" /\ walk'.via = "pages" /\ walk'.got = walk.got
          /\ walk'.present = walk.present
        BY <2>1
    <2>3. RowsKnown'
        BY <1>1, <2>1, <2>2 DEF RowsKnown, IsWalk
    <2>4. ApiWalkKnown' /\ SiteWalkKnown'
        BY <2>2 DEF ApiWalkKnown, SiteWalkKnown
    <2> QED BY <2>3, <2>4 DEF WalkInv
<1>4. ASSUME n \in DOMAIN pages,
             walk' = [walk EXCEPT !.got = @ \o pages[n], !.cursor = @ + 1,
                                  !.state = IF n = Len(pages) THEN "done" ELSE @]
      PROVE  WalkInv'
    <2> DEFINE page == pages[n]
               got == walk.got \o page
               final == n = Len(pages)
    <2>1. walk' = [state |-> IF final THEN "done" ELSE "walking", via |-> "pages",
                   filter |-> walk.filter, cursor |-> n + 1, got |-> got, present |-> walk.present]
        BY <1>1, <1>4 DEF IsWalk
    <2>2. /\ n \in Nat \ {0} /\ page \in Seq(site)
          /\ \A r \in site : Rank(site, r) \in Nat
          /\ \A r \in site : \/ Rank(site, r) < (n - 1) * PageSize
                            \/ r \in ToSet(page)
                            \/ Rank(site, r) >= n * PageSize
          /\ final => \A r \in site : Rank(site, r) < n * PageSize
        BY <1>1, <1>4, StaticPageFacts
    <2> HIDE DEF page, pages, final
    <2>3. page \in Seq(AllRows)
        BY <1>1, <2>2 DEF Keyed
    <2>4. got \in Seq(AllRows) /\ ToSet(got) = ToSet(walk.got) \union ToSet(page)
        BY <1>1, <2>3, JoinFacts
    <2> HIDE DEF got
    <2>5. /\ walk'.state = IF final THEN "done" ELSE "walking"
          /\ walk'.via = "pages" /\ walk'.cursor = n + 1 /\ walk'.got = got
          /\ walk'.present = walk.present
        BY <2>1
    <2>6. RowsKnown'
        BY <1>1, <2>1, <2>4, <2>5 DEF RowsKnown, IsWalk
    <2>7. ASSUME NEW r \in walk.present PROVE r \in ToSet(got) \/ Rank(site, r) >= n * PageSize
        <3> DEFINE start == (n - 1) * PageSize
        <3>1. start \in Int
            BY <2>2, ApiAssumption
        <3>2. r \in site /\ Rank(site, r) \in Nat
            BY <1>2, <2>2
        <3>3. r \in ToSet(walk.got) \/ Rank(site, r) >= start
            BY <1>2 DEF OnPagesToCome
        <3>4. Rank(site, r) < start \/ r \in ToSet(page) \/ Rank(site, r) >= n * PageSize
            BY <2>2, <3>2
        <3> HIDE DEF start
        <3>5. ~(Rank(site, r) >= start /\ Rank(site, r) < start)
            BY <3>1, <3>2
        <3> QED BY <2>4, <3>3, <3>4, <3>5
    <2>8. CASE final
        <3>1. ASSUME NEW r \in walk.present PROVE r \in ToSet(got)
            <4> DEFINE end == n * PageSize
            <4>1. end \in Int
                BY <2>2, ApiAssumption
            <4>2. Rank(site, r) \in Nat /\ Rank(site, r) < end
                BY <1>2, <2>2, <2>8
            <4>3. r \in ToSet(got) \/ Rank(site, r) >= end
                BY <2>7
            <4> HIDE DEF end
            <4> QED BY <4>1, <4>2, <4>3
        <3>2. ApiWalkKnown' /\ SiteWalkKnown'
            BY <2>5, <2>8, <3>1 DEF ApiWalkKnown, SiteWalkKnown
        <3> QED BY <2>6, <3>2 DEF WalkInv
    <2>9. CASE ~final
        <3>1. n + 1 \in Nat \ {0} /\ (n + 1) - 1 = n
            BY <2>2
        <3>2. OnPagesToCome'
            <4>1. ASSUME NEW r \in walk.present
                  PROVE  r \in ToSet(got) \/ Rank(site, r) >= ((n + 1) - 1) * PageSize
                BY <2>7, <3>1
            <4> QED BY <1>1, <2>5, <3>1, <4>1 DEF OnPagesToCome, Rank, Earlier
        <3>3. ApiWalkKnown' /\ SiteWalkKnown'
            BY <1>1, <1>2, <2>5, <2>9, <3>2 DEF ApiWalkKnown, SiteWalkKnown
        <3> QED BY <2>6, <3>3 DEF WalkInv
    <2> QED BY <2>8, <2>9
<1> QED BY <1>3, <1>4 DEF GetStatic

\* What is added takes a key of its own, and no row away.
LEMMA IngestPreserves ==
    ASSUME WalkInv, NEW o \in Origins, NEW ms \in SUBSET Models, NEW q \in {Ordered, Crossed},
           Ingest(o, ms, q)
    PROVE  WalkInv'
<1> DEFINE fresh == {m \in ms : ~\E r \in rows : r.origin = o /\ r.model = m}
           new == {Row(o, h, m, IF m = FaultyModel THEN q ELSE Ordered) : h \in Horizons, m \in fresh}
<1>1. rows' = rows \union new /\ walk' = walk /\ site' = site
    BY DEF Ingest
<1>2. Keyed(rows) /\ Keyed(site)
    BY DEF WalkInv, RowsKnown
<1>3. new \subseteq AllRows
    BY DEF AllRows
<1>4. ASSUME NEW r \in new
      PROVE  \E h \in Horizons, m \in fresh :
                 /\ r = Row(o, h, m, IF m = FaultyModel THEN q ELSE Ordered)
                 /\ Key(r) = <<o, h, m>>
    BY DEF Row, Key
<1>5. ASSUME NEW r \in new, NEW s \in new, Key(r) = Key(s) PROVE r = s
    BY <1>4, <1>5
<1>6. ASSUME NEW r \in rows, NEW s \in new PROVE Key(r) # Key(s)
    <2>1. PICK h \in Horizons, m \in fresh : Key(s) = <<o, h, m>>
        BY <1>4
    <2>2. ~(r.origin = o /\ r.model = m)
        OBVIOUS
    <2> QED BY <2>1, <2>2 DEF Key
<1> HIDE DEF new
<1>7. Keyed(rows')
    BY <1>1, <1>2, <1>3, <1>5, <1>6 DEF Keyed
<1>8. RowsKnown'
    BY <1>1, <1>7 DEF WalkInv, RowsKnown, IsWalk, Keyed
<1>9. ApiWalkKnown'
    BY <1>1 DEF WalkInv, ApiWalkKnown, UpToCursor, NotBegun
<1>10. SiteWalkKnown'
    BY <1>1 DEF WalkInv, SiteWalkKnown, OnPagesToCome, NotBegun, Rank, Earlier
<1> QED BY <1>8, <1>9, <1>10 DEF WalkInv

\* An older generation takes the rows of an origin from what is still there.
LEMMA RevertedPreserves ==
    ASSUME WalkInv, walk # Missing, Reverted PROVE WalkInv'
<1>1. rows' \in SUBSET rows /\ site' = site
    BY DEF Reverted
<1>2. Keyed(rows') /\ Keyed(site') /\ IsWalk(walk)
    BY <1>1, PartIsKeyed DEF WalkInv, RowsKnown
<1>3. CASE walk.via = "api"
    <2>1. walk' = [state |-> walk.state, via |-> "api", filter |-> walk.filter,
                   cursor |-> walk.cursor, got |-> walk.got, present |-> walk.present \intersect rows']
        BY <1>2, <1>3 DEF Reverted, IsWalk
    <2>2. /\ walk'.state = walk.state /\ walk'.via = "api" /\ walk'.filter = walk.filter
          /\ walk'.cursor = walk.cursor /\ walk'.got = walk.got
          /\ walk'.present = walk.present \intersect rows'
        BY <2>1
    <2>3. RowsKnown'
        BY <1>2, <2>1, <2>2 DEF RowsKnown, IsWalk
    <2>4. walk.state = "walking" => UpToCursor'
        BY <1>3, <2>2 DEF WalkInv, ApiWalkKnown, UpToCursor
    <2>5. walk.state = "walking" => \A r \in walk'.present : Matches(walk'.filter, r)
        BY <1>3, <2>2 DEF WalkInv, ApiWalkKnown
    <2>6. ApiWalkKnown'
        BY <1>3, <2>2, <2>4, <2>5 DEF WalkInv, ApiWalkKnown, NotBegun
    <2>7. SiteWalkKnown'
        BY <2>2 DEF SiteWalkKnown
    <2> QED BY <2>3, <2>6, <2>7 DEF WalkInv
<1>4. CASE walk.via # "api"
    <2>1. walk' = walk
        BY <1>4 DEF Reverted
    <2>2. RowsKnown' /\ ApiWalkKnown'
        BY <1>2, <1>4, <2>1 DEF RowsKnown, IsWalk, ApiWalkKnown
    <2>3. SiteWalkKnown'
        BY <1>1, <2>1 DEF WalkInv, SiteWalkKnown, OnPagesToCome, NotBegun, Rank, Earlier
    <2> QED BY <2>2, <2>3 DEF WalkInv
<1> QED BY <1>3, <1>4

\* A site that has lost no row moves the ones it had to later places only.
LEMMA DeployPreserves ==
    ASSUME WalkInv, walk # Missing, Deploy PROVE WalkInv'
<1>1. /\ rows' = rows /\ site' = rows /\ walk.via = "pages"
      /\ IsWalk(walk) /\ Keyed(rows) /\ Keyed(site)
    BY DEF Deploy, WalkInv, RowsKnown
<1>2. CASE site \subseteq rows
    <2>1. walk' = walk
        BY <1>2 DEF Deploy
    <2>2. RowsKnown' /\ ApiWalkKnown'
        BY <1>1, <2>1 DEF RowsKnown, IsWalk, ApiWalkKnown
    <2>3. ASSUME NEW r \in site PROVE /\ Rank(site, r) \in Nat /\ Rank(rows, r) \in Nat
                                      /\ Rank(site, r) <= Rank(rows, r)
        <3>1. Earlier(site, r) \in SUBSET Earlier(rows, r)
            BY <1>2 DEF Earlier
        <3>2. IsFiniteSet(Earlier(rows, r)) /\ Rank(rows, r) \in Nat /\ Rank(site, r) \in Nat
            BY <1>1, <1>2, RankFacts
        <3> QED BY <3>1, <3>2, FS_Subset DEF Rank
    <2>4. ASSUME walk.state = "walking" PROVE walk'.present \subseteq site' /\ OnPagesToCome'
        <3>1. walk.present \subseteq site /\ OnPagesToCome
            BY <1>1, <2>4 DEF WalkInv, SiteWalkKnown
        <3> DEFINE start == (walk.cursor - 1) * PageSize
        <3>2. start \in Int /\ walk.cursor \in Nat \ {0}
            BY <3>1, ApiAssumption DEF OnPagesToCome
        <3>3. ASSUME NEW r \in walk.present
              PROVE  r \in ToSet(walk.got) \/ Rank(rows, r) >= start
            <4>1. r \in ToSet(walk.got) \/ Rank(site, r) >= start
                BY <3>1 DEF OnPagesToCome
            <4>2. /\ Rank(site, r) \in Nat /\ Rank(rows, r) \in Nat
                  /\ Rank(site, r) <= Rank(rows, r)
                BY <2>3, <3>1
            <4> HIDE DEF start
            <4> QED BY <3>2, <4>1, <4>2
        <3> QED BY <1>1, <1>2, <2>1, <3>1, <3>2, <3>3 DEF OnPagesToCome, Rank, Earlier
    <2>5. SiteWalkKnown'
        BY <1>1, <2>1, <2>4 DEF WalkInv, SiteWalkKnown, NotBegun
    <2> QED BY <2>2, <2>5 DEF WalkInv
<1>3. CASE ~(site \subseteq rows)
    <2>1. walk' = [state |-> walk.state, via |-> "pages", filter |-> walk.filter,
                   cursor |-> walk.cursor, got |-> walk.got, present |-> {}]
        BY <1>1, <1>3 DEF Deploy, IsWalk
    <2>2. /\ walk'.state = walk.state /\ walk'.via = "pages" /\ walk'.cursor = walk.cursor
          /\ walk'.got = walk.got /\ walk'.present = {}
        BY <2>1
    <2>3. RowsKnown'
        BY <1>1, <2>1, <2>2 DEF RowsKnown, IsWalk
    <2>4. ApiWalkKnown' /\ SiteWalkKnown'
        BY <1>1, <2>2 DEF WalkInv, ApiWalkKnown, SiteWalkKnown, OnPagesToCome, NotBegun
    <2> QED BY <2>3, <2>4 DEF WalkInv
<1> QED BY <1>2, <1>3

LEMMA UnchangedWalk ==
    ASSUME WalkInv, UNCHANGED <<rows, walk, site>> PROVE WalkInv'
<1>1. rows' = rows /\ walk' = walk /\ site' = site
    OBVIOUS
<1>2. RowsKnown'
    BY <1>1 DEF WalkInv, RowsKnown, IsWalk, Keyed
<1>3. ApiWalkKnown'
    BY <1>1 DEF WalkInv, ApiWalkKnown, UpToCursor, NotBegun
<1>4. SiteWalkKnown'
    BY <1>1 DEF WalkInv, SiteWalkKnown, OnPagesToCome, NotBegun, Rank, Earlier
<1> QED BY <1>2, <1>3, <1>4 DEF WalkInv

LEMMA WalkStep == ASSUME WalkInv, [Next]_vars PROVE WalkInv'
<1>1. CASE Walks
    BY <1>1, BeginPreserves, GetPagePreserves, GetStaticPreserves, IngestPreserves,
       RevertedPreserves, DeployPreserves, UnchangedWalk DEF Walks, HealthChanges
<1>2. CASE Traffic \/ UNCHANGED vars
    BY <1>2, UnchangedWalk DEF Traffic, walkVars, vars
<1> QED BY <1>1, <1>2 DEF Next

\* A client that follows the cursors of GET /v1/forecasts gets rows once and in the
\* order of the keys, and at the end every row that matched when it began and is
\* still there (ForecastService._historical): rows that arrive ahead of the cursor,
\* pages refused meanwhile and generations put back do not make it pass one over.
THEOREM WalkSeesEverything == Spec => []WalkIsExact
<1>1. WalkInv => WalkIsExact
    BY DEF WalkInv, ApiWalkKnown, WalkIsExact, Sorted
<1> QED BY <1>1, WalkStart, WalkStep, PTL DEF Spec

\* A client that follows the numbered pages of the site to the last one has met every
\* row the site held when it began, however often the site was built anew, as long as
\* no build lost rows (generate_api).
THEOREM SiteWalkSeesEverything == Spec => []SiteWalkMissesNothing
<1>1. WalkInv => SiteWalkMissesNothing
    BY DEF WalkInv, SiteWalkKnown, SiteWalkMissesNothing
<1> QED BY <1>1, WalkStart, WalkStep, PTL DEF Spec

=============================================================================
