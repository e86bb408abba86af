--------------------------- MODULE ForecastProofs ---------------------------
(***************************************************************************)
(* The forecasts.  For every market, answer of the model and tolerance: a  *)
(* forecast learns from what lies before its origin, its outcomes are      *)
(* those of the market, what is published fits together, and what is       *)
(* claimed of it is earned (ForecastCycle).  For every market, study and   *)
(* policy: what a replay learns from, and that the lead of a model is      *)
(* evidenced (WalkForward).  What this needs of the engine is proved in    *)
(* EngineProofs.                                                           *)
(***************************************************************************)
EXTENDS EngineProofs, WalkForward, ForecastCycle

-----------------------------------------------------------------------------
(* The hours that were lived before the first state. *)

FirstState == [tape |-> FirstHours, now |-> Hour * Len(FirstCloses) + 20,
               store |-> EmptyStore, rolling |-> <<>>]

\* The states the hours lead to, one from the other.
LEMMA LivesFacts ==
    ASSUME NEW past, Len(past) \in Nat, NEW n \in 0 .. Len(past)
    PROVE  Lives(past)[n] = IF n = 0 THEN FirstState ELSE Live(Lives(past)[n - 1], past[n])
<1> DEFINE L == Len(past)
           Upto(f, m) == /\ f = [i \in 0 .. L |-> f[i]]
                         /\ \A i \in 0 .. m : f[i] = IF i = 0 THEN FirstState ELSE Live(f[i - 1], past[i])
           S == {m \in 0 .. L : \E f : Upto(f, m)}
<1> HIDE DEF L
<1>0. L \in Nat
    BY DEF L
<1>1. 0 \in S
    <2> DEFINE f == [i \in 0 .. L |-> FirstState]
    <2>1. Upto(f, 0)
        BY <1>0
    <2> HIDE DEF Upto
    <2> QED BY <1>0, <2>1
<1>2. ASSUME NEW m \in S, m < L PROVE m + 1 \in S
    <2>1. PICK f : Upto(f, m)
        OBVIOUS
    <2> DEFINE next == Live(f[m], past[m + 1])
               g == [i \in 0 .. L |-> IF i = m + 1 THEN next ELSE f[i]]
    <2> HIDE DEF next
    <2>2. g = [i \in 0 .. L |-> g[i]]
        OBVIOUS
    <2>3. ASSUME NEW i \in 0 .. m + 1
          PROVE  g[i] = IF i = 0 THEN FirstState ELSE Live(g[i - 1], past[i])
        <3>1. CASE i = m + 1
            <4>1. g[i] = next /\ g[i - 1] = f[m] /\ i - 1 = m
                BY <1>0, <1>2, <3>1
            <4> QED BY <3>1, <4>1 DEF next
        <3>2. CASE i # m + 1
            <4>1. i \in 0 .. m /\ g[i] = f[i] /\ (i # 0 => g[i - 1] = f[i - 1])
                BY <1>0, <1>2, <3>2
            <4> HIDE DEF g
            <4> QED BY <2>1, <4>1
        <3> QED BY <3>1, <3>2
    <2> HIDE DEF g
    <2>4. Upto(g, m + 1)
        BY <2>2, <2>3
    <2>5. m + 1 \in 0 .. L
        BY <1>0, <1>2
    <2> HIDE DEF Upto
    <2> QED BY <2>4, <2>5
<1>3. L \in S
    <2>1. S \in SUBSET (0 .. L)
        OBVIOUS
    <2> HIDE DEF S
    <2> QED BY <1>0, <1>1, <1>2, <2>1, UpTo
<1>4. PICK f : Upto(f, L)
    BY <1>3
<1>5. f = [i \in 0 .. L |-> IF i = 0 THEN FirstState ELSE Live(f[i - 1], past[i])]
    BY <1>4
<1>6. Lives(past) = [i \in 0 .. L |-> IF i = 0 THEN FirstState ELSE Live(Lives(past)[i - 1], past[i])]
    <2>1. Lives(past) = CHOOSE g : g = [i \in 0 .. L |-> IF i = 0 THEN FirstState ELSE Live(g[i - 1], past[i])]
        BY DEF Lives, FirstState, L
    <2> QED BY <1>5, <2>1
<1> QED BY <1>6 DEF L

-----------------------------------------------------------------------------
(* What the providers answer, and what is selected of it. *)

\* a series of so many candles, the first an hour after f
Hourly(series, f) ==
    /\ series = [i \in 1 .. Candles |-> series[i]]
    /\ \A i \in 1 .. Candles : series[i].at = Hour * (f + i)

\* What its hours say of a series.
LEMMA HourlyFacts ==
    ASSUME NEW series, NEW f \in Int, Hourly(series, f)
    PROVE  /\ DOMAIN series = 1 .. Candles /\ Len(series) = Candles
           /\ Stamps(series) = {Hour * (f + i) : i \in 1 .. Candles}
           /\ Last(series).at = Hour * (f + Candles)
           /\ \A j \in 1 .. Candles : Close(series, Hour * (f + j)) = series[j].close
<1>1. Candles \in Nat \ {0}
    BY CycleAssumption
<1>2. DOMAIN series = 1 .. Candles
    BY DEF Hourly
<1>3. series \in Seq({series[i] : i \in 1 .. Candles})
    <2>1. \A i \in 1 .. Candles : series[i] \in {series[k] : k \in 1 .. Candles}
        OBVIOUS
    <2> DEFINE T == {series[k] : k \in 1 .. Candles}
    <2> HIDE DEF T
    <2>2. series \in [1 .. Candles -> T]
        BY <2>1 DEF Hourly, T
    <2>3. series \in Seq(T)
        BY <1>1, <2>2
    <2> QED BY <2>3 DEF T
<1>4. Len(series) = Candles
    BY <1>1, <1>2, <1>3
<1>5. Stamps(series) = {Hour * (f + i) : i \in 1 .. Candles}
    BY <1>2 DEF Hourly, Stamps
<1>6. Last(series).at = Hour * (f + Candles)
    BY <1>1, <1>4 DEF Hourly, Last
<1>7. ASSUME NEW j \in 1 .. Candles PROVE Close(series, Hour * (f + j)) = series[j].close
    <2>1. {i \in DOMAIN series : series[i].at = Hour * (f + j)} = {j}
        BY <1>1, <1>2 DEF Hourly, Hour
    <2>2. Max({j}) = j
        BY <1>1 DEF Max
    <2> QED BY <2>1, <2>2 DEF Close
<1> QED BY <1>2, <1>4, <1>5, <1>6, <1>7

\* Capping volumes changes neither the hours nor the closes.
LEMMA AttemptFacts ==
    ASSUME NEW d, NEW f \in Int, Hourly(d, f), NEW time,
           \A i \in 1 .. Candles : DOMAIN d[i] = {"at", "close", "volume", "flaw"},
           Attempt(d, time).data # Missing
    PROVE  LET data == Attempt(d, time).data
           IN  Hourly(data, f) /\ \A i \in 1 .. Candles : data[i].close = d[i].close
<1>1. Attempt(d, time).data \in {d, Winsorized(d)} \/ Attempt(d, time).data = Missing
    BY DEF Attempt, Fetched
<1>2. DOMAIN d = 1 .. Candles
    BY DEF Hourly
<1> DEFINE vs == WinsorizedVolumes(Volumes(d))
           w == Winsorized(d)
<1>3. w = [i \in 1 .. Candles |-> [d[i] EXCEPT !.volume = vs[i]]]
    BY <1>2 DEF Winsorized
<1> HIDE DEF w, vs
<1>4. \A i \in 1 .. Candles : w[i].at = d[i].at /\ w[i].close = d[i].close
    BY <1>3
<1>5. Hourly(w, f)
    BY <1>3, <1>4 DEF Hourly
<1> QED BY <1>1, <1>4, <1>5 DEF w, Hourly

\* A provider that is in order answers with the closes of its hours.
LEMMA AnsweredFacts ==
    ASSUME NEW closes, NEW n \in Int
    PROVE  LET a == Answered(closes, Hour * n)
           IN  /\ Hourly(a, n - Candles)
               /\ \A i \in 1 .. Candles :
                      /\ DOMAIN a[i] = {"at", "close", "volume", "flaw"}
                      /\ a[i].close = closes[Hour * (n - Candles + i)]
<1> DEFINE a == Answered(closes, Hour * n)
           at(i) == Hour * n - Hour * (Candles - i)
<1>1. Candles \in Nat
    BY CycleAssumption
<1>2. a = [i \in 1 .. Candles |-> [at |-> at(i), close |-> closes[at(i)], volume |-> 1, flaw |-> "none"]]
    BY DEF Answered
<1>3. \A i \in 1 .. Candles : at(i) = Hour * (n - Candles + i)
    BY <1>1 DEF Hour
<1> HIDE DEF a, at
<1>4. \A i \in 1 .. Candles :
         /\ DOMAIN a[i] = {"at", "close", "volume", "flaw"}
         /\ a[i].at = Hour * (n - Candles + i) /\ a[i].close = closes[Hour * (n - Candles + i)]
    BY <1>2, <1>3
<1>5. Hourly(a, n - Candles)
    BY <1>2, <1>4 DEF Hourly
<1> QED BY <1>4, <1>5 DEF a

\* What is taken is of one provider, and nothing when they disagree.
LEMMA SelectedFacts ==
    ASSUME NEW d, NEW e, NEW time
    PROVE  LET p == Attempt(d, time).data
               s == Attempt(e, time).data
               chosen == Selection(d, e, time).data
           IN  /\ chosen \in {p, s, Missing}
               /\ p # Missing /\ s # Missing /\ CompareCloses(p, s) = "disagreement" => chosen = Missing
BY DEF Selection, Chosen, Selected, Comparison

\* Two series of the same hours overlap in enough of them.
LEMMA OverlapFacts ==
    ASSUME NEW f \in Int, NEW p, NEW s, Hourly(p, f), Hourly(s, f), MinOverlap <= Candles
    PROVE  /\ ~(Cardinality(Overlap(p, s)) < MinOverlap)
           /\ Overlap(p, s) \subseteq {Hour * (f + i) : i \in 1 .. Candles}
<1> DEFINE stamps == {Hour * (f + i) : i \in 1 .. Candles}
           Younger(t) == {u \in stamps : u > t}
           over == Overlap(p, s)
           m == MinOverlap
           c == Candles
<1>1. m \in Nat /\ c \in Nat /\ CompareCandles \in Nat /\ m <= CompareCandles /\ m <= c
    BY CycleAssumption, MarketDataAssumption
<1>2. over = {t \in stamps : Cardinality(Younger(t)) < CompareCandles}
    BY HourlyFacts DEF Overlap
<1>3. IsFiniteSet(over)
    <2> DEFINE g == [i \in 1 .. c |-> Hour * (f + i)]
    <2>1. g \in Surjection(1 .. c, stamps)
        BY DEF Surjection
    <2>2. IsFiniteSet(1 .. c)
        BY <1>1, FS_Interval
    <2>3. IsFiniteSet(stamps)
        BY <2>1, <2>2, FS_Surjection
    <2>4. over \subseteq stamps
        BY <1>2
    <2> HIDE DEF stamps, over
    <2> QED BY <2>3, <2>4, FS_Subset
<1>4. ASSUME NEW j \in 1 .. m PROVE Hour * (f + c - m + j) \in over
    <2> DEFINE t == Hour * (f + c - m + j)
               first == c - m + j + 1
               g == [i \in first .. c |-> Hour * (f + i)]
    <2>1. t \in stamps
        <3>1. c - m + j \in 1 .. c /\ t = Hour * (f + (c - m + j))
            BY <1>1 DEF Hour
        <3> QED BY <3>1
    <2>2. g \in Surjection(first .. c, Younger(t))
        <3>1. \A i \in 1 .. c : Hour * (f + i) > t <=> i >= first
            BY <1>1 DEF Hour
        <3>2. first \in Int /\ first >= 1
            BY <1>1
        <3> HIDE DEF t, first
        <3>3. Younger(t) = {Hour * (f + i) : i \in first .. c}
            <4>1. \A i \in first .. c : i \in 1 .. c
                BY <1>1, <3>2
            <4>2. \A i \in 1 .. c : i >= first => i \in first .. c
                BY <1>1, <3>2
            <4>3. \A i \in first .. c : i >= first
                BY <1>1, <3>2
            <4> QED BY <3>1, <4>1, <4>2, <4>3
        <3> HIDE DEF stamps
        <3> QED BY <3>3 DEF Surjection
    <2>3. IsFiniteSet(first .. c) /\ Cardinality(first .. c) <= m - j
        <3>1. first \in Int /\ c \in Int /\ (IF first > c THEN 0 ELSE c - first + 1) <= m - j
            BY <1>1
        <3>2. /\ IsFiniteSet(first .. c)
              /\ Cardinality(first .. c) = IF first > c THEN 0 ELSE c - first + 1
            BY <3>1, FS_Interval
        <3> HIDE DEF first
        <3> QED BY <3>1, <3>2
    <2>4. IsFiniteSet(Younger(t)) /\ Cardinality(Younger(t)) <= Cardinality(first .. c)
        BY <2>2, <2>3, FS_Surjection
    <2>5. Cardinality(Younger(t)) < CompareCandles
        <3>1. Cardinality(Younger(t)) \in Nat /\ Cardinality(first .. c) \in Nat
            BY <2>3, <2>4, FS_CardinalityType
        <3> HIDE DEF first, t
        <3> QED BY <1>1, <2>3, <2>4, <3>1
    <2> HIDE DEF t, stamps
    <2> QED BY <1>2, <2>1, <2>5 DEF t
<1>5. m <= Cardinality(over) /\ Cardinality(over) \in Nat
    <2> DEFINE g == [j \in 1 .. m |-> Hour * (f + c - m + j)]
    <2>1. \A j, k \in 1 .. m : g[j] = g[k] => j = k
        BY <1>1 DEF Hour
    <2>2. g \in Injection(1 .. m, over)
        <3>1. g \in [1 .. m -> over]
            BY <1>4
        <3> HIDE DEF g, over
        <3> QED BY <2>1, <3>1 DEF Injection, IsInjective
    <2>3. Cardinality(1 .. m) = m
        BY <1>1, FS_Interval
    <2> HIDE DEF g, over
    <2>4. Cardinality(1 .. m) <= Cardinality(over)
        BY <1>3, <2>2, FS_Injection
    <2> QED BY <1>3, <2>3, <2>4, FS_CardinalityType
<1> HIDE DEF stamps
<1> QED BY <1>1, <1>2, <1>5 DEF stamps

Hours(n) == {Hour * i : i \in 1 .. n}

\* What a run sees of n hours: consecutive hours that are over, and where it compared
\* the providers, closes near the true ones.
LEMMA MarketFacts ==
    ASSUME NEW n \in Nat, n > Candles, NEW closes \in [Hours(n) -> Int],
           NEW time \in Int, LatestHour(time) = Hour * n,
           NEW delivery \in Deliveries(closes, time), Market(delivery, time).series # Missing
    PROVE  LET market == Market(delivery, time)
           IN  /\ \E f \in Int : Hourly(market.series, f) /\ f + Candles <= n
               /\ MinCandles <= Candles /\ \A i \in 1 .. Candles : market.series[i].close \in Int
               /\ \A t \in market.compared \intersect Stamps(market.series) :
                      /\ t \in DOMAIN closes
                      /\ Distance(Close(market.series, t), closes[t]) <= MaxDifference
<1> DEFINE true == Answered(closes, Hour * n)
           late == Answered(closes, Hour * n - Hour)
           wrong(e) == [true EXCEPT ![Candles].close = @ + e]
           d1 == delivery[1]
           d2 == delivery[2]
           p == Attempt(d1, time).data
           s == Attempt(d2, time).data
           series == Market(delivery, time).series
           f == n - Candles
           Shaped(d, g) == /\ Hourly(d, g)
                           /\ \A i \in 1 .. Candles : DOMAIN d[i] = {"at", "close", "volume", "flaw"}
<1>1. Candles \in Nat \ {0} /\ f \in Int /\ Hour = 60
    BY CycleAssumption DEF Hour
<1>2. Shaped(true, f) /\ \A i \in 1 .. Candles : true[i].close = closes[Hour * (f + i)]
    BY AnsweredFacts
<1>14. \A i \in 1 .. Candles : true[i].close \in Int
    <2>1. ASSUME NEW i \in 1 .. Candles PROVE Hour * (f + i) \in Hours(n)
        <3>1. f + i \in 1 .. n
            BY <1>1
        <3> HIDE DEF f
        <3> QED BY <3>1 DEF Hours
    <2> QED BY <1>2, <2>1
<1>3. Shaped(late, f - 1)
    <2>1. Hour * n - Hour = Hour * (n - 1) /\ n - 1 \in Int /\ n - 1 - Candles = f - 1
        BY <1>1
    <2>2. LET a == Answered(closes, Hour * (n - 1)) IN Shaped(a, (n - 1) - Candles)
        BY <2>1, AnsweredFacts
    <2> QED BY <2>1, <2>2
<1>15. \A i \in 1 .. Candles : late[i].close \in Int
    <2>1. Hour * n - Hour = Hour * (n - 1) /\ n - 1 \in Int
        BY <1>1
    <2>2. ASSUME NEW i \in 1 .. Candles PROVE Hour * ((n - 1) - Candles + i) \in Hours(n)
        <3>1. (n - 1) - Candles + i \in 1 .. n
            BY <1>1
        <3> QED BY <3>1 DEF Hours
    <2> QED BY <2>1, <2>2, AnsweredFacts
<1> HIDE DEF true, late
<1>4. ASSUME NEW e \in Errata
      PROVE  Shaped(wrong(e), f) /\ \A i \in 1 .. Candles : wrong(e)[i].close \in Int
    <2>1. wrong(e) = [i \in 1 .. Candles |-> wrong(e)[i]]
        BY <1>2 DEF Hourly
    <2>2. \A i \in 1 .. Candles : /\ DOMAIN wrong(e)[i] = {"at", "close", "volume", "flaw"}
                                  /\ wrong(e)[i].at = true[i].at
        BY <1>2 DEF Hourly
    <2>3. \A i \in 1 .. Candles : wrong(e)[i].close \in {true[i].close, true[i].close + e}
        BY <1>2 DEF Hourly
    <2>4. e \in Int
        BY CycleAssumption
    <2> HIDE DEF wrong
    <2>5. \A i \in 1 .. Candles : wrong(e)[i].close \in Int
        BY <1>14, <2>3, <2>4
    <2>6. Shaped(wrong(e), f)
        BY <1>2, <2>1, <2>2 DEF Hourly
    <2> HIDE DEF Shaped
    <2> QED BY <2>5, <2>6
<1> HIDE DEF wrong
<1>5. \/ (d1 = true \/ \E e \in Errata : d1 = wrong(e)) /\ d2 = true
      \/ d1 = Missing /\ d2 \in {true, late}
      \/ (\E e \in Errata : d1 = wrong(e)) /\ d2 = Missing
    <2>1. delivery \in {<<true, true>>, <<Missing, true>>, <<Missing, late>>}
                       \cup {<<wrong(e), true>> : e \in Errata} \cup {<<wrong(e), Missing>> : e \in Errata}
        BY DEF Deliveries, true, late, wrong
    <2> QED BY <2>1
<1>6. series \in {p, s} /\ series = Selection(d1, d2, time).data
    BY SelectedFacts DEF Market
<1>7. ASSUME NEW x \in {d1, d2}, x = Missing PROVE Attempt(x, time).data = Missing
    BY <1>7 DEF Attempt, Fetched
<1>8. ASSUME d1 # Missing PROVE Shaped(d1, f)
    BY <1>2, <1>4, <1>5, <1>8
<1>9. ASSUME d2 # Missing PROVE Shaped(d2, f) \/ Shaped(d2, f - 1)
    BY <1>2, <1>3, <1>5, <1>9
<1>10. p # Missing => Hourly(p, f) /\ \A i \in 1 .. Candles : p[i].close = d1[i].close
    BY <1>1, <1>7, <1>8, AttemptFacts
<1>11. s # Missing => Hourly(s, f) \/ Hourly(s, f - 1)
    <2>1. f - 1 \in Int
        BY <1>1
    <2> HIDE DEF f
    <2> QED BY <1>1, <1>7, <1>9, <2>1, AttemptFacts
<1>12. \E g \in Int : Hourly(series, g) /\ g + Candles <= n
    <2>1. f - 1 \in Int /\ f + Candles <= n /\ (f - 1) + Candles <= n
        BY <1>1
    <2> HIDE DEF f
    <2> QED BY <1>1, <1>6, <1>10, <1>11, <2>1
<1>16. MinCandles <= Candles /\ \A i \in 1 .. Candles : series[i].close \in Int
    <2>1. ASSUME NEW d, NEW g \in Int, Shaped(d, g), \A i \in 1 .. Candles : d[i].close \in Int,
                 Attempt(d, time).data # Missing, d # Missing
          PROVE  MinCandles <= Candles /\ \A i \in 1 .. Candles : Attempt(d, time).data[i].close \in Int
        <3>1. \A i \in 1 .. Candles : Attempt(d, time).data[i].close = d[i].close
            BY <2>1, AttemptFacts
        <3>2. ~(Len(d) < MinCandles)
            BY <2>1 DEF Attempt, Fetched
        <3>3. Len(d) = Candles
            BY <2>1, HourlyFacts
        <3> QED BY <1>1, <2>1, <3>1, <3>2, <3>3, MarketDataAssumption
    <2>2. f - 1 \in Int
        BY <1>1
    <2> HIDE DEF f, Shaped
    <2>3. p # Missing => MinCandles <= Candles /\ \A i \in 1 .. Candles : p[i].close \in Int
        BY <1>1, <1>2, <1>4, <1>5, <1>7, <1>8, <1>14, <2>1
    <2>4. s # Missing => MinCandles <= Candles /\ \A i \in 1 .. Candles : s[i].close \in Int
        BY <1>1, <1>2, <1>3, <1>5, <1>7, <1>14, <1>15, <2>1, <2>2
    <2> QED BY <1>6, <2>3, <2>4
<1>13. ASSUME NEW t \in Market(delivery, time).compared \intersect Stamps(series)
       PROVE  t \in DOMAIN closes /\ Distance(Close(series, t), closes[t]) <= MaxDifference
    <2>1. p # Missing /\ s # Missing /\ t \in Overlap(p, s) /\ series # Missing
        BY DEF Market
    <2>2. d1 # Missing /\ d2 # Missing
        BY <1>7, <2>1
    <2>3. d2 = true
        BY <1>5, <2>2
    <2>4. Hourly(s, f) /\ \A i \in 1 .. Candles : s[i].close = closes[Hour * (f + i)]
        <3>1. Shaped(d2, f) /\ \A i \in 1 .. Candles : d2[i].close = closes[Hour * (f + i)]
            BY <1>2, <2>3
        <3> HIDE DEF f
        <3> QED BY <1>1, <2>1, <3>1, AttemptFacts
    <2>5. Hourly(p, f)
        BY <1>10, <2>1
    <2>6. MinOverlap <= Candles
        <3>1. ~(Len(d1) < MinCandles)
            BY <2>1, <2>2 DEF Attempt, Fetched
        <3>2. Len(d1) = Candles
            BY <1>1, <1>8, <2>2, HourlyFacts
        <3> QED BY <1>1, <3>1, <3>2, MarketDataAssumption, CycleAssumption
    <2>7. PICK i \in 1 .. Candles : t = Hour * (f + i)
        BY <1>1, <2>1, <2>4, <2>5, <2>6, OverlapFacts
    <2>8. t \in DOMAIN closes /\ closes[t] \in Int
        <3>1. f + i \in 1 .. n
            BY <1>1
        <3> HIDE DEF f
        <3> QED BY <2>7, <3>1 DEF Hours
    <2>9. Close(s, t) = closes[t]
        BY <1>1, <2>4, <2>7, HourlyFacts, ZenonT(40)
    <2>10. CompareCloses(p, s) = "ok"
        <3>1. CompareCloses(p, s) # "disagreement"
            BY <1>6, <2>1, SelectedFacts
        <3>2. ~(Cardinality(Overlap(p, s)) < MinOverlap)
            BY <1>1, <2>4, <2>5, <2>6, OverlapFacts
        <3> QED BY <3>1, <3>2 DEF CompareCloses
    <2>11. ~(Distance(Close(p, t), Close(s, t)) > MaxDifference)
        BY <2>1, <2>10 DEF CompareCloses
    <2>12. Close(p, t) \in Int
        <3>1. d1[i].close \in Int
            BY <1>4, <1>5, <1>14, <2>2
        <3> QED BY <1>1, <1>10, <2>1, <2>7, HourlyFacts, <3>1, ZenonT(40)
    <2>13. CASE series = p
        BY <2>8, <2>9, <2>11, <2>12, <2>13 DEF Distance, MaxDifference
    <2>14. CASE series = s
        BY <2>8, <2>9, <2>14 DEF Distance, MaxDifference
    <2> QED BY <1>6, <2>13, <2>14
<1> QED BY <1>12, <1>13, <1>16

-----------------------------------------------------------------------------
(* What a run records, and what it learns from. *)

\* An outcome is recorded after its target, and one that was checked is close to the
\* truth.
Recorded(outcomes, closes) ==
    \A k \in DOMAIN outcomes :
        /\ k[1] + Hour * k[2] \in Int /\ outcomes[k].matured \in Int
        /\ k[1] + Hour * k[2] <= outcomes[k].matured
        /\ outcomes[k].checked =>
               /\ k[1] + Hour * k[2] \in DOMAIN closes
               /\ Distance(outcomes[k].actual, closes[k[1] + Hour * k[2]]) <= MaxDifference

\* the candles of a market are over, and were near the truth where two gave them
Honest(market, closes) ==
    /\ market.at \in Int /\ Last(market.series).at \in Int
    /\ \A t \in Stamps(market.series) : t \in Int /\ t <= Last(market.series).at /\ t <= market.at
    /\ \A t \in market.compared \intersect Stamps(market.series) :
           t \in DOMAIN closes /\ Distance(Close(market.series, t), closes[t]) <= MaxDifference

\* What was recorded stays, and what is added comes from the market.
LEMMA EnrichedKeeps ==
    ASSUME NEW snapshots, NEW outcomes, NEW market, NEW closes,
           Recorded(outcomes, closes), Honest(market, closes)
    PROVE  Recorded(Enriched(snapshots, outcomes, market), closes)
<1> DEFINE target(k) == k[1] + Hour * k[2]
           due == {k \in (DOMAIN snapshots) \X Horizons :
                       k \notin DOMAIN outcomes /\ target(k) \in Stamps(market.series)}
           added == [k \in due |-> [actual |-> Close(market.series, target(k)), matured |-> market.at,
                                    checked |-> target(k) \in market.compared]]
           new == Enriched(snapshots, outcomes, market)
<1>1. new = [k \in (DOMAIN outcomes) \cup due |-> IF k \in DOMAIN outcomes THEN outcomes[k] ELSE added[k]]
    BY DEF Enriched
<1> HIDE DEF new
<1>2. DOMAIN new = (DOMAIN outcomes) \cup due
    BY <1>1
<1>3. ASSUME NEW k \in DOMAIN outcomes PROVE new[k] = outcomes[k]
    BY <1>1
<1>4. ASSUME NEW k \in due PROVE new[k] = added[k] /\ k \notin DOMAIN outcomes
    BY <1>1
<1>5. ASSUME NEW k \in due
      PROVE  /\ target(k) \in Int /\ new[k].matured \in Int
             /\ target(k) <= new[k].matured
             /\ new[k].checked => /\ target(k) \in DOMAIN closes
                                  /\ Distance(new[k].actual, closes[target(k)]) <= MaxDifference
    <2>1. target(k) \in Stamps(market.series)
        OBVIOUS
    <2>2. new[k] = [actual |-> Close(market.series, target(k)), matured |-> market.at,
                    checked |-> target(k) \in market.compared]
        BY <1>4
    <2>3. new[k].actual = Close(market.series, target(k)) /\ new[k].matured = market.at
        BY <2>2
    <2>4. new[k].checked <=> target(k) \in market.compared
        <3> DEFINE near == target(k) \in market.compared
                   close == Close(market.series, target(k))
        <3>1. new[k] = [actual |-> close, matured |-> market.at, checked |-> near]
            BY <2>2
        <3> HIDE DEF near, close
        <3>2. new[k].checked = near
            BY <3>1
        <3> QED BY <3>2 DEF near
    <2> HIDE DEF target, due
    <2> QED BY <2>1, <2>3, <2>4 DEF Honest
<1> HIDE DEF due
<1>6. ASSUME NEW k \in DOMAIN new
      PROVE  /\ target(k) \in Int /\ new[k].matured \in Int
             /\ target(k) <= new[k].matured
             /\ new[k].checked => /\ target(k) \in DOMAIN closes
                                  /\ Distance(new[k].actual, closes[target(k)]) <= MaxDifference
    BY <1>2, <1>3, <1>5 DEF Recorded
<1> QED BY <1>6 DEF Recorded, new

LEMMA ResultFacts ==
    ASSUME NEW kept, NEW cache, NEW market, NEW answer, NEW closes,
           Recorded(kept.outcomes, closes), Honest(market, closes),
           Result(kept, cache, market, answer) # Missing
    PROVE  LET result == Result(kept, cache, market, answer)
           IN  /\ Recorded(result.store.outcomes, closes)
               /\ \A k \in result.published.evidence : k[1] + Hour * k[2] <= result.published.origin
<1> DEFINE snapshots == FoldLeft(Ingest, kept.snapshots, cache)
           outcomes == Enriched(snapshots, kept.outcomes, market)
           severity == Drifted(snapshots, outcomes, market)
           snapshot == BuildForecast(answer, market.series, snapshots, outcomes, AdaptiveConfidence(severity))
           coherence == Cohered(snapshots, outcomes, snapshot)
           origin == Last(market.series).at
           known == KnownAt(snapshots, outcomes, Closes(market.series), origin)
           matured == MaturedBy(outcomes, origin)
           final == [snapshot EXCEPT !.ensemble = coherence.predictions]
           after == Ingest(snapshots, final)
           result == Result(kept, cache, market, answer)
<1>1. result = Concluded(snapshots, outcomes, cache, market, severity, snapshot, coherence)
    BY DEF Result, Learned, Forecast, AfterForecast
<1>2. Recorded(outcomes, closes)
    BY EnrichedKeeps
<1>3. snapshot.origin = origin
    BY DEF BuildForecast
<1> HIDE DEF snapshots, outcomes, severity, snapshot, coherence, result
<1>4. /\ result.store.outcomes = Enriched(after, outcomes, market)
      /\ result.published = Assessment(snapshots, outcomes, known, snapshot, coherence, severity)
    BY <1>1, <1>3 DEF Concluded, result
<1>5. Recorded(result.store.outcomes, closes)
    <2> HIDE DEF after
    <2> QED BY <1>2, <1>4, EnrichedKeeps
<1>6. result.published.origin = origin /\ result.published.evidence = (DOMAIN matured) \cup (DOMAIN known)
    <2> HIDE DEF known
    <2>1. LET a == Assessment(snapshots, outcomes, known, snapshot, coherence, severity)
          IN  a.origin = snapshot.origin
              /\ a.evidence = (DOMAIN MaturedBy(outcomes, snapshot.origin)) \cup (DOMAIN known)
        BY DEF Assessment
    <2> QED BY <1>3, <1>4, <2>1
<1>7. ASSUME NEW k \in DOMAIN matured PROVE k[1] + Hour * k[2] <= origin
    BY <1>7 DEF MaturedBy
<1>8. ASSUME NEW k \in DOMAIN known PROVE k[1] + Hour * k[2] <= origin
    <2>1. \/ k \in DOMAIN outcomes /\ outcomes[k].matured <= origin
          \/ k[1] + Hour * k[2] \in Stamps(market.series)
        <3> DEFINE Durable(l) == l \in DOMAIN outcomes /\ outcomes[l].matured <= origin
                   actuals == Closes(market.series)
                   usable == {t \in {<<o, h>> : o \in DOMAIN snapshots, h \in Horizons} :
                                 Durable(t) \/ t[1] + Hour * t[2] \in DOMAIN actuals}
                   f == [l \in usable |-> IF Durable(l) THEN outcomes[l].actual ELSE actuals[l[1] + Hour * l[2]]]
        <3>1. known = Table(f)
            BY DEF KnownAt
        <3>2. k \in usable
            BY <1>8, <3>1, TableFacts
        <3>3. DOMAIN actuals = Stamps(market.series)
            BY DEF Closes
        <3> HIDE DEF actuals
        <3> QED BY <3>2, <3>3
    <2>2. CASE k \in DOMAIN outcomes /\ outcomes[k].matured <= origin
        <3> DEFINE t == k[1] + Hour * k[2]
        <3>1. t \in Int /\ outcomes[k].matured \in Int /\ t <= outcomes[k].matured /\ origin \in Int
            BY <1>2, <2>2 DEF Recorded, Honest
        <3> HIDE DEF t, origin
        <3>2. t <= origin
            BY <2>2, <3>1
        <3> QED BY <3>2 DEF t
    <2>3. CASE k[1] + Hour * k[2] \in Stamps(market.series)
        BY <2>3 DEF Honest
    <2> QED BY <2>1, <2>2, <2>3
<1> QED BY <1>5, <1>6, <1>7, <1>8 DEF result

-----------------------------------------------------------------------------
(* The hours of the tape, before the first state and after it. *)

\* the tape of n hours, at twenty or fifty past the last
HourTape(closes, time, n) ==
    /\ n > Candles
    /\ closes \in [Hours(n) -> Int]
    /\ time \in {Hour * n + 20, Hour * n + 50}

\* The latest hour of the tape, and its candle.
LEMMA LatestFacts ==
    ASSUME NEW n \in Nat, NEW closes, NEW time, HourTape(closes, time, n)
    PROVE  /\ time \in Int /\ LatestHour(time) = Hour * n /\ Hour * n <= time
           /\ Hour * n \in DOMAIN closes /\ closes[Hour * n] \in Int
<1>1. time \in Int /\ LatestHour(time) = Hour * n /\ Hour * n <= time
    BY DEF HourTape, LatestHour, Hour
<1>2. n \in 1 .. n
    BY CycleAssumption DEF HourTape
<1>3. Hour * n \in Hours(n)
    BY <1>2 DEF Hours
<1> QED BY <1>1, <1>3 DEF HourTape

\* An hour adds a candle, and changes none.
LEMMA HourPasses ==
    ASSUME NEW n \in Nat, NEW closes, NEW time, HourTape(closes, time, n), NEW move \in Int,
           NEW later \in {Hour * (n + 1) + 20, Hour * (n + 1) + 50}
    PROVE  LET after == With(closes, Hour * (n + 1), closes[Hour * n] + move)
           IN  /\ HourTape(after, later, n + 1)
               /\ \A t \in DOMAIN closes : t \in DOMAIN after /\ after[t] = closes[t]
<1> DEFINE close == closes[Hour * n] + move
           after == With(closes, Hour * (n + 1), close)
<1>1. close \in Int
    BY LatestFacts
<1> HIDE DEF close
<1>2. Hours(n + 1) = Hours(n) \cup {Hour * (n + 1)}
    <2>1. 1 .. n + 1 = (1 .. n) \cup {n + 1}
        OBVIOUS
    <2> QED BY <2>1 DEF Hours
<1>3. Hour * (n + 1) \notin Hours(n)
    BY DEF Hours, Hour
<1>4. closes \in [Hours(n) -> Int] /\ n + 1 > Candles
    BY CycleAssumption DEF HourTape
<1> DEFINE hour == Hour * (n + 1)
<1>5. after = [t \in Hours(n + 1) |-> IF t = hour THEN close ELSE closes[t]]
    BY <1>2, <1>4 DEF With
<1> HIDE DEF hour, after
<1>6. after \in [Hours(n + 1) -> Int]
    BY <1>1, <1>2, <1>4, <1>5 DEF hour
<1>7. \A t \in Hours(n) : t \in DOMAIN after /\ after[t] = closes[t]
    BY <1>2, <1>3, <1>5 DEF hour
<1>8. HourTape(after, later, n + 1)
    BY <1>4, <1>6 DEF HourTape
<1> QED BY <1>4, <1>7, <1>8 DEF after, close, hour

\* What was recorded was recorded of hours that no later one changes.
LEMMA RecordedStays ==
    ASSUME NEW outcomes, NEW closes, NEW after, Recorded(outcomes, closes),
           \A t \in DOMAIN closes : t \in DOMAIN after /\ after[t] = closes[t]
    PROVE  Recorded(outcomes, after)
BY DEF Recorded

\* The candles that a run selects are honest.
LEMMA DeliveredIsHonest ==
    ASSUME NEW n \in Nat, NEW closes, NEW time, HourTape(closes, time, n),
           NEW delivery \in Deliveries(closes, time), Market(delivery, time).series # Missing
    PROVE  Honest(Market(delivery, time), closes)
<1> DEFINE market == Market(delivery, time)
<1>1. time \in Int /\ LatestHour(time) = Hour * n /\ Hour * n <= time
    BY LatestFacts
<1>2. n > Candles /\ closes \in [Hours(n) -> Int]
    BY DEF HourTape
<1>3. /\ \E f \in Int : Hourly(market.series, f) /\ f + Candles <= n
      /\ \A t \in market.compared \intersect Stamps(market.series) :
             /\ t \in DOMAIN closes
             /\ Distance(Close(market.series, t), closes[t]) <= MaxDifference
    BY <1>1, <1>2, MarketFacts
<1>4. market.at = time
    BY DEF Market
<1> HIDE DEF market
<1>5. PICK f \in Int : Hourly(market.series, f) /\ f + Candles <= n
    BY <1>3
<1>6. /\ Stamps(market.series) = {Hour * (f + i) : i \in 1 .. Candles}
      /\ Last(market.series).at = Hour * (f + Candles)
    BY <1>5, HourlyFacts
<1>7. Candles \in Nat
    BY CycleAssumption
<1>8. ASSUME NEW i \in 1 .. Candles
      PROVE  Hour * (f + i) \in Int /\ Hour * (f + i) <= Hour * (f + Candles) /\ Hour * (f + i) <= time
    BY <1>1, <1>5, <1>7 DEF Hour
<1>9. Hour * (f + Candles) \in Int
    BY <1>7 DEF Hour
<1> QED BY <1>1, <1>3, <1>4, <1>6, <1>8, <1>9 DEF Honest, market

\* The same of a run on what the providers deliver.
LEMMA OutcomeFacts ==
    ASSUME NEW n \in Nat, NEW closes, NEW time, HourTape(closes, time, n),
           NEW kept, Recorded(kept.outcomes, closes), NEW cache, NEW answer,
           NEW delivery \in Deliveries(closes, time),
           Outcome(kept, cache, delivery, answer, time) # Missing
    PROVE  LET result == Outcome(kept, cache, delivery, answer, time)
           IN  /\ Recorded(result.store.outcomes, closes)
               /\ \A k \in result.published.evidence : k[1] + Hour * k[2] <= result.published.origin
<1> DEFINE market == Market(delivery, time)
<1>1. Outcome(kept, cache, delivery, answer, time) = Result(kept, cache, market, answer)
    BY DEF Outcome
<1>2. market.series # Missing
    BY <1>1 DEF Result
<1>3. Honest(market, closes)
    BY <1>2, DeliveredIsHonest
<1> HIDE DEF market
<1> QED BY <1>1, <1>3, ResultFacts

\* A state that some hours led to.
Reached(s) == \E n \in Nat : HourTape(s.tape, s.now, n) /\ Recorded(s.store.outcomes, s.tape)

\* No hour leads to the first state, one more to the next, some to Init's.
LEMMA FirstIsReached == Reached(FirstState)
<1> DEFINE n == Len(FirstCloses)
<1>1. n \in Nat /\ n > Candles /\ FirstCloses \in [1 .. n -> Int]
    BY CycleAssumption
<1>2. FirstHours = [t \in Hours(n) |-> FirstCloses[t \div Hour]]
    BY DEF FirstHours, Hours
<1> HIDE DEF n
<1>3. ASSUME NEW t \in Hours(n) PROVE FirstCloses[t \div Hour] \in Int
    <2>1. PICK i \in 1 .. n : t = Hour * i
        BY DEF Hours
    <2>2. t \div Hour = i
        BY <1>1, <2>1 DEF Hour
    <2> QED BY <1>1, <2>2
<1>4. HourTape(FirstHours, Hour * n + 20, n)
    BY <1>1, <1>2, <1>3 DEF HourTape
<1>5. Recorded(EmptyStore.outcomes, FirstHours)
    BY DEF Recorded, EmptyStore
<1> QED BY <1>1, <1>4, <1>5 DEF Reached, FirstState, n

LEMMA LiveIsReached ==
    ASSUME NEW s, Reached(s), NEW hour, hour.move \in Int
    PROVE  Reached(Live(s, hour))
<1>1. PICK n \in Nat : HourTape(s.tape, s.now, n) /\ Recorded(s.store.outcomes, s.tape)
    BY DEF Reached
<1> DEFINE time == s.now + Hour
           closes == With(s.tape, LatestHour(time), s.tape[LatestHour(s.now)] + hour.move)
           series == Answered(closes, LatestHour(time))
           result == Outcome(s.store, s.rolling, <<series, series>>, hour.answer, time)
           new == Live(s, hour)
           after == With(s.tape, Hour * (n + 1), s.tape[Hour * n] + hour.move)
<1>2. /\ LatestHour(s.now) = Hour * n
      /\ time \in {Hour * (n + 1) + 20, Hour * (n + 1) + 50}
    BY <1>1, LatestFacts DEF HourTape, Hour
<1>3. HourTape(after, time, n + 1) /\ \A t \in DOMAIN s.tape : t \in DOMAIN after /\ after[t] = s.tape[t]
    <2> HIDE DEF after, time
    <2> QED BY <1>1, <1>2, HourPasses DEF after
<1>4. n + 1 \in Nat /\ LatestHour(time) = Hour * (n + 1)
    <2> HIDE DEF after, time
    <2>1. n + 1 \in Nat
        OBVIOUS
    <2> QED BY <1>3, <2>1, LatestFacts
<1>5. closes = after
    BY <1>2, <1>4
<1>6. Recorded(s.store.outcomes, closes)
    <2> HIDE DEF after, closes
    <2> QED BY <1>1, <1>3, <1>5, RecordedStays
<1>7. <<series, series>> \in Deliveries(closes, time)
    BY DEF Deliveries
<1>8. new = Turned(closes, time, IF result = Missing THEN s ELSE result)
    BY DEF Live
<1> HIDE DEF result, closes, time, new, after, series
<1>9. new.tape = closes /\ new.now = time /\ new.store = (IF result = Missing THEN s ELSE result).store
    BY <1>8 DEF Turned
<1>10. Recorded(new.store.outcomes, closes)
    <2>1. CASE result = Missing
        BY <1>6, <1>9, <2>1
    <2>2. CASE result # Missing
        <3>1. Recorded(result.store.outcomes, closes)
            BY <1>3, <1>4, <1>5, <1>6, <1>7, <2>2, OutcomeFacts DEF result
        <3> QED BY <1>9, <2>2, <3>1
    <2> QED BY <2>1, <2>2
<1> QED BY <1>3, <1>4, <1>5, <1>9, <1>10 DEF Reached, new

LEMMA LivedIsReached ==
    ASSUME NEW past \in Pasts
    PROVE  Reached(Lived(past))
<1> DEFINE n == Len(past)
           S == {m \in 0 .. n : Reached(Lives(past)[m])}
<1>1. n \in Nat /\ \A i \in 1 .. n : past[i].move \in Int
    BY CycleAssumption
<1>2. 0 \in S
    BY <1>1, FirstIsReached, LivesFacts
<1>3. ASSUME NEW m \in S, m < n PROVE m + 1 \in S
    <2>1. m + 1 \in 0 .. n /\ m + 1 # 0 /\ (m + 1) - 1 = m /\ m + 1 \in 1 .. n
        BY <1>1, <1>3
    <2>2. Lives(past)[m + 1] = Live(Lives(past)[m], past[m + 1])
        <3>1. Lives(past)[m + 1] = IF m + 1 = 0 THEN FirstState ELSE Live(Lives(past)[(m + 1) - 1], past[m + 1])
            BY <1>1, <2>1, LivesFacts
        <3> QED BY <2>1, <3>1
    <2>3. Reached(Live(Lives(past)[m], past[m + 1]))
        BY <1>1, <2>1, LiveIsReached
    <2> QED BY <2>1, <2>2, <2>3
<1>4. n \in S
    <2>1. S \in SUBSET (0 .. n)
        OBVIOUS
    <2> HIDE DEF S, n
    <2> QED BY <1>1, <1>2, <1>3, <2>1, UpTo
<1> QED BY <1>4 DEF Lived

-----------------------------------------------------------------------------
(* The invariant. *)

\* The tape is of whole hours up to now, the outcomes were recorded of it, and what the
\* published forecast learnt from lies before its origin.
CycleInv ==
    /\ \E n \in Nat : HourTape(tape, now, n)
    /\ Recorded(store.outcomes, tape)
    /\ EvidencePrecedesOrigin

\* The first state, and each step, keep the invariant: an hour adds to the tape what no
\* outcome was measured against, a run records what it compared, and a store that is lost
\* records nothing.
LEMMA CycleInit ==
    ASSUME Init
    PROVE  CycleInv
<1>1. PICK past \in Pasts : LET s == Lived(past)
                            IN  tape = s.tape /\ now = s.now /\ store = s.store
    BY DEF Init
<1>2. Reached(Lived(past))
    BY LivedIsReached
<1>3. EvidencePrecedesOrigin
    BY DEF Init, EvidencePrecedesOrigin
<1> QED BY <1>1, <1>2, <1>3 DEF Reached, CycleInv

LEMMA CycleNextHour ==
    ASSUME CycleInv, NextHour
    PROVE  CycleInv'
<1>1. PICK n \in Nat : HourTape(tape, now, n)
    BY DEF CycleInv
<1>2. PICK move \in Moves : tape' = With(tape, LatestHour(now) + Hour, tape[LatestHour(now)] + move)
    BY DEF NextHour
<1>3. move \in Int
    BY CycleAssumption
<1>4. LatestHour(now) = Hour * n
    BY <1>1, LatestFacts
<1>5. LatestHour(now) + Hour = Hour * (n + 1) /\ now' = Hour * (n + 1) + 20
    BY <1>4 DEF NextHour, Hour
<1>6. tape' = With(tape, Hour * (n + 1), tape[Hour * n] + move)
    BY <1>2, <1>4, <1>5
<1>7. /\ HourTape(tape', now', n + 1)
      /\ \A t \in DOMAIN tape : t \in DOMAIN tape' /\ tape'[t] = tape[t]
    BY <1>1, <1>3, <1>5, <1>6, HourPasses
<1>8. \E m \in Nat : HourTape(tape', now', m)
    BY <1>7
<1>9. Recorded(store.outcomes, tape')
    BY <1>7, RecordedStays DEF CycleInv
<1>10. store' = store /\ published' = published
    BY DEF NextHour
<1> QED BY <1>8, <1>9, <1>10 DEF CycleInv, EvidencePrecedesOrigin, HourTape

LEMMA CycleLater ==
    ASSUME CycleInv, Later
    PROVE  CycleInv'
<1>1. PICK n \in Nat : HourTape(tape, now, n)
    BY DEF CycleInv
<1>2. now' = Hour * n + 50
    BY <1>1 DEF Later, HourTape, Hour
<1>3. HourTape(tape', now', n)
    BY <1>1, <1>2 DEF Later, HourTape
<1>4. store' = store /\ published' = published /\ tape' = tape
    BY DEF Later
<1> QED BY <1>3, <1>4 DEF CycleInv, EvidencePrecedesOrigin, HourTape

LEMMA CycleRun ==
    ASSUME CycleInv, Run
    PROVE  CycleInv'
<1>1. PICK n \in Nat : HourTape(tape, now, n)
    BY DEF CycleInv
<1>2. PICK delivery \in Deliveries(tape, now), answer \in Answers :
          LET result == Outcome(store, rolling, delivery, answer, now)
          IN  result # Missing /\ store' = result.store /\ published' = result.published
    BY DEF Run
<1>3. /\ Recorded(store'.outcomes, tape)
      /\ \A k \in published'.evidence : k[1] + Hour * k[2] <= published'.origin
    BY <1>1, <1>2, OutcomeFacts DEF CycleInv
<1>4. tape' = tape /\ now' = now
    BY DEF Run
<1> QED BY <1>1, <1>3, <1>4 DEF CycleInv, EvidencePrecedesOrigin, HourTape

LEMMA CycleLoseStore ==
    ASSUME CycleInv, LoseStore
    PROVE  CycleInv'
<1>1. Recorded(store'.outcomes, tape')
    BY DEF LoseStore, EmptyStore, Recorded
<1>2. tape' = tape /\ now' = now /\ published' = published
    BY DEF LoseStore
<1> QED BY <1>1, <1>2 DEF CycleInv, EvidencePrecedesOrigin, HourTape

\* Every reachable state has it.
LEMMA CycleInvariance == Spec => []CycleInv
<1>1. ASSUME CycleInv, [Next]_vars PROVE CycleInv'
    <2>1. CASE UNCHANGED vars
        BY <1>1, <2>1 DEF vars, CycleInv, EvidencePrecedesOrigin, HourTape, Recorded
    <2> QED BY <1>1, <2>1, CycleNextHour, CycleLater, CycleRun, CycleLoseStore DEF Next
<1> QED BY <1>1, CycleInit, PTL DEF Spec

\* For every market, every answer of the model and every loss of the store, a forecast
\* learns only from outcomes that were due at its origin (leakage_guard).
THEOREM EvidenceIsPast == Spec => []EvidencePrecedesOrigin
<1>1. CycleInv => EvidencePrecedesOrigin
    BY DEF CycleInv
<1> QED BY <1>1, CycleInvariance, PTL

\* For every market and every wrong candle of a provider, an outcome that was recorded
\* where both providers were compared is within the tolerated difference of the truth.
THEOREM OutcomesAreTrue == Spec => []OutcomesAreChecked
<1>1. CycleInv => OutcomesAreChecked
    BY DEF CycleInv, Recorded, OutcomesAreChecked
<1> QED BY <1>1, CycleInvariance, PTL

-----------------------------------------------------------------------------
(* The studies. *)

\* A part of a part.
LEMMA QuotientBounds ==
    ASSUME NEW a \in Nat, NEW b \in Nat \ {0}, NEW d \in Nat, a <= b * d
    PROVE  a \div b \in 0 .. d
<1> DEFINE q == a \div b
           r == a % b
<1>1. q \in Nat /\ r \in 0 .. b - 1 /\ a = b * q + r
    BY DivisionFacts
<1> HIDE DEF q, r
<1>2. ASSUME q > d PROVE FALSE
    <2>1. PICK e \in Nat : q = d + 1 + e
        <3>1. q - d - 1 \in Nat /\ q = d + 1 + (q - d - 1)
            BY <1>1, <1>2
        <3> QED BY <3>1
    <2>2. b * q = b * d + b + b * e
        BY <2>1
    <2>3. b * d \in Int /\ b * e \in Nat
        BY <2>1
    <2> QED BY <1>1, <2>2, <2>3
<1> QED BY <1>1, <1>2 DEF q

\* the candles of a download are of different times, one after the other
InOrderOfTime(series) ==
    /\ series = [i \in 1 .. Len(series) |-> series[i]] /\ Len(series) \in Nat
    /\ \A i \in 1 .. Len(series) : series[i].at \in Int
    /\ \A i, j \in 1 .. Len(series) : i < j => series[i].at < series[j].at

LEMMA DownloadFacts ==
    ASSUME NEW exchange \in Exchanges
    PROVE  InOrderOfTime(Download(exchange))
<1> DEFINE S == DOMAIN exchange.moves \ exchange.gaps
           hours == Ascending(S)
           c == Cardinality(S)
           series == Download(exchange)
<1>1. S \in SUBSET Int /\ IsFiniteSet(S)
    <2>1. exchange.moves \in Seq(Int)
        BY StudyAssumption
    <2>2. DOMAIN exchange.moves = 1 .. Len(exchange.moves) /\ Len(exchange.moves) \in Nat
        BY <2>1
    <2>3. IsFiniteSet(1 .. Len(exchange.moves))
        BY <2>2, FS_Interval
    <2>4. S \subseteq 1 .. Len(exchange.moves)
        BY <2>2
    <2> HIDE DEF S
    <2>5. IsFiniteSet(S)
        BY <2>3, <2>4, FS_Subset
    <2> QED BY <2>2, <2>4, <2>5
<1>2. /\ c \in Nat /\ hours \in [1 .. c -> S]
      /\ \A i, j \in 1 .. c : i < j => hours[i] < hours[j]
    <2> HIDE DEF S
    <2> QED BY <1>1, AscendingFacts
<1>3. DOMAIN series = 1 .. c /\ \A i \in 1 .. c : series[i].at = Hour * hours[i]
    <2> HIDE DEF S
    <2>1. DOMAIN hours = 1 .. c
        BY <1>2
    <2> QED BY <2>1 DEF Download, S
<1>4. series = [i \in 1 .. c |-> series[i]]
    <2>1. series = [i \in DOMAIN series |-> series[i]]
        BY DEF Download
    <2> HIDE DEF series
    <2> QED BY <1>3, <2>1
<1> HIDE DEF series, c, hours
<1>5. Len(series) = c
    BY <1>2, <1>4
<1>6. ASSUME NEW i \in 1 .. c PROVE series[i].at \in Int /\ hours[i] \in Int
    <2>1. hours[i] \in Int
        BY <1>1, <1>2
    <2> QED BY <1>3, <2>1 DEF Hour
<1>7. ASSUME NEW i \in 1 .. c, NEW j \in 1 .. c, i < j PROVE series[i].at < series[j].at
    <2>1. hours[i] < hours[j]
        BY <1>2, <1>7
    <2> QED BY <1>3, <1>6, <2>1 DEF Hour
<1> QED BY <1>2, <1>4, <1>5, <1>6, <1>7 DEF InOrderOfTime, series

\* The longest horizon.
LEMMA LongestFacts == Longest \in Horizons /\ Longest \in Nat \ {0} /\ \A h \in Horizons : h <= Longest
<1>1. Horizons \in SUBSET Int /\ IsFiniteSet(Horizons) /\ Horizons # {}
    BY EngineAssumption
<1> QED BY <1>1, MaxFacts, EngineAssumption DEF Longest

\* Every position that is forecast from has its context before it and its targets after.
LEMMA PositionsFacts ==
    ASSUME NEW n \in Nat, n - Longest > ContextCandles + 1, NEW requested \in Nat \ {0}
    PROVE  /\ OriginPositions(n, requested) \in SUBSET (ContextCandles + 1 .. n - Longest)
           /\ IsFiniteSet(OriginPositions(n, requested))
<1> DEFINE first == ContextCandles + 1
           last == n - Longest
           count == Min({requested, last - first + 1})
           P == OriginPositions(n, requested)
<1>1. first \in Nat /\ last \in Nat /\ first < last /\ requested \in Nat /\ requested >= 1
    BY LongestFacts, StudyAssumption
<1>2. P = IF count = 1 THEN {first}
          ELSE {first + ((i - 1) * (last - first)) \div (count - 1) : i \in 1 .. count}
    BY DEF OriginPositions
<1> HIDE DEF first, last, P
<1>3. count \in Nat \ {0} /\ count <= requested /\ count <= last - first + 1
    <2>1. requested \in Int /\ last - first + 1 \in Int
        BY <1>1
    <2>2. count \in {requested, last - first + 1} /\ count <= requested /\ count <= last - first + 1
        BY <2>1, PairFacts
    <2> HIDE DEF count
    <2> QED BY <1>1, <2>2
<1> HIDE DEF count
<1>4. P \in SUBSET (first .. last)
    <2>1. CASE count = 1
        BY <1>1, <1>2, <2>1
    <2>2. CASE count # 1
        <3>1. ASSUME NEW i \in 1 .. count PROVE first + ((i - 1) * (last - first)) \div (count - 1) \in first .. last
            <4> DEFINE a == (i - 1) * (last - first)
                       b == count - 1
                       d == last - first
                       e == count - i
            <4>1. b \in Nat \ {0} /\ d \in Nat /\ i - 1 \in Nat /\ e \in Nat
                BY <1>1, <1>3, <2>2
            <4>2. a \in Nat /\ a <= b * d
                <5>1. b * d = a + e * d
                    BY <1>1, <1>3
                <5>2. a \in Nat
                    BY <4>1
                <5>3. e * d \in Nat
                    BY <4>1
                <5>4. b * d \in Int
                    BY <4>1
                <5> HIDE DEF a, b, d, e
                <5> QED BY <5>1, <5>2, <5>3, <5>4
            <4> HIDE DEF a, b
            <4>3. a \div b \in 0 .. d
                BY <4>1, <4>2, QuotientBounds
            <4>4. first + (a \div b) \in first .. last
                BY <1>1, <4>3
            <4> QED BY <4>4 DEF a, b
        <3> QED BY <1>2, <2>2, <3>1
    <2> QED BY <2>1, <2>2
<1>5. IsFiniteSet(P)
    <2>1. IsFiniteSet(first .. last)
        BY <1>1, FS_Interval
    <2> QED BY <1>4, <2>1, FS_Subset
<1> QED BY <1>4, <1>5 DEF P, first, last

\* A sequence of whatever it holds: what is added to it and what is left of it.
IsSequence(s) == Len(s) \in Nat /\ s = [i \in 1 .. Len(s) |-> s[i]]

LEMMA SequenceFacts ==
    ASSUME NEW s, IsSequence(s)
    PROVE  /\ s # <<>> => Len(s) > 0
           /\ \A e : /\ IsSequence(Append(s, e)) /\ Len(Append(s, e)) = Len(s) + 1
                     /\ Append(s, e)[Len(s) + 1] = e
                     /\ \A i \in 1 .. Len(s) : Append(s, e)[i] = s[i]
           /\ s # <<>> => /\ IsSequence(Tail(s)) /\ Len(Tail(s)) = Len(s) - 1 /\ Head(s) = s[1]
                          /\ \A i \in 1 .. Len(s) - 1 : Tail(s)[i] = s[i + 1]
<1>1. ASSUME NEW e
      PROVE  /\ IsSequence(Append(s, e)) /\ Len(Append(s, e)) = Len(s) + 1
             /\ Append(s, e)[Len(s) + 1] = e
             /\ \A i \in 1 .. Len(s) : Append(s, e)[i] = s[i]
    <2> DEFINE S == {s[i] : i \in 1 .. Len(s)} \cup {e}
    <2>1. Len(s) \in Nat /\ s = [i \in 1 .. Len(s) |-> s[i]]
        BY DEF IsSequence
    <2>2. \A i \in 1 .. Len(s) : s[i] \in S
        OBVIOUS
    <2>3. e \in S
        OBVIOUS
    <2> HIDE DEF S
    <2>4. s \in Seq(S)
        BY <2>1, <2>2
    <2>5. Append(s, e) \in Seq(S) /\ Len(Append(s, e)) = Len(s) + 1
        BY <2>3, <2>4
    <2>6. Append(s, e)[Len(s) + 1] = e /\ \A i \in 1 .. Len(s) : Append(s, e)[i] = s[i]
        BY <2>3, <2>4
    <2>7. IsSequence(Append(s, e))
        <3>1. Append(s, e) \in [1 .. Len(Append(s, e)) -> S] /\ Len(Append(s, e)) \in Nat
            BY <2>5, LenProperties
        <3> DEFINE t == Append(s, e)
        <3> HIDE DEF t
        <3>2. t = [i \in 1 .. Len(t) |-> t[i]] /\ Len(t) \in Nat
            BY <3>1 DEF t
        <3> QED BY <3>2 DEF IsSequence, t
    <2> QED BY <2>5, <2>6, <2>7
<1>2. ASSUME s # <<>>
      PROVE  /\ Len(s) > 0 /\ IsSequence(Tail(s)) /\ Len(Tail(s)) = Len(s) - 1 /\ Head(s) = s[1]
             /\ \A i \in 1 .. Len(s) - 1 : Tail(s)[i] = s[i + 1]
    <2> DEFINE S == {s[i] : i \in 1 .. Len(s)}
    <2>1. Len(s) \in Nat /\ s = [i \in 1 .. Len(s) |-> s[i]]
        BY DEF IsSequence
    <2>2. \A i \in 1 .. Len(s) : s[i] \in S
        OBVIOUS
    <2> HIDE DEF S
    <2>4. s \in Seq(S)
        BY <2>1, <2>2
    <2>5. Len(s) > 0 /\ Tail(s) \in Seq(S) /\ Len(Tail(s)) = Len(s) - 1 /\ Head(s) = s[1]
        BY <1>2, <2>4
    <2>6. \A i \in 1 .. Len(s) - 1 : Tail(s)[i] = s[i + 1]
        BY <1>2, <2>4
    <2>7. IsSequence(Tail(s))
        <3>1. Tail(s) \in [1 .. Len(Tail(s)) -> S] /\ Len(Tail(s)) \in Nat
            BY <2>5, LenProperties
        <3> DEFINE t == Tail(s)
        <3> HIDE DEF t
        <3>2. t = [i \in 1 .. Len(t) |-> t[i]] /\ Len(t) \in Nat
            BY <3>1 DEF t
        <3> QED BY <3>2 DEF IsSequence, t
    <2> QED BY <2>5, <2>6, <2>7
<1> QED BY <1>1, <1>2

\* the download and the forecasts of a study
Frozen == study \in Studies /\ InOrderOfTime(candles) /\ InOrderOfTime(samples)

LEMMA WalkIsFrozen == ASSUME WalkInit PROVE Frozen
<1>1. PICK exchange \in Exchanges, s \in Studies :
         LET series == Download(exchange)
             n == Len(series)
             positions == Ascending(OriginPositions(n, s.requested))
             frozen == [i \in DOMAIN positions |->
                           Sample(series, positions[i], exchange.answers[1 + (positions[i] % Len(exchange.answers))])]
         IN  n - Longest > ContextCandles + 1 /\ study = s /\ candles = series /\ samples = frozen
    BY DEF WalkInit
<1> DEFINE series == Download(exchange)
           n == Len(series)
           P == OriginPositions(n, s.requested)
           c == Cardinality(P)
           positions == Ascending(P)
<1>2. InOrderOfTime(series)
    BY DownloadFacts
<1>3. n \in Nat /\ n - Longest > ContextCandles + 1 /\ s.requested \in Nat \ {0}
    BY <1>1, <1>2, StudyAssumption DEF InOrderOfTime
<1>4. P \in SUBSET (ContextCandles + 1 .. n - Longest) /\ IsFiniteSet(P)
    <2> HIDE DEF series, n
    <2> QED BY <1>3, PositionsFacts
<1>5. P \in SUBSET (1 .. n) /\ P \in SUBSET Int
    BY <1>3, <1>4, LongestFacts, StudyAssumption
<1> HIDE DEF P, n
<1>6. /\ c \in Nat /\ positions \in [1 .. c -> P]
      /\ \A i, j \in 1 .. c : i < j => positions[i] < positions[j]
    BY <1>4, <1>5, AscendingFacts, SMTT(30)
<1> HIDE DEF c, positions
<1>7. /\ DOMAIN samples = 1 .. c /\ samples = [i \in 1 .. c |-> samples[i]]
      /\ \A i \in 1 .. c : samples[i].at = series[positions[i]].at
    <2>1. DOMAIN positions = 1 .. c
        BY <1>6
    <2>2. samples = [i \in 1 .. c |->
                        Sample(series, positions[i], exchange.answers[1 + (positions[i] % Len(exchange.answers))])]
        BY <1>1, <2>1 DEF P, n, positions
    <2> HIDE DEF series
    <2> QED BY <2>2 DEF Sample
<1>8. Len(samples) = c
    BY <1>6, <1>7
<1>9. ASSUME NEW i \in 1 .. c PROVE samples[i].at \in Int
    <2>1. positions[i] \in 1 .. n
        BY <1>5, <1>6
    <2> QED BY <1>2, <1>7, <2>1 DEF InOrderOfTime, n
<1>10. ASSUME NEW i \in 1 .. c, NEW j \in 1 .. c, i < j PROVE samples[i].at < samples[j].at
    <2>1. positions[i] \in 1 .. n /\ positions[j] \in 1 .. n /\ positions[i] < positions[j]
        BY <1>5, <1>6, <1>10
    <2> HIDE DEF series
    <2>2. series[positions[i]].at < series[positions[j]].at
        BY <1>2, <2>1 DEF InOrderOfTime, n
    <2> QED BY <1>7, <2>2
<1>11. InOrderOfTime(samples)
    BY <1>6, <1>7, <1>8, <1>9, <1>10 DEF InOrderOfTime
<1> QED BY <1>1, <1>2, <1>11 DEF Frozen

-----------------------------------------------------------------------------
(* What a study learns from lies behind what it decides. *)

\* what is learned from, and what is still to be decided
LearnsBefore(learned, coming) ==
    /\ learned \subseteq DOMAIN samples /\ coming \subseteq DOMAIN samples
    /\ \A j \in learned, x \in coming : j < x

\* the times of the samples
LEMMA AtFacts ==
    ASSUME InOrderOfTime(samples)
    PROVE  /\ At \in Seq(Int) /\ Len(At) = Len(samples) /\ Len(samples) \in Nat
           /\ DOMAIN samples = 1 .. Len(samples) /\ IsFiniteSet(DOMAIN samples)
           /\ \A i \in 1 .. Len(samples) : At[i] = samples[i].at /\ At[i] \in Int
           /\ \A i, j \in 1 .. Len(samples) : i < j => At[i] < At[j]
<1> DEFINE n == Len(samples)
<1>1. n \in Nat /\ samples = [i \in 1 .. n |-> samples[i]]
    BY DEF InOrderOfTime
<1>2. DOMAIN samples = 1 .. n
    BY <1>1
<1>3. \A i \in 1 .. n : samples[i].at \in Int
    BY DEF InOrderOfTime
<1>4. \A i, j \in 1 .. n : i < j => samples[i].at < samples[j].at
    BY DEF InOrderOfTime
<1>5. At = [i \in 1 .. n |-> samples[i].at]
    BY <1>2 DEF At
<1>6. IsFiniteSet(1 .. n)
    BY <1>1, FS_Interval
<1> HIDE DEF n
<1>7. At \in Seq(Int) /\ Len(At) = n
    BY <1>1, <1>3, <1>5
<1> QED BY <1>1, <1>2, <1>3, <1>4, <1>5, <1>6, <1>7 DEF n

LEMMA SegmentsFacts ==
    ASSUME study \in Studies, InOrderOfTime(samples)
    PROVE  LET q == Segments(study, At)
           IN  /\ IsSequence(q)
               /\ \A i \in 1 .. Len(q) : /\ LearnsBefore(q[i].train, q[i].validation)
                                         /\ study.kind = "optimizer" => q[i].candidate # Missing
<1> DEFINE q == Segments(study, At)
           n == Len(samples)
           folds == Folds(At, study.settings, Longest)
           Walk(c) == [train |-> {}, validation |-> 1 .. Len(At), candidate |-> c]
<1>1. DOMAIN samples = 1 .. n /\ Len(At) = n /\ n \in Nat /\ At \in Seq(Int)
    BY AtFacts
<1> HIDE DEF n
<1>2. \A c : LearnsBefore(Walk(c).train, Walk(c).validation) /\ Walk(c).candidate = c
    BY <1>1 DEF LearnsBefore
<1>3. study.settings \in Settings /\ study.kind \in Kinds
    BY StudyAssumption
<1>4. Candidates \in Seq([models : SUBSET Models, least : Nat \ {0}, full : Nat, limit : Nat, floor : Nat, cap : Nat])
    BY StudyAssumption
<1>5. DOMAIN Candidates = 1 .. Len(Candidates) /\ Len(Candidates) \in Nat
    BY <1>4
<1>6. CASE study.kind \in {"optimizer", "shadow"}
    <2>1. q = [i \in 1 .. Len(Candidates) |-> Walk(Candidates[i])]
        BY <1>5, <1>6 DEF Segments
    <2>2. \A i \in 1 .. Len(Candidates) : Candidates[i] # Missing
        BY <1>5, StudyAssumption
    <2> HIDE DEF Walk, q
    <2>3. Len(q) = Len(Candidates) /\ \A i \in 1 .. Len(Candidates) : q[i] = Walk(Candidates[i])
        BY <1>5, <2>1
    <2>4. IsSequence(q)
        BY <1>5, <2>1, <2>3 DEF IsSequence
    <2> QED BY <1>2, <2>2, <2>3, <2>4 DEF q
<1>7. CASE study.kind = "uncertainty"
    <2>1. q = <<Walk(Missing)>>
        BY <1>7 DEF Segments
    <2> HIDE DEF Walk, q
    <2>2. Len(q) = 1 /\ q[1] = Walk(Missing) /\ q = [i \in 1 .. 1 |-> q[i]]
        BY <2>1
    <2>3. IsSequence(q)
        BY <2>2 DEF IsSequence
    <2>4. \A i \in 1 .. Len(q) : i = 1
        BY <2>2
    <2> QED BY <1>2, <1>7, <2>2, <2>3, <2>4 DEF q
<1>8. CASE study.kind \in {"backtest", "recency"} /\ folds = Missing
    <2>1. q = <<>>
        BY <1>8 DEF Segments
    <2> HIDE DEF q
    <2>2. Len(q) = 0 /\ q = [i \in 1 .. 0 |-> q[i]]
        BY <2>1
    <2>3. IsSequence(q)
        BY <2>2 DEF IsSequence
    <2> QED BY <2>2, <2>3 DEF q
<1>9. CASE study.kind \in {"backtest", "recency"} /\ folds # Missing
    <2> DEFINE s == study.settings
    <2>1. s.folds \in Int /\ s.least \in Int /\ s.purge \in Int /\ s.embargo \in Int
        BY <1>3 DEF Settings
    <2>2. Longest \in Nat
        BY LongestFacts
    <2> HIDE DEF s
    <2>3. Chunked(folds, At, s)
        <3>1. Folds(At, s, Longest) # Missing
            BY <1>9 DEF s
        <3>2. Chunked(Folds(At, s, Longest), At, s)
            BY <1>1, <2>1, <2>2, <3>1, FoldFacts
        <3> QED BY <3>2 DEF s
    <2>10. PICK k \in Nat \ {0} : \E start \in [1 .. k + 1 -> 1 .. n + 1] :
             /\ \A i \in 1 .. k : start[i] < start[i + 1]
             /\ folds = [i \in 1 .. k |-> [train |-> Eligible(At, start[i], s),
                                           validation |-> start[i] .. start[i + 1] - 1]]
        BY <1>1, <2>3 DEF Chunked, n
    <2>4. PICK start \in [1 .. k + 1 -> 1 .. n + 1] :
             /\ \A i \in 1 .. k : start[i] < start[i + 1]
             /\ folds = [i \in 1 .. k |-> [train |-> Eligible(At, start[i], s),
                                           validation |-> start[i] .. start[i + 1] - 1]]
        BY <2>10
    <2>5. DOMAIN folds = 1 .. k
        BY <2>4
    <2> DEFINE part(i) == [train |-> folds[i].train, validation |-> folds[i].validation, candidate |-> Missing]
    <2>6. q = [i \in 1 .. k |-> part(i)]
        BY <1>9, <2>5 DEF Segments
    <2>7. ASSUME NEW i \in 1 .. k PROVE LearnsBefore(part(i).train, part(i).validation)
        <3>1. /\ part(i).train = Eligible(At, start[i], s)
              /\ part(i).validation = start[i] .. start[i + 1] - 1
            BY <2>4
        <3>2. start[i] \in 1 .. n + 1 /\ start[i + 1] \in 1 .. n + 1
            BY <2>4
        <3>3. Eligible(At, start[i], s) \subseteq 1 .. start[i] - 1
            BY EligibleFacts
        <3> DEFINE a == start[i]
                   b == start[i + 1]
                   T == part(i).train
                   V == part(i).validation
        <3>4. a \in 1 .. n + 1 /\ b \in 1 .. n + 1 /\ T \subseteq 1 .. a - 1 /\ V = a .. b - 1
            BY <3>1, <3>2, <3>3
        <3> HIDE DEF a, b, T, V
        <3>5. T \subseteq 1 .. n /\ V \subseteq 1 .. n /\ \A j \in T, x \in V : j < x
            BY <1>1, <3>4
        <3> QED BY <1>1, <3>5 DEF LearnsBefore, T, V
    <2> HIDE DEF part, q
    <2>8. Len(q) = k /\ \A i \in 1 .. k : q[i] = part(i)
        BY <2>6
    <2>9. IsSequence(q)
        BY <2>6, <2>8 DEF IsSequence
    <2> QED BY <1>9, <2>7, <2>8, <2>9 DEF q
<1> QED BY <1>3, <1>6, <1>7, <1>8, <1>9 DEF Kinds

\* a fold at the start of its walk: what it may learn from is behind
LEMMA NewestFacts ==
    ASSUME NEW positions PROVE NewestPositions(positions) \subseteq positions
BY DEF NewestPositions

\* The segments to come learn from what is before them.
Planned ==
    /\ IsSequence(queue)
    /\ \A i \in 1 .. Len(queue) : /\ LearnsBefore(queue[i].train, queue[i].validation)
                                  /\ study.kind = "optimizer" => queue[i].candidate # Missing

\* The segment being walked has learned from nothing it still has to decide, and a
\* candidate of the optimizer is replayed with its own parameters.
Underway ==
    /\ LearnsBefore(history, segment.validation)
    /\ study.kind = "optimizer" /\ segment.validation # {}
          => segment.candidate # Missing /\ installed = Parameters(segment.candidate)

WalkInv == Frozen /\ Planned /\ Underway /\ IsSequence(rows)

\* The closes by a time are the closes there are, of the candles by that time.
LEMMA ClosesByFacts ==
    ASSUME InOrderOfTime(candles), NEW time \in Int
    PROVE  /\ DOMAIN Actuals(CandlesBy(time)) = {t \in DOMAIN Actuals(candles) : t <= time}
           /\ \A t \in DOMAIN Actuals(CandlesBy(time)) : Actuals(CandlesBy(time))[t] = Actuals(candles)[t]
<1> DEFINE n == Len(candles)
           D == {j \in 1 .. n : candles[j].at <= time}
           by == CandlesBy(time)
<1>1. /\ n \in Nat /\ DOMAIN candles = 1 .. n
      /\ \A i \in 1 .. n : candles[i].at \in Int
      /\ \A i, j \in 1 .. n : i < j => candles[i].at < candles[j].at
    BY DEF InOrderOfTime
<1>2. ASSUME NEW i \in 1 .. n, NEW j \in 1 .. n, candles[i].at = candles[j].at PROVE i = j
    <2>1. ~(i < j) /\ ~(j < i)
        BY <1>1, <1>2
    <2> QED BY <2>1
<1>3. DOMAIN by = D /\ \A i \in D : by[i] = candles[i]
    BY <1>1 DEF CandlesBy
<1>4. D \subseteq 1 .. n
    OBVIOUS
<1> HIDE DEF n, by
<1>5. ASSUME NEW i \in 1 .. n
      PROVE  Actuals(candles)[candles[i].at] = candles[i].close /\ candles[i].at \in DOMAIN Actuals(candles)
    <2> DEFINE C == {candles[j] : j \in DOMAIN candles}
    <2>1. candles[i] \in C /\ \A c \in C : c.at = candles[i].at => c = candles[i]
        BY <1>1, <1>2
    <2>2. (CHOOSE c \in C : c.at = candles[i].at) = candles[i]
        BY <2>1
    <2>3. candles[i].at \in {candles[j].at : j \in DOMAIN candles}
        BY <1>1
    <2> QED BY <2>2, <2>3 DEF Actuals
<1>6. ASSUME NEW i \in D
      PROVE  Actuals(by)[candles[i].at] = candles[i].close /\ candles[i].at \in DOMAIN Actuals(by)
    <2> DEFINE C == {by[j] : j \in DOMAIN by}
    <2>1. by[i] \in C /\ by[i] = candles[i]
        BY <1>3
    <2>2. \A c \in C : c.at = candles[i].at => c = candles[i]
        BY <1>2, <1>3, <1>4
    <2>3. (CHOOSE c \in C : c.at = candles[i].at) = candles[i]
        BY <2>1, <2>2
    <2>4. candles[i].at \in {by[j].at : j \in DOMAIN by}
        BY <1>3
    <2> QED BY <2>3, <2>4 DEF Actuals
<1>7. DOMAIN Actuals(candles) = {candles[i].at : i \in 1 .. n}
    BY <1>1 DEF Actuals
<1>8. DOMAIN Actuals(by) = {candles[i].at : i \in D}
    BY <1>3 DEF Actuals
<1>9. DOMAIN Actuals(by) = {t \in DOMAIN Actuals(candles) : t <= time}
    BY <1>7, <1>8
<1>10. ASSUME NEW t \in DOMAIN Actuals(by) PROVE Actuals(by)[t] = Actuals(candles)[t]
    <2>1. PICK i \in D : t = candles[i].at
        BY <1>8
    <2> QED BY <1>4, <1>5, <1>6, <2>1
<1> QED BY <1>9, <1>10 DEF by

\* What a forecast may see is the same when there is nothing after its origin.
LEMMA OnlyThePastCounts ==
    ASSUME InOrderOfTime(candles), NEW time \in Int
    PROVE  /\ Visible(Actuals(CandlesBy(time)), time) = Visible(Actuals(candles), time)
           /\ \A snapshots, h : OutcomesOf(snapshots, Actuals(CandlesBy(time)), h, time)
                                   = OutcomesOf(snapshots, Actuals(candles), h, time)
<1> DEFINE A == Actuals(candles)
           B == Actuals(CandlesBy(time))
<1>1. /\ DOMAIN B = {t \in DOMAIN A : t <= time}
      /\ \A t \in DOMAIN B : B[t] = A[t]
    BY ClosesByFacts
<1> HIDE DEF A, B
<1>2. Visible(B, time) = Visible(A, time)
    <2>1. {u \in DOMAIN B : u <= time} = {u \in DOMAIN A : u <= time}
        BY <1>1
    <2>2. \A t \in {u \in DOMAIN A : u <= time} : B[t] = A[t]
        BY <1>1
    <2> QED BY <2>1, <2>2 DEF Visible
<1>3. ASSUME NEW snapshots, NEW h PROVE OutcomesOf(snapshots, B, h, time) = OutcomesOf(snapshots, A, h, time)
    <2> DEFINE K(X) == {<<o, h>> : o \in Observed(snapshots, X, h, time)}
    <2>1. Observed(snapshots, B, h, time) = Observed(snapshots, A, h, time)
        BY <1>1 DEF Observed
    <2>2. K(B) = K(A)
        BY <2>1
    <2>3. ASSUME NEW k \in K(A) PROVE B[k[1] + Hour * h] = A[k[1] + Hour * h]
        <3>1. PICK o \in Observed(snapshots, B, h, time) : k = <<o, h>>
            BY <2>1
        <3>2. k[1] = o /\ o + Hour * h \in DOMAIN B
            BY <3>1 DEF Observed
        <3> QED BY <1>1, <3>2
    <2>4. [k \in K(B) |-> B[k[1] + Hour * h]] = [k \in K(A) |-> A[k[1] + Hour * h]]
        BY <2>2, <2>3
    <2> QED BY <2>4 DEF OutcomesOf
<1> QED BY <1>2, <1>3 DEF A, B

\* What is decided depends on the outcomes only as far as they can be seen, and on the
\* parameters in the module of production only when a candidate of the optimizer is
\* replayed.
LEMMA DecideFacts ==
    ASSUME NEW kind \in Kinds, NEW candidate, NEW p, NEW q, kind = "optimizer" => p = q,
           NEW snapshots, NEW A, NEW B, NEW sample, NEW h, NEW confidence,
           Visible(A, sample.at) = Visible(B, sample.at)
    PROVE  Decide(kind, candidate, p, snapshots, A, sample, h, confidence)
              = Decide(kind, candidate, q, snapshots, B, sample, h, confidence)
<1>1. CASE kind = "backtest"
    BY <1>1 DEF Decide
<1>2. CASE kind = "shadow"
    BY <1>2 DEF Decide
<1>3. CASE kind = "optimizer"
    BY <1>3 DEF Decide
<1>4. CASE kind = "recency"
    BY <1>4 DEF Decide
<1>5. CASE kind = "uncertainty"
    BY <1>5 DEF Decide
<1> QED BY <1>1, <1>2, <1>3, <1>4, <1>5 DEF Kinds

LEMMA SeverityFacts ==
    ASSUME NEW kind, NEW snapshots, NEW A, NEW B, NEW sample,
           \A h : OutcomesOf(snapshots, A, h, sample.at) = OutcomesOf(snapshots, B, h, sample.at)
    PROVE  Severity(kind, snapshots, A, sample) = Severity(kind, snapshots, B, sample)
<1>1. [h \in Horizons |-> OutcomesOf(snapshots, A, h, sample.at)]
          = [h \in Horizons |-> OutcomesOf(snapshots, B, h, sample.at)]
    OBVIOUS
<1>2. DriftAt(snapshots, A, sample.at, sample.features) = DriftAt(snapshots, B, sample.at, sample.features)
    BY <1>1 DEF DriftAt
<1> QED BY <1>2 DEF Severity

LEMMA WalkStarts == ASSUME WalkInit PROVE WalkInv /\ WeightsSeeThePast
<1>1. Frozen
    BY WalkIsFrozen
<1>2. /\ queue = Segments(study, [i \in DOMAIN samples |-> samples[i].at])
      /\ segment = Idle /\ history = {} /\ rows = <<>>
    BY DEF WalkInit
<1>3. Planned
    <2>1. queue = Segments(study, At)
        BY <1>2 DEF At
    <2> QED BY <1>1, <2>1, SegmentsFacts DEF Frozen, Planned
<1>4. Underway
    BY <1>2 DEF Underway, LearnsBefore, Idle
<1>5. IsSequence(rows)
    <2>1. Len(<<>>) = 0 /\ <<>> = [i \in 1 .. 0 |-> <<>>[i]]
        OBVIOUS
    <2> QED BY <1>2, <2>1 DEF IsSequence
<1>6. WeightsSeeThePast
    BY <1>2 DEF WeightsSeeThePast
<1> QED BY <1>1, <1>3, <1>4, <1>5, <1>6 DEF WalkInv

\* The download, the forecasts and the study stay what they are.
LEMMA FrozenStays ==
    ASSUME Frozen, UNCHANGED <<study, candles, samples>>
    PROVE  /\ Frozen' /\ At' = At
           /\ \A learned, coming : LearnsBefore(learned, coming) => LearnsBefore(learned, coming)'
BY DEF Frozen, At, LearnsBefore

LEMMA RowsStay ==
    ASSUME WeightsSeeThePast, UNCHANGED <<study, candles, samples, rows>>
    PROVE  WeightsSeeThePast'
<1>1. At' = At /\ \A time : CandlesBy(time)' = CandlesBy(time)
    BY DEF At, CandlesBy
<1>2. LastRow' = LastRow
    BY DEF LastRow
<1>3. \A positions : Snapshots(positions)' = Snapshots(positions)
    BY DEF Snapshots
<1> QED BY <1>1, <1>2, <1>3 DEF WeightsSeeThePast

LEMMA WalkBegins == ASSUME WalkInv, Begin PROVE WalkInv'
<1> DEFINE next == Head(queue)
<1>1. /\ queue # <<>> /\ queue' = Tail(queue) /\ UNCHANGED <<study, candles, samples, rows>>
      /\ segment'.validation = next.validation /\ segment'.candidate = next.candidate
      /\ history' = NewestPositions(next.train)
      /\ study.kind = "optimizer" => installed' = Parameters(next.candidate)
    BY DEF Begin, Applied
<1>2. Frozen /\ Planned /\ IsSequence(queue) /\ IsSequence(rows)
    BY DEF WalkInv, Planned
<1>3. /\ Len(queue) \in Nat /\ Len(queue) > 0 /\ IsSequence(Tail(queue)) /\ Len(Tail(queue)) = Len(queue) - 1
      /\ next = queue[1] /\ \A i \in 1 .. Len(queue) - 1 : Tail(queue)[i] = queue[i + 1]
    BY <1>1, <1>2, SequenceFacts DEF IsSequence
<1>4. Planned'
    <2>1. ASSUME NEW i \in 1 .. Len(queue) - 1
          PROVE  /\ LearnsBefore(queue[i + 1].train, queue[i + 1].validation)
                 /\ study.kind = "optimizer" => queue[i + 1].candidate # Missing
        <3>1. i + 1 \in 1 .. Len(queue)
            BY <1>3
        <3> QED BY <1>2, <3>1 DEF Planned
    <2>2. Len(queue') = Len(queue) - 1 /\ \A i \in 1 .. Len(queue) - 1 : queue'[i] = queue[i + 1]
        BY <1>1, <1>3
    <2>3. \A i \in 1 .. Len(queue') : /\ LearnsBefore(queue'[i].train, queue'[i].validation)
                                      /\ study.kind = "optimizer" => queue'[i].candidate # Missing
        BY <2>1, <2>2
    <2>4. IsSequence(queue')
        BY <1>1, <1>3
    <2> QED BY <1>1, <2>3, <2>4 DEF Planned, IsSequence, LearnsBefore
<1>5. LearnsBefore(next.train, next.validation) /\ (study.kind = "optimizer" => next.candidate # Missing)
    <2>1. 1 \in 1 .. Len(queue)
        BY <1>3
    <2> QED BY <1>2, <1>3, <2>1 DEF Planned
<1>6. Underway'
    <2>1. LearnsBefore(history', segment'.validation)
        BY <1>1, <1>5, NewestFacts DEF LearnsBefore
    <2>2. LearnsBefore(history, segment.validation)'
        BY <1>1, <2>1 DEF LearnsBefore
    <2> QED BY <1>1, <1>5, <2>2 DEF Underway
<1>7. Frozen' /\ IsSequence(rows)'
    BY <1>1, <1>2, FrozenStays DEF IsSequence
<1> QED BY <1>4, <1>6, <1>7 DEF WalkInv

\* The position that is decided, and what is left to decide.
LEMMA ComingFacts ==
    ASSUME Frozen, NEW learned, NEW coming, LearnsBefore(learned, coming), coming # {}
    PROVE  /\ Min(coming) \in coming /\ coming \subseteq 1 .. Len(samples)
           /\ LearnsBefore(learned \cup {Min(coming)}, coming \ {Min(coming)})
           /\ LearnsBefore(learned, coming \ {Min(coming)})
<1>1. /\ DOMAIN samples = 1 .. Len(samples) /\ IsFiniteSet(DOMAIN samples) /\ Len(samples) \in Nat
    BY AtFacts DEF Frozen
<1>2. coming \in SUBSET Int /\ IsFiniteSet(coming)
    BY <1>1, FS_Subset DEF LearnsBefore
<1>3. Min(coming) \in coming /\ \A x \in coming : Min(coming) <= x
    BY <1>2, MinFacts
<1> DEFINE i == Min(coming)
<1> HIDE DEF i
<1>4. i \in coming /\ \A x \in coming \ {i} : i < x
    <2>1. i \in coming /\ \A x \in coming : i <= x
        BY <1>3, SMTT(30) DEF i
    <2> QED BY <1>2, <2>1
<1> QED BY <1>1, <1>4 DEF LearnsBefore, i

LEMMA WalkReplays == ASSUME WalkInv, Replay PROVE WalkInv' /\ WeightsSeeThePast'
<1> DEFINE i == Min(segment.validation)
           sample == samples[i]
           snapshots == Snapshots(history)
           A == Actuals(candles)
           B == Actuals(CandlesBy(sample.at))
           severity == Severity(study.kind, snapshots, A, sample)
           weights == Table([h \in Horizons |->
                          Decide(study.kind, segment.candidate, installed, snapshots, A, sample, h,
                                 ConfidenceOf(study, severity))])
           row == [position |-> i, start |-> segment.start, candidate |-> segment.candidate, learned |-> history,
                   severity |-> severity, weights |-> weights,
                   scores |-> [h \in Horizons |->
                       [p \in DOMAIN weights[h] |-> Scored(sample, weights[h][p], h)]]]
<1>1. /\ segment.validation # {} /\ rows' = Append(rows, row)
      /\ history' \subseteq history \cup {i}
      /\ segment' = [segment EXCEPT !.validation = @ \ {i}]
      /\ UNCHANGED <<study, candles, samples, queue, installed>>
    BY NewestFacts DEF Replay
<1>2. Frozen /\ Planned /\ IsSequence(rows) /\ Underway
    BY DEF WalkInv
<1>3. /\ row.position = i /\ row.candidate = segment.candidate /\ row.learned = history
      /\ row.severity = severity /\ row.weights = weights
    OBVIOUS
<1> DEFINE r == row
<1> HIDE DEF r
<1>4. IsSequence(rows') /\ rows'[Len(rows')] = r /\ rows' # <<>>
    <2>1. rows' = Append(rows, r)
        BY <1>1 DEF r
    <2>2. /\ IsSequence(Append(rows, r)) /\ Len(Append(rows, r)) = Len(rows) + 1 /\ Append(rows, r)[Len(rows) + 1] = r
          /\ Len(rows) \in Nat
        BY <1>2, SequenceFacts DEF IsSequence
    <2>3. Len(<<>>) = 0
        OBVIOUS
    <2> QED BY <2>1, <2>2, <2>3
<1>5. /\ i \in segment.validation /\ segment.validation \subseteq 1 .. Len(samples)
      /\ LearnsBefore(history \cup {i}, segment.validation \ {i})
    BY <1>1, <1>2, ComingFacts DEF Underway
<1>6. sample.at \in Int /\ \A j \in history : At[j] < sample.at
    <2>1. /\ i \in 1 .. Len(samples) /\ DOMAIN samples = 1 .. Len(samples)
          /\ \A j \in 1 .. Len(samples) : At[j] = samples[j].at /\ At[j] \in Int
          /\ \A j, k \in 1 .. Len(samples) : j < k => At[j] < At[k]
        BY <1>2, <1>5, AtFacts DEF Frozen
    <2>2. ASSUME NEW j \in history PROVE j \in 1 .. Len(samples) /\ j < i
        BY <1>2, <1>5, <2>1 DEF Underway, LearnsBefore
    <2> HIDE DEF i
    <2> QED BY <2>1, <2>2
<1>7. /\ Visible(B, sample.at) = Visible(A, sample.at)
      /\ \A s, h : OutcomesOf(s, B, h, sample.at) = OutcomesOf(s, A, h, sample.at)
    BY <1>2, <1>6, OnlyThePastCounts DEF Frozen
<1>8. severity = Severity(study.kind, snapshots, B, sample)
    <2> HIDE DEF A, B, sample, snapshots
    <2> QED BY <1>7, SeverityFacts
<1> DEFINE parameters == IF segment.candidate = Missing THEN Production ELSE Parameters(segment.candidate)
           confidence == ConfidenceOf(study, severity)
<1>9. ASSUME NEW h \in Horizons
      PROVE  weights[h] = Decide(study.kind, segment.candidate, parameters, snapshots, B, sample, h, confidence)
    <2>1. study.kind \in Kinds
        BY <1>2, StudyAssumption DEF Frozen
    <2>2. study.kind = "optimizer" => parameters = installed
        BY <1>1, <1>2 DEF Underway
    <2>3. weights[h] = Decide(study.kind, segment.candidate, installed, snapshots, A, sample, h, confidence)
        BY TableFacts
    <2> HIDE DEF A, B, sample, snapshots, confidence, parameters, weights
    <2> QED BY <1>7, <2>1, <2>2, <2>3, DecideFacts
<1> DEFINE Was(l, s, p, c, w) ==
               /\ \A j \in l : At[j] < samples[p].at
               /\ s = Severity(study.kind, Snapshots(l), Actuals(CandlesBy(samples[p].at)), samples[p])
               /\ \A h \in Horizons :
                     w[h] = Decide(study.kind, c, IF c = Missing THEN Production ELSE Parameters(c), Snapshots(l),
                                   Actuals(CandlesBy(samples[p].at)), samples[p], h, ConfidenceOf(study, s))
<1>10. Was(history, severity, i, segment.candidate, weights)
    BY <1>6, <1>8, <1>9
<1>11. Was(r.learned, r.severity, r.position, r.candidate, r.weights)
    BY <1>3, <1>10 DEF r
<1>12. WeightsSeeThePast'
    <2>1. At' = At /\ \A time : CandlesBy(time)' = CandlesBy(time)
        BY <1>1 DEF At, CandlesBy
    <2>2. \A positions : Snapshots(positions)' = Snapshots(positions)
        BY <1>1 DEF Snapshots
    <2>3. LastRow' = r
        BY <1>4 DEF LastRow
    <2> HIDE DEF r
    <2> QED BY <1>1, <1>11, <2>1, <2>2, <2>3 DEF WeightsSeeThePast
<1>13. Planned'
    BY <1>1, <1>2, FrozenStays DEF Planned, IsSequence
<1>14. Underway'
    <2>1. LearnsBefore(history', segment.validation \ {i})
        BY <1>1, <1>5 DEF LearnsBefore
    <2>2. segment'.validation = segment.validation \ {i} /\ segment'.candidate = segment.candidate
        BY <1>1
    <2> QED BY <1>1, <1>2, <2>1, <2>2 DEF Underway, LearnsBefore
<1> QED BY <1>1, <1>2, <1>4, <1>12, <1>13, <1>14, FrozenStays, Zenon DEF WalkInv, IsSequence

LEMMA WalkFails == ASSUME WalkInv, FailToForecast PROVE WalkInv'
<1> DEFINE i == Min(segment.validation)
<1>1. /\ segment.validation # {} /\ segment' = [segment EXCEPT !.validation = @ \ {i}]
      /\ UNCHANGED <<study, candles, samples, queue, history, installed, rows>>
    BY DEF FailToForecast
<1>2. Frozen /\ Planned /\ IsSequence(rows) /\ Underway
    BY DEF WalkInv
<1>3. LearnsBefore(history, segment.validation \ {i})
    BY <1>1, <1>2, ComingFacts DEF Underway
<1>4. segment'.validation = segment.validation \ {i} /\ segment'.candidate = segment.candidate
    BY <1>1
<1>5. Underway'
    BY <1>1, <1>2, <1>3, <1>4 DEF Underway, LearnsBefore
<1>6. Planned'
    BY <1>1, <1>2 DEF Planned, IsSequence, LearnsBefore
<1> QED BY <1>1, <1>2, <1>5, <1>6, FrozenStays DEF WalkInv, IsSequence

LEMMA WalkFinishes == ASSUME WalkInv, Finish PROVE WalkInv'
<1>1. /\ segment' = Idle /\ history' = {} /\ queue' \in {queue, <<>>}
      /\ UNCHANGED <<study, candles, samples, rows>>
    BY DEF Finish
<1>2. Frozen /\ Planned /\ IsSequence(rows) /\ Underway
    BY DEF WalkInv
<1>3. Underway'
    BY <1>1 DEF Underway, LearnsBefore, Idle
<1>4. Planned'
    <2>1. CASE queue' = queue
        BY <1>1, <1>2, <2>1 DEF Planned, IsSequence, LearnsBefore
    <2>2. CASE queue' = <<>>
        <3>1. Len(<<>>) = 0 /\ <<>> = [i \in 1 .. 0 |-> <<>>[i]]
            OBVIOUS
        <3> QED BY <2>2, <3>1 DEF Planned, IsSequence
    <2> QED BY <1>1, <2>1, <2>2
<1> QED BY <1>1, <1>2, <1>3, <1>4, FrozenStays DEF WalkInv, IsSequence

LEMMA WalkStutters == ASSUME WalkInv, UNCHANGED walkVars PROVE WalkInv'
<1>1. Frozen /\ Planned /\ IsSequence(rows) /\ Underway
    BY DEF WalkInv
<1>2. UNCHANGED <<study, candles, samples, queue, segment, history, installed, rows>>
    BY DEF walkVars
<1>3. Planned' /\ Underway' /\ IsSequence(rows)'
    BY <1>1, <1>2 DEF Planned, Underway, IsSequence, LearnsBefore
<1> QED BY <1>1, <1>2, <1>3, FrozenStays DEF WalkInv

\* No look-ahead in a replay: whatever the market, the study and the policies, the weights of
\* an origin and the drift that shrinks them are those of the candles up to it.
THEOREM ReplaysSeeThePast == WalkSpec => []WeightsSeeThePast
<1> DEFINE Inv == WalkInv /\ WeightsSeeThePast
<1>1. WalkInit => Inv
    BY WalkStarts
<1>2. Inv /\ [WalkNext]_walkVars => Inv'
    <2> SUFFICES ASSUME Inv, [WalkNext]_walkVars PROVE Inv'
        OBVIOUS
    <2>1. CASE Begin
        <3>1. UNCHANGED <<study, candles, samples, rows>>
            BY <2>1 DEF Begin
        <3> QED BY <2>1, <3>1, WalkBegins, RowsStay
    <2>2. CASE Replay
        BY <2>2, WalkReplays
    <2>3. CASE FailToForecast
        <3>1. UNCHANGED <<study, candles, samples, rows>>
            BY <2>3 DEF FailToForecast
        <3> QED BY <2>3, <3>1, WalkFails, RowsStay
    <2>4. CASE Finish
        <3>1. UNCHANGED <<study, candles, samples, rows>>
            BY <2>4 DEF Finish
        <3> QED BY <2>4, <3>1, WalkFinishes, RowsStay
    <2>5. CASE UNCHANGED walkVars
        <3>1. UNCHANGED <<study, candles, samples, rows>>
            BY <2>5 DEF walkVars
        <3> QED BY <2>5, <3>1, WalkStutters, RowsStay
    <2> QED BY <2>1, <2>2, <2>3, <2>4, <2>5 DEF WalkNext
<1>3. Inv => WeightsSeeThePast
    OBVIOUS
<1> QED BY <1>1, <1>2, <1>3, PTL DEF WalkSpec

-----------------------------------------------------------------------------
(* The folds of a study, walked one after the other. *)

\* the folds of the study, where each starts, and how many have been begun
StudyFolds == Folds(At, study.settings, Longest)

FoldStart(d) == IF d = Len(StudyFolds) + 1 THEN Len(samples) + 1 ELSE Min(StudyFolds[d].validation)

Begun == Len(StudyFolds) - Len(queue)

\* the last position that was decided
Decided == study.settings.least + Len(rows)

\* a sample whose longest target was due before a position, the embargo away
DueBefore(j, start) == At[j] + Hour * (Longest + study.settings.embargo) <= At[start]

\* what a decision learned from is of its block, or was due before it
LearnedOfFold(learned, start, position) ==
    \A j \in learned : j \in start .. position - 1 \/ DueBefore(j, start)

RowsOfFolds ==
    \A i \in 1 .. Len(rows) : /\ rows[i].position = study.settings.least + i
                              /\ LearnedOfFold(rows[i].learned, rows[i].start, rows[i].position)

\* The folds still to come are queued in order, the one begun has what follows the last
\* decision and ends where the next one starts.
OnFolds ==
    LET next == FoldStart(Begun + 1)
    IN  /\ Begun \in 0 .. Len(StudyFolds)
        /\ \A i \in 1 .. Len(queue) : /\ queue[i].train = StudyFolds[Begun + i].train
                                      /\ queue[i].validation = StudyFolds[Begun + i].validation
                                      /\ queue[i].candidate = Missing
        /\ Decided < next /\ segment.validation = Decided + 1 .. next - 1
        /\ segment.candidate = Missing
        /\ segment.validation # {} => /\ segment.start \in 1 .. Decided + 1
                                      /\ LearnedOfFold(history, segment.start, Decided + 1)

\* A study of folds decides along its folds; one that has none decides nothing.
FoldInv ==
    study.kind \in {"backtest", "recency"} =>
        /\ RowsOfFolds
        /\ StudyFolds = Missing => queue = <<>> /\ segment = Idle /\ rows = <<>>
        /\ StudyFolds # Missing => OnFolds

LEMMA StudyFoldsFacts ==
    ASSUME Frozen, StudyFolds # Missing
    PROVE  LET k == Len(StudyFolds)
               n == Len(samples)
           IN  /\ k \in Nat \ {0} /\ DOMAIN StudyFolds = 1 .. k /\ n \in Nat
               /\ study.settings.least \in Nat \ {0}
               /\ FoldStart(1) = study.settings.least + 1 /\ FoldStart(k + 1) = n + 1
               /\ \A d \in 1 .. k + 1 : FoldStart(d) \in 1 .. n + 1
               /\ \A d \in 1 .. k : /\ FoldStart(d) < FoldStart(d + 1) /\ FoldStart(d) \in 1 .. n
                                    /\ StudyFolds[d].validation = FoldStart(d) .. FoldStart(d + 1) - 1
                                    /\ Min(StudyFolds[d].validation) = FoldStart(d)
                                    /\ StudyFolds[d].train = Eligible(At, FoldStart(d), study.settings)
                                    /\ \A j \in StudyFolds[d].train : DueBefore(j, FoldStart(d))
<1> DEFINE s == study.settings
           n == Len(samples)
<1>1. At \in Seq(Int) /\ Len(At) = n /\ n \in Nat
    BY AtFacts DEF Frozen
<1>2. /\ s.folds \in Int /\ s.least \in Int /\ s.purge \in Int /\ s.embargo \in Int /\ Longest \in Nat
    BY StudyAssumption, LongestFacts DEF Frozen, Settings
<1>3. Folds(At, s, Longest) # Missing
    BY DEF StudyFolds
<1> HIDE DEF s, n
<1>4. /\ s.least >= 1 /\ s.purge >= Longest /\ Chunked(Folds(At, s, Longest), At, s)
    BY <1>1, <1>2, <1>3, FoldFacts
<1>5. PICK k \in Nat \ {0} : \E start \in [1 .. k + 1 -> 1 .. n + 1] :
        /\ start[1] = s.least + 1 /\ start[k + 1] = n + 1
        /\ \A d \in 1 .. k : start[d] < start[d + 1] /\ Min(start[d] .. start[d + 1] - 1) = start[d]
        /\ StudyFolds = [d \in 1 .. k |-> [train |-> Eligible(At, start[d], s),
                                          validation |-> start[d] .. start[d + 1] - 1]]
    BY <1>1, <1>4 DEF Chunked, StudyFolds, s
<1>6. PICK start \in [1 .. k + 1 -> 1 .. n + 1] :
        /\ start[1] = s.least + 1 /\ start[k + 1] = n + 1
        /\ \A d \in 1 .. k : start[d] < start[d + 1] /\ Min(start[d] .. start[d + 1] - 1) = start[d]
        /\ StudyFolds = [d \in 1 .. k |-> [train |-> Eligible(At, start[d], s),
                                          validation |-> start[d] .. start[d + 1] - 1]]
    BY <1>5
<1>7. /\ DOMAIN StudyFolds = 1 .. k /\ Len(StudyFolds) = k
      /\ \A d \in 1 .. k : /\ StudyFolds[d].train = Eligible(At, start[d], s)
                           /\ StudyFolds[d].validation = start[d] .. start[d + 1] - 1
    BY <1>6
<1>8. \A d \in 1 .. k + 1 : FoldStart(d) = start[d]
    <2>1. ASSUME NEW d \in 1 .. k PROVE FoldStart(d) = start[d]
        BY <1>6, <1>7 DEF FoldStart
    <2>2. FoldStart(k + 1) = start[k + 1]
        BY <1>6, <1>7 DEF FoldStart, n
    <2> QED BY <2>1, <2>2
<1>9. ASSUME NEW d \in 1 .. k
      PROVE  /\ FoldStart(d) = start[d] /\ FoldStart(d + 1) = start[d + 1] /\ start[d] \in 1 .. n + 1
             /\ start[d + 1] \in 1 .. n + 1 /\ start[d] < start[d + 1]
    <2>1. d \in 1 .. k + 1 /\ d + 1 \in 1 .. k + 1
        OBVIOUS
    <2> QED BY <1>6, <1>8, <2>1
<1>10. ASSUME NEW d \in 1 .. k
       PROVE  /\ FoldStart(d) < FoldStart(d + 1) /\ FoldStart(d) \in 1 .. n
              /\ StudyFolds[d].validation = FoldStart(d) .. FoldStart(d + 1) - 1
              /\ Min(StudyFolds[d].validation) = FoldStart(d)
              /\ StudyFolds[d].train = Eligible(At, FoldStart(d), s)
              /\ \A j \in StudyFolds[d].train : DueBefore(j, FoldStart(d))
    <2>1. /\ FoldStart(d) < FoldStart(d + 1)
          /\ StudyFolds[d].validation = FoldStart(d) .. FoldStart(d + 1) - 1
          /\ Min(StudyFolds[d].validation) = FoldStart(d)
          /\ StudyFolds[d].train = Eligible(At, FoldStart(d), s)
        BY <1>6, <1>7, <1>9
    <2>2. FoldStart(d) \in 1 .. Len(At)
        BY <1>1, <1>9
    <2>3. \A j \in Eligible(At, FoldStart(d), s) : DueBefore(j, FoldStart(d))
        <3> DEFINE first == FoldStart(d)
        <3> HIDE DEF first
        <3>1. first \in 1 .. Len(At)
            BY <2>2 DEF first
        <3>2. \A j \in Eligible(At, first, s) : At[j] + Hour * (Longest + s.embargo) <= At[first]
            BY <1>1, <1>2, <1>4, <3>1, EligibleIsDue
        <3> QED BY <3>2 DEF DueBefore, first, s
    <2> QED BY <1>1, <2>1, <2>2, <2>3
<1>11. FoldStart(1) = s.least + 1 /\ FoldStart(k + 1) = n + 1 /\ \A d \in 1 .. k + 1 : FoldStart(d) \in 1 .. n + 1
    BY <1>6, <1>8
<1>12. s.least \in Nat \ {0}
    BY <1>2, <1>4
<1> QED BY <1>1, <1>7, <1>10, <1>11, <1>12 DEF s, n

LEMMA FoldsStart == ASSUME WalkInit PROVE FoldInv
<1>1. Frozen /\ queue = Segments(study, At) /\ segment = Idle /\ rows = <<>>
    <2>1. queue = Segments(study, [i \in DOMAIN samples |-> samples[i].at]) /\ segment = Idle /\ rows = <<>>
        BY DEF WalkInit
    <2> QED BY <2>1, WalkIsFrozen DEF At
<1>2. Len(rows) = 0
    BY <1>1
<1>3. RowsOfFolds
    BY <1>2 DEF RowsOfFolds
<1>4. ASSUME study.kind \in {"backtest", "recency"}, StudyFolds = Missing PROVE queue = <<>>
    BY <1>1, <1>4 DEF Segments, StudyFolds
<1>5. ASSUME study.kind \in {"backtest", "recency"}, StudyFolds # Missing PROVE OnFolds
    <2> DEFINE k == Len(StudyFolds)
               part(i) == [train |-> StudyFolds[i].train, validation |-> StudyFolds[i].validation,
                           candidate |-> Missing]
    <2>1. /\ k \in Nat \ {0} /\ DOMAIN StudyFolds = 1 .. k /\ study.settings.least \in Nat
          /\ FoldStart(1) = study.settings.least + 1
        BY <1>1, <1>5, StudyFoldsFacts
    <2>2. queue = [i \in 1 .. k |-> part(i)]
        BY <1>1, <1>5, <2>1 DEF Segments, StudyFolds
    <2> HIDE DEF k
    <2>3. Len(queue) = k /\ \A i \in 1 .. k : queue[i] = part(i)
        BY <2>1, <2>2
    <2>4. Begun = 0
        BY <2>1, <2>3 DEF Begun, k
    <2>5. Decided = study.settings.least
        BY <1>2, <2>1 DEF Decided
    <2>6. segment.validation = {} /\ segment.candidate = Missing
        BY <1>1 DEF Idle
    <2>7. \A i \in 1 .. Len(queue) : /\ queue[i].train = StudyFolds[0 + i].train
                                     /\ queue[i].validation = StudyFolds[0 + i].validation
                                     /\ queue[i].candidate = Missing
        BY <2>1, <2>3
    <2>8. Begun \in 0 .. Len(StudyFolds)
        BY <2>1, <2>4 DEF k
    <2>9. Decided < FoldStart(Begun + 1) /\ segment.validation = Decided + 1 .. FoldStart(Begun + 1) - 1
        <3> DEFINE m == study.settings.least
        <3>1. FoldStart(Begun + 1) = m + 1 /\ Decided = m /\ m \in Nat
            BY <2>1, <2>4, <2>5
        <3> HIDE DEF m
        <3>2. m + 1 .. (m + 1) - 1 = {}
            BY <3>1
        <3> QED BY <2>6, <3>1, <3>2
    <2> QED BY <2>4, <2>6, <2>7, <2>8, <2>9 DEF OnFolds
<1> QED BY <1>1, <1>3, <1>4, <1>5 DEF FoldInv

\* What is said of the folds is said of the study and its samples.
LEMMA FoldsStay ==
    ASSUME UNCHANGED <<study, samples>>
    PROVE  /\ StudyFolds' = StudyFolds /\ \A d : FoldStart(d)' = FoldStart(d)
           /\ \A l, start, position : LearnedOfFold(l, start, position)' = LearnedOfFold(l, start, position)
<1>1. At' = At
    BY DEF At
<1>2. StudyFolds' = StudyFolds
    BY <1>1 DEF StudyFolds
<1>3. \A d : FoldStart(d)' = FoldStart(d)
    BY <1>2 DEF FoldStart
<1>4. \A j, start : DueBefore(j, start)' = DueBefore(j, start)
    BY <1>1 DEF DueBefore
<1> QED BY <1>2, <1>3, <1>4 DEF LearnedOfFold

LEMMA RowsOfFoldsStay == ASSUME RowsOfFolds, UNCHANGED <<study, samples, rows>> PROVE RowsOfFolds'
BY FoldsStay DEF RowsOfFolds

\* a fold is begun where the one before it ended
LEMMA FoldBegins == ASSUME WalkInv, FoldInv, Begin PROVE FoldInv'
<1> SUFFICES ASSUME study.kind \in {"backtest", "recency"} PROVE FoldInv'
    BY DEF FoldInv, Begin
<1> DEFINE next == Head(queue)
<1>1. /\ segment = Idle /\ queue # <<>> /\ queue' = Tail(queue) /\ UNCHANGED <<study, candles, samples, rows>>
      /\ segment'.validation = next.validation /\ segment'.candidate = next.candidate
      /\ segment'.start = Min(next.validation) /\ history' \subseteq next.train
    BY NewestFacts DEF Begin
<1>2. RowsOfFolds /\ StudyFolds # Missing /\ OnFolds
    BY <1>1 DEF FoldInv
<1>3. Frozen /\ IsSequence(queue) /\ IsSequence(rows)
    BY DEF WalkInv, Planned
<1>4. /\ Len(queue) \in Nat /\ Len(queue) > 0 /\ IsSequence(Tail(queue)) /\ Len(Tail(queue)) = Len(queue) - 1
      /\ next = queue[1] /\ \A i \in 1 .. Len(queue) - 1 : Tail(queue)[i] = queue[i + 1]
    BY <1>1, <1>3, SequenceFacts DEF IsSequence
<1>5. PICK k \in Nat \ {0}, d \in Nat :
          k = Len(StudyFolds) /\ d = Begun /\ d < k /\ Begun' = d + 1 /\ Len(queue) = k - d
    <2> DEFINE k == Len(StudyFolds)
               d == Begun
    <2>1. k \in Nat \ {0} /\ d \in 0 .. k /\ d = k - Len(queue)
        BY <1>2, <1>3, StudyFoldsFacts DEF OnFolds, Begun
    <2>2. Begun' = k - (Len(queue) - 1)
        BY <1>1, <1>4, FoldsStay DEF Begun
    <2>3. k = Len(StudyFolds) /\ d = Begun
        OBVIOUS
    <2> HIDE DEF k, d
    <2>4. d \in Nat /\ d < k /\ Begun' = d + 1 /\ Len(queue) = k - d
        BY <1>4, <2>1, <2>2
    <2> QED BY <2>1, <2>3, <2>4
<1>6. PICK first \in 1 .. Len(samples), after \in 1 .. Len(samples) + 1 :
          /\ first = FoldStart(d + 1) /\ after = FoldStart(d + 2) /\ first < after
          /\ StudyFolds[d + 1].validation = first .. after - 1 /\ Min(StudyFolds[d + 1].validation) = first
          /\ \A j \in StudyFolds[d + 1].train : DueBefore(j, first)
    <2>1. d + 1 \in 1 .. k /\ d + 2 \in 1 .. k + 1 /\ (d + 1) + 1 = d + 2
        BY <1>5
    <2> QED BY <1>2, <1>3, <1>5, <2>1, StudyFoldsFacts
<1>7. /\ next.train = StudyFolds[d + 1].train /\ next.validation = StudyFolds[d + 1].validation
      /\ next.candidate = Missing
    <2>1. 1 \in 1 .. Len(queue)
        BY <1>4
    <2> QED BY <1>2, <1>4, <1>5, <2>1 DEF OnFolds
<1>14. Len(samples) \in Nat
    BY <1>3, AtFacts DEF Frozen
<1>8. Decided \in Int /\ Decided + 1 = first
    <2>1. Decided \in Int
        BY <1>2, <1>3, StudyFoldsFacts DEF Decided, IsSequence
    <2>2. Decided < first /\ {} = Decided + 1 .. first - 1
        BY <1>1, <1>2, <1>5, <1>6 DEF OnFolds, Idle
    <2>3. ~(Decided + 1 <= first - 1)
        <3>1. Decided + 1 \notin Decided + 1 .. first - 1
            BY <2>2
        <3> QED BY <1>14, <2>1, <3>1
    <2> QED BY <1>14, <2>1, <2>2, <2>3
<1>9. Decided' = Decided /\ FoldStart(d + 2)' = after /\ StudyFolds' = StudyFolds
    <2>1. Decided' = Decided
        BY <1>1 DEF Decided
    <2> QED BY <1>1, <1>6, <2>1, FoldsStay
<1>10. ASSUME NEW i \in 1 .. Len(queue')
       PROVE  /\ queue'[i].train = StudyFolds'[(d + 1) + i].train
              /\ queue'[i].validation = StudyFolds'[(d + 1) + i].validation
              /\ queue'[i].candidate = Missing
    <2>1. i \in 1 .. Len(queue) - 1 /\ queue'[i] = queue[i + 1]
        BY <1>1, <1>4
    <2>2. i + 1 \in 1 .. Len(queue) /\ d + (i + 1) = (d + 1) + i
        <3>1. Len(queue) \in Nat /\ i \in Int /\ i >= 1 /\ i <= Len(queue) - 1 /\ d \in Int
            BY <1>4, <1>5, <2>1
        <3>2. d + (i + 1) = (d + 1) + i
            BY ONLY <3>1
        <3>3. i + 1 \in 1 .. Len(queue)
            BY ONLY <3>1
        <3> QED BY <3>2, <3>3
    <2> QED BY <1>2, <1>5, <1>9, <2>1, <2>2 DEF OnFolds
<1>11. segment'.validation = Decided + 1 .. after - 1 /\ segment'.start = Decided + 1 /\ segment'.candidate = Missing
    BY <1>1, <1>6, <1>7, <1>8
<1>12. \A j \in history' : DueBefore(j, segment.start)'
    <2>1. \A j \in history' : DueBefore(j, first)
        BY <1>1, <1>6, <1>7
    <2>2. At' = At /\ segment'.start = first
        BY <1>1, <1>8, <1>11 DEF At
    <2> QED BY <1>1, <2>1, <2>2 DEF DueBefore
<1>13. OnFolds'
    <2>1. FoldStart(Begun + 1)' = after
        <3>1. Begun' + 1 = d + 2
            BY <1>5
        <3> QED BY <1>9, <3>1 DEF FoldStart
    <2>2. Begun' \in 0 .. Len(StudyFolds') /\ Decided' < after /\ segment'.start \in 1 .. Decided' + 1
        <3>1. first \in 1 .. Decided' + 1
            BY <1>8, <1>9, <1>14
        <3> QED BY <1>5, <1>6, <1>8, <1>9, <1>11, <1>14, <3>1
    <2> QED BY <1>5, <1>9, <1>10, <1>11, <1>12, <2>1, <2>2 DEF OnFolds, LearnedOfFold
<1> QED BY <1>1, <1>2, <1>9, <1>13, RowsOfFoldsStay DEF FoldInv

\* the next position of the fold is decided, with what was due before the fold and what
\* was decided in it
LEMMA FoldReplays == ASSUME WalkInv, FoldInv, Replay PROVE FoldInv'
<1> SUFFICES ASSUME study.kind \in {"backtest", "recency"} PROVE FoldInv'
    BY DEF FoldInv, Replay
<1>1. /\ segment.validation # {} /\ UNCHANGED <<study, candles, samples, queue>>
      /\ history' \subseteq history \cup {Min(segment.validation)}
      /\ segment' = [segment EXCEPT !.validation = @ \ {Min(segment.validation)}]
    BY NewestFacts DEF Replay
<1>2. PICK r : /\ rows' = Append(rows, r) /\ r.position = Min(segment.validation)
               /\ r.start = segment.start /\ r.learned = history
    <2> DEFINE i == Min(segment.validation)
               sample == samples[i]
               snapshots == Snapshots(history)
               actuals == Actuals(candles)
               severity == Severity(study.kind, snapshots, actuals, sample)
               weights == Table([h \in Horizons |->
                              Decide(study.kind, segment.candidate, installed, snapshots, actuals, sample, h,
                                     ConfidenceOf(study, severity))])
               row == [position |-> i, start |-> segment.start, candidate |-> segment.candidate, learned |-> history,
                       severity |-> severity, weights |-> weights,
                       scores |-> [h \in Horizons |->
                           [p \in DOMAIN weights[h] |-> Scored(sample, weights[h][p], h)]]]
    <2>1. rows' = Append(rows, row)
        BY DEF Replay
    <2>2. row.position = Min(segment.validation) /\ row.start = segment.start /\ row.learned = history
        OBVIOUS
    <2> HIDE DEF row
    <2> QED BY <2>1, <2>2
<1>3. RowsOfFolds /\ StudyFolds # Missing /\ OnFolds
    BY <1>1 DEF FoldInv, Idle
<1>4. Frozen /\ IsSequence(rows)
    BY DEF WalkInv
<1>5. /\ Len(rows) \in Nat /\ Len(rows') = Len(rows) + 1 /\ rows'[Len(rows) + 1] = r
      /\ \A i \in 1 .. Len(rows) : rows'[i] = rows[i]
    BY <1>2, <1>4, SequenceFacts DEF IsSequence
<1>6. /\ study.settings.least \in Nat /\ Len(StudyFolds) \in Nat
      /\ \A e \in 1 .. Len(StudyFolds) + 1 : FoldStart(e) \in 1 .. Len(samples) + 1
    BY <1>3, <1>4, StudyFoldsFacts
<1>7. PICK d \in Nat, next \in Int, x \in Nat :
          /\ d = Begun /\ d <= Len(StudyFolds) /\ next = FoldStart(d + 1) /\ x = Decided + 1
          /\ x = study.settings.least + Len(rows) + 1
          /\ segment.validation = x .. next - 1 /\ x <= next - 1
    <2>1. Begun \in 0 .. Len(StudyFolds) /\ Begun + 1 \in 1 .. Len(StudyFolds) + 1
        BY <1>3, <1>6 DEF OnFolds
    <2>2. FoldStart(Begun + 1) \in Int
        BY <1>4, <1>6, <2>1, AtFacts DEF Frozen
    <2>3. Decided \in Nat /\ Decided + 1 = study.settings.least + Len(rows) + 1
        BY <1>5, <1>6 DEF Decided
    <2>4. segment.validation = Decided + 1 .. FoldStart(Begun + 1) - 1
        BY <1>3 DEF OnFolds
    <2>5. Decided + 1 <= FoldStart(Begun + 1) - 1
        BY <1>1, <2>2, <2>3, <2>4
    <2> QED BY <1>6, <2>1, <2>2, <2>3, <2>4, <2>5
<1>8. Min(segment.validation) = x
    <2>1. segment.validation \in SUBSET Int /\ IsFiniteSet(segment.validation)
        <3>1. next - 1 \in Int /\ x \in Int
            BY <1>7
        <3>2. IsFiniteSet(x .. next - 1) /\ x .. next - 1 \in SUBSET Int
            BY <3>1, FS_Interval
        <3> QED BY <1>7, <3>2
    <2>2. Min(segment.validation) \in segment.validation /\ \A y \in segment.validation : Min(segment.validation) <= y
        BY <1>1, <2>1, MinFacts
    <2> QED BY <1>7, <2>2
<1>9. segment.start \in 1 .. x /\ segment.candidate = Missing /\ LearnedOfFold(history, segment.start, x)
    BY <1>1, <1>3, <1>7 DEF OnFolds
<1>10. At' = At /\ StudyFolds' = StudyFolds /\ FoldStart(d + 1)' = next /\ Begun' = d /\ Decided' = x
    <2>1. Begun' = d
        BY <1>1, <1>7, FoldsStay DEF Begun
    <2>2. Decided' = x
        <3> DEFINE m == study.settings.least
        <3>1. Decided' = m + Len(rows') /\ m \in Nat
            BY <1>1, <1>6 DEF Decided
        <3>2. x = m + Len(rows) + 1
            BY <1>7
        <3> HIDE DEF m
        <3> QED BY <1>5, <3>1, <3>2
    <2> QED BY <1>1, <1>7, <2>1, <2>2, FoldsStay DEF At
<1>11. RowsOfFolds'
    <2>1. ASSUME NEW i \in 1 .. Len(rows')
          PROVE  /\ rows'[i].position = study.settings.least + i
                 /\ LearnedOfFold(rows'[i].learned, rows'[i].start, rows'[i].position)
        <3>1. CASE i \in 1 .. Len(rows)
            BY <1>3, <1>5, <3>1 DEF RowsOfFolds
        <3>2. CASE i = Len(rows) + 1
            <4>1. rows'[i] = r /\ r.position = x
                BY <1>2, <1>5, <1>8, <3>2
            <4>2. r.position = study.settings.least + i
                <5> DEFINE m == study.settings.least
                <5>1. m \in Nat /\ r.position = m + Len(rows) + 1
                    BY <1>6, <1>7, <4>1
                <5> HIDE DEF m
                <5>2. r.position = m + i
                    BY <1>5, <3>2, <5>1
                <5> QED BY <5>2 DEF m
            <4> QED BY <1>2, <1>9, <4>1, <4>2
        <3> QED BY <1>5, <3>1, <3>2
    <2> QED BY <1>1, <1>10, <2>1 DEF RowsOfFolds, LearnedOfFold, DueBefore
<1>12. segment'.validation = x + 1 .. next - 1 /\ segment'.start = segment.start /\ segment'.candidate = Missing
    <2>1. /\ segment'.validation = (x .. next - 1) \ {x}
          /\ segment'.start = segment.start /\ segment'.candidate = Missing
        BY <1>1, <1>7, <1>8, <1>9
    <2>2. (x .. next - 1) \ {x} = x + 1 .. next - 1
        BY <1>7
    <2> QED BY <2>1, <2>2
<1>13. \A j \in history' : j \in segment'.start .. (x + 1) - 1 \/ DueBefore(j, segment.start)
    <2>1. ASSUME NEW j \in history' PROVE j \in segment.start .. (x + 1) - 1 \/ DueBefore(j, segment.start)
        <3>1. j \in history \/ j = x
            BY <1>1, <1>8
        <3>2. CASE j = x
            BY <1>7, <1>9, <3>2
        <3>3. CASE j \in history
            <4>1. j \in segment.start .. x - 1 \/ DueBefore(j, segment.start)
                BY <1>9, <3>3 DEF LearnedOfFold
            <4> QED BY <1>7, <1>9, <4>1
        <3> QED BY <3>1, <3>2, <3>3
    <2> QED BY <1>12, <2>1
<1>14. OnFolds'
    <2>1. FoldStart(Begun + 1)' = next
        BY <1>10 DEF FoldStart
    <2>2. Begun' \in 0 .. Len(StudyFolds') /\ Decided' < next /\ segment'.start \in 1 .. Decided' + 1
        BY <1>6, <1>7, <1>9, <1>10, <1>12
    <2>3. \A i \in 1 .. Len(queue') : /\ queue'[i].train = StudyFolds'[d + i].train
                                      /\ queue'[i].validation = StudyFolds'[d + i].validation
                                      /\ queue'[i].candidate = Missing
        BY <1>1, <1>3, <1>7, <1>10 DEF OnFolds
    <2>4. \A j \in history' : j \in segment'.start .. (Decided' + 1) - 1 \/ DueBefore(j, segment.start)'
        BY <1>1, <1>10, <1>12, <1>13 DEF DueBefore
    <2> QED BY <1>10, <1>12, <2>1, <2>2, <2>3, <2>4 DEF OnFolds, LearnedOfFold
<1> QED BY <1>1, <1>3, <1>10, <1>11, <1>14 DEF FoldInv

\* the end of a fold changes nothing that is said of it
LEMMA FoldFinishes == ASSUME WalkInv, FoldInv, Finish PROVE FoldInv'
<1> SUFFICES ASSUME study.kind \in {"backtest", "recency"} PROVE FoldInv'
    BY DEF FoldInv, Finish
<1>1. /\ segment # Idle /\ segment.validation = {} /\ segment' = Idle
      /\ UNCHANGED <<study, candles, samples, queue, rows>>
    BY DEF Finish, Refused
<1>2. RowsOfFolds /\ StudyFolds # Missing /\ OnFolds
    BY <1>1 DEF FoldInv
<1>3. StudyFolds' = StudyFolds /\ Begun' = Begun /\ Decided' = Decided /\ \A d : FoldStart(d)' = FoldStart(d)
    BY <1>1, FoldsStay DEF Begun, Decided
<1>4. FoldStart(Begun + 1)' = FoldStart(Begun + 1)
    BY <1>3 DEF FoldStart
<1>5. segment'.validation = {} /\ segment'.candidate = Missing
    BY <1>1 DEF Idle
<1>6. OnFolds'
    BY <1>1, <1>2, <1>3, <1>4, <1>5 DEF OnFolds
<1> QED BY <1>1, <1>2, <1>3, <1>6, RowsOfFoldsStay DEF FoldInv

LEMMA FoldStays ==
    ASSUME FoldInv, UNCHANGED <<study, candles, samples, queue, segment, history, installed, rows>>
    PROVE  FoldInv'
<1>1. StudyFolds' = StudyFolds /\ Begun' = Begun /\ Decided' = Decided /\ \A d : FoldStart(d)' = FoldStart(d)
    BY FoldsStay DEF Begun, Decided
<1>2. FoldStart(Begun + 1)' = FoldStart(Begun + 1)
    BY <1>1 DEF FoldStart
<1>3. ASSUME OnFolds PROVE OnFolds'
    BY <1>1, <1>2, <1>3, FoldsStay DEF OnFolds, LearnedOfFold, DueBefore
<1> QED BY <1>1, <1>3, RowsOfFoldsStay DEF FoldInv

\* what the inner folds of an outer fold touch is what that fold trains on
Touched(nest) == UNION {nest.inner[k].train \cup nest.inner[k].validation : k \in DOMAIN nest.inner}

LEMMA InnerWithin ==
    ASSUME NEW at \in Seq(Int), NEW outer, NEW inner, NEW longest \in Nat,
           inner.folds \in Int, inner.least \in Int, inner.purge \in Int, inner.embargo \in Int,
           outer.folds \in Int, outer.least \in Int, outer.purge \in Int, outer.embargo \in Int,
           NestedFolds(at, outer, inner, longest) # Missing
    PROVE  LET nested == NestedFolds(at, outer, inner, longest)
           IN  \A i \in DOMAIN nested :
                  LET start == Min(nested[i].outer.validation)
                  IN  \A j \in Touched(nested[i]) : at[j] + Hour * (longest + outer.embargo) <= at[start]
<1> DEFINE nested == NestedFolds(at, outer, inner, longest)
           folds == Folds(at, outer, longest)
           seen(train) == [i \in 1 .. Cardinality(train) |-> at[Ascending(train)[i]]]
           local(train) == Folds(seen(train), inner, longest)
<1>1. folds # Missing /\ \A i \in DOMAIN folds : local(folds[i].train) # Missing
    BY DEF NestedFolds
<1>2. /\ DOMAIN nested = DOMAIN folds
      /\ \A i \in DOMAIN folds :
            LET t == folds[i].train
            IN  /\ nested[i].outer = folds[i]
                /\ nested[i].inner =
                     [k \in DOMAIN local(t) |->
                        [train |-> {Ascending(t)[m] : m \in local(t)[k].train},
                         validation |-> {Ascending(t)[m] : m \in local(t)[k].validation}]]
    BY <1>1 DEF NestedFolds
<1>3. Chunked(folds, at, outer) /\ outer.purge >= longest
    BY <1>1, FoldFacts
<1> HIDE DEF nested, folds, local
<1>4. ASSUME NEW i \in DOMAIN folds, NEW j \in Touched(nested[i]) PROVE j \in folds[i].train
    <2> DEFINE t == folds[i].train
               c == Cardinality(t)
    <2>1. t \subseteq 1 .. Len(at)
        BY <1>3, ChunkedWithin
    <2>2. t \in SUBSET Int /\ IsFiniteSet(t)
        <3> DEFINE n == Len(at)
        <3>1. n \in Nat /\ t \subseteq 1 .. n
            BY <2>1
        <3> HIDE DEF n, t
        <3>2. IsFiniteSet(1 .. n)
            <4>1. n \in Int /\ 1 \in Int
                BY <3>1
            <4> QED BY <4>1, FS_Interval
        <3>3. IsFiniteSet(t)
            BY <3>1, <3>2, FS_Subset
        <3>4. t \subseteq Int
            BY <3>1
        <3> QED BY <3>3, <3>4
    <2>5. \A x \in t : x \in 1 .. Len(at)
        BY <2>1
    <2> HIDE DEF t
    <2>3. c \in Nat /\ Ascending(t) \in [1 .. c -> t]
        BY <2>2, AscendingFacts
    <2>4. seen(t) \in Seq(Int) /\ Len(seen(t)) = c
        <3> DEFINE f == Ascending(t)
                   u == seen(t)
        <3>1. u = [m \in 1 .. c |-> at[f[m]]] /\ f \in [1 .. c -> t]
            BY <2>3
        <3>2. \A x \in t : at[x] \in Int
            BY <2>5
        <3> HIDE DEF f, u, c
        <3>3. \A m \in 1 .. c : at[f[m]] \in Int
            BY <3>1, <3>2
        <3>4. u \in Seq(Int) /\ Len(u) = c
            BY <2>3, <3>1, <3>3
        <3> QED BY <3>4 DEF u
    <2>9. Chunked(local(t), seen(t), inner)
        <3>1. local(t) # Missing
            BY <1>1 DEF t
        <3> HIDE DEF seen
        <3>2. Folds(seen(t), inner, longest) # Missing
            BY <3>1 DEF local
        <3>3. Chunked(Folds(seen(t), inner, longest), seen(t), inner)
            BY <2>4, <3>2, FoldFacts
        <3> QED BY <3>3 DEF local
    <2> HIDE DEF seen, c
    <2>6. PICK k \in DOMAIN local(t) :
             \/ j \in {Ascending(t)[m] : m \in local(t)[k].train}
             \/ j \in {Ascending(t)[m] : m \in local(t)[k].validation}
        <3>1. nested[i].inner =
                     [k \in DOMAIN local(t) |->
                        [train |-> {Ascending(t)[m] : m \in local(t)[k].train},
                         validation |-> {Ascending(t)[m] : m \in local(t)[k].validation}]]
            BY <1>2 DEF t
        <3>2. PICK k \in DOMAIN local(t) : j \in nested[i].inner[k].train \cup nested[i].inner[k].validation
            BY <3>1 DEF Touched
        <3> QED BY <3>1, <3>2
    <2>7. local(t)[k].train \subseteq 1 .. c /\ local(t)[k].validation \subseteq 1 .. c
        BY <2>4, <2>6, <2>9, ChunkedWithin
    <2>8. PICK m \in 1 .. c : j = Ascending(t)[m]
        BY <2>6, <2>7
    <2> QED BY <2>3, <2>8 DEF t
<1>5. ASSUME NEW i \in DOMAIN nested, NEW j \in Touched(nested[i])
      PROVE  at[j] + Hour * (longest + outer.embargo) <= at[Min(nested[i].outer.validation)]
    <2> DEFINE start == Min(folds[i].validation)
    <2>1. i \in DOMAIN folds /\ nested[i].outer = folds[i] /\ j \in folds[i].train
        BY <1>2, <1>4
    <2>2. start \in 1 .. Len(at) /\ j \in Eligible(at, start, outer)
        BY <1>3, <2>1, ChunkedWithin
    <2> HIDE DEF start
    <2>3. at[j] + Hour * (longest + outer.embargo) <= at[start]
        BY <1>3, <2>2, EligibleIsDue
    <2> QED BY <2>1, <2>3 DEF start
<1> QED BY <1>5 DEF nested

\* The folds of a study keep their word, in every state it reaches.
LEMMA FoldInvSuffices == ASSUME WalkInv, FoldInv PROVE FoldsAreKept
<1> DEFINE s == study.settings
           outer == [study.settings EXCEPT !.mode = "expanding"]
           nested == NestedFolds(At, outer, study.inner, Longest)
<1>1. Frozen /\ IsSequence(rows)
    BY DEF WalkInv
<1>2. At \in Seq(Int) /\ Longest \in Nat
    BY <1>1, AtFacts, LongestFacts DEF Frozen
<1>3. /\ s \in Settings /\ study.inner \in Settings
      /\ outer.folds = s.folds /\ outer.least = s.least /\ outer.purge = s.purge /\ outer.embargo = s.embargo
    <2>1. s \in Settings /\ study.inner \in Settings
        BY <1>1, StudyAssumption DEF Frozen
    <2>2. outer = [s EXCEPT !.mode = "expanding"]
        OBVIOUS
    <2> HIDE DEF s, outer
    <2> QED BY <2>1, <2>2 DEF Settings
<1> HIDE DEF s, outer
<1>4. /\ s.folds \in Int /\ s.least \in Int /\ s.purge \in Int /\ s.embargo \in Int
      /\ outer.folds \in Int /\ outer.least \in Int /\ outer.purge \in Int /\ outer.embargo \in Int
      /\ study.inner.folds \in Int /\ study.inner.least \in Int /\ study.inner.purge \in Int
      /\ study.inner.embargo \in Int
    BY <1>3 DEF Settings
<1>5. Folds(At, s, Longest) # Missing =>
         \A i \in DOMAIN Folds(At, s, Longest) : ~Leaks(Folds(At, s, Longest)[i], At, s, Longest)
    BY <1>2, <1>4, FoldsDoNotLeak
<1>6. nested # Missing =>
         \A i \in DOMAIN nested : \A j \in Touched(nested[i]) :
             At[j] + Hour * (Longest + s.embargo) <= At[Min(nested[i].outer.validation)]
    BY <1>2, <1>3, <1>4, InnerWithin
<1>7. DOMAIN rows = 1 .. Len(rows) /\ Len(rows) \in Nat
    BY <1>1 DEF IsSequence
<1>8. ASSUME study.kind \in {"backtest", "recency"}
      PROVE  \A i \in DOMAIN rows :
                /\ rows[i].position = s.least + i
                /\ \A j \in rows[i].learned : \/ j \in rows[i].start .. rows[i].position - 1
                                              \/ At[j] + Hour * (Longest + s.embargo) <= At[rows[i].start]
    BY <1>7, <1>8 DEF FoldInv, RowsOfFolds, LearnedOfFold, DueBefore, s
<1>9. ASSUME study.kind \in {"backtest", "recency"}, rows # <<>>, queue = <<>>, segment = Idle
      PROVE  Len(rows) = Len(samples) - s.least
    <2>1. StudyFolds # Missing /\ OnFolds
        BY <1>9 DEF FoldInv
    <2>2. Begun = Len(StudyFolds) /\ Len(StudyFolds) \in Nat
        <3>1. Len(queue) = 0
            BY <1>9
        <3>2. Len(StudyFolds) \in Nat
            BY <1>1, <2>1, StudyFoldsFacts
        <3> QED BY <3>1, <3>2 DEF Begun
    <2>3. FoldStart(Begun + 1) = Len(samples) + 1 /\ Len(samples) \in Nat /\ s.least \in Nat
        BY <1>1, <2>1, <2>2, StudyFoldsFacts DEF s
    <2>4. Decided < Len(samples) + 1 /\ {} = Decided + 1 .. (Len(samples) + 1) - 1 /\ Decided = s.least + Len(rows)
        BY <1>9, <2>1, <2>3 DEF OnFolds, Idle, Decided, s
    <2> DEFINE m == s.least
               n == Len(samples)
               l == Len(rows)
    <2>5. m \in Nat /\ n \in Nat /\ l \in Nat /\ m + l < n + 1 /\ {} = (m + l) + 1 .. (n + 1) - 1
        BY <1>7, <2>3, <2>4
    <2> HIDE DEF m, n, l
    <2>6. ~((m + l) + 1 <= (n + 1) - 1)
        <3>1. (m + l) + 1 \notin (m + l) + 1 .. (n + 1) - 1
            BY <2>5
        <3> QED BY <2>5, <3>1
    <2>7. l = n - m
        BY <2>5, <2>6
    <2> QED BY <2>7 DEF l, m, n
<1> QED BY <1>5, <1>6, <1>8, <1>9 DEF FoldsAreKept, Touched, s, outer

\* The folds of a cross-validation keep their word: whatever the market and the study,
\* every origin after the first ones is validated once, in order, and what is learned
\* from is of its own block or was due before it; so it is for what inner folds touch.
THEOREM FoldsKeepTheirWord == WalkSpec => []FoldsAreKept
<1> DEFINE Inv == WalkInv /\ FoldInv
<1>1. WalkInit => Inv
    BY WalkStarts, FoldsStart
<1>2. Inv /\ [WalkNext]_walkVars => Inv'
    <2> SUFFICES ASSUME Inv, [WalkNext]_walkVars PROVE Inv'
        OBVIOUS
    <2>1. CASE Begin
        BY <2>1, WalkBegins, FoldBegins
    <2>2. CASE Replay
        <3>1. WalkInv'
            BY <2>2, WalkReplays
        <3> QED BY <2>2, <3>1, FoldReplays
    <2>3. CASE FailToForecast
        <3>1. study.kind = "shadow" /\ study' = study
            BY <2>3 DEF FailToForecast
        <3> QED BY <2>3, <3>1, WalkFails DEF FoldInv
    <2>4. CASE Finish
        BY <2>4, WalkFinishes, FoldFinishes
    <2>5. CASE UNCHANGED walkVars
        BY <2>5, WalkStutters, FoldStays DEF walkVars
    <2> QED BY <2>1, <2>2, <2>3, <2>4, <2>5 DEF WalkNext
<1>3. Inv => FoldsAreKept
    BY FoldInvSuffices
<1> QED BY <1>1, <1>2, <1>3, PTL DEF WalkSpec

-----------------------------------------------------------------------------
(* The store and the cache. *)

\* what is made of a history by one more forecast
Ingested(after, hist, s) ==
    /\ after = [o \in DOMAIN after |-> after[o]]
    /\ DOMAIN after = (DOMAIN hist) \cup {s.origin}
    /\ \A o \in DOMAIN hist : after[o] = hist[o]
    /\ s.origin \notin DOMAIN hist => after[s.origin] = s

\* The first forecast of an origin stands.
LEMMA IngestFacts ==
    ASSUME NEW hist, hist = [o \in DOMAIN hist |-> hist[o]], NEW s
    PROVE  Ingested(Ingest(hist, s), hist, s)
<1>1. CASE s.origin \in DOMAIN hist
    BY <1>1 DEF Ingest, Ingested
<1>2. CASE s.origin \notin DOMAIN hist
    <2> DEFINE x == s.origin
               after == [o \in (DOMAIN hist) \cup {x} |-> IF o = x THEN s ELSE hist[o]]
    <2>1. Ingest(hist, s) = after
        BY <1>2 DEF Ingest, With
    <2> HIDE DEF x
    <2>2. /\ after = [o \in DOMAIN after |-> after[o]]
          /\ DOMAIN after = (DOMAIN hist) \cup {x}
          /\ \A o \in DOMAIN hist : o # x => after[o] = hist[o]
          /\ after[x] = s
        OBVIOUS
    <2>3. \A o \in DOMAIN hist : o # x
        BY <1>2 DEF x
    <2> HIDE DEF after
    <2> QED BY <2>1, <2>2, <2>3 DEF x, Ingested
<1> QED BY <1>1, <1>2

LEMMA IngestType ==
    ASSUME NEW hist, History(hist), NEW s, Sane(s)
    PROVE  History(Ingest(hist, s))
<1> DEFINE after == Ingest(hist, s)
<1>1. /\ after = [o \in DOMAIN after |-> after[o]]
      /\ DOMAIN after = (DOMAIN hist) \cup {s.origin}
      /\ \A o \in DOMAIN hist : after[o] = hist[o]
      /\ s.origin \notin DOMAIN hist => after[s.origin] = s
    BY IngestFacts DEF History, Ingested
<1> HIDE DEF after
<1>2. IsFiniteSet(DOMAIN after)
    BY <1>1, FS_AddElement DEF History
<1>3. DOMAIN after \subseteq Int
    BY <1>1 DEF History, Sane, Measurable
<1>4. ASSUME NEW o \in DOMAIN after PROVE Sane(after[o])
    BY <1>1 DEF History
<1> QED BY <1>1, <1>2, <1>3, <1>4 DEF History, after

\* a cache of such forecasts
Cached(cache) == IsSequence(cache) /\ \A i \in 1 .. Len(cache) : Sane(cache[i])

\* what a history keeps of an earlier one
Extending(after, hist) == DOMAIN hist \subseteq DOMAIN after /\ \A o \in DOMAIN hist : after[o] = hist[o]

\* The forecasts of a cache are added to a history.
LEMMA FoldedType ==
    ASSUME NEW hist, History(hist), NEW cache, Cached(cache)
    PROVE  LET after == FoldLeft(Ingest, hist, cache) IN History(after) /\ Extending(after, hist)
<1> DEFINE S == 1 .. Len(cache)
           X == {hist[o] : o \in DOMAIN hist} \cup {cache[i] : i \in S}
           D == (DOMAIN hist) \cup {cache[i].origin : i \in S}
           V == {f \in UNION {[E -> X] : E \in SUBSET D} : Extending(f, hist)}
           pick == [T \in SUBSET S |-> Max(T)]
           step == [p \in S \X V |-> Ingest(p[2], cache[p[1]])]
           Made(g) == g = [T \in SUBSET S |-> IF T = {} THEN hist ELSE Ingest(g[T \ {Max(T)}], cache[Max(T)])]
           h == CHOOSE g : Made(g)
<1>1. Len(cache) \in Nat /\ IsFiniteSet(S) /\ DOMAIN cache = S
    BY Indices DEF Cached, IsSequence
<1>2. \A T \in (SUBSET S) \ {{}} : Max(T) \in T /\ pick[T] = Max(T)
    <2>1. ASSUME NEW T \in (SUBSET S) \ {{}} PROVE Max(T) \in T
        <3>1. T \in SUBSET Int /\ T # {}
            OBVIOUS
        <3>2. IsFiniteSet(T)
            <4> HIDE DEF S
            <4> QED BY <1>1, FS_Subset
        <3> QED BY <3>1, <3>2, MaxFacts
    <2> QED BY <2>1
<1> HIDE DEF S
<1>3. ASSUME NEW f \in V
      PROVE  f = [o \in DOMAIN f |-> f[o]] /\ DOMAIN f \subseteq D /\ \A o \in DOMAIN f : f[o] \in X
    <2>1. PICK E \in SUBSET D : f \in [E -> X]
        OBVIOUS
    <2> HIDE DEF D, X, V
    <2> QED BY <2>1
<1>4. ASSUME NEW f, f = [o \in DOMAIN f |-> f[o]], DOMAIN f \subseteq D, \A o \in DOMAIN f : f[o] \in X,
             Extending(f, hist)
      PROVE  f \in V
    <2>1. f \in [DOMAIN f -> X] /\ DOMAIN f \in SUBSET D
        <3> HIDE DEF X, D
        <3> QED BY <1>4
    <2> HIDE DEF X, D
    <2> QED BY <1>4, <2>1
<1>5. hist \in V
    <2>1. DOMAIN hist \subseteq D /\ \A o \in DOMAIN hist : hist[o] \in X
        OBVIOUS
    <2> HIDE DEF V, X, D
    <2> QED BY <1>4, <2>1 DEF History, Extending
<1>6. ASSUME NEW f \in V, NEW i \in S PROVE Ingest(f, cache[i]) \in V
    <2> DEFINE a == Ingest(f, cache[i])
               s == cache[i]
    <2>1. f = [o \in DOMAIN f |-> f[o]] /\ DOMAIN f \subseteq D /\ \A o \in DOMAIN f : f[o] \in X
        <3> HIDE DEF V, X, D
        <3> QED BY <1>3
    <2>2. s \in X /\ s.origin \in D
        OBVIOUS
    <2>3. Extending(f, hist)
        OBVIOUS
    <2> HIDE DEF V, X, D
    <2>7. Ingested(a, f, s)
        BY <2>1, IngestFacts
    <2> HIDE DEF s, a
    <2>4. /\ a = [o \in DOMAIN a |-> a[o]] /\ DOMAIN a = (DOMAIN f) \cup {s.origin}
          /\ \A o \in DOMAIN f : a[o] = f[o]
          /\ s.origin \notin DOMAIN f => a[s.origin] = s
        BY <2>7 DEF Ingested
    <2>5. DOMAIN a \subseteq D /\ \A o \in DOMAIN a : a[o] \in X
        BY <2>1, <2>2, <2>4
    <2>6. Extending(a, hist)
        BY <2>3, <2>4 DEF Extending
    <2> QED BY <1>4, <2>4, <2>5, <2>6 DEF a
<1>7. PICK g \in [SUBSET S -> V] : Folding(g, S, hist, pick, step)
    <2>1. step \in [S \X V -> V]
        <3> HIDE DEF V
        <3> QED BY <1>6
    <2>2. \A T \in (SUBSET S) \ {{}} : pick[T] \in T
        BY <1>2
    <2> HIDE DEF pick, step, V
    <2> QED BY <1>1, <1>5, <2>1, <2>2, FoldExists
<1>8. Made(g)
    <2>1. ASSUME NEW T \in SUBSET S, T # {}
          PROVE  step[<<pick[T], g[T \ {pick[T]}]>>] = Ingest(g[T \ {Max(T)}], cache[Max(T)])
        <3>1. pick[T] = Max(T) /\ Max(T) \in S /\ g[T \ {Max(T)}] \in V
            <4> HIDE DEF V
            <4> QED BY <1>2, <2>1, Zenon
        <3> HIDE DEF pick, V
        <3> QED BY <3>1
    <2>2. g = [T \in SUBSET S |-> IF T = {} THEN hist ELSE step[<<pick[T], g[T \ {pick[T]}]>>]]
        BY <1>7, Zenon DEF Folding
    <2> HIDE DEF step, pick, V
    <2> QED BY <2>1, <2>2
<1>9. Made(h)
    <2> HIDE DEF Made
    <2> QED BY <1>8
<1>10. FoldLeft(Ingest, hist, cache) = h[S]
    BY <1>1 DEF FoldLeft, MapThenFoldSet
<1>11. h[S] \in V
    <2> DEFINE Q == {T \in SUBSET S : h[T] \in V}
    <2>1. ASSUME NEW T \in SUBSET S, \A x \in T : T \ {x} \in Q PROVE T \in Q
        <3>1. h[T] = IF T = {} THEN hist ELSE Ingest(h[T \ {Max(T)}], cache[Max(T)])
            <4> HIDE DEF h
            <4> QED BY <1>9
        <3> HIDE DEF h, V
        <3>2. CASE T = {}
            BY <1>5, <3>1, <3>2
        <3>3. CASE T # {}
            <4>1. Max(T) \in T /\ h[T \ {Max(T)}] \in V
                BY <1>2, <2>1, <3>3
            <4> QED BY <1>6, <3>1, <3>3, <4>1
        <3> QED BY <3>2, <3>3
    <2> HIDE DEF Q, h, V
    <2>2. S \in Q
        BY <1>1, <2>1, SetInduction
    <2> QED BY <2>2 DEF Q
<1> DEFINE after == h[S]
<1> HIDE DEF h, after
<1>12. after \in V
    BY <1>11 DEF after
<1>13. /\ after = [o \in DOMAIN after |-> after[o]] /\ DOMAIN after \subseteq D
       /\ \A o \in DOMAIN after : after[o] \in X
    <2> HIDE DEF V, X, D
    <2> QED BY <1>3, <1>12
<1>14. \A s \in X : Sane(s) /\ s.origin \in Int
    BY <1>1 DEF History, Cached, Sane, Measurable, S
<1>15. D \subseteq Int /\ IsFiniteSet(D)
    <2> DEFINE origins == {cache[i].origin : i \in S}
               at == [i \in S |-> cache[i].origin]
    <2>1. at \in Surjection(S, origins)
        BY DEF Surjection
    <2>2. IsFiniteSet(origins)
        BY <1>1, <2>1, FS_Surjection
    <2>3. origins \subseteq Int
        BY <1>14
    <2> HIDE DEF origins
    <2> QED BY <2>2, <2>3, FS_Union DEF History, origins
<1>16. IsFiniteSet(DOMAIN after) /\ DOMAIN after \subseteq Int
    <2> HIDE DEF D
    <2> QED BY <1>13, <1>15, FS_Subset
<1>17. Extending(after, hist)
    BY <1>12
<1> HIDE DEF X, D, V
<1>18. History(after)
    BY <1>13, <1>14, <1>16 DEF History
<1> QED BY <1>10, <1>17, <1>18 DEF after

LEMMA SeqIsSequence == ASSUME NEW S, NEW s \in Seq(S) PROVE IsSequence(s)
<1>1. s \in [1 .. Len(s) -> S] /\ Len(s) \in Nat
    BY LenProperties
<1>2. s = [i \in 1 .. Len(s) |-> s[i]]
    BY <1>1
<1> QED BY <1>1, <1>2 DEF IsSequence

\* What is kept of a cache are forecasts of it, and the last.
LEMMA SaveType ==
    ASSUME NEW cache, Cached(cache), NEW snapshot, Sane(snapshot)
    PROVE  Cached(Save(cache, snapshot))
<1> DEFINE kept == {i \in DOMAIN cache : cache[i].origin # snapshot.origin}
           others == Ordered(kept)
           older == [j \in DOMAIN others |-> cache[others[j]]]
           all == Append(older, snapshot)
           n == Len(all)
           first == Max({1, n - RollingLimit + 1})
           S == {cache[i] : i \in DOMAIN cache} \cup {snapshot}
           k == Cardinality(kept)
<1>1. Save(cache, snapshot) = SubSeq(all, first, n)
    BY DEF Save
<1>2. Len(cache) \in Nat /\ DOMAIN cache = 1 .. Len(cache) /\ \A i \in DOMAIN cache : Sane(cache[i])
    BY DEF Cached, IsSequence
<1>3. kept \in SUBSET Int /\ IsFiniteSet(kept) /\ kept \subseteq DOMAIN cache
    BY <1>2, Indices, FS_Subset
<1> HIDE DEF kept
<1>4. DOMAIN others = 1 .. k /\ k \in Nat /\ \A j \in 1 .. k : others[j] \in kept
    BY <1>3, OrderedFacts
<1> HIDE DEF others, k
<1>5. older \in Seq(S)
    <2>1. \A j \in 1 .. k : older[j] \in S
        BY <1>3, <1>4
    <2>2. older = [j \in 1 .. k |-> older[j]]
        BY <1>4
    <2> HIDE DEF S, older
    <2> QED BY <1>4, <2>1, <2>2
<1> HIDE DEF older
<1>6. all \in Seq(S)
    <2>1. snapshot \in S
        OBVIOUS
    <2> HIDE DEF S
    <2> QED BY <1>5, <2>1
<1> HIDE DEF all
<1>7. n \in Nat /\ \A i \in 1 .. n : all[i] \in S
    <2> HIDE DEF S
    <2> QED BY <1>6
<1>8. first \in Nat \ {0}
    <2>1. RollingLimit \in Nat
        BY CycleAssumption
    <2> HIDE DEF n
    <2>2. PICK d \in Int : d = n - RollingLimit + 1
        BY <1>7, <2>1
    <2> QED BY <2>2, AtLeastOne
<1> DEFINE r == SubSeq(all, first, n)
<1> HIDE DEF first, n, S
<1>9. r \in Seq(S)
    <2>1. first \in Int /\ n \in Int /\ \A i \in first .. n : all[i] \in S
        BY <1>7, <1>8
    <2> QED BY <2>1, SubSeqProperties
<1> HIDE DEF r
<1>10. IsSequence(r) /\ \A i \in 1 .. Len(r) : r[i] \in S
    BY <1>9, SeqIsSequence
<1>11. \A s \in S : Sane(s)
    BY <1>2 DEF S
<1>12. Cached(r)
    BY <1>10, <1>11 DEF Cached
<1> QED BY <1>1, <1>12 DEF r

\* A series of hours, with closes that are numbers, can be forecast from.
LEMMA QuotedFrom ==
    ASSUME NEW series, NEW f \in Int, Hourly(series, f), MinCandles <= Candles,
           \A i \in 1 .. Candles : series[i].close \in Int
    PROVE  Quoted(series)
<1>1. Candles \in Nat /\ Candles >= 2
    BY CycleAssumption, EngineAssumption, MarketDataAssumption
<1>2. /\ Len(series) = Candles /\ Stamps(series) = {Hour * (f + i) : i \in 1 .. Candles}
      /\ Last(series).at = Hour * (f + Candles)
      /\ \A j \in 1 .. Candles : Close(series, Hour * (f + j)) = series[j].close
    BY HourlyFacts
<1>3. Last(series).close \in Int
    <2>1. Last(series) = series[Candles] /\ Candles \in 1 .. Candles
        BY <1>1, <1>2 DEF Last
    <2> QED BY <2>1
<1>4. Last(series).at \in Int
    BY <1>1, <1>2 DEF Hour
<1>5. \A t \in Stamps(series) : Close(series, t) \in Int
    BY <1>2
<1>6. Priced(series)
    BY <1>1, <1>2 DEF Priced
<1> QED BY <1>3, <1>4, <1>5, <1>6 DEF Quoted

LEMMA DeliveredIsQuoted ==
    ASSUME NEW n \in Nat, NEW closes, NEW time, HourTape(closes, time, n),
           NEW delivery \in Deliveries(closes, time), Market(delivery, time).series # Missing
    PROVE  Quoted(Market(delivery, time).series)
<1> DEFINE market == Market(delivery, time)
<1>1. time \in Int /\ LatestHour(time) = Hour * n
    BY LatestFacts
<1>2. n > Candles /\ closes \in [Hours(n) -> Int]
    BY DEF HourTape
<1>3. /\ \E f \in Int : Hourly(market.series, f) /\ f + Candles <= n
      /\ MinCandles <= Candles /\ \A i \in 1 .. Candles : market.series[i].close \in Int
    BY <1>1, <1>2, MarketFacts
<1> HIDE DEF market
<1> QED BY <1>3, QuotedFrom DEF market

\* What is added to the outcomes are numbers, of forecasts of the history.
LEMMA EnrichedType ==
    ASSUME NEW hist, NEW outcomes, Valued(outcomes), DOMAIN outcomes \subseteq (DOMAIN hist) \X Horizons,
           NEW market, Quoted(market.series)
    PROVE  LET new == Enriched(hist, outcomes, market)
           IN  /\ Valued(new) /\ DOMAIN outcomes \subseteq DOMAIN new
               /\ DOMAIN new \subseteq (DOMAIN hist) \X Horizons
<1> DEFINE target(k) == k[1] + Hour * k[2]
           due == {k \in (DOMAIN hist) \X Horizons :
                       k \notin DOMAIN outcomes /\ target(k) \in Stamps(market.series)}
           added == [k \in due |-> [actual |-> Close(market.series, target(k)), matured |-> market.at,
                                    checked |-> target(k) \in market.compared]]
           new == Enriched(hist, outcomes, market)
<1>1. new = [k \in (DOMAIN outcomes) \cup due |-> IF k \in DOMAIN outcomes THEN outcomes[k] ELSE added[k]]
    BY DEF Enriched
<1>2. ASSUME NEW k \in due PROVE added[k].actual \in Int
    <2> DEFINE close == Close(market.series, target(k))
               near == target(k) \in market.compared
    <2>1. close \in Int
        BY DEF Quoted
    <2>2. added[k] = [actual |-> close, matured |-> market.at, checked |-> near]
        OBVIOUS
    <2> HIDE DEF added, close, near
    <2> QED BY <2>1, <2>2
<1> HIDE DEF new, added
<1>3. DOMAIN new = (DOMAIN outcomes) \cup due /\ due \subseteq (DOMAIN hist) \X Horizons
    BY <1>1
<1> HIDE DEF due
<1>4. ASSUME NEW k \in DOMAIN new PROVE new[k].actual \in Int
    <2>1. CASE k \in DOMAIN outcomes
        <3>1. new[k] = outcomes[k]
            BY <1>1, <2>1
        <3> QED BY <2>1, <3>1 DEF Valued
    <2>2. CASE k \notin DOMAIN outcomes
        <3>1. k \in due /\ new[k] = added[k]
            BY <1>1, <1>3, <2>2
        <3> QED BY <1>2, <3>1
    <2> QED BY <2>1, <2>2
<1> QED BY <1>3, <1>4 DEF Valued, new

\* what a run finds in a store: forecasts, and the closes at targets of some of them
Stored(kept) ==
    /\ History(kept.snapshots) /\ Valued(kept.outcomes)
    /\ DOMAIN kept.outcomes \subseteq (DOMAIN kept.snapshots) \X Horizons

\* what a forecast that is published promises of its horizons
Coherent(p) ==
    Crossings(p) = {} /\ \A h \in Horizons : p[h].q10 < p[h].point /\ p[h].point < p[h].q90

\* A run leaves what the next one may find, and publishes what holds together.
LEMMA ResultType ==
    ASSUME NEW kept, Stored(kept), NEW cache, Cached(cache), NEW market, Quoted(market.series),
           NEW answer, Numeric(answer), Result(kept, cache, market, answer) # Missing
    PROVE  LET result == Result(kept, cache, market, answer)
           IN  Stored(result.store) /\ Cached(result.rolling) /\ Coherent(result.published.predictions)
<1> DEFINE snapshots == FoldLeft(Ingest, kept.snapshots, cache)
           outcomes == Enriched(snapshots, kept.outcomes, market)
           severity == Drifted(snapshots, outcomes, market)
           snapshot == BuildForecast(answer, market.series, snapshots, outcomes, AdaptiveConfidence(severity))
           counts == [h \in Horizons |->
                         Probability(snapshots, MaturedBy(outcomes, snapshot.origin), h,
                                     snapshot.ensemble[h].point - snapshot.close).samples]
           coherence == Coherence(snapshot.ensemble, snapshot.close, counts)
           known == KnownAt(snapshots, outcomes, Closes(market.series), snapshot.origin)
           final == [snapshot EXCEPT !.ensemble = coherence.predictions]
           after == Ingest(snapshots, final)
           result == Result(kept, cache, market, answer)
<1>1. Sound(answer) /\ result = Concluded(snapshots, outcomes, cache, market, severity, snapshot, coherence)
    BY DEF Result, Learned, Forecast, AfterForecast, Cohered
<1>2. History(snapshots) /\ Extending(snapshots, kept.snapshots)
    BY FoldedType DEF Stored
<1> HIDE DEF snapshots
<1>3. DOMAIN kept.outcomes \subseteq (DOMAIN snapshots) \X Horizons
    BY <1>2 DEF Stored, Extending
<1>4. Valued(outcomes) /\ DOMAIN outcomes \subseteq (DOMAIN snapshots) \X Horizons
    BY <1>3, EnrichedType DEF Stored
<1> HIDE DEF outcomes
<1>5. AdaptiveConfidence(severity) \in Nat
    BY ConfidenceType
<1> HIDE DEF severity
<1>6. Sane(snapshot) /\ Quantiles(snapshot.ensemble)
    BY <1>1, <1>2, <1>4, <1>5, BuildType
<1> HIDE DEF snapshot, counts
<1>7. /\ ~Raises(coherence)
      /\ result.store = [snapshots |-> after, outcomes |-> Enriched(after, outcomes, market)]
      /\ result.rolling = Save(cache, final)
      /\ result.published = Assessment(snapshots, outcomes, known, snapshot, coherence, severity)
    <2> HIDE DEF coherence, after, final, known
    <2>1. result = IF Raises(coherence) THEN Missing
                   ELSE [store |-> [snapshots |-> after, outcomes |-> Enriched(after, outcomes, market)],
                         rolling |-> Save(cache, final),
                         published |-> Assessment(snapshots, outcomes, known, snapshot, coherence, severity)]
        BY <1>1 DEF Concluded, known, final, after
    <2> HIDE DEF result
    <2>2. ~Raises(coherence)
        BY <2>1 DEF result
    <2> QED BY <2>1, <2>2
<1>8. result.published.predictions = coherence.predictions
    <2> HIDE DEF coherence, known
    <2>1. LET a == Assessment(snapshots, outcomes, known, snapshot, coherence, severity)
          IN  a.predictions = coherence.predictions
        BY DEF Assessment
    <2> HIDE DEF result
    <2> QED BY <1>7, <2>1
<1>9. Crossings(coherence.predictions) = {} /\ Sensible(coherence.predictions) /\ Sane(final)
    BY <1>6, <1>7, CoheredType
<1> HIDE DEF result, coherence, final
<1>10. History(after) /\ DOMAIN snapshots \subseteq DOMAIN after
    <2>1. Ingested(after, snapshots, final)
        BY <1>2, IngestFacts DEF History
    <2>2. History(after)
        BY <1>2, <1>9, IngestType
    <2> QED BY <2>1, <2>2 DEF Ingested
<1> HIDE DEF after
<1>11. Stored(result.store)
    <2>1. DOMAIN outcomes \subseteq (DOMAIN after) \X Horizons
        BY <1>4, <1>10
    <2> DEFINE new == Enriched(after, outcomes, market)
    <2>2. Valued(new) /\ DOMAIN new \subseteq (DOMAIN after) \X Horizons
        BY <1>4, <2>1, EnrichedType
    <2> HIDE DEF new
    <2>3. result.store.snapshots = after /\ result.store.outcomes = new
        BY <1>7 DEF new
    <2> QED BY <1>10, <2>2, <2>3 DEF Stored
<1>12. Cached(result.rolling)
    BY <1>7, <1>9, SaveType
<1>13. Coherent(result.published.predictions)
    BY <1>8, <1>9 DEF Coherent, Sensible
<1> QED BY <1>11, <1>12, <1>13, SMTT(30) DEF result

LEMMA OutcomeType ==
    ASSUME NEW n \in Nat, NEW closes, NEW time, HourTape(closes, time, n),
           NEW kept, Stored(kept), NEW cache, Cached(cache), NEW answer, Numeric(answer),
           NEW delivery \in Deliveries(closes, time),
           Outcome(kept, cache, delivery, answer, time) # Missing
    PROVE  LET result == Outcome(kept, cache, delivery, answer, time)
           IN  Stored(result.store) /\ Cached(result.rolling) /\ Coherent(result.published.predictions)
<1> DEFINE market == Market(delivery, time)
<1>1. Outcome(kept, cache, delivery, answer, time) = Result(kept, cache, market, answer)
    BY DEF Outcome
<1>2. market.series # Missing
    BY <1>1 DEF Result
<1>3. Quoted(market.series)
    BY <1>2, DeliveredIsQuoted
<1> HIDE DEF market
<1> QED BY <1>1, <1>3, ResultType

\* What the hours before the first state leave.
Holding(s) == Stored(s.store) /\ Cached(s.rolling)

LEMMA FirstHolds == Stored(EmptyStore) /\ Cached(<<>>) /\ Holding(FirstState)
<1>1. DOMAIN <<>> = {} /\ Len(<<>>) = 0 /\ <<>> = [i \in {} |-> <<>>[i]]
    OBVIOUS
<1>2. IsFiniteSet({})
    BY FS_EmptySet
<1>3. Stored(EmptyStore)
    <2>1. EmptyStore.snapshots = <<>> /\ EmptyStore.outcomes = <<>>
        BY DEF EmptyStore
    <2> QED BY <1>1, <1>2, <2>1 DEF Stored, History, Valued
<1>4. Cached(<<>>)
    <2>1. 1 .. 0 = {}
        OBVIOUS
    <2> QED BY <1>1, <2>1 DEF Cached, IsSequence
<1>5. FirstState.store = EmptyStore /\ FirstState.rolling = <<>>
    BY DEF FirstState
<1> QED BY <1>3, <1>4, <1>5 DEF Holding

LEMMA LiveHolds ==
    ASSUME NEW s, Reached(s), Holding(s), NEW hour, hour.move \in Int, Numeric(hour.answer)
    PROVE  Holding(Live(s, hour))
<1>1. PICK n \in Nat : HourTape(s.tape, s.now, n)
    BY DEF Reached
<1> DEFINE time == s.now + Hour
           closes == With(s.tape, LatestHour(time), s.tape[LatestHour(s.now)] + hour.move)
           series == Answered(closes, LatestHour(time))
           result == Outcome(s.store, s.rolling, <<series, series>>, hour.answer, time)
           new == Live(s, hour)
           after == With(s.tape, Hour * (n + 1), s.tape[Hour * n] + hour.move)
<1>2. /\ LatestHour(s.now) = Hour * n
      /\ time \in {Hour * (n + 1) + 20, Hour * (n + 1) + 50}
    BY <1>1, LatestFacts DEF HourTape, Hour
<1>3. HourTape(after, time, n + 1)
    <2> HIDE DEF after, time
    <2> QED BY <1>1, <1>2, HourPasses DEF after
<1>4. n + 1 \in Nat /\ LatestHour(time) = Hour * (n + 1)
    <2> HIDE DEF after, time
    <2>1. n + 1 \in Nat
        OBVIOUS
    <2> QED BY <1>3, <2>1, LatestFacts
<1>5. closes = after
    BY <1>2, <1>4
<1>6. <<series, series>> \in Deliveries(closes, time)
    BY DEF Deliveries
<1>7. new = Turned(closes, time, IF result = Missing THEN s ELSE result)
    BY DEF Live
<1> HIDE DEF result, closes, time, new, after, series
<1>8. /\ new.store = (IF result = Missing THEN s ELSE result).store
      /\ new.rolling = (IF result = Missing THEN s ELSE result).rolling
    BY <1>7 DEF Turned
<1>9. CASE result = Missing
    BY <1>8, <1>9 DEF Holding, new
<1>10. CASE result # Missing
    <2>1. Stored(result.store) /\ Cached(result.rolling)
        BY <1>3, <1>4, <1>5, <1>6, <1>10, OutcomeType DEF result, Holding
    <2> QED BY <1>8, <1>10, <2>1 DEF Holding, new
<1> QED BY <1>9, <1>10

LEMMA LivedHolds ==
    ASSUME NEW past \in Pasts
    PROVE  Holding(Lived(past))
<1> DEFINE n == Len(past)
           S == {m \in 0 .. n : Reached(Lives(past)[m]) /\ Holding(Lives(past)[m])}
<1>1. n \in Nat /\ \A i \in 1 .. n : past[i].move \in Int /\ Numeric(past[i].answer)
    BY CycleAssumption
<1>2. 0 \in S
    BY <1>1, FirstIsReached, FirstHolds, LivesFacts
<1>3. ASSUME NEW m \in S, m < n PROVE m + 1 \in S
    <2>1. m + 1 \in 0 .. n /\ m + 1 # 0 /\ (m + 1) - 1 = m /\ m + 1 \in 1 .. n
        BY <1>1, <1>3
    <2>2. Lives(past)[m + 1] = Live(Lives(past)[m], past[m + 1])
        <3>1. Lives(past)[m + 1] = IF m + 1 = 0 THEN FirstState ELSE Live(Lives(past)[(m + 1) - 1], past[m + 1])
            BY <1>1, <2>1, LivesFacts
        <3> QED BY <2>1, <3>1
    <2>3. Reached(Live(Lives(past)[m], past[m + 1])) /\ Holding(Live(Lives(past)[m], past[m + 1]))
        BY <1>1, <2>1, LiveIsReached, LiveHolds
    <2> QED BY <2>1, <2>2, <2>3
<1>4. n \in S
    <2>1. S \in SUBSET (0 .. n)
        OBVIOUS
    <2> HIDE DEF S, n
    <2> QED BY <1>1, <1>2, <1>3, <2>1, UpTo
<1> QED BY <1>4 DEF Lived

\* The store and the cache hold forecasts of numbers, each point inside its interval,
\* and closes of some of their targets; what is published holds together.
StoreInv == Stored(store) /\ Cached(rolling) /\ PublishedIsCoherent

LEMMA StoreInit == ASSUME Init PROVE StoreInv
<1>1. PICK past \in Pasts : store = Lived(past).store /\ rolling = Lived(past).rolling
    BY DEF Init
<1>2. Holding(Lived(past))
    BY LivedHolds
<1>3. PublishedIsCoherent
    BY DEF Init, PublishedIsCoherent
<1> QED BY <1>1, <1>2, <1>3 DEF Holding, StoreInv

LEMMA StoreRun ==
    ASSUME CycleInv, StoreInv, Run
    PROVE  StoreInv'
<1>1. PICK n \in Nat : HourTape(tape, now, n)
    BY DEF CycleInv
<1>2. PICK delivery \in Deliveries(tape, now), answer \in Answers :
          LET result == Outcome(store, rolling, delivery, answer, now)
          IN  /\ result # Missing /\ store' = result.store /\ rolling' = result.rolling
              /\ published' = result.published
    BY DEF Run
<1>3. Numeric(answer)
    BY CycleAssumption
<1>4. Stored(store') /\ Cached(rolling') /\ Coherent(published'.predictions)
    BY <1>1, <1>2, <1>3, OutcomeType DEF StoreInv
<1> QED BY <1>4 DEF StoreInv, PublishedIsCoherent, Coherent

LEMMA StoreStays ==
    ASSUME StoreInv, UNCHANGED <<store, rolling, published>>
    PROVE  StoreInv'
BY DEF StoreInv, PublishedIsCoherent

LEMMA StoreLost ==
    ASSUME StoreInv, LoseStore
    PROVE  StoreInv'
<1>1. store' = EmptyStore /\ rolling' = rolling /\ published' = published
    BY DEF LoseStore
<1>2. Stored(store')
    BY <1>1, FirstHolds
<1> QED BY <1>1, <1>2 DEF StoreInv, PublishedIsCoherent

LEMMA StoreInvariance == Spec => []StoreInv
<1>1. ASSUME CycleInv, StoreInv, [Next]_vars PROVE StoreInv'
    <2>1. CASE Run
        BY <1>1, <2>1, StoreRun
    <2>2. CASE LoseStore
        BY <1>1, <2>2, StoreLost
    <2>3. CASE NextHour
        BY <1>1, <2>3, StoreStays DEF NextHour
    <2>4. CASE Later
        BY <1>1, <2>4, StoreStays DEF Later
    <2>5. CASE UNCHANGED vars
        BY <1>1, <2>5, StoreStays DEF vars
    <2> QED BY <1>1, <2>1, <2>2, <2>3, <2>4, <2>5 DEF Next
<1> QED BY <1>1, CycleInvariance, StoreInit, PTL DEF Spec

\* For every market, answer of the model and state of the store: the medians and
\* intervals of a published forecast fit each other, and its points are inside them
\* (assert_forecast_coherent).
THEOREM PublishedFitsTogether == Spec => []PublishedIsCoherent
<1>1. StoreInv => PublishedIsCoherent
    BY DEF StoreInv
<1> QED BY <1>1, StoreInvariance, PTL

-----------------------------------------------------------------------------
(* What a claim rests on. *)

\* A healthy claim has earned each of its horizons.
LEMMA ClaimFacts ==
    ASSUME NEW hist, History(hist), NEW outcomes, Valued(outcomes),
           DOMAIN outcomes \subseteq (DOMAIN hist) \X Horizons,
           NEW snapshot, Sane(snapshot), NEW known, NEW coherence, NEW severity,
           Assessment(hist, outcomes, known, snapshot, coherence, severity).state = "healthy"
    PROVE  LET a == Assessment(hist, outcomes, known, snapshot, coherence, severity)
           IN  \A h \in Horizons :
                   /\ Performance(hist, Ever(outcomes), h).samples >= MinEvidence
                   /\ Performance(hist, Ever(outcomes), h).ensemble
                         < Performance(hist, Ever(outcomes), h).persistence
                   /\ Abs(snapshot.ensemble[h].point - snapshot.close) > a.threshold[h].neutral
                   /\ a.base = snapshot.close
<1> DEFINE ever == [k \in DOMAIN outcomes |-> outcomes[k].actual]
           matured == MaturedBy(outcomes, snapshot.origin)
           Move(h) == snapshot.ensemble[h].point - snapshot.close
           Width(h) == snapshot.ensemble[h].q90 - snapshot.ensemble[h].q10
           probability == [h \in Horizons |-> Probability(hist, matured, h, Move(h))]
           threshold == [h \in Horizons |-> Threshold(hist, matured, h, Move(h))]
           labels == [h \in Horizons |->
               HorizonConfidence(Performance(hist, ever, h), Calibration(hist, ever, h, snapshot.regime),
                                 Width(h), severity)]
           confidence == Confidence(labels)
           agreeing == [h \in Horizons |-> snapshot.ensemble[h].agreeing]
           state == Abstention(severity, confidence, threshold, probability, agreeing)
           a == Assessment(hist, outcomes, known, snapshot, coherence, severity)
<1>1. a.state = state /\ a.threshold = threshold /\ a.base = snapshot.close
    <2> HIDE DEF ever, matured, probability, threshold, confidence, agreeing, state
    <2> QED BY DEF Assessment, ever, matured, probability, threshold, confidence, agreeing, state
<1>2. confidence \notin {"suppressed_drift", "insufficient_evidence", "low"}
      /\ \A h \in Horizons : threshold[h].edge = "edge"
    <2> HIDE DEF confidence, threshold, probability, agreeing, a
    <2>1. state = "healthy"
        BY <1>1 DEF a
    <2> DEFINE disagreement == \E h \in Horizons : 2 * agreeing[h] < Cardinality(Models)
               doubt == \/ confidence \in {"suppressed_drift", "insufficient_evidence", "low"}
                        \/ \E h \in Horizons : threshold[h].edge # "edge"
                        \/ \E h \in Horizons : ~probability[h].reliable
    <2>2. state = IF severity = "severe" THEN "forecast_withheld"
                  ELSE IF disagreement THEN "degraded_inputs"
                  ELSE IF doubt THEN "low_confidence_no_measurable_edge"
                  ELSE "healthy"
        BY DEF Abstention
    <2>3. ~doubt
        <3> HIDE DEF state, doubt, disagreement
        <3> QED BY <2>1, <2>2
    <2> QED BY <2>3
<1>3. Evidence(hist, ever) /\ Evidence(hist, matured) /\ ever = Ever(outcomes)
    BY EverIsEvidence DEF Ever
<1> HIDE DEF ever, matured
<1>4. ASSUME NEW h \in Horizons
      PROVE  /\ labels[h] \in {"suppressed_drift", "insufficient_evidence", "low", "moderate", "high"}
             /\ labels[h] \in {"moderate", "high"} =>
                    /\ Performance(hist, ever, h).samples >= MinEvidence
                    /\ Performance(hist, ever, h).ensemble < Performance(hist, ever, h).persistence
    <2> DEFINE p == Performance(hist, ever, h)
               c == Calibration(hist, ever, h, snapshot.regime)
    <2>1. p.samples \in Nat /\ p.ensemble \in Int /\ p.persistence \in Nat
        BY <1>3, PerformanceType
    <2>2. Reported(c)
        BY <1>3, CalibrationType
    <2>3. Width(h) \in Int
        BY DEF Sane, Measurable, Sensible
    <2>4. labels[h] = HorizonConfidence(p, c, Width(h), severity)
        OBVIOUS
    <2> HIDE DEF p, c, labels, Width
    <2>5. /\ labels[h] \in {"suppressed_drift", "insufficient_evidence", "low", "moderate", "high"}
          /\ labels[h] \in {"moderate", "high"} => p.samples >= MinEvidence /\ p.ensemble < p.persistence
        BY <2>1, <2>2, <2>3, <2>4, HorizonConfidenceFacts
    <2> QED BY <2>5 DEF p
<1> HIDE DEF labels
<1>5. \A h \in Horizons : labels[h] \in {"moderate", "high"}
    BY <1>2, <1>4, ConfidenceFacts
<1>6. ASSUME NEW h \in Horizons PROVE Abs(Move(h)) > threshold[h].neutral
    <2>1. Move(h) \in Int
        BY DEF Sane, Measurable, Sensible
    <2>2. threshold[h] = Threshold(hist, matured, h, Move(h)) /\ threshold[h].edge = "edge"
        BY <1>2
    <2> HIDE DEF threshold, Move
    <2> QED BY <1>3, <2>1, <2>2, ThresholdFacts
<1> HIDE DEF threshold, a, state, confidence, probability, agreeing
<1> QED BY <1>1, <1>3, <1>4, <1>5, <1>6 DEF a

\* what a claim of a run promises of the history it leaves
Earned(kept, claim) ==
    \A h \in Horizons :
        LET origins == {k[1] : k \in {l \in DOMAIN kept.outcomes : l[2] = h}}
        IN  /\ Cardinality(origins) >= MinEvidence
            /\ SumFunction([o \in origins |->
                   Abs(kept.snapshots[o].ensemble[h].point - kept.outcomes[<<o, h>>].actual)])
                 < SumFunction([o \in origins |->
                       Abs(kept.snapshots[o].close - kept.outcomes[<<o, h>>].actual)])
            /\ Abs(claim.predictions[h].point - claim.base) > claim.threshold[h].neutral

\* what a summary of performance says
Measures(p, count, ours, theirs) == p.samples = count /\ p.ensemble = ours /\ p.persistence = theirs

\* What was measured of a history can be read off the one that extends it.
LEMMA MeasuredFacts ==
    ASSUME NEW hist, History(hist), NEW outcomes, Valued(outcomes),
           DOMAIN outcomes \subseteq (DOMAIN hist) \X Horizons,
           NEW after, Extending(after, hist), NEW h
    PROVE  LET origins == {k[1] : k \in {l \in DOMAIN outcomes : l[2] = h}}
               p == Performance(hist, Ever(outcomes), h)
           IN  Measures(p, Cardinality(origins),
                   SumFunction([o \in origins |-> Abs(after[o].ensemble[h].point - outcomes[<<o, h>>].actual)]),
                   SumFunction([o \in origins |-> Abs(after[o].close - outcomes[<<o, h>>].actual)]))
<1> DEFINE origins == {k[1] : k \in {l \in DOMAIN outcomes : l[2] = h}}
           known == Ever(outcomes)
           all == OriginsKnown(known, h)
           ours == [o \in all |-> Abs(hist[o].ensemble[h].point - known[<<o, h>>])]
           theirs == [o \in all |-> Abs(hist[o].models["persistence"][h] - known[<<o, h>>])]
           mine == [o \in origins |-> Abs(after[o].ensemble[h].point - outcomes[<<o, h>>].actual)]
           still == [o \in origins |-> Abs(after[o].close - outcomes[<<o, h>>].actual)]
           p == Performance(hist, known, h)
<1>1. p.samples = Cardinality(all) /\ p.ensemble = SumFunction(ours) /\ p.persistence = SumFunction(theirs)
    <2> DEFINE n == Cardinality(all)
               a == SumFunction(ours)
               b == SumFunction(theirs)
    <2>1. p = [samples |-> n, ensemble |-> a, persistence |-> b]
        BY DEF Performance
    <2> HIDE DEF n, a, b, p
    <2>2. p.samples = n /\ p.ensemble = a /\ p.persistence = b
        BY <2>1
    <2> QED BY <2>2 DEF n, a, b
<1>2. Evidence(hist, known)
    BY EverIsEvidence
<1>3. DOMAIN known = DOMAIN outcomes /\ \A k \in DOMAIN outcomes : known[k] = outcomes[k].actual
    BY DEF Ever
<1> HIDE DEF known
<1>4. all = origins
    BY <1>3 DEF OriginsKnown
<1>5. ASSUME NEW o \in all
      PROVE  /\ <<o, h>> \in DOMAIN outcomes /\ after[o] = hist[o]
             /\ hist[o].models["persistence"][h] = hist[o].close
    <2>1. o \in DOMAIN hist /\ <<o, h>> \in DOMAIN known /\ h \in Horizons
        BY <1>2, OriginsFacts DEF Evidence
    <2>2. Sane(hist[o])
        BY <2>1 DEF History
    <2> QED BY <1>3, <2>1, <2>2 DEF Extending, Sane, Measurable
<1> HIDE DEF all, origins
<1>6. ours = mine /\ theirs = still
    <2>1. ASSUME NEW o \in all PROVE ours[o] = mine[o] /\ theirs[o] = still[o]
        BY <1>3, <1>4, <1>5
    <2>2. ours = [o \in all |-> ours[o]] /\ theirs = [o \in all |-> theirs[o]]
        OBVIOUS
    <2>3. mine = [o \in all |-> mine[o]] /\ still = [o \in all |-> still[o]]
        BY <1>4
    <2> HIDE DEF ours, theirs, mine, still
    <2> QED BY <2>1, <2>2, <2>3
<1> HIDE DEF ours, theirs, mine, still, p
<1>7. Measures(p, Cardinality(origins), SumFunction(mine), SumFunction(still))
    BY <1>1, <1>4, <1>6 DEF Measures
<1> QED BY <1>7 DEF p, mine, still, origins, known

\* No outcome can be added to what was just recorded: the forecast of the newest candle
\* has no target yet.
LEMMA NothingNewIsDue ==
    ASSUME NEW hist, NEW outcomes, NEW market, NEW closes, Honest(market, closes), NEW kept,
           outcomes = Enriched(hist, kept, market),
           NEW after, DOMAIN after \subseteq (DOMAIN hist) \cup {Last(market.series).at}
    PROVE  Enriched(after, outcomes, market) = outcomes
<1> DEFINE Due(o, done) == {k \in (DOMAIN o) \X Horizons :
                                k \notin DOMAIN done /\ k[1] + Hour * k[2] \in Stamps(market.series)}
           Value(k) == [actual |-> Close(market.series, k[1] + Hour * k[2]), matured |-> market.at,
                        checked |-> k[1] + Hour * k[2] \in market.compared]
           first == (DOMAIN kept) \cup Due(hist, kept)
           due == Due(after, outcomes)
<1>1. outcomes = [k \in first |-> IF k \in DOMAIN kept THEN kept[k] ELSE Value(k)]
    BY DEF Enriched
<1>2. Enriched(after, outcomes, market) =
          [k \in (DOMAIN outcomes) \cup due |-> IF k \in DOMAIN outcomes THEN outcomes[k] ELSE Value(k)]
    BY DEF Enriched
<1> HIDE DEF Value
<1>3. DOMAIN outcomes = first
    BY <1>1
<1>4. ASSUME NEW k \in due PROVE FALSE
    <2>1. PICK o \in DOMAIN after, h \in Horizons : k = <<o, h>>
        OBVIOUS
    <2>2. k \notin DOMAIN outcomes /\ o + Hour * h \in Stamps(market.series)
        BY <2>1
    <2>3. CASE o \in DOMAIN hist
        <3>1. k \in (DOMAIN hist) \X Horizons /\ k[1] + Hour * k[2] \in Stamps(market.series)
            BY <2>1, <2>2, <2>3
        <3>2. k \in first
            BY <3>1
        <3> QED BY <1>3, <2>2, <3>2
    <2>4. CASE o = Last(market.series).at
        <3>1. o + Hour * h <= o /\ o \in Int /\ h \in Nat \ {0}
            BY <2>2, <2>4, EngineAssumption DEF Honest
        <3> QED BY <3>1 DEF Hour
    <2> QED BY <2>3, <2>4
<1> HIDE DEF due
<1>5. due = {}
    BY <1>4
<1>6. outcomes = [k \in DOMAIN outcomes |-> outcomes[k]]
    BY <1>1, <1>3
<1>7. Enriched(after, outcomes, market) = [k \in DOMAIN outcomes |-> outcomes[k]]
    BY <1>2, <1>5
<1> QED BY <1>6, <1>7

\* A run that claims to be healthy leaves the history that says so.
LEMMA ResultEarns ==
    ASSUME NEW kept, Stored(kept), NEW cache, Cached(cache), NEW market, Quoted(market.series),
           NEW closes, Honest(market, closes),
           NEW answer, Numeric(answer), Result(kept, cache, market, answer) # Missing,
           Result(kept, cache, market, answer).published.state = "healthy"
    PROVE  LET result == Result(kept, cache, market, answer)
           IN  Earned(result.store, result.published)
<1> DEFINE snapshots == FoldLeft(Ingest, kept.snapshots, cache)
           outcomes == Enriched(snapshots, kept.outcomes, market)
           severity == Drifted(snapshots, outcomes, market)
           snapshot == BuildForecast(answer, market.series, snapshots, outcomes, AdaptiveConfidence(severity))
           counts == [h \in Horizons |->
                         Probability(snapshots, MaturedBy(outcomes, snapshot.origin), h,
                                     snapshot.ensemble[h].point - snapshot.close).samples]
           coherence == Coherence(snapshot.ensemble, snapshot.close, counts)
           known == KnownAt(snapshots, outcomes, Closes(market.series), snapshot.origin)
           final == [snapshot EXCEPT !.ensemble = coherence.predictions]
           after == Ingest(snapshots, final)
           claim == Assessment(snapshots, outcomes, known, snapshot, coherence, severity)
           new == Enriched(after, outcomes, market)
           result == Result(kept, cache, market, answer)
<1>1. Sound(answer) /\ result = Concluded(snapshots, outcomes, cache, market, severity, snapshot, coherence)
    BY Zenon DEF Result, Learned, Forecast, AfterForecast, Cohered
<1>2. History(snapshots) /\ Extending(snapshots, kept.snapshots)
    BY FoldedType DEF Stored
<1> HIDE DEF snapshots
<1>3. DOMAIN kept.outcomes \subseteq (DOMAIN snapshots) \X Horizons
    BY <1>2 DEF Stored, Extending
<1>4. /\ Valued(outcomes) /\ DOMAIN outcomes \subseteq (DOMAIN snapshots) \X Horizons
      /\ outcomes = Enriched(snapshots, kept.outcomes, market)
    BY <1>3, EnrichedType, SMTT(30) DEF Stored
<1> HIDE DEF outcomes
<1>5. AdaptiveConfidence(severity) \in Nat
    BY ConfidenceType
<1> HIDE DEF severity
<1>6. Sane(snapshot) /\ Quantiles(snapshot.ensemble) /\ snapshot.origin = Last(market.series).at
    <2>1. Sane(snapshot) /\ Quantiles(snapshot.ensemble)
        BY <1>1, <1>2, <1>4, <1>5, BuildType, ZenonT(40)
    <2>2. StampedBy(snapshot, market.series)
        BY <1>1, <1>2, <1>4, <1>5, BuildType, Zenon
    <2> HIDE DEF snapshot
    <2> QED BY <2>1, <2>2 DEF StampedBy
<1> HIDE DEF snapshot, counts
<1>7. /\ ~Raises(coherence)
      /\ result.store = [snapshots |-> after, outcomes |-> new]
      /\ result.published = claim
    <2> HIDE DEF coherence, after, final, known, claim, new
    <2>1. result = IF Raises(coherence) THEN Missing
                   ELSE [store |-> [snapshots |-> after, outcomes |-> new],
                         rolling |-> Save(cache, final), published |-> claim]
        BY <1>1 DEF Concluded, known, final, after, claim, new
    <2> HIDE DEF result
    <2>2. ~Raises(coherence)
        BY <2>1 DEF result
    <2> QED BY <2>1, <2>2
<1>8. /\ \A h \in Horizons : coherence.predictions[h].point = snapshot.ensemble[h].point
      /\ final.origin = snapshot.origin
    BY <1>6, <1>7, CoheredType
<1>9. claim.predictions = coherence.predictions
    <2> HIDE DEF coherence, known
    <2> QED BY DEF Assessment
<1>10. claim.state = "healthy"
    <2> HIDE DEF claim, result
    <2> QED BY <1>7 DEF result
<1> HIDE DEF coherence, final, known
<1>11. \A h \in Horizons :
           /\ Performance(snapshots, Ever(outcomes), h).samples >= MinEvidence
           /\ Performance(snapshots, Ever(outcomes), h).ensemble
                 < Performance(snapshots, Ever(outcomes), h).persistence
           /\ Abs(snapshot.ensemble[h].point - snapshot.close) > claim.threshold[h].neutral
           /\ claim.base = snapshot.close
    BY <1>2, <1>4, <1>6, <1>10, ClaimFacts
<1> HIDE DEF claim, result
<1>12. Ingested(after, snapshots, final)
    BY <1>2, IngestFacts DEF History
<1> HIDE DEF after
<1>13. Extending(after, snapshots) /\ DOMAIN after \subseteq (DOMAIN snapshots) \cup {Last(market.series).at}
    BY <1>6, <1>8, <1>12 DEF Ingested, Extending
<1>14. new = outcomes
    BY <1>4, <1>13, NothingNewIsDue
<1> HIDE DEF new
<1>15. /\ result.store.snapshots = after /\ result.store.outcomes = outcomes
       /\ result.published = claim
    BY <1>7, <1>14
<1>16. ASSUME NEW h \in Horizons
       PROVE  LET origins == {k[1] : k \in {l \in DOMAIN outcomes : l[2] = h}}
              IN  /\ Cardinality(origins) >= MinEvidence
                  /\ SumFunction([o \in origins |->
                         Abs(after[o].ensemble[h].point - outcomes[<<o, h>>].actual)])
                       < SumFunction([o \in origins |-> Abs(after[o].close - outcomes[<<o, h>>].actual)])
                  /\ Abs(claim.predictions[h].point - claim.base) > claim.threshold[h].neutral
    <2> DEFINE origins == {k[1] : k \in {l \in DOMAIN outcomes : l[2] = h}}
               mine == SumFunction([o \in origins |->
                           Abs(after[o].ensemble[h].point - outcomes[<<o, h>>].actual)])
               still == SumFunction([o \in origins |-> Abs(after[o].close - outcomes[<<o, h>>].actual)])
               p == Performance(snapshots, Ever(outcomes), h)
    <2>1. p.samples = Cardinality(origins) /\ p.ensemble = mine /\ p.persistence = still
        <3>1. Measures(p, Cardinality(origins), mine, still)
            BY <1>2, <1>4, <1>13, MeasuredFacts
        <3> HIDE DEF p, mine, still, origins
        <3> QED BY <3>1 DEF Measures
    <2>2. p.samples >= MinEvidence /\ p.ensemble < p.persistence
        BY <1>11
    <2> HIDE DEF p, mine, still, origins
    <2>3. Cardinality(origins) >= MinEvidence /\ mine < still
        BY <2>1, <2>2
    <2>4. Abs(claim.predictions[h].point - claim.base) > claim.threshold[h].neutral
        BY <1>8, <1>9, <1>11
    <2> QED BY <2>3, <2>4 DEF mine, still, origins
<1> HIDE DEF snapshot
<1>17. Earned([snapshots |-> after, outcomes |-> outcomes], claim)
    BY <1>16 DEF Earned
<1>18. result.store = [snapshots |-> after, outcomes |-> outcomes]
    BY <1>7, <1>14
<1> QED BY <1>15, <1>17, <1>18, SMTT(30) DEF result

LEMMA OutcomeEarns ==
    ASSUME NEW n \in Nat, NEW closes, NEW time, HourTape(closes, time, n),
           NEW kept, Stored(kept), NEW cache, Cached(cache), NEW answer, Numeric(answer),
           NEW delivery \in Deliveries(closes, time),
           Outcome(kept, cache, delivery, answer, time) # Missing,
           Outcome(kept, cache, delivery, answer, time).published.state = "healthy"
    PROVE  LET result == Outcome(kept, cache, delivery, answer, time)
           IN  Earned(result.store, result.published)
<1> DEFINE market == Market(delivery, time)
<1>1. Outcome(kept, cache, delivery, answer, time) = Result(kept, cache, market, answer)
    BY DEF Outcome
<1>2. market.series # Missing
    BY <1>1 DEF Result
<1>3. Quoted(market.series) /\ Honest(market, closes)
    BY <1>2, DeliveredIsQuoted, DeliveredIsHonest
<1> HIDE DEF market
<1> QED BY <1>1, <1>3, ResultEarns

\* For every market, answer of the model and state of the store: a forecast is only
\* called healthy when each of its horizons has enough outcomes in the history it leaves,
\* its ensemble was nearer to them than persistence, and its move is beyond the noise
\* (build_abstention_policy, build_forecast_confidence).
THEOREM HealthIsEarned == Spec => ClaimsAreEarned
<1>1. ASSUME CycleInv, StoreInv, Run, published'.state = "healthy" PROVE Earned(store', published')
    <2>1. PICK n \in Nat : HourTape(tape, now, n)
        BY <1>1 DEF CycleInv
    <2>2. PICK delivery \in Deliveries(tape, now), answer \in Answers :
              LET result == Outcome(store, rolling, delivery, answer, now)
              IN  result # Missing /\ store' = result.store /\ published' = result.published
        BY <1>1 DEF Run
    <2>3. Numeric(answer)
        BY CycleAssumption
    <2> QED BY <1>1, <2>1, <2>2, <2>3, OutcomeEarns DEF StoreInv
<1>2. ASSUME CycleInv, StoreInv, [Next]_vars, published' # published PROVE Run
    BY <1>2 DEF Next, NextHour, Later, LoseStore, vars
<1>3. ASSUME CycleInv, StoreInv, [Next]_vars
      PROVE  published' # published /\ published'.state = "healthy" => Earned(store', published')
    BY <1>1, <1>2, <1>3
<1> DEFINE Claim ==
        published' # published /\ published'.state = "healthy" =>
          \A h \in Horizons :
              LET origins == {k[1] : k \in {l \in DOMAIN store'.outcomes : l[2] = h}}
                  Err(level(_)) ==
                      SumFunction([o \in origins |->
                          Abs(level(store'.snapshots[o]) - store'.outcomes[<<o, h>>].actual)])
              IN  /\ Cardinality(origins) >= MinEvidence
                  /\ Err(LAMBDA s : s.ensemble[h].point) < Err(LAMBDA s : s.close)
                  /\ Abs(published'.predictions[h].point - published'.base) > published'.threshold[h].neutral
<1>4. CycleInv /\ StoreInv /\ [Next]_vars => [Claim]_vars
    BY <1>3 DEF Earned
<1> QED BY <1>4, CycleInvariance, StoreInvariance, PTL DEF Spec, ClaimsAreEarned

-----------------------------------------------------------------------------
(* What the lead of a model rests on. *)

\* What the guard takes for the evidence of a model is its intervals that came due, and
\* how many of them held.
LEMMA UncertaintyFacts ==
    ASSUME NEW hist, NEW actuals, NEW model \in Models, NEW h \in Horizons, NEW time \in Int, NEW limit \in Nat,
           IsFiniteSet(DOMAIN hist), DOMAIN hist \subseteq Int, Short(DOMAIN hist, limit),
           \A o \in DOMAIN hist, c \in Contexts : hist[o].bands[c][h][1] \in Int /\ hist[o].bands[c][h][2] \in Int
    PROVE  LET u == Uncertainty(hist, Visible(actuals, time), model, h, limit)
               n == Cardinality(Banded(hist, actuals, model, h, time))
               k == Cardinality(Held(hist, actuals, model, h, time))
           IN  /\ u.samples = n /\ u.covered = k
               /\ u.calibrated <=> (n >= AdaptiveMin)
               /\ u.overconfident <=> (n >= AdaptiveMin /\ 1000 * k < 650 * n)
<1> DEFINE visible == Visible(actuals, time)
           u == Uncertainty(hist, visible, model, h, limit)
           n == Cardinality(Banded(hist, actuals, model, h, time))
           k == Cardinality(Held(hist, actuals, model, h, time))
           IsBand(o, c) == hist[o].bands[c][h][2] > hist[o].bands[c][h][1]
           due == {o \in DOMAIN hist : o + Hour * h \in DOMAIN visible /\ \E c \in Contexts : IsBand(o, c)}
           kept == {o \in Newest(due, limit) : model \in Contexts /\ IsBand(o, model)}
           inside == {o \in kept : /\ hist[o].bands[model][h][1] <= visible[o + Hour * h]
                                   /\ visible[o + Hour * h] <= hist[o].bands[model][h][2]}
<1>1. /\ u.samples = Cardinality(kept) /\ u.covered = Cardinality(inside)
      /\ u.calibrated <=> (Cardinality(kept) >= AdaptiveMin)
      /\ u.overconfident
            <=> (Cardinality(kept) >= AdaptiveMin /\ 1000 * Cardinality(inside) < 650 * Cardinality(kept))
    BY ZenonT(40) DEF Uncertainty, UncertaintyMin
<1>2. Newest(due, limit) = due
    <2>1. due \in SUBSET DOMAIN hist
        OBVIOUS
    <2> HIDE DEF due
    <2> QED BY <2>1, ShortPart
<1>3. /\ DOMAIN visible = {t \in DOMAIN actuals : t <= time}
      /\ \A t \in DOMAIN visible : visible[t] = actuals[t]
    BY DEF Visible
<1> HIDE DEF visible
<1>4. \A o \in DOMAIN hist : o + Hour * h \in DOMAIN visible <=> o \in Observed(hist, actuals, h, time)
    BY <1>3 DEF Observed
<1>5. kept = Banded(hist, actuals, model, h, time)
    <2>1. ASSUME NEW o \in kept PROVE o \in Banded(hist, actuals, model, h, time)
        BY <1>2, <1>4 DEF Banded
    <2>2. ASSUME NEW o \in Banded(hist, actuals, model, h, time) PROVE o \in kept
        <3>1. /\ o \in DOMAIN hist /\ o \in Observed(hist, actuals, h, time) /\ model \in Contexts
              /\ hist[o].bands[model][h][1] < hist[o].bands[model][h][2]
            BY DEF Banded, Observed
        <3>2. IsBand(o, model)
            BY <3>1
        <3>3. o \in due
            BY <1>4, <3>1, <3>2
        <3> QED BY <1>2, <3>1, <3>2, <3>3
    <2> QED BY <2>1, <2>2
<1>6. inside = Held(hist, actuals, model, h, time)
    <2>1. \A o \in kept : o + Hour * h \in DOMAIN visible
        BY <1>4, <1>5 DEF Banded, Observed
    <2> HIDE DEF kept
    <2>2. \A o \in kept : visible[o + Hour * h] = actuals[o + Hour * h]
        BY <1>3, <2>1
    <2> QED BY <1>5, <2>2 DEF Held
<1> HIDE DEF kept, inside, u
<1> QED BY <1>1, <1>5, <1>6 DEF u, visible

\* the closes of a series are numbers
Closed(series) == \A i \in 1 .. Len(series) : series[i].close \in Int

LEMMA DownloadCloses ==
    ASSUME NEW exchange \in Exchanges
    PROVE  Closed(Download(exchange))
<1> DEFINE moves == exchange.moves
           S == DOMAIN moves \ exchange.gaps
           hours == Ascending(S)
           c == Cardinality(S)
           Level(i) == exchange.start + SumFunction(SubSeq(moves, 1, i))
           series == Download(exchange)
<1>1. moves \in Seq(Int) /\ exchange.start \in Int
    BY StudyAssumption
<1> HIDE DEF moves
<1>2. DOMAIN moves = 1 .. Len(moves) /\ Len(moves) \in Nat
    BY <1>1
<1>3. S \in SUBSET (1 .. Len(moves)) /\ S \in SUBSET Int /\ IsFiniteSet(S)
    <2>1. IsFiniteSet(1 .. Len(moves))
        BY <1>2, Indices
    <2>2. S \subseteq 1 .. Len(moves)
        BY <1>2
    <2> HIDE DEF S
    <2>3. IsFiniteSet(S)
        BY <2>1, <2>2, FS_Subset
    <2>4. 1 .. Len(moves) \subseteq Int
        BY <1>2
    <2> QED BY <2>2, <2>3, <2>4
<1> HIDE DEF S
<1>4. c \in Nat /\ hours \in [1 .. c -> S]
    BY <1>3, AscendingFacts
<1> HIDE DEF hours, c
<1>5. ASSUME NEW i \in S PROVE Level(i) \in Int
    <2> DEFINE part == SubSeq(moves, 1, i)
    <2>1. i \in Int /\ \A j \in 1 .. i : moves[j] \in Int
        BY <1>1, <1>2, <1>3
    <2>2. part \in Seq(Int)
        BY <2>1, SubSeqProperties
    <2> HIDE DEF part
    <2>3. part \in [1 .. Len(part) -> Int] /\ Len(part) \in Nat
        BY <2>2
    <2>4. SumFunction(part) \in Int
        BY <2>3, Indices, SumInt
    <2> QED BY <1>1, <2>4 DEF part
<1>6. series = [i \in 1 .. c |-> [at |-> Hour * hours[i], close |-> Level(hours[i])]]
    <2>1. DOMAIN hours = 1 .. c
        BY <1>4
    <2> QED BY <2>1 DEF Download, S, hours, moves
<1> HIDE DEF Level
<1>7. Len(series) = c
    BY <1>4, <1>6
<1>8. \A i \in 1 .. c : series[i].close = Level(hours[i]) /\ hours[i] \in S
    BY <1>4, <1>6
<1> HIDE DEF series
<1> QED BY <1>5, <1>7, <1>8 DEF Closed, series

\* The context of an origin is a series that can be forecast from.
LEMMA ContextFacts ==
    ASSUME NEW series, Len(series) \in Nat, Closed(series),
           NEW p \in ContextCandles + 1 .. Len(series)
    PROVE  Priced(SubSeq(series, p - ContextCandles + 1, p))
<1> DEFINE C == ContextCandles
           first == p - C + 1
           S == {series[i] : i \in first .. p}
           context == SubSeq(series, first, p)
<1>1. C \in Nat /\ C >= 2
    BY StudyAssumption
<1> HIDE DEF C
<1>2. p \in Int /\ first \in Int /\ first >= 1 /\ p <= Len(series) /\ p - first + 1 = C /\ first <= p
    BY <1>1 DEF C
<1>3. \A i \in first .. p : series[i] \in S
    OBVIOUS
<1> HIDE DEF S, first
<1>4. /\ Len(context) = IF first <= p THEN p - first + 1 ELSE 0
      /\ \A i \in 1 .. p - first + 1 : context[i] = series[first + i - 1]
    BY <1>2, <1>3, SubSeqProperties
<1>5. Len(context) = C
    BY <1>2, <1>4
<1> HIDE DEF context
<1>6. ASSUME NEW i \in 1 .. C PROVE context[i].close \in Int
    <2>1. context[i] = series[first + i - 1]
        BY <1>2, <1>4
    <2>2. first + i - 1 \in 1 .. Len(series)
        BY <1>1, <1>2
    <2> QED BY <2>1, <2>2 DEF Closed
<1>7. Priced(context)
    BY <1>1, <1>5, <1>6 DEF Priced
<1> QED BY <1>7 DEF context, first, C

\* A frozen forecast is in numbers.
LEMMA SampleType ==
    ASSUME NEW series, Len(series) \in Nat, Closed(series),
           NEW p \in ContextCandles + 1 .. Len(series),
           NEW answer \in [Contexts -> [Horizons -> [point : Int, q10 : Int, q90 : Int, sound : BOOLEAN]]]
    PROVE  Measurable(Sample(series, p, answer))
<1> DEFINE context == SubSeq(series, p - ContextCandles + 1, p)
           close == series[p].close
           moves == ModelMoves(answer, context)
           s == Sample(series, p, answer)
           M == [m \in Models |-> Table([h \in Horizons |-> close + moves[m][h]])]
           B == [c \in Contexts |-> Table([h \in Horizons |->
                      <<close + answer[c][h].q10, close + answer[c][h].q90>>])]
<1>1. s.close = close /\ s.models = Table(M) /\ s.bands = Table(B)
    BY DEF Sample
<1>2. close \in Int
    <2>1. p \in 1 .. Len(series)
        BY StudyAssumption
    <2> QED BY <2>1 DEF Closed
<1>3. Priced(context)
    BY ContextFacts
<1> HIDE DEF context, close
<1>4. moves \in [Models -> [Horizons -> Int]]
    <2>1. \A c \in Contexts, h \in Horizons : answer[c][h].point \in Int
        OBVIOUS
    <2> QED BY <1>3, <2>1, MovesType
<1> HIDE DEF moves
<1>5. M \in [Models -> [Horizons -> Int]]
    <2>1. ASSUME NEW m \in Models
          PROVE  Table([h \in Horizons |-> close + moves[m][h]]) \in [Horizons -> Int]
        <3>1. [h \in Horizons |-> close + moves[m][h]] \in [Horizons -> Int]
            BY <1>2, <1>4
        <3> QED BY <3>1, TableFacts
    <2> QED BY <2>1
<1>6. ASSUME NEW c \in Contexts, NEW h \in Horizons PROVE B[c][h][1] \in Int /\ B[c][h][2] \in Int
    <2> DEFINE row == [k \in Horizons |-> <<close + answer[c][k].q10, close + answer[c][k].q90>>]
    <2>1. B[c] = Table(row)
        OBVIOUS
    <2>2. row[h] = <<close + answer[c][h].q10, close + answer[c][h].q90>>
        OBVIOUS
    <2> HIDE DEF row, B
    <2>3. B[c] = row
        BY <2>1, TableFacts
    <2>4. answer[c][h].q10 \in Int /\ answer[c][h].q90 \in Int
        OBVIOUS
    <2> QED BY <1>2, <2>2, <2>3, <2>4
<1> HIDE DEF M, B, s
<1>7. Table(M) = M /\ Table(B) = B
    BY TableFacts
<1> QED BY <1>1, <1>2, <1>5, <1>6, <1>7 DEF Measurable, s

\* what a study has to learn from is in numbers
InNumbers ==
    /\ \A i \in DOMAIN samples : Measurable(samples[i])
    /\ \A t \in DOMAIN Actuals(candles) : Actuals(candles)[t] \in Int

LEMMA ClosesAre ==
    ASSUME NEW series, InOrderOfTime(series), Closed(series)
    PROVE  \A t \in DOMAIN Actuals(series) : Actuals(series)[t] \in Int
<1>1. DOMAIN series = 1 .. Len(series)
    BY DEF InOrderOfTime
<1>2. SUFFICES ASSUME NEW t \in DOMAIN Actuals(series) PROVE Actuals(series)[t] \in Int
    OBVIOUS
<1> DEFINE C == {series[i] : i \in DOMAIN series}
<1>3. t \in {series[i].at : i \in DOMAIN series} /\ Actuals(series)[t] = (CHOOSE c \in C : c.at = t).close
    BY DEF Actuals
<1>4. \E c \in C : c.at = t
    BY <1>3
<1>5. (CHOOSE c \in C : c.at = t) \in C
    BY <1>4
<1>6. \A c \in C : c.close \in Int
    BY <1>1 DEF Closed
<1> QED BY <1>3, <1>5, <1>6

LEMMA FrozenInNumbers == ASSUME WalkInit PROVE InNumbers
<1>1. PICK exchange \in Exchanges, s \in Studies :
         LET series == Download(exchange)
             n == Len(series)
             positions == Ascending(OriginPositions(n, s.requested))
             frozen == [i \in DOMAIN positions |->
                           Sample(series, positions[i], exchange.answers[1 + (positions[i] % Len(exchange.answers))])]
         IN  n - Longest > ContextCandles + 1 /\ study = s /\ candles = series /\ samples = frozen
    BY DEF WalkInit
<1> DEFINE series == Download(exchange)
           n == Len(series)
           P == OriginPositions(n, s.requested)
           c == Cardinality(P)
           positions == Ascending(P)
           answers == exchange.answers
           Of(i) == answers[1 + (positions[i] % Len(answers))]
           Answer == [Contexts -> [Horizons -> [point : Int, q10 : Int, q90 : Int, sound : BOOLEAN]]]
<1>2. InOrderOfTime(series) /\ Closed(series)
    BY DownloadFacts, DownloadCloses
<1>3. answers \in Seq(Answer) /\ Len(answers) > 0
    BY StudyAssumption
<1>4. samples = [i \in DOMAIN positions |-> Sample(series, positions[i], Of(i))] /\ candles = series
    BY <1>1
<1>5. n \in Nat /\ n - Longest > ContextCandles + 1 /\ s.requested \in Nat \ {0}
    BY <1>1, <1>2, StudyAssumption DEF InOrderOfTime
<1>6. P \in SUBSET (ContextCandles + 1 .. n - Longest) /\ IsFiniteSet(P)
    <2> HIDE DEF series, n
    <2> QED BY <1>5, PositionsFacts
<1> HIDE DEF P, answers, series
<1>7. P \in SUBSET (ContextCandles + 1 .. n) /\ P \in SUBSET Nat
    BY <1>5, <1>6, LongestFacts, StudyAssumption
<1>8. positions \in [1 .. c -> P]
    <2>1. P \in SUBSET Int
        BY <1>7
    <2> QED BY <1>6, <2>1, AscendingFacts
<1> HIDE DEF c, positions, n
<1>9. ASSUME NEW i \in DOMAIN positions PROVE Measurable(Sample(series, positions[i], Of(i)))
    <2>1. positions[i] \in ContextCandles + 1 .. n /\ positions[i] \in Nat
        BY <1>7, <1>8
    <2>2. Of(i) \in Answer
        <3> DEFINE k == Len(answers)
                   x == positions[i]
        <3>1. k \in Nat \ {0} /\ x \in Nat /\ DOMAIN answers = 1 .. k
            BY <1>3, <2>1
        <3> HIDE DEF k, x, Answer
        <3>2. 1 + (x % k) \in 1 .. k
            BY <3>1
        <3>3. answers[1 + (x % k)] \in Answer
            BY <1>3, <3>1, <3>2
        <3> QED BY <3>3 DEF k, x
    <2> HIDE DEF Of
    <2> QED BY <1>2, <1>5, <2>1, <2>2, SampleType DEF n
<1> HIDE DEF Of
<1>10. \A i \in DOMAIN samples : Measurable(samples[i])
    BY <1>4, <1>9
<1>11. \A t \in DOMAIN Actuals(candles) : Actuals(candles)[t] \in Int
    BY <1>2, <1>4, ClosesAre
<1> QED BY <1>10, <1>11 DEF InNumbers

\* What a replay knows is what it has observed.
LEMMA KnownIsObserved ==
    ASSUME NEW hist, NEW actuals, NEW time \in Int, NEW h \in Horizons
    PROVE  OriginsKnown(KnownAt(hist, <<>>, Visible(actuals, time), time), h) = Observed(hist, actuals, h, time)
<1> DEFINE visible == Visible(actuals, time)
           Durable(k) == k \in DOMAIN <<>> /\ <<>>[k].matured <= time
           targets == {<<o, x>> : o \in DOMAIN hist, x \in Horizons}
           usable == {t \in targets : Durable(t) \/ t[1] + Hour * t[2] \in DOMAIN visible}
           f == [k \in usable |-> IF Durable(k) THEN <<>>[k].actual ELSE visible[k[1] + Hour * k[2]]]
           known == KnownAt(hist, <<>>, visible, time)
<1>1. known = f
    <2>1. known = Table(f)
        BY DEF KnownAt
    <2> HIDE DEF f
    <2> QED BY <2>1, TableFacts
<1>2. \A k : ~Durable(k)
    OBVIOUS
<1> HIDE DEF Durable
<1>3. DOMAIN visible = {t \in DOMAIN actuals : t <= time}
    BY DEF Visible
<1> HIDE DEF visible
<1>4. DOMAIN known = usable
    BY <1>1
<1> HIDE DEF known, f
<1>5. \A k : k \in usable <=> k \in targets /\ k[1] + Hour * k[2] \in DOMAIN visible
    BY <1>2
<1>6. ASSUME NEW o \in OriginsKnown(known, h) PROVE o \in Observed(hist, actuals, h, time)
    <2>1. PICK k \in usable : k[1] = o /\ k[2] = h
        BY <1>4 DEF OriginsKnown
    <2>2. o \in DOMAIN hist
        BY <2>1
    <2>3. o + Hour * h \in DOMAIN visible
        BY <1>5, <2>1
    <2> QED BY <1>3, <2>2, <2>3 DEF Observed
<1>7. ASSUME NEW o \in Observed(hist, actuals, h, time) PROVE o \in OriginsKnown(known, h)
    <2>1. o \in DOMAIN hist /\ o + Hour * h \in DOMAIN visible
        BY <1>3 DEF Observed
    <2> DEFINE k == <<o, h>>
    <2>2. k[1] = o /\ k[2] = h /\ k \in targets
        BY <2>1
    <2> HIDE DEF k, targets, usable
    <2>3. k \in usable
        BY <1>5, <2>1, <2>2
    <2> QED BY <1>4, <2>2, <2>3 DEF OriginsKnown
<1> QED BY <1>6, <1>7 DEF known, visible

LEMMA KnownToReplay ==
    ASSUME NEW hist, IsFiniteSet(DOMAIN hist), DOMAIN hist \subseteq Int,
           \A o \in DOMAIN hist : Measurable(hist[o]),
           NEW actuals, \A t \in DOMAIN actuals : actuals[t] \in Int, NEW time \in Int
    PROVE  Observations(hist, KnownAt(hist, <<>>, Visible(actuals, time), time))
<1> DEFINE visible == Visible(actuals, time)
           Durable(k) == k \in DOMAIN <<>> /\ <<>>[k].matured <= time
           targets == {<<o, h>> : o \in DOMAIN hist, h \in Horizons}
           usable == {t \in targets : Durable(t) \/ t[1] + Hour * t[2] \in DOMAIN visible}
           f == [k \in usable |-> IF Durable(k) THEN <<>>[k].actual ELSE visible[k[1] + Hour * k[2]]]
<1>1. KnownAt(hist, <<>>, visible, time) = f
    <2>1. KnownAt(hist, <<>>, visible, time) = Table(f)
        BY DEF KnownAt
    <2> HIDE DEF f
    <2> QED BY <2>1, TableFacts
<1>2. \A k : ~Durable(k)
    OBVIOUS
<1> HIDE DEF Durable
<1>3. \A t \in DOMAIN visible : visible[t] \in Int
    BY DEF Visible
<1> HIDE DEF visible
<1>4. DOMAIN f = usable /\ usable \subseteq (DOMAIN hist) \X Horizons
    OBVIOUS
<1>5. ASSUME NEW k \in usable PROVE f[k] \in Int
    <2>1. f[k] = visible[k[1] + Hour * k[2]] /\ k[1] + Hour * k[2] \in DOMAIN visible
        BY <1>2
    <2> QED BY <1>3, <2>1
<1> HIDE DEF f, usable
<1> QED BY <1>1, <1>4, <1>5 DEF Observations, visible

\* Enough outcomes of a horizon end the static prior.
LEMMA EnoughIsAdaptive ==
    ASSUME NEW hist, NEW known, NEW h, NEW regime, Cardinality(OriginsKnown(known, h)) >= AdaptiveMin
    PROVE  Weights(hist, known, h, regime, 1000).mode # "static_prior"
<1> DEFINE sampled == Sampled(InForce, hist, known, h, regime)
           base == AdaptiveWeights(hist, known, h, regime, 1000)
<1>1. sampled.source # "insufficient_history"
    <2>1. InForce.least = AdaptiveMin
        BY DEF InForce
    <2>2. Cardinality(OriginsKnown(known, h)) >= InForce.least
        BY <2>1
    <2> HIDE DEF InForce
    <2> QED BY <2>2 DEF Sampled
<1>2. base.mode = "adaptive"
    <2> HIDE DEF sampled
    <2> QED BY <1>1 DEF AdaptiveWeights, LearnedWeights, sampled
<1> HIDE DEF base
<1>3. \A squared, n : Decorrelated(base, squared, n).mode # "static_prior"
    <2>1. SUFFICES ASSUME NEW squared, NEW n PROVE Decorrelated(base, squared, n).mode # "static_prior"
        OBVIOUS
    <2> DEFINE penalized == [m \in Models |-> (base.weights[m] * Penalty(m, base.weights, squared, n)) \div 1000]
               w == BoundedNormalize(penalized, MinWeight, MaxWeight)
    <2>2. \/ Decorrelated(base, squared, n) = base
          \/ Decorrelated(base, squared, n) = [base EXCEPT !.mode = "correlation_aware_adaptive", !.weights = w]
        BY DEF Decorrelated
    <2> HIDE DEF w
    <2>3. [base EXCEPT !.mode = "correlation_aware_adaptive", !.weights = w].mode
             \in {base.mode, "correlation_aware_adaptive"}
        OBVIOUS
    <2> QED BY <1>2, <2>2, <2>3
<1> QED BY <1>3 DEF Weights, base

\* a history of answers, no longer than what is read of it
Recalled(hist, actuals) ==
    /\ IsFiniteSet(DOMAIN hist) /\ DOMAIN hist \subseteq Int /\ Short(DOMAIN hist, HistoryLimit)
    /\ \A o \in DOMAIN hist : Measurable(hist[o])
    /\ \A t \in DOMAIN actuals : actuals[t] \in Int

\* What the guard is given of every model.
LEMMA GivenFacts ==
    ASSUME NEW hist, NEW actuals, Recalled(hist, actuals), NEW time \in Int, NEW h \in Horizons,
           NEW m \in Models
    PROVE  LET u == Uncertainty(hist, Visible(actuals, time), m, h, Max({UncertaintyMin, HistoryLimit}))
               n == Cardinality(Banded(hist, actuals, m, h, time))
               k == Cardinality(Held(hist, actuals, m, h, time))
           IN  Calibrating(u) /\ u.samples = n /\ u.covered = k
<1> DEFINE limit == Max({UncertaintyMin, HistoryLimit})
           n == Cardinality(Banded(hist, actuals, m, h, time))
           k == Cardinality(Held(hist, actuals, m, h, time))
           u == Uncertainty(hist, Visible(actuals, time), m, h, limit)
<1>1. limit \in Nat /\ limit >= HistoryLimit /\ HistoryLimit \in Nat
    <2>1. PICK a \in Nat, b \in Nat : a = UncertaintyMin /\ b = HistoryLimit
        BY EngineAssumption DEF UncertaintyMin
    <2>2. Max({a, b}) \in {a, b} /\ Max({a, b}) >= b
        BY PairFacts
    <2> QED BY <2>1, <2>2
<1> HIDE DEF limit
<1>2. IsFiniteSet(DOMAIN hist) /\ DOMAIN hist \subseteq Int
    BY DEF Recalled
<1>3. Short(DOMAIN hist, limit)
    <2>1. SUFFICES ASSUME NEW x \in DOMAIN hist PROVE Cardinality({y \in DOMAIN hist : y > x}) < limit
        BY DEF Short
    <2> DEFINE B == {y \in DOMAIN hist : y > x}
    <2>2. Cardinality(B) < HistoryLimit
        BY DEF Recalled, Short
    <2>3. B \subseteq DOMAIN hist
        OBVIOUS
    <2> HIDE DEF B
    <2>4. Cardinality(B) \in Nat
        BY <1>2, <2>3, FS_Subset, FS_CardinalityType
    <2>5. Cardinality(B) < limit
        BY <1>1, <2>2, <2>4
    <2> QED BY <2>5 DEF B
<1>4. \A o \in DOMAIN hist, c \in Contexts : hist[o].bands[c][h][1] \in Int /\ hist[o].bands[c][h][2] \in Int
    BY DEF Recalled, Measurable
<1>5. u.samples = n
    BY <1>1, <1>2, <1>3, <1>4, UncertaintyFacts
<1>6. u.covered = k
    BY <1>1, <1>2, <1>3, <1>4, UncertaintyFacts
<1>7. u.calibrated <=> (n >= AdaptiveMin)
    BY <1>1, <1>2, <1>3, <1>4, UncertaintyFacts
<1>8. u.overconfident <=> (n >= AdaptiveMin /\ 1000 * k < 650 * n)
    BY <1>1, <1>2, <1>3, <1>4, UncertaintyFacts
<1>9. n \in Nat /\ k \in Nat
    <2>1. /\ Banded(hist, actuals, m, h, time) \subseteq DOMAIN hist
          /\ Held(hist, actuals, m, h, time) \subseteq DOMAIN hist
        BY DEF Banded, Held, Observed
    <2>2. IsFiniteSet(Banded(hist, actuals, m, h, time)) /\ IsFiniteSet(Held(hist, actuals, m, h, time))
        BY <1>2, <2>1, FS_Subset
    <2> QED BY <2>2, FS_CardinalityType
<1> HIDE DEF u, n, k
<1>10. Calibrating(u)
    BY <1>5, <1>6, <1>7, <1>8, <1>9 DEF Calibrating
<1> QED BY <1>5, <1>6, <1>10 DEF u, n, k, limit

\* A model that leads has intervals that came due often enough, and held often enough.
LEMMA LedByEvidence ==
    ASSUME NEW hist, NEW actuals, Recalled(hist, actuals), NEW time \in Int, NEW h \in Horizons, NEW regime,
           NEW m \in Models, Cardinality(Observed(hist, actuals, h, time)) >= AdaptiveMin,
           LET w == UncertaintyWeights(hist, Visible(actuals, time), h, regime, time, DominanceEvidence).weights
           IN  \A y \in Models \ {m} : w[m] > MaxRatio * w[y] + Cardinality(Models)
    PROVE  /\ m \in Contexts /\ Cardinality(Banded(hist, actuals, m, h, time)) >= DominanceEvidence
           /\ 1000 * Cardinality(Held(hist, actuals, m, h, time))
                 >= 650 * Cardinality(Banded(hist, actuals, m, h, time))
<1> DEFINE visible == Visible(actuals, time)
           known == KnownAt(hist, <<>>, visible, time)
           base == Weights(hist, known, h, regime, 1000)
           limit == Max({UncertaintyMin, HistoryLimit})
           U(x) == Uncertainty(hist, visible, x, h, limit)
           uncertainty == [x \in Models |-> U(x)]
           R(x) == (base.weights[x] * UncertaintyPenalty(U(x))) \div 1000
           raw == [x \in Models |-> R(x)]
           w == UncertaintyWeights(hist, visible, h, regime, time, DominanceEvidence).weights
           n == Cardinality(Banded(hist, actuals, m, h, time))
           k == Cardinality(Held(hist, actuals, m, h, time))
<1>1. Observations(hist, known)
    BY KnownToReplay DEF Recalled
<1>2. base.mode # "static_prior"
    <2>1. OriginsKnown(known, h) = Observed(hist, actuals, h, time)
        BY KnownIsObserved
    <2> QED BY <2>1, EnoughIsAdaptive
<1>3. \A x \in Models : base.weights[x] \in Nat
    <2>1. Weighing(base.weights)
        BY <1>1, WeightsType
    <2> QED BY <2>1 DEF Weighing
<1>4. /\ \A x \in Models : Calibrating(U(x))
      /\ U(m).samples = n /\ U(m).covered = k
    <2>1. ASSUME NEW x \in Models PROVE Calibrating(U(x))
        BY GivenFacts
    <2>2. U(m).samples = n
        BY GivenFacts
    <2>3. U(m).covered = k
        BY GivenFacts
    <2> QED BY <2>1, <2>2, <2>3
<1>5. w = BoundedNormalize(Guarded(raw, uncertainty, DominanceEvidence), MinWeight, MaxWeight)
    <2>1. Table(uncertainty) = uncertainty
        BY TableFacts
    <2> DEFINE damped(t) == [x \in Models |-> (base.weights[x] * UncertaintyPenalty(t[x])) \div 1000]
    <2>2. damped(uncertainty) = raw
        OBVIOUS
    <2>3. Table(damped(uncertainty)) = raw
        BY <2>2, TableFacts, Zenon
    <2>4. w = BoundedNormalize(Guarded(Table(damped(Table(uncertainty))), Table(uncertainty), DominanceEvidence),
                               MinWeight, MaxWeight)
        <3> HIDE DEF known
        <3> QED BY <1>2 DEF UncertaintyWeights, known
    <2> HIDE DEF damped, uncertainty, raw, w
    <2> QED BY <2>1, <2>3, <2>4
<1>6. raw \in [Models -> Int]
    <2>1. ASSUME NEW x \in Models PROVE R(x) \in Int
        <3>1. UncertaintyPenalty(U(x)) \in Int
            BY <1>4, DampedType
        <3> HIDE DEF U, base
        <3>2. PICK a \in Int : a = base.weights[x] * UncertaintyPenalty(U(x))
            BY <1>3, <3>1
        <3> QED BY <3>2, Quotient
    <2> HIDE DEF R
    <2> QED BY <2>1
<1>7. \A y \in Models \ {m} : w[m] > MaxRatio * w[y] + Cardinality(Models)
    OBVIOUS
<1> HIDE DEF raw, w, base, known
<1>8. uncertainty[m].samples >= DominanceEvidence /\ ~uncertainty[m].overconfident
    <2> HIDE DEF uncertainty
    <2> QED BY <1>5, <1>6, <1>7, LeadFacts
<1>9. uncertainty[m] = U(m)
    OBVIOUS
<1> HIDE DEF uncertainty, U
<1>10. /\ n >= DominanceEvidence /\ DominanceEvidence \in Nat
       /\ DominanceEvidence >= AdaptiveMin /\ AdaptiveMin \in Nat \ {0}
    BY <1>4, <1>8, <1>9, StudyAssumption, EngineAssumption
<1>11. n \in Nat /\ k \in Nat /\ (U(m).overconfident <=> (n >= AdaptiveMin /\ 1000 * k < 650 * n))
    BY <1>4 DEF Calibrating
<1>12. ~(n >= AdaptiveMin /\ 1000 * k < 650 * n)
    BY <1>8, <1>9, <1>11
<1>13. m \in Contexts
    <2>1. SUFFICES ASSUME m \notin Contexts PROVE FALSE
        OBVIOUS
    <2>2. Banded(hist, actuals, m, h, time) = {}
        BY <2>1 DEF Banded
    <2>3. n = 0
        BY <2>2, FS_EmptySet
    <2> QED BY <1>10, <2>3
<1> HIDE DEF n, k
<1>14. 1000 * k >= 650 * n
    BY <1>10, <1>11, <1>12
<1> QED BY <1>10, <1>13, <1>14 DEF n, k

\* Snapshots of positions are those of their samples, at the times of these.
LEMMA SnapshotFacts ==
    ASSUME InOrderOfTime(samples), InNumbers, NEW learned, learned \subseteq DOMAIN samples,
           Short(learned, HistoryLimit)
    PROVE  /\ Recalled(Snapshots(learned), Actuals(candles))
           /\ \A o \in DOMAIN Snapshots(learned) :
                 Snapshots(learned)[o] = samples[CHOOSE i \in DOMAIN samples : samples[i].at = o]
<1> DEFINE D == {samples[i].at : i \in learned}
           hist == Snapshots(learned)
           f == [o \in D |-> samples[CHOOSE i \in learned : samples[i].at = o]]
<1>1. /\ DOMAIN samples \subseteq Int /\ IsFiniteSet(DOMAIN samples)
      /\ \A i \in DOMAIN samples : samples[i].at \in Int
      /\ \A i, j \in DOMAIN samples : i < j => samples[i].at < samples[j].at
    <2>1. /\ DOMAIN samples = 1 .. Len(samples) /\ IsFiniteSet(DOMAIN samples) /\ Len(samples) \in Nat
          /\ \A i \in 1 .. Len(samples) : samples[i].at \in Int
          /\ \A i, j \in 1 .. Len(samples) : i < j => samples[i].at < samples[j].at
        BY AtFacts DEF InOrderOfTime
    <2> QED BY <2>1
<1>2. ASSUME NEW i \in DOMAIN samples, NEW j \in DOMAIN samples, samples[i].at = samples[j].at PROVE i = j
    <2>1. ~(i < j) /\ ~(j < i)
        BY <1>1, <1>2
    <2> QED BY <1>1, <2>1
<1>3. hist = f
    <2>1. hist = Table(f)
        BY DEF Snapshots
    <2> HIDE DEF f
    <2> QED BY <2>1, TableFacts
<1>4. DOMAIN hist = D
    BY <1>3
<1>5. ASSUME NEW i \in learned PROVE hist[samples[i].at] = samples[i]
    <2>1. samples[i].at \in D
        OBVIOUS
    <2>2. hist[samples[i].at] = samples[CHOOSE j \in learned : samples[j].at = samples[i].at]
        BY <1>3, <2>1
    <2>3. \A j \in learned : samples[j].at = samples[i].at => j = i
        BY <1>2
    <2>4. (CHOOSE j \in learned : samples[j].at = samples[i].at) = i
        BY <2>3
    <2> QED BY <2>2, <2>4
<1>6. ASSUME NEW i \in learned PROVE samples[CHOOSE j \in DOMAIN samples : samples[j].at = samples[i].at] = samples[i]
    <2>1. i \in DOMAIN samples /\ \A j \in DOMAIN samples : samples[j].at = samples[i].at => j = i
        BY <1>2
    <2>2. (CHOOSE j \in DOMAIN samples : samples[j].at = samples[i].at) = i
        BY <2>1
    <2> QED BY <2>2
<1> HIDE DEF hist, f
<1>7. \A o \in D : hist[o] = samples[CHOOSE i \in DOMAIN samples : samples[i].at = o]
    BY <1>5, <1>6
<1>8. IsFiniteSet(D) /\ D \subseteq Int
    <2> DEFINE g == [i \in learned |-> samples[i].at]
    <2>1. IsFiniteSet(learned)
        BY <1>1, FS_Subset
    <2>2. g \in Surjection(learned, D)
        <3>1. g \in [learned -> D]
            OBVIOUS
        <3> QED BY <3>1 DEF Surjection
    <2>3. D \subseteq Int
        BY <1>1
    <2> HIDE DEF D, g
    <2>4. IsFiniteSet(D)
        BY <2>1, <2>2, FS_Surjection
    <2> QED BY <2>3, <2>4
<1>9. Short(D, HistoryLimit)
    <2>1. SUFFICES ASSUME NEW i \in learned PROVE Cardinality({y \in D : y > samples[i].at}) < HistoryLimit
        BY DEF Short
    <2> DEFINE A == {j \in learned : j > i}
               B == {y \in D : y > samples[i].at}
               g == [j \in A |-> samples[j].at]
    <2>2. Cardinality(A) < HistoryLimit
        BY DEF Short
    <2>3. IsFiniteSet(A)
        <3>1. A \subseteq DOMAIN samples
            OBVIOUS
        <3> QED BY <1>1, <3>1, FS_Subset
    <2>4. g \in Surjection(A, B)
        <3>1. ASSUME NEW j \in A PROVE samples[j].at \in B
            BY <1>1
        <3>2. ASSUME NEW y \in B PROVE \E j \in A : samples[j].at = y
            <4>1. PICK j \in learned : samples[j].at = y
                OBVIOUS
            <4>2. samples[i].at < samples[j].at /\ i \in DOMAIN samples /\ j \in DOMAIN samples
                BY <1>1, <4>1
            <4>3. ~(j < i) /\ j # i
                BY <1>1, <4>2
            <4> QED BY <1>1, <4>1, <4>2, <4>3
        <3>3. g \in [A -> B]
            BY <3>1
        <3> QED BY <3>2, <3>3 DEF Surjection
    <2> HIDE DEF A, B, g
    <2>5. IsFiniteSet(B) /\ Cardinality(B) <= Cardinality(A)
        BY <2>3, <2>4, FS_Surjection
    <2>6. Cardinality(A) \in Nat /\ Cardinality(B) \in Nat /\ HistoryLimit \in Nat
        BY <2>3, <2>5, FS_CardinalityType, EngineAssumption
    <2>7. Cardinality(B) < HistoryLimit
        BY <2>2, <2>5, <2>6
    <2> QED BY <2>7 DEF B
<1>10. \A o \in D : Measurable(hist[o])
    <2>1. \A i \in learned : Measurable(samples[i])
        BY DEF InNumbers
    <2> QED BY <1>5, <2>1
<1>11. Recalled(hist, Actuals(candles))
    BY <1>4, <1>8, <1>9, <1>10 DEF Recalled, InNumbers
<1> QED BY <1>4, <1>7, <1>11 DEF hist

\* The newest positions are few.
LEMMA NewestAreFew ==
    ASSUME NEW S, IsFiniteSet(S)
    PROVE  Short(NewestPositions(S), HistoryLimit)
<1> DEFINE N == NewestPositions(S)
<1>1. SUFFICES ASSUME NEW x \in N PROVE Cardinality({y \in N : y > x}) < HistoryLimit
    BY DEF Short
<1> DEFINE A == {y \in N : y > x}
           B == {y \in S : y > x}
<1>2. Cardinality(B) < HistoryLimit
    BY DEF NewestPositions
<1>3. A \subseteq B /\ B \subseteq S
    BY NewestFacts
<1> HIDE DEF A, B
<1>4. IsFiniteSet(B)
    BY <1>3, FS_Subset
<1>5. Cardinality(A) <= Cardinality(B) /\ Cardinality(A) \in Nat /\ Cardinality(B) \in Nat
    BY <1>3, <1>4, FS_Subset, FS_CardinalityType
<1>6. Cardinality(A) < HistoryLimit
    BY <1>2, <1>5, EngineAssumption, SMTT(30)
<1> QED BY <1>6 DEF A

\* A study of uncertainty has a history no longer than what is read of it.
Remembered(learned) == study.kind = "uncertainty" => Short(learned, HistoryLimit)

Advised == WalkInv /\ InNumbers /\ Remembered(history)

\* the lead of a model at a time is evidenced by what a history of some samples tells
LeadHeld(frozen, hist, actuals, weights, time, h, m) ==
    LET due == Observed(hist, actuals, h, time)
        Band(o) == frozen[CHOOSE i \in DOMAIN frozen : frozen[i].at = o].bands[m][h]
        banded == {o \in due : m \in Contexts /\ Band(o)[1] < Band(o)[2]}
        held == {o \in banded : Band(o)[1] <= actuals[o + Hour * h] /\ actuals[o + Hour * h] <= Band(o)[2]}
    IN  /\ Cardinality(due) >= AdaptiveMin
        /\ \A n \in Models \ {m} : weights[m] > MaxRatio * weights[n] + Cardinality(Models)
        => /\ m \in Contexts /\ Cardinality(banded) >= DominanceEvidence
           /\ 1000 * Cardinality(held) >= 650 * Cardinality(banded)

\* and that of the last decision
LastLeadHeld ==
    rows # <<>> /\ study.kind = "uncertainty" =>
        \A h \in Horizons, m \in Models :
            LeadHeld(samples, Snapshots(LastRow.learned), Actuals(candles), LastRow.weights[h].uncertainty_aware,
                     samples[LastRow.position].at, h, m)

LEMMA WeighedLead ==
    ASSUME InOrderOfTime(samples), InNumbers, NEW learned, learned \subseteq DOMAIN samples,
           Short(learned, HistoryLimit), NEW time \in Int, NEW regime, NEW h \in Horizons, NEW m \in Models
    PROVE  LeadHeld(samples, Snapshots(learned), Actuals(candles),
                    UncertaintyWeights(Snapshots(learned), Visible(Actuals(candles), time), h, regime, time,
                                       DominanceEvidence).weights, time, h, m)
<1> DEFINE hist == Snapshots(learned)
           actuals == Actuals(candles)
           w == UncertaintyWeights(hist, Visible(actuals, time), h, regime, time, DominanceEvidence).weights
           due == Observed(hist, actuals, h, time)
           Band(o) == samples[CHOOSE i \in DOMAIN samples : samples[i].at = o].bands[m][h]
           banded == {o \in due : m \in Contexts /\ Band(o)[1] < Band(o)[2]}
           held == {o \in banded : Band(o)[1] <= actuals[o + Hour * h] /\ actuals[o + Hour * h] <= Band(o)[2]}
<1>1. /\ Recalled(hist, actuals)
      /\ \A o \in DOMAIN hist : hist[o] = samples[CHOOSE i \in DOMAIN samples : samples[i].at = o]
    BY SnapshotFacts
<1> HIDE DEF hist, actuals
<1>2. \A o \in due : hist[o].bands[m][h] = Band(o)
    BY <1>1 DEF Observed
<1> HIDE DEF Band
<1>3. banded = Banded(hist, actuals, m, h, time)
    BY <1>2 DEF Banded
<1>4. held = Held(hist, actuals, m, h, time)
    <2>1. \A o \in banded : hist[o].bands[m][h] = Band(o)
        BY <1>2
    <2> HIDE DEF banded
    <2> QED BY <1>3, <2>1 DEF Held
<1> HIDE DEF due, banded, held, w
<1>5. ASSUME Cardinality(due) >= AdaptiveMin,
             \A y \in Models \ {m} : w[m] > MaxRatio * w[y] + Cardinality(Models)
      PROVE  /\ m \in Contexts /\ Cardinality(banded) >= DominanceEvidence
             /\ 1000 * Cardinality(held) >= 650 * Cardinality(banded)
    <2>1. /\ m \in Contexts /\ Cardinality(Banded(hist, actuals, m, h, time)) >= DominanceEvidence
          /\ 1000 * Cardinality(Held(hist, actuals, m, h, time))
                >= 650 * Cardinality(Banded(hist, actuals, m, h, time))
        BY <1>1, <1>5, LedByEvidence DEF due, w
    <2> QED BY <1>3, <1>4, <2>1
<1> QED BY <1>5, ZenonT(40) DEF LeadHeld, w, hist, actuals, due, banded, held, Band

\* The weights of a replay that follow uncertainty.
LEMMA DecidedLead ==
    ASSUME NEW c, NEW p, NEW snapshots, NEW actuals, NEW sample, NEW h, NEW confidence
    PROVE  Decide("uncertainty", c, p, snapshots, actuals, sample, h, confidence).uncertainty_aware
              = UncertaintyWeights(snapshots, Visible(actuals, sample.at), h, sample.regime, sample.at,
                                   DominanceEvidence).weights
BY DEF Decide

\* The numbers stay numbers, and the rows what they are.
LEMMA NumbersStay == ASSUME InNumbers, UNCHANGED <<candles, samples>> PROVE InNumbers'
<1>1. Actuals(candles)' = Actuals(candles)
    OBVIOUS
<1>2. \A i \in DOMAIN samples : Measurable(samples[i])'
    BY DEF InNumbers, Measurable
<1> QED BY <1>1, <1>2 DEF InNumbers

LEMMA LeadStays ==
    ASSUME LastLeadHeld, UNCHANGED <<study, candles, samples, rows>>
    PROVE  LastLeadHeld'
<1>1. LastRow' = LastRow
    BY DEF LastRow
<1>2. \A positions : Snapshots(positions)' = Snapshots(positions)
    BY DEF Snapshots
<1> QED BY <1>1, <1>2 DEF LastLeadHeld

LEMMA LeadReplays ==
    ASSUME Advised, Replay
    PROVE  LastLeadHeld' /\ Remembered(history)'
<1> DEFINE i == Min(segment.validation)
           sample == samples[i]
           snapshots == Snapshots(history)
           A == Actuals(candles)
           severity == Severity(study.kind, snapshots, A, sample)
           weights == Table([h \in Horizons |->
                          Decide(study.kind, segment.candidate, installed, snapshots, A, sample, h,
                                 ConfidenceOf(study, severity))])
           row == [position |-> i, start |-> segment.start, candidate |-> segment.candidate, learned |-> history,
                   severity |-> severity, weights |-> weights,
                   scores |-> [h \in Horizons |->
                       [p \in DOMAIN weights[h] |-> Scored(sample, weights[h][p], h)]]]
<1>1. /\ segment.validation # {} /\ rows' = Append(rows, row)
      /\ history' = IF study.kind \in {"optimizer", "shadow"} THEN history \cup {i}
                    ELSE NewestPositions(history \cup {i})
      /\ UNCHANGED <<study, candles, samples>>
    BY DEF Replay
<1>2. /\ Frozen /\ IsSequence(rows) /\ Underway /\ InNumbers /\ Remembered(history)
    BY DEF Advised, WalkInv
<1>3. row.position = i /\ row.learned = history /\ row.weights = weights
    OBVIOUS
<1> DEFINE r == row
<1> HIDE DEF r
<1>4. rows'[Len(rows')] = r
    <2>1. rows' = Append(rows, r)
        BY <1>1 DEF r
    <2>2. Len(Append(rows, r)) = Len(rows) + 1 /\ Append(rows, r)[Len(rows) + 1] = r
        BY <1>2, SequenceFacts
    <2> QED BY <2>1, <2>2
<1>5. i \in 1 .. Len(samples) /\ history \subseteq DOMAIN samples /\ IsFiniteSet(history)
    <2>1. i \in segment.validation /\ segment.validation \subseteq 1 .. Len(samples)
        BY <1>1, <1>2, ComingFacts DEF Underway
    <2>2. history \subseteq DOMAIN samples
        BY <1>2 DEF Underway, LearnsBefore
    <2>3. IsFiniteSet(DOMAIN samples)
        BY <1>2, AtFacts DEF Frozen
    <2> HIDE DEF i
    <2> QED BY <2>1, <2>2, <2>3, FS_Subset
<1>6. sample.at \in Int
    BY <1>2, <1>5 DEF Frozen, InOrderOfTime
<1>7. ASSUME study.kind = "uncertainty", NEW h \in Horizons, NEW m \in Models
      PROVE  LeadHeld(samples, snapshots, A, weights[h].uncertainty_aware, sample.at, h, m)
    <2>1. weights[h] = Decide(study.kind, segment.candidate, installed, snapshots, A, sample, h,
                              ConfidenceOf(study, severity))
        BY TableFacts
    <2> HIDE DEF weights, severity, sample, i
    <2>2. weights[h].uncertainty_aware
             = UncertaintyWeights(snapshots, Visible(A, sample.at), h, sample.regime, sample.at,
                                  DominanceEvidence).weights
        BY <1>7, <2>1, DecidedLead
    <2>3. Short(history, HistoryLimit)
        BY <1>2, <1>7 DEF Remembered
    <2>4. LeadHeld(samples, snapshots, A,
                   UncertaintyWeights(snapshots, Visible(A, sample.at), h, sample.regime, sample.at,
                                      DominanceEvidence).weights, sample.at, h, m)
        BY <1>2, <1>5, <1>6, <2>3, WeighedLead DEF Frozen
    <2> QED BY <2>2, <2>4
<1> DEFINE Led(l, p, w) ==
               study.kind = "uncertainty" =>
                   \A h \in Horizons, m \in Models :
                       LeadHeld(samples, Snapshots(l), Actuals(candles), w[h].uncertainty_aware, samples[p].at, h, m)
<1>8. Led(r.learned, r.position, r.weights)
    <2>1. Led(history, i, weights)
        BY <1>7
    <2> HIDE DEF weights, i, Led
    <2> QED BY <1>3, <2>1 DEF r
<1>9. LastLeadHeld'
    <2>1. \A positions : Snapshots(positions)' = Snapshots(positions)
        BY <1>1 DEF Snapshots
    <2>2. LastRow' = r
        BY <1>4 DEF LastRow
    <2> HIDE DEF r
    <2> QED BY <1>1, <1>8, <2>1, <2>2, SMTT(30) DEF LastLeadHeld
<1>10. Remembered(history')
    <2>1. SUFFICES ASSUME study.kind = "uncertainty" PROVE Short(history', HistoryLimit)
        BY DEF Remembered
    <2>2. history' = NewestPositions(history \cup {i})
        BY <1>1, <2>1
    <2>3. IsFiniteSet(history \cup {i})
        <3> HIDE DEF i
        <3> QED BY <1>5, FS_AddElement
    <2> HIDE DEF i
    <2> QED BY <2>2, <2>3, NewestAreFew
<1>11. Remembered(history)'
    BY <1>1, <1>10 DEF Remembered, Short
<1> QED BY <1>9, <1>11

\* The lead of a model in weights that follow uncertainty is evidenced.
THEOREM LeadsAreEvidenced == WalkSpec => []LeadIsEvidenced
<1> DEFINE Inv == Advised /\ LastLeadHeld
<1>1. WalkInit => Inv
    <2> SUFFICES ASSUME WalkInit PROVE Inv
        OBVIOUS
    <2>1. WalkInv /\ InNumbers
        BY WalkStarts, FrozenInNumbers
    <2>2. history = {} /\ rows = <<>>
        BY DEF WalkInit
    <2> QED BY <2>1, <2>2 DEF Advised, Remembered, Short, LastLeadHeld
<1>2. Inv /\ [WalkNext]_walkVars => Inv'
    <2> SUFFICES ASSUME Inv, [WalkNext]_walkVars PROVE Inv'
        OBVIOUS
    <2>1. WalkInv /\ InNumbers /\ Remembered(history) /\ LastLeadHeld
        BY DEF Advised
    <2>2. CASE Begin
        <3>1. UNCHANGED <<study, candles, samples, rows>> /\ history' = NewestPositions(Head(queue).train)
            BY <2>2 DEF Begin
        <3>2. IsFiniteSet(Head(queue).train)
            <4>1. LearnsBefore(Head(queue).train, Head(queue).validation)
                <5>1. /\ IsSequence(queue) /\ queue # <<>>
                      /\ \A k \in 1 .. Len(queue) : LearnsBefore(queue[k].train, queue[k].validation)
                    BY <2>1, <2>2 DEF Begin, WalkInv, Planned
                <5>2. Len(queue) \in Nat /\ Len(queue) > 0 /\ Head(queue) = queue[1]
                    BY <5>1, SequenceFacts DEF IsSequence
                <5> QED BY <5>1, <5>2
            <4>2. IsFiniteSet(DOMAIN samples)
                BY <2>1, AtFacts DEF WalkInv, Frozen
            <4> QED BY <4>1, <4>2, FS_Subset DEF LearnsBefore
        <3>3. Short(history', HistoryLimit)
            BY <3>1, <3>2, NewestAreFew
        <3>4. Remembered(history)'
            BY <3>3 DEF Remembered, Short
        <3> QED BY <2>1, <2>2, <3>1, <3>4, WalkBegins, NumbersStay, LeadStays DEF Advised
    <2>3. CASE Replay
        <3>1. UNCHANGED <<candles, samples>>
            BY <2>3 DEF Replay
        <3>2. WalkInv'
            BY <2>1, <2>3, WalkReplays
        <3>3. LastLeadHeld' /\ Remembered(history)'
            BY <2>3, LeadReplays
        <3>4. InNumbers'
            BY <2>1, <3>1, NumbersStay
        <3> QED BY <3>2, <3>3, <3>4 DEF Advised
    <2>4. CASE FailToForecast
        <3>1. UNCHANGED <<study, candles, samples, rows, history>>
            BY <2>4 DEF FailToForecast
        <3> QED BY <2>1, <2>4, <3>1, WalkFails, NumbersStay, LeadStays DEF Advised, Remembered
    <2>5. CASE Finish
        <3>1. UNCHANGED <<study, candles, samples, rows>> /\ history' = {}
            BY <2>5 DEF Finish
        <3>2. Remembered(history)'
            BY <3>1 DEF Remembered, Short
        <3> QED BY <2>1, <2>5, <3>1, <3>2, WalkFinishes, NumbersStay, LeadStays DEF Advised
    <2>6. CASE UNCHANGED walkVars
        <3>1. UNCHANGED <<study, candles, samples, rows, history>>
            BY <2>6, SMTT(30) DEF walkVars
        <3> QED BY <2>1, <2>6, <3>1, WalkStutters, NumbersStay, LeadStays DEF Advised, Remembered
    <2> QED BY <2>2, <2>3, <2>4, <2>5, <2>6 DEF WalkNext
<1>3. Inv => LeadIsEvidenced
    BY Zenon DEF LeadIsEvidenced, LastLeadHeld, LeadHeld
<1> QED BY <1>1, <1>2, <1>3, PTL DEF WalkSpec
=============================================================================
