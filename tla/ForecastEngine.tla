--------------------------- MODULE ForecastEngine ---------------------------
(***************************************************************************)
(* The ensemble forecast: the models, their weights and the interval       *)
(* (forecasting/forecast_engine.py with the policy that production         *)
(* installs: adaptive_weighting.py, correlation_weighting.py,              *)
(* regime_detection.py).                                                   *)
(*                                                                         *)
(* Prices are the logarithmic levels of MarketData: relative errors and    *)
(* changes are differences.  Weights and multipliers are in thousandths.   *)
(* A history is a function from origins to snapshots; "known" is a         *)
(* function from <<origin, horizon>> to the close at the target, for the   *)
(* forecasts whose outcome can be used.                                    *)
(***************************************************************************)
EXTENDS MarketData

CONSTANTS
    Horizons,           \* hours ahead, TARGET_HOURS
    Contexts,           \* windows TimesFM is asked for
    ContextRank,        \* context -> its share of the weight of TimesFM
    Features(_),        \* the two regime scores of a series, in hundredths
    FadeTable,          \* x -> exp(-x / 100), scaled, where it is not yet nothing
    AdaptiveMin,        \* ADAPTIVE_MIN_SAMPLES
    AdaptiveFull,       \* ADAPTIVE_FULL_SAMPLES
    HistoryLimit,       \* newest samples that weigh
    CorrelationMin,     \* CORRELATION_MIN_SAMPLES
    CorrelationFull,    \* CORRELATION_FULL_SAMPLES
    CalibrationMin,     \* samples before an interval is rescaled
    CalibrationWindow,  \* snapshots it is rescaled from
    ArMin               \* pairs of returns an autoregression needs

ASSUME EngineAssumption ==
    /\ Horizons \subseteq Nat \ {0} /\ Horizons # {} /\ IsFiniteSet(Horizons)
    /\ ContextRank \in [Contexts -> Nat \ {0}] /\ IsFiniteSet(Contexts) /\ Contexts # {}
    /\ AdaptiveMin \in Nat \ {0} /\ AdaptiveFull \in Nat /\ AdaptiveFull > AdaptiveMin
    /\ HistoryLimit \in Nat /\ HistoryLimit >= AdaptiveMin
    /\ CorrelationMin \in Nat \ {0} /\ CorrelationFull \in Nat /\ CorrelationFull > CorrelationMin
    /\ MinCandles >= 2 /\ \A x \in DOMAIN FadeTable : FadeTable[x] \in Nat
    /\ CalibrationMin \in Nat \ {0} /\ CalibrationWindow \in Nat \ {0} /\ ArMin \in Nat \ {0}

ASSUME ContextsAreNoBaselines == Contexts \intersect {"persistence", "drift_7d", "ar1"} = {}

Baselines == {"persistence", "drift_7d", "ar1"}
Models == Contexts \cup Baselines
Clip(x, low, high) == IF x < low THEN low ELSE IF x > high THEN high ELSE x
Abs(x) == IF x < 0 THEN -x ELSE x
Sign(x) == IF x > 0 THEN 1 ELSE IF x < 0 THEN -1 ELSE 0
Fade(x) == IF x \in DOMAIN FadeTable THEN FadeTable[x] ELSE 0

\* the members of a set of numbers, in ascending order
Ordered(S) ==
    [j \in 1 .. Cardinality(S) |-> CHOOSE x \in S : Cardinality({y \in S : y < x}) = j - 1]

\* f itself, compared once: TLC keeps the values and would else compute them again at
\* every use
Table(f) == CHOOSE t \in {f} : t = f

\* the root of n, at most 2047, bit by bit
Root(n) ==
    LET WithBit(r, bit) == IF (r + bit) * (r + bit) <= n THEN r + bit ELSE r
    IN  FoldLeft(WithBit, 0, <<1024, 512, 256, 128, 64, 32, 16, 8, 4, 2, 1>>)

-----------------------------------------------------------------------------
\* Models

\* validated_regime
Regime(features) ==
    IF features.high >= 78 /\ 100 * features.high >= 92 * features.trend THEN "high_volatility"
    ELSE IF features.trend >= 92 /\ 100 * features.trend >= 90 * features.high THEN "trending"
    ELSE "range"

Returns(series) == [i \in 1 .. Len(series) - 1 |-> series[i + 1].close - series[i].close]

\* the standard deviation of the returns
Deviation(returns) ==
    LET n == Len(returns)
        squares == SumFunction([i \in 1 .. n |-> returns[i] * returns[i]])
    IN  Root((n * squares - SumFunction(returns) * SumFunction(returns)) \div (n * n))

DriftRate(returns) ==
    LET sigma == Deviation(returns)
    IN  Clip(SumFunction(returns) \div Len(returns), -2 * sigma, 2 * sigma)

\* The autoregression of a return on the one before: [phi, intercept], phi in
\* thousandths.  Too few returns, or returns that do not vary, give the drift.
AutoRegression(returns) ==
    LET n == Len(returns) - 1
        x == SubSeq(returns, 1, n)
        y == Tail(returns)
        sx == SumFunction(x)
        sy == SumFunction(y)
        variance == n * SumFunction([i \in 1 .. n |-> x[i] * x[i]]) - sx * sx
        covariance == n * SumFunction([i \in 1 .. n |-> x[i] * y[i]]) - sx * sy
        phi == Clip(10 * ((100 * covariance) \div variance), -950, 950)
    IN  IF n >= ArMin /\ variance > 0
        THEN [phi |-> phi, intercept |-> (1000 * sy - phi * sx) \div (1000 * n)]
        ELSE [phi |-> 0, intercept |-> DriftRate(returns)]

\* the move of an autoregression over some hours, from the last return on
ArPath(ar, sigma, last, hours) ==
    LET Extended(path, r) == [last |-> r, move |-> path.move + r]
        After(path, i) ==
            Extended(path, Clip(ar.intercept + (ar.phi * path.last) \div 1000, -4 * sigma, 4 * sigma))
    IN  FoldLeft(After, [last |-> last, move |-> 0], [i \in 1 .. hours |-> i]).move

ArMove(returns, hours) == ArPath(AutoRegression(returns), Deviation(returns), Last(returns), hours)

BaselineMove(model, returns, hours) ==
    CASE model = "persistence" -> 0
      [] model = "drift_7d" -> hours * DriftRate(returns)
      [] model = "ar1" -> ArMove(returns, hours)

\* What TimesFM answers: context -> horizon -> [point, q10, q90, sound], moves
\* from the last close.  An answer that is not finite, has the wrong shape or
\* whose point is not its median is refused: _validate_timesfm_output.
Sound(answer) == \A c \in Contexts, h \in Horizons : answer[c][h].sound

\* an answer that is not refused is of numbers
Numeric(answer) ==
    Sound(answer) => \A c \in Contexts, h \in Horizons :
        {answer[c][h].point, answer[c][h].q10, answer[c][h].q90} \subseteq Int

\* timesfm_multi_context, baseline_forecasts: model -> horizon -> move
ModelMoves(answer, series) ==
    LET returns == Table(Returns(series))
    IN  Table([m \in Models |-> Table([h \in Horizons |->
            IF m \in Contexts THEN answer[m][h].point ELSE BaselineMove(m, returns, h)])])

-----------------------------------------------------------------------------
\* Weights

FamilyWeight(family, regime) ==
    CASE regime = "high_volatility" ->
            (CASE family = "timesfm" -> 720 [] family = "persistence" -> 140
               [] family = "drift_7d" -> 40 [] OTHER -> 100)
      [] regime = "trending" ->
            (CASE family = "timesfm" -> 650 [] family = "persistence" -> 80
               [] family = "drift_7d" -> 170 [] OTHER -> 100)
      [] OTHER ->
            (CASE family = "timesfm" -> 570 [] family = "persistence" -> 240
               [] family = "drift_7d" -> 60 [] OTHER -> 130)

\* static_model_weights: the families that are there share the whole
StaticWeights(models, regime) ==
    LET contexts == models \intersect Contexts
        ranks == SumFunctionOnSet(ContextRank, contexts)
        families == (models \intersect Baselines) \cup (IF contexts = {} THEN {} ELSE {"timesfm"})
        total == SumFunction([f \in families |-> FamilyWeight(f, regime)])
        Share(family) == (1000 * FamilyWeight(family, regime)) \div total
    IN  [m \in models |->
            IF m \in Contexts THEN (Share("timesfm") * ContextRank[m]) \div ranks ELSE Share(m)]

MinWeight == 30
MaxWeight == 550

\* what _bounded_normalize refuses to normalize, of all models
ASSUME BoundsAssumption == MinWeight * Cardinality(Models) <= 1000

\* _bounded_normalize: the clipped multiple of the raw weights whose total is
\* one.  Some are at the floor, some at the cap, and the others share what is left
\* in proportion; what rounding leaves goes to the first that has room.
Left(low, high, floor, cap) == 1000 - floor * Cardinality(low) - cap * Cardinality(high)
Free(raw, low, high) == (DOMAIN raw) \ (low \cup high)
Mass(raw, low, high) == SumFunctionOnSet(raw, Free(raw, low, high))

\* the models at the floor and those at the cap are where the one scale puts them
Fits(raw, low, high, floor, cap) ==
    LET left == Left(low, high, floor, cap)
        mass == Mass(raw, low, high)
    IN  /\ low \intersect high = {}
        /\ Free(raw, low, high) # {} \/ left = 0
        /\ \A m \in Free(raw, low, high) : raw[m] * left >= floor * mass /\ raw[m] * left <= cap * mass
        /\ \A m \in low : raw[m] * left <= floor * mass
        /\ \A m \in high : raw[m] * left >= cap * mass
        /\ \A l \in low, m \in high : raw[l] * cap <= raw[m] * floor

\* <<the models at the floor, those at the cap>>
Bounds(raw, floor, cap) ==
    LET capped == {s \in SUBSET DOMAIN raw : cap * Cardinality(s) <= 1000}
    IN  CHOOSE s \in (SUBSET DOMAIN raw) \X capped : Fits(raw, s[1], s[2], floor, cap)

Scaled(raw, low, high, floor, cap) ==
    LET left == Left(low, high, floor, cap)
        mass == Mass(raw, low, high)
    IN  [m \in DOMAIN raw |-> IF m \in low THEN floor
                              ELSE IF m \in high THEN cap
                              ELSE (raw[m] * left) \div mass]

Rounded(weights, residue, cap) ==
    LET room == {m \in DOMAIN weights : weights[m] + residue <= cap}
    IN  IF residue = 0 \/ room = {} THEN weights
        ELSE [weights EXCEPT ![CHOOSE m \in room : TRUE] = @ + residue]

BoundedNormalize(score, floor, cap) ==
    LET raw == Table([m \in DOMAIN score |-> Max({1, score[m]})])
        Within(split) == Table(Scaled(raw, split[1], split[2], floor, cap))
        Whole(weights) == Rounded(weights, 1000 - SumFunction(weights), cap)
    IN  Whole(Within(Bounds(raw, floor, cap)))

\* mutant: an outcome counts as soon as it is recorded
KnownWhenRecorded(history, outcomes, actuals, availableAt) ==
    LET targets == {<<o, h>> : o \in DOMAIN history, h \in Horizons}
        Durable(k) == k \in DOMAIN outcomes
    IN  Table([k \in {t \in targets : Durable(t) \/ t[1] + Hour * t[2] \in DOMAIN actuals} |->
            IF Durable(k) THEN outcomes[k].actual ELSE actuals[k[1] + Hour * k[2]]])

\* _persisted_actual: the recorded outcomes that were recorded by the origin of the
\* forecast; for the others the candle of this run, if it has one
KnownAt(history, outcomes, actuals, availableAt) ==
    LET targets == {<<o, h>> : o \in DOMAIN history, h \in Horizons}
        Durable(k) == k \in DOMAIN outcomes /\ outcomes[k].matured <= availableAt
    IN  Table([k \in {t \in targets : Durable(t) \/ t[1] + Hour * t[2] \in DOMAIN actuals} |->
            IF Durable(k) THEN outcomes[k].actual ELSE actuals[k[1] + Hour * k[2]]])

Newest(origins, limit) == {o \in origins : Cardinality({p \in origins : p > o}) < limit}
OriginsKnown(known, h) == {k[1] : k \in {l \in DOMAIN known : l[2] = h}}

\* _score_history_for_model, _performance_metrics over some origins; sums, not means
Metrics(history, known, model, h, origins) ==
    LET Error(o) == history[o].models[model][h] - known[<<o, h>>]
        Correct(o) == Sign(history[o].models[model][h] - history[o].close)
                        = Sign(known[<<o, h>>] - history[o].close)
        covered == {o \in origins : model \in Contexts
                                    /\ history[o].bands[model][h][1] <= known[<<o, h>>]
                                    /\ known[<<o, h>>] <= history[o].bands[model][h][2]}
    IN  [samples |-> Cardinality(origins),
         absolute |-> SumFunction([o \in origins |-> Abs(Error(o))]),
         signed |-> SumFunction([o \in origins |-> Error(o)]),
         correct |-> Cardinality({o \in origins : Correct(o)}),
         covered |-> Cardinality(covered)]

MinCoverageSamples == 3

\* the raw score of a model, scaled: exp of minus the penalties times the reward
RawScore(model, metrics) ==
    LET n == metrics[model].samples
        worse == Max({0, metrics[model].absolute - metrics["persistence"].absolute})
        miss == IF model \in Contexts /\ n >= MinCoverageSamples
                THEN (35 * Abs(1000 * metrics[model].covered - 800 * n)) \div (1000 * n) ELSE 0
        penalty == (250 * metrics[model].absolute + 35 * Abs(metrics[model].signed)
                    + 150 * worse) \div (100 * n) + miss
    IN  Max({1, (Fade(penalty) * (75 * n + 50 * metrics[model].correct)) \div (100 * n)})

Progress(samples, least, full) == Clip((1000 * (samples - least)) \div Max({1, full - least}), 0, 1000)

\* What adaptive_model_weights is called with and what its module holds: the models,
\* the samples it needs and those that convince it, the newest it reads, and the bounds
\* of a weight.
InForce == [models |-> Models, least |-> AdaptiveMin, full |-> AdaptiveFull, limit |-> HistoryLimit,
            floor |-> MinWeight, cap |-> MaxWeight]

\* the samples that decide: of the current regime when there are enough of them
Sampled(policy, history, known, h, regime) ==
    LET all == OriginsKnown(known, h)
        here == {o \in all : history[o].regime = regime}
    IN  IF Cardinality(here) >= policy.least
        THEN [source |-> "regime", origins |-> Newest(here, policy.limit)]
        ELSE IF Cardinality(all) >= policy.least
             THEN [source |-> "all_regimes", origins |-> Newest(all, policy.limit)]
             ELSE [source |-> "insufficient_history", origins |-> all]

\* adaptive_model_weights: the static prior blended with the scores, biased to
\* persistence when the other models do not beat it
LearnedWeights(policy, history, known, h, regime, confidence) ==
    LET models == policy.models
        sampled == Sampled(policy, history, known, h, regime)
        prior == StaticWeights(models, regime)
        metrics == Table([m \in models |-> Metrics(history, known, m, h, sampled.origins)])
        score == Table([m \in models |-> RawScore(m, metrics)])
        total == SumFunction(score)
        n == Cardinality(sampled.origins)
        blend == ((250 + ((550 * Progress(n, policy.least, policy.full)) \div 1000)) * confidence) \div 1000
        Blended(m) == ((1000 - blend) * prior[m] + (blend * 1000 * score[m]) \div total) \div 1000
        others == models \ {"persistence"}
        beaten == SumFunction([m \in others |-> metrics[m].absolute])
                    < Cardinality(others) * metrics["persistence"].absolute
        boost == IF beaten THEN 0 ELSE 120
    IN  IF sampled.source = "insufficient_history" \/ confidence = 0
        THEN [mode |-> "static_prior", source |-> sampled.source, weights |-> prior]
        ELSE [mode |-> "adaptive", source |-> sampled.source,
              weights |-> BoundedNormalize(
                  [m \in models |-> Blended(m) + IF m = "persistence" THEN boost ELSE 0],
                  policy.floor, policy.cap)]

AdaptiveWeights(history, known, h, regime, confidence) ==
    LearnedWeights(InForce, history, known, h, regime, confidence)

-----------------------------------------------------------------------------
\* Correlation

CorrelationStrength == 550
MaxCorrelationBlend == 700

\* the covariances of the errors of the models over some origins, scaled
Covariances(history, known, h, origins) ==
    LET n == Cardinality(origins)
        error == Table([m \in Models |->
                     Table([o \in origins |-> history[o].models[m][h] - known[<<o, h>>]])])
        total == Table([m \in Models |-> SumFunction([o \in origins |-> error[m][o]])])
    IN  Table([pair \in (Models \X Models) |->
            n * SumFunction([o \in origins |-> error[pair[1]][o] * error[pair[2]][o]])
                - total[pair[1]] * total[pair[2]]])

\* the square of a correlation, in thousandths; none when it is negative, unknown for
\* errors that do not vary
SquaredCorrelation(cov, a, b) ==
    LET low == Min({cov[<<a, a>>], cov[<<b, b>>]})
        high == Max({cov[<<a, a>>], cov[<<b, b>>]})
    IN  IF low = 0 THEN Missing
        ELSE IF cov[<<a, b>>] <= 0 THEN 0
        ELSE (((100 * cov[<<a, b>>]) \div high) * ((100 * cov[<<a, b>>]) \div low)) \div 10

\* correlation_penalties: redundant models lose weight, the more the more samples
\* there are
Penalty(model, base, squared, n) ==
    LET peers == {p \in Models \ {model} : squared[<<model, p>>] # Missing}
        mass == SumFunctionOnSet(base, peers)
        redundancy == SumFunction([p \in peers |-> base[p] * squared[<<model, p>>]]) \div mass
        blend == (MaxCorrelationBlend * Progress(n, CorrelationMin, CorrelationFull)) \div 1000
        full == 1000000 \div (1000 + (CorrelationStrength * redundancy) \div 1000)
    IN  IF peers = {} \/ mass = 0 THEN 1000 ELSE 1000 - (blend * (1000 - full)) \div 1000

\* correlation_aware_model_weights
\* the weights of the base policy, with the penalties where the errors tell of any
Decorrelated(base, squared, n) ==
    LET usable == \E a, b \in Models : a # b /\ squared[<<a, b>>] # Missing
        penalized == [m \in Models |-> (base.weights[m] * Penalty(m, base.weights, squared, n)) \div 1000]
    IN  IF base.mode # "adaptive" \/ ~usable THEN base
        ELSE [base EXCEPT !.mode = "correlation_aware_adaptive",
                          !.weights = BoundedNormalize(penalized, MinWeight, MaxWeight)]

Weights(history, known, h, regime, confidence) ==
    LET origins == Newest(OriginsKnown(known, h), Max({HistoryLimit, CorrelationMin}))
        cov == Covariances(history, known, h, origins)
        squared == Table([pair \in (Models \X Models) |->
                       IF Cardinality(origins) < CorrelationMin THEN Missing
                       ELSE SquaredCorrelation(cov, pair[1], pair[2])])
    IN  Decorrelated(AdaptiveWeights(history, known, h, regime, confidence), squared, Cardinality(origins))

-----------------------------------------------------------------------------
\* Interval and ensemble

\* empirical_calibration_multiplier: from the candles of this run only
CalibrationMultiplier(history, actuals, h) ==
    LET newest == Newest(DOMAIN history, CalibrationWindow)
        scored == {o \in newest : o + Hour * h \in DOMAIN actuals}
        Inside(o) == /\ history[o].ensemble[h].q10 <= actuals[o + Hour * h]
                     /\ actuals[o + Hour * h] <= history[o].ensemble[h].q90
        n == Cardinality(scored)
        covered == Cardinality({o \in scored : Inside(o)})
    IN  IF n < CalibrationMin THEN 1000
        ELSE IF 10 * covered <= n THEN 1750     \* the square root of 8 and more
        ELSE Clip(Root((800000 * n) \div covered), 750, 1750)

MinHalfWidth == 5

\* ensemble_forecast, one horizon: the weighted mean of the moves, with a band
\* as wide as TimesFM's or as the disagreement of the models asks for
Ensemble(close, moves, bands, weights, multiplier, h) ==
    LET move == SumFunction([m \in Models |-> weights[m] * moves[m][h]])
                    \div SumFunctionOnSet(weights, Models)
        widths == SumFunction([c \in Contexts |-> Max({0, bands[c][h][2] - bands[c][h][1]})])
        spread == SumFunction([m \in Models |->
                      (weights[m] * (moves[m][h] - move) * (moves[m][h] - move)) \div 1000])
        dispersion == Root(spread)
        base == Max({widths \div (2 * Cardinality(Contexts)), (3 * dispersion) \div 2, MinHalfWidth})
        half == (base * multiplier) \div 1000
        Agreeing(s) == Cardinality({m \in Models : Sign(moves[m][h]) = s})
    IN  [point |-> close + move, q10 |-> close + move - half, q50 |-> close + move,
         q90 |-> close + move + half, agreeing |-> Max({Agreeing(s) : s \in {-1, 0, 1}})]

\* build_forecast: the snapshot of a forecast made of a series
BuildForecast(answer, series, history, outcomes, confidence) ==
    LET close == Last(series).close
        origin == Last(series).at
        actuals == Closes(series)
        regime == Regime(Features(series))
        known == KnownAt(history, outcomes, actuals, origin)
        moves == ModelMoves(answer, series)
        bands == [c \in Contexts |-> [h \in Horizons |-> <<answer[c][h].q10, answer[c][h].q90>>]]
        weights == Table([h \in Horizons |-> Weights(history, known, h, regime, confidence)])
    IN  [origin |-> origin, close |-> close, regime |-> regime, weights |-> weights,
         features |-> Features(series),
         models |-> [m \in Models |-> [h \in Horizons |-> close + moves[m][h]]],
         bands |-> [c \in Contexts |-> [h \in Horizons |->
                       <<close + bands[c][h][1], close + bands[c][h][2]>>]],
         ensemble |-> Table([h \in Horizons |->
             Ensemble(close, moves, bands, weights[h].weights,
                      CalibrationMultiplier(history, actuals, h), h)])]

=============================================================================
