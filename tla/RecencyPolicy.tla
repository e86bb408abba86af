--------------------------- MODULE RecencyPolicy ----------------------------
(***************************************************************************)
(* Weights that follow recent outcomes, anchored to the weights of         *)
(* production (research/recency_adaptation.py), and weights that penalize  *)
(* models whose intervals were wrong (research/uncertainty_weighting.py).  *)
(*                                                                         *)
(* A history is a function from origins to snapshots, "actuals" one from   *)
(* times to closes.  Weights and blends are in thousandths; the weight of  *)
(* a sample is in hundredths, and halves linearly between half-lives.      *)
(***************************************************************************)
EXTENDS ForecastEvidence

\* _score_history_for_model: the origins whose outcome is due and has a candle
Observed(history, actuals, h, now) ==
    {o \in DOMAIN history : o + Hour * h <= now /\ o + Hour * h \in DOMAIN actuals}
OutcomesOf(history, actuals, h, now) ==
    Table([k \in {<<o, h>> : o \in Observed(history, actuals, h, now)} |-> actuals[k[1] + Hour * h]])

\* recency_sample_weights: age is 0 for the newest sample
SampleWeight(age, policy) ==
    CASE policy.technique = "exponential_decay" ->
            (100 * (2 * policy.halfLife - (age % policy.halfLife)))
                \div (2 * policy.halfLife * 2 ^ (age \div policy.halfLife))
      [] policy.technique = "linear_decay" -> Clip(100 - (100 * age) \div policy.halfLife, 0, 100)
      [] policy.technique = "rolling_window" -> IF age < policy.window THEN 100 ELSE 0
      [] OTHER -> 100

\* _window_limit: the newest samples that are read at all
Windowed(origins, policy) ==
    CASE policy.technique = "rolling_window" -> Newest(origins, policy.window)
      [] policy.technique \in {"exponential_decay", "linear_decay"} ->
            Newest(origins, Max({policy.halfLife, policy.least, policy.full}))
      [] OTHER -> origins

\* effective_sample_size, in thousandths
EffectiveSize(weight) ==
    LET total == SumFunction(weight)
    IN  (1000 * total * total) \div SumFunction([o \in DOMAIN weight |-> weight[o] * weight[o]])

\* _weighted_metrics; sums over the weights
WeightedMetrics(history, known, model, h, weight) ==
    LET origins == DOMAIN weight
        Error(o) == history[o].models[model][h] - known[<<o, h>>]
        Right(o) == Sign(history[o].models[model][h] - history[o].close)
                      = Sign(known[<<o, h>>] - history[o].close)
        Inside(o) == /\ history[o].bands[model][h][1] <= known[<<o, h>>]
                     /\ known[<<o, h>>] <= history[o].bands[model][h][2]
    IN  [total |-> SumFunction(weight),
         absolute |-> SumFunction([o \in origins |-> weight[o] * Abs(Error(o))]),
         signed |-> SumFunction([o \in origins |-> weight[o] * Error(o)]),
         correct |-> SumFunctionOnSet(weight, {o \in origins : Right(o)}),
         intervals |-> IF model \in Contexts THEN Cardinality(origins) ELSE 0,
         covered |-> IF model \in Contexts THEN Cardinality({o \in origins : Inside(o)}) ELSE 0]

\* _raw_score
RecencyScore(m) ==
    LET miss == IF m.intervals >= MinCoverageSamples
                THEN (35 * Abs(1000 * m.covered - 800 * m.intervals)) \div (1000 * m.intervals) ELSE 0
        penalty == (250 * (m.absolute \div m.total) + 35 * Abs(m.signed \div m.total)) \div 100 + miss
    IN  Max({1, (Fade(penalty) * (75 * m.total + 50 * m.correct)) \div (100 * m.total)})

\* _cap_weight_shift: all changes shrink by the factor the largest one needs
CapShift(blended, production, shift) ==
    LET most == Max({Abs(blended[m] - production[m]) : m \in Models})
    IN  IF shift <= 0 THEN production
        ELSE IF most <= shift THEN blended
        ELSE [m \in Models |-> production[m] + (shift * (blended[m] - production[m])) \div most]

\* recency_model_weights
RecencyWeights(history, actuals, h, regime, now, policy, production, confidence) ==
    LET known == OutcomesOf(history, actuals, h, now)
        all == Windowed(OriginsKnown(known, h), policy)
        here == Windowed({o \in OriginsKnown(known, h) : history[o].regime = regime}, policy)
        origins == IF Cardinality(here) >= policy.least THEN here ELSE all
        Age(o) == Cardinality({p \in origins : p > o})
        weight == Table([o \in origins |-> SampleWeight(Age(o), policy)])
        score == Table([m \in Models |-> RecencyScore(WeightedMetrics(history, known, m, h, weight))])
        total == SumFunction(score)
        progress == Clip((EffectiveSize(weight) - 1000 * policy.least)
                             \div Max({1, policy.full - policy.least}), 0, 1000)
        blend == (((policy.blend * progress) \div 1000) * confidence) \div 1000
        Adaptive(m) == (1000 * score[m]) \div total
        blended == [m \in Models |-> production[m] + (blend * (Adaptive(m) - production[m])) \div 1000]
    IN  IF Cardinality(origins) < policy.least THEN production
        ELSE CapShift(Table(blended), production, policy.shift)

\* drift_state_at_origin: it is given all actuals, and looks no further than now
DriftAt(history, actuals, now, features) ==
    LET known == [h \in Horizons |-> OutcomesOf(history, actuals, h, now)]
    IN  Worst({ErrorDrift(history, known[h], m, h) : m \in Models, h \in Horizons}
              \cup {FeatureDrift(history, now, features, f) : f \in DOMAIN features})

-----------------------------------------------------------------------------
\* Calibrated uncertainty

UncertaintyMin == AdaptiveMin       \* MIN_CALIBRATION_SAMPLES
UncertaintyFull == AdaptiveFull     \* CALIBRATION_FULL_SAMPLES
UncertaintyBlend == 700
MaxRatio == 2

\* calibrated_uncertainty, one model: how often its interval held the outcome.  A
\* baseline has no interval, and is never calibrated.
Uncertainty(history, actuals, model, h, limit) ==
    LET Banded(o, c) == history[o].bands[c][h][2] > history[o].bands[c][h][1]
        due == {o \in DOMAIN history : o + Hour * h \in DOMAIN actuals /\ \E c \in Contexts : Banded(o, c)}
        rows == {o \in Newest(due, limit) : model \in Contexts /\ Banded(o, model)}
        Inside(o) == /\ history[o].bands[model][h][1] <= actuals[o + Hour * h]
                     /\ actuals[o + Hour * h] <= history[o].bands[model][h][2]
        n == Cardinality(rows)
        covered == Cardinality({o \in rows : Inside(o)})
    IN  [samples |-> n, covered |-> covered, calibrated |-> n >= UncertaintyMin,
         overconfident |-> n >= UncertaintyMin /\ 1000 * covered < 650 * n]

\* uncertainty_adjustments, one model
UncertaintyPenalty(u) ==
    LET blend == (UncertaintyBlend * Progress(u.samples, UncertaintyMin, UncertaintyFull)) \div 1000
        error == Abs(1000 * u.covered - 800 * u.samples) \div u.samples
        \* exp(-0.6 error), which is 0.48 at most away from a full share
        raw == 1000 - (600 * error) \div 1000 + (180 * error * error) \div 1000000
    IN  IF u.calibrated THEN 1000 - (blend * (1000 - raw)) \div 1000 ELSE 1000

\* mutant: enough samples, or no overconfidence, is evidence
GuardedByEither(raw, uncertainty, evidence) ==
    LET best == CHOOSE m \in Models : \A n \in Models : raw[n] <= raw[m]
        second == Max({raw[m] : m \in Models \ {best}})
        earned == uncertainty[best].samples >= evidence \/ ~uncertainty[best].overconfident
    IN  IF raw[best] > MaxRatio * Max({second, 1}) /\ ~earned
        THEN [raw EXCEPT ![best] = MaxRatio * second] ELSE raw

\* dominance_guard: the lead of the best model is cut unless it is evidenced
Guarded(raw, uncertainty, evidence) ==
    LET best == CHOOSE m \in Models : \A n \in Models : raw[n] <= raw[m]
        second == Max({raw[m] : m \in Models \ {best}})
        earned == uncertainty[best].samples >= evidence /\ ~uncertainty[best].overconfident
    IN  IF raw[best] > MaxRatio * Max({second, 1}) /\ ~earned
        THEN [raw EXCEPT ![best] = MaxRatio * second] ELSE raw

\* uncertainty_aware_model_weights: the weights of production, penalized
UncertaintyWeights(history, actuals, h, regime, now, evidence) ==
    LET base == Weights(history, KnownAt(history, <<>>, actuals, now), h, regime, 1000)
        limit == Max({UncertaintyMin, HistoryLimit})
        uncertainty == Table([m \in Models |-> Uncertainty(history, actuals, m, h, limit)])
        raw == Table([m \in Models |-> (base.weights[m] * UncertaintyPenalty(uncertainty[m])) \div 1000])
    IN  IF base.mode = "static_prior" THEN [active |-> FALSE, weights |-> base.weights]
        ELSE [active |-> TRUE,
              weights |-> BoundedNormalize(Guarded(raw, uncertainty, evidence), MinWeight, MaxWeight)]
=============================================================================
