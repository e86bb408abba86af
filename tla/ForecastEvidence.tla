-------------------------- MODULE ForecastEvidence --------------------------
(***************************************************************************)
(* What a run measures of its earlier forecasts, and what it claims        *)
(* because of it: drift (ops/drift_detection.py), and in forecasting/ the  *)
(* conformal report, the confidence, the probability of a direction, the   *)
(* threshold of an edge, the abstention and the attribution.               *)
(*                                                                         *)
(* "matured" is a function from <<origin, horizon>> to the close at the    *)
(* target, for the forecasts of the history that have an outcome.  Shares  *)
(* and factors are in thousandths, scores in tenths.                       *)
(***************************************************************************)
EXTENDS Coherence

CONSTANTS
    StrongEvidence,                     \* samples of a fully evidenced score
    ErrorBaseline, ErrorRecent,         \* errors that are compared for drift
    FeatureBaseline, FeatureRecent,     \* origins whose features are compared
    ConformalMin                        \* samples a conformal quantile needs

ASSUME EvidenceAssumption ==
    /\ StrongEvidence \in Nat \ {0} /\ ConformalMin \in Nat \ {0}
    /\ {ErrorBaseline, ErrorRecent, FeatureBaseline, FeatureRecent} \subseteq Nat \ {0}

Predicted(history, o, h) == history[o].ensemble[h].point - history[o].close
Moved(history, matured, o, h) == matured[<<o, h>>] - history[o].close

\* _select_rows: the outcomes whose target candle had closed at the origin
MaturedBy(outcomes, origin) ==
    [k \in {l \in DOMAIN outcomes : l[1] + Hour * l[2] <= origin} |-> outcomes[k].actual]

\* the values of an operator over some origins, oldest first
Series(origins, value(_)) ==
    LET order == Table(Ordered(origins))
    IN  Table([i \in DOMAIN order |-> value(order[i])])

-----------------------------------------------------------------------------
\* Drift

Worst(severities) ==
    CASE "severe" \in severities -> "severe"
      [] "severe" \notin severities /\ "warning" \in severities -> "warning"
      [] OTHER -> "none"

\* twice the median
TwiceMedian(values) == DoubleMedian(values)

\* the largest gap between the two empirical distributions is at least share / 100
KsAtLeast(base, recent, share) ==
    LET Share(s, x) == Cardinality({i \in DOMAIN s : s[i] <= x})
    IN  \E x \in {base[i] : i \in DOMAIN base} \cup {recent[i] : i \in DOMAIN recent} :
            100 * Abs(Share(base, x) * Len(recent) - Share(recent, x) * Len(base))
                >= share * Len(base) * Len(recent)

\* the median moved by at least z / 10 robust scales
ShiftAtLeast(base, recent, z) ==
    LET median == TwiceMedian(base)
        shift == Abs(TwiceMedian(recent) - median)
        spread == TwiceMedian([i \in DOMAIN base |-> Abs(2 * base[i] - median)]) \div 2
    IN  shift > 0 /\ 1000 * shift >= z * Max({148 * spread, 10 * Abs(median)})

\* _distribution_severity
Shifted(base, recent) ==
    IF ShiftAtLeast(base, recent, 35) \/ KsAtLeast(base, recent, 55) THEN "severe"
    ELSE IF ShiftAtLeast(base, recent, 20) \/ KsAtLeast(base, recent, 35) THEN "warning"
    ELSE "none"

\* _direction_severity: by how many hundredths fewer directions were right
DirectionDropped(base, recent) ==
    LET Right(s) == Cardinality({i \in DOMAIN s : s[i]})
        drop == 100 * (Right(base) * Len(recent) - Right(recent) * Len(base))
        per == Len(base) * Len(recent)
    IN  IF drop >= 25 * per THEN "severe" ELSE IF drop >= 15 * per THEN "warning" ELSE "none"

Window(values, base, recent, severity(_, _)) ==
    LET n == Len(values)
    IN  IF n < base + recent THEN "none"
        ELSE severity(SubSeq(values, n - base - recent + 1, n - recent), SubSeq(values, n - recent + 1, n))

\* _error_signals, one model and horizon; the ensemble is one of the models
ErrorDrift(history, matured, model, h) ==
    LET origins == OriginsKnown(matured, h)
        Level(o) == IF model = "ensemble" THEN history[o].ensemble[h].point ELSE history[o].models[model][h]
        Error(o) == Level(o) - matured[<<o, h>>]
        Right(o) == Sign(Level(o) - history[o].close) = Sign(matured[<<o, h>>] - history[o].close)
    IN  Worst({Window(Series(origins, LAMBDA o : Abs(Error(o))), ErrorBaseline, ErrorRecent, Shifted),
               Window(Series(origins, Error), ErrorBaseline, ErrorRecent, Shifted),
               Window(Series(origins, Right), ErrorBaseline, ErrorRecent, DirectionDropped)})

\* _feature_signals, one feature: the stored features, with those of this run
FeatureDrift(history, origin, features, name) ==
    LET Value(o) == IF o = origin THEN features[name] ELSE history[o].features[name]
    IN  Window(Series(DOMAIN history \cup {origin}, Value), FeatureBaseline, FeatureRecent, Shifted)

\* evaluate_drift
Drift(history, matured, origin, features) ==
    Worst({ErrorDrift(history, matured, m, h) : m \in Models \cup {"ensemble"}, h \in Horizons}
          \cup {FeatureDrift(history, origin, features, f) : f \in DOMAIN features})

\* adaptive_confidence_for_severity
AdaptiveConfidence(severity) ==
    CASE severity = "severe" -> 0 [] severity = "warning" -> 500 [] OTHER -> 1000

-----------------------------------------------------------------------------
\* The conformal report

\* the normalized residuals of some forecasts, in thousandths of half the interval
Residual(history, matured, o, h) ==
    LET e == history[o].ensemble[h]
    IN  (2000 * Abs(matured[<<o, h>>] - e.point)) \div (e.q90 - e.q10)

\* the value of a sequence at an index once it is sorted
Sorted(values, index) ==
    Min({v \in {values[i] : i \in DOMAIN values} :
             Cardinality({i \in DOMAIN values : values[i] <= v}) >= index})

\* the quantile of the scores at the rank of the finite sample
ConformalMultiplier(scores) ==
    LET n == Len(scores)
        rank == Min({n, (8 * (n + 1) + 9) \div 10})
        index == (rank * (n - 1) + n - 1) \div n + 1
    IN  Clip(Sorted(scores, index), 500, 3000)

\* _legacy_multiplier of the conformal report
LegacyMultiplier(scores) ==
    LET n == Len(scores)
        inside == Cardinality({i \in DOMAIN scores : scores[i] <= 1000})
    IN  IF n < CalibrationMin THEN 1000
        ELSE IF 10 * inside <= n THEN 1750 ELSE Clip(Root((800000 * n) \div inside), 750, 1750)

\* calibration_details.  The code scores every outcome of the history, whenever it
\* was recorded.
Calibration(history, matured, h, regime) ==
    LET all == Newest(OriginsKnown(matured, h), HistoryLimit)
        here == Newest({o \in OriginsKnown(matured, h) : history[o].regime = regime}, HistoryLimit)
        origins == IF Cardinality(here) >= ConformalMin THEN here ELSE all
        scores == Series(origins, LAMBDA o : Residual(history, matured, o, h))
        n == Len(scores)
        multiplier == IF n < ConformalMin THEN LegacyMultiplier(scores) ELSE ConformalMultiplier(scores)
        inside == Cardinality({i \in 1 .. n : scores[i] <= multiplier})
        width == SumFunction([o \in origins |-> history[o].ensemble[h].q90 - history[o].ensemble[h].q10])
    IN  [samples |-> n, conformal |-> n >= ConformalMin, multiplier |-> multiplier,
         coverage |-> IF n = 0 THEN Missing ELSE (1000 * inside) \div n,
         width |-> IF n = 0 THEN Missing ELSE (width * multiplier) \div (1000 * n)]

-----------------------------------------------------------------------------
\* The conditional report

\* realized_vol_bucket: from the volatility at the origin, in hundredths of a percent
VolatilityBucket(volatility) ==
    IF volatility <= 0 THEN "unknown" ELSE IF volatility < 75 THEN "low"
    ELSE IF volatility < 150 THEN "medium" ELSE "high"
Bucket(regime, features) == <<regime, VolatilityBucket(features.volatility)>>

\* _bucket_entry: the multiplier of a bucket, shrunk to the marginal one as long as
\* it has few samples
BucketEntry(scores, marginal) ==
    LET n == Len(scores)
        multiplier == IF n = 0 THEN marginal
                      ELSE IF n >= ConformalMin THEN ConformalMultiplier(scores)
                      ELSE (n * ConformalMultiplier(scores) + (ConformalMin - n) * marginal) \div ConformalMin
        inside == Cardinality({i \in 1 .. n : scores[i] <= multiplier})
    IN  [samples |-> n, multiplier |-> multiplier, tolerated |-> n > 0 /\ Abs(1000 * inside - 800 * n) <= 100 * n]

\* bucket_calibration_details: the multiplier of the current bucket when it is
\* evidenced and the coverage over all buckets holds, else the marginal one
Conditional(history, matured, h, bucket) ==
    LET Of(o) == Bucket(history[o].regime, history[o].features)
        known == OriginsKnown(matured, h)
        Scores(origins) == Series(Newest(origins, HistoryLimit), LAMBDA o : Residual(history, matured, o, h))
        all == Scores(known)
        marginal == IF Len(all) >= ConformalMin THEN ConformalMultiplier(all) ELSE LegacyMultiplier(all)
        entry == [b \in {Of(o) : o \in DOMAIN history} \cup {bucket} |->
                     BucketEntry(Scores({o \in known : Of(o) = b}), marginal)]
        newest == Newest(known, HistoryLimit)
        inside == {o \in newest : Residual(history, matured, o, h) <= entry[Of(o)].multiplier}
        n == Cardinality(newest)
        guarded == n > 0 /\ Abs(1000 * Cardinality(inside) - 800 * n) <= 50 * n
    IN  IF entry[bucket].samples >= ConformalMin /\ entry[bucket].tolerated /\ guarded
        THEN entry[bucket].multiplier ELSE marginal

-----------------------------------------------------------------------------
\* Confidence

HighScore == 700
ModerateScore == 450

\* the mean absolute errors of the ensemble and of persistence: performance_summary
Performance(history, matured, h) ==
    LET origins == OriginsKnown(matured, h)
        Total(level(_)) == SumFunction([o \in origins |-> Abs(level(o) - matured[<<o, h>>])])
    IN  [samples |-> Cardinality(origins),
         ensemble |-> Total(LAMBDA o : history[o].ensemble[h].point),
         persistence |-> Total(LAMBDA o : history[o].models["persistence"][h])]

\* the factors of a score
EdgeFactor(edge) ==
    IF edge <= 0 THEN Clip(150 + 5 * edge, 0, 1000)
    ELSE IF edge < 50 THEN 450 + 9 * edge ELSE Clip(900 + edge - 50, 0, 1000)
CoverageFactor(coverage) == Clip(1000 - 5 * Abs(coverage - 800), 0, 1000)
SampleFactor(samples) == Clip(Root((1000000 * samples) \div StrongEvidence), 0, 1000)
WidthFactor(width, typical) ==
    LET ratio == (1000 * width) \div typical
    IN  IF typical <= 0 THEN 750
        ELSE IF ratio <= 1000 THEN 1000
        ELSE IF ratio <= 2000 THEN 1000 - (600 * (ratio - 1000)) \div 1000
        ELSE Clip(400 - (150 * (ratio - 2000)) \div 1000, 200, 400)
DriftFactor(severity) == IF severity = "warning" THEN Min({650, AdaptiveConfidence(severity)}) ELSE 1000

\* mutant: an edge that is not positive keeps its score
ScoreUncapped(edge, coverage, samples, width, typical, severity) ==
    (((350 * EdgeFactor(edge) + 300 * CoverageFactor(coverage) + 200 * SampleFactor(samples)
         + 150 * WidthFactor(width, typical)) \div 1000) * DriftFactor(severity)) \div 1000

\* the score, and the bounds on it: no edge or a coverage that is far off leave it
\* low, a warning of drift keeps it from being high
Score(edge, coverage, samples, width, typical, severity) ==
    LET weighed == (350 * EdgeFactor(edge) + 300 * CoverageFactor(coverage)
                      + 200 * SampleFactor(samples) + 150 * WidthFactor(width, typical)) \div 1000
    IN  Min({(weighed * DriftFactor(severity)) \div 1000}
            \cup (IF edge <= 0 \/ Abs(coverage - 800) > 150 THEN {ModerateScore - 10} ELSE {})
            \cup (IF severity = "warning" THEN {HighScore - 10} ELSE {}))

\* horizon_confidence: "suppressed_drift", "insufficient_evidence" or a label
HorizonConfidence(performance, calibration, width, severity) ==
    LET samples == Min({performance.samples, calibration.samples})
        edge == (1000 * (performance.persistence - performance.ensemble)) \div performance.persistence
        score == Score(edge, calibration.coverage, samples, width, calibration.width, severity)
    IN  IF severity = "severe" THEN "suppressed_drift"
        ELSE IF samples < MinEvidence \/ performance.persistence = 0 \/ width <= 0 THEN "insufficient_evidence"
        ELSE IF /\ score >= HighScore /\ edge > 0 /\ Abs(calibration.coverage - 800) <= 50
                /\ samples >= StrongEvidence /\ severity = "none" THEN "high"
        ELSE IF score >= ModerateScore THEN "moderate" ELSE "low"

\* build_forecast_confidence: the weakest horizon decides
Confidence(perHorizon) ==
    LET results == {perHorizon[h] : h \in Horizons}
        weakest == <<"suppressed_drift", "insufficient_evidence", "low", "moderate", "high">>
    IN  weakest[Min({i \in 1 .. 5 : weakest[i] \in results})]

-----------------------------------------------------------------------------
\* Direction and edge

Direction(move, threshold) == IF move > threshold THEN 1 ELSE IF move < -threshold THEN -1 ELSE 0

\* horizon_probabilities: the share of moves up, down and beyond the threshold in the
\* forecasts that pointed the same way, each with half a success in one more trial
Probability(history, matured, h, predicted) ==
    LET cohort == {o \in OriginsKnown(matured, h) :
                      Direction(Predicted(history, o, h), FlipThreshold) = Direction(predicted, FlipThreshold)}
        n == Cardinality(cohort)
        Rate(holds(_)) == (1000 * (2 * Cardinality({o \in cohort : holds(Moved(history, matured, o, h))}) + 1))
                              \div (2 * (n + 1))
    IN  [samples |-> n, reliable |-> n >= MinEvidence,
         up |-> Rate(LAMBDA m : m > 0), down |-> Rate(LAMBDA m : m < 0),
         moved |-> Rate(LAMBDA m : Abs(m) > FlipThreshold)]

\* horizon_threshold_state.  The noise of the realized moves sets the band in which
\* a move is neutral, and the wider one in which it is no edge.
Threshold(history, matured, h, predicted) ==
    LET origins == OriginsKnown(matured, h)
        n == Cardinality(origins)
        Move(o) == Moved(history, matured, o, h)
        reliable == n >= MinEvidence
        total == SumFunction([o \in origins |-> Move(o)])
        squares == n * SumFunction([o \in origins |-> Move(o) * Move(o)]) - total * total
        \* the square of the standard error of the mean
        error == squares \div (n * n * (n - 1))
        learned == reliable /\ n > 1 /\ squares > 0
        neutral == IF learned THEN Clip(Root((384 * error) \div 100), 5, 200) ELSE FlipThreshold
        noEdge == Clip(IF learned THEN Root((664 * error) \div 100) ELSE 2 * FlipThreshold, neutral, 400)
        up == Cardinality({o \in origins : Move(o) > 0})
        down == Cardinality({o \in origins : Move(o) < 0})
        chance == \/ up + down = 0
                  \/ up + down >= MinEvidence /\ 10000 * (up - down) * (up - down) <= 38415 * (up + down)
    IN  [samples |-> n, learned |-> learned, neutral |-> neutral, noEdge |-> noEdge,
         edge |-> IF ~reliable THEN "insufficient_evidence"
                  ELSE IF Abs(predicted) <= noEdge \/ chance THEN "no_edge" ELSE "edge"]

-----------------------------------------------------------------------------
\* What may be claimed

\* build_abstention_policy; agreeing is how many models agree
Abstention(severity, confidence, thresholds, probabilities, agreeing) ==
    LET disagreement == \E h \in Horizons : 2 * agreeing[h] < Cardinality(Models)
        doubt == \/ confidence \in {"suppressed_drift", "insufficient_evidence", "low"}
                 \/ \E h \in Horizons : thresholds[h].edge # "edge"
                 \/ \E h \in Horizons : ~probabilities[h].reliable
    IN  IF severity = "severe" THEN "forecast_withheld"
        ELSE IF disagreement THEN "degraded_inputs"
        ELSE IF doubt THEN "low_confidence_no_measurable_edge"
        ELSE "healthy"

\* build_forecast_attribution: horizon -> state of its edge, and the overall state
EdgeState(abstention, threshold) ==
    CASE abstention = "forecast_withheld" -> "withheld"
      [] abstention = "degraded_inputs" -> "degraded"
      [] OTHER -> threshold.edge
Attribution(abstention, thresholds) ==
    [horizons |-> [h \in Horizons |-> EdgeState(abstention, thresholds[h])],
     overall |->
        CASE abstention = "forecast_withheld" -> "withheld"
          [] abstention = "degraded_inputs" -> "degraded"
          [] abstention = "low_confidence_no_measurable_edge" -> "low_confidence"
          [] OTHER -> IF \E h \in Horizons : EdgeState(abstention, thresholds[h]) # "edge"
                      THEN "suppressed" ELSE "edge"]

=============================================================================
